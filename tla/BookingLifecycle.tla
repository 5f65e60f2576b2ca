-------------------------- MODULE BookingLifecycle --------------------------
(***************************************************************************)
(* internal/service/bookings/service.go: Cancel (PATCH                     *)
(* /bookings/{id}/cancel) and UpdateStatus, which no route of main.go      *)
(* reaches.  Both read the row, ask SellerService who manages the company  *)
(* and then write by id, with no transaction around the three.             *)
(***************************************************************************)
EXTENDS BookingTable

CONSTANTS
    Calls,           \* the calls of Cancel and UpdateStatus
    CallBody,        \* CallBody[c] is what call c asks for
    Managers,        \* the company's managerIds
    CallsMayFail,    \* may GetCompany and the statements fail?
    Nobody           \* no call

CallBodies == [op : {"cancel", "update"}, id : Requests, user : Nat,
               status : BookingStatus \cup {"unknown status"}]

ASSUME LifecycleAssumption ==
    /\ CallBody \in [Calls -> CallBodies]
    /\ Managers \subseteq Nat
    /\ CallsMayFail \in BOOLEAN
    /\ Nobody \notin Calls

VARIABLES
    callPc,          \* where each call is
    newStatus,       \* the status a call has decided to write
    outcome,         \* the error each call returned, "ok" or "none"
    cancellation     \* whose reason and time the row's columns hold

callVars == <<callPc, newStatus, outcome, cancellation>>
lifecycleVars == <<bookings, callVars>>

Outcomes == {"none", "ok", "ErrBookingNotFound", "ErrCannotCancel", "ErrAccessDenied",
             "ErrCompanyNotFound", "ErrInvalidInput", "ErrInternal"}

CallsInit ==
    /\ callPc = [c \in Calls |-> "idle"]
    /\ newStatus = [c \in Calls |-> "confirmed"]
    /\ outcome = [c \in Calls |-> "none"]
    /\ cancellation = [i \in Requests |-> Nobody]

Booking(c) == bookings[CallBody[c].id]

\* Mutant: the owner is not compared.
IsAnyone(c) == TRUE

IsOwner(c) == CallBody[c].user = Body[CallBody[c].id].user
IsCancel(c) == CallBody[c].op = "cancel"

\* ToDomainBookingStatus knows the status asked for.
KnownStatus(c) == CallBody[c].status \in BookingStatus

Return(c, err) ==
    /\ callPc' = [callPc EXCEPT ![c] = "returned"]
    /\ outcome' = [outcome EXCEPT ![c] = err]
    /\ UNCHANGED <<bookings, newStatus, cancellation>>

Decide(c, status) ==
    /\ callPc' = [callPc EXCEPT ![c] = "decided"]
    /\ newStatus' = [newStatus EXCEPT ![c] = status]
    /\ UNCHANGED <<bookings, outcome, cancellation>>

\* GetByID, CanBeCancelled and the owner test use the row as read here.
ReadBooking(c) ==
    /\ callPc[c] = "idle"
    /\ \/ /\ Booking(c) = NoBooking
          /\ Return(c, "ErrBookingNotFound")
       \/ /\ Booking(c) # NoBooking /\ IsCancel(c)
          /\ ~CanBeCancelled(Booking(c).status)
          /\ Return(c, "ErrCannotCancel")
       \/ /\ Booking(c) # NoBooking /\ IsCancel(c)
          /\ CanBeCancelled(Booking(c).status)
          /\ IsOwner(c)
          /\ Decide(c, "cancelled_by_user")
       \/ /\ Booking(c) # NoBooking
          /\ IsCancel(c) => CanBeCancelled(Booking(c).status) /\ ~IsOwner(c)
          /\ callPc' = [callPc EXCEPT ![c] = "asking"]
          /\ UNCHANGED <<bookings, newStatus, outcome, cancellation>>

\* checkManagerAccess.  Cancel turns each of its errors into ErrAccessDenied.
CheckManager(c) ==
    /\ callPc[c] = "asking"
    /\ \/ /\ CallBody[c].user \in Managers
          /\ IsCancel(c)
          /\ Decide(c, "cancelled_by_company")
       \/ /\ CallBody[c].user \in Managers
          /\ ~IsCancel(c)
          /\ IF KnownStatus(c)
             THEN Decide(c, CallBody[c].status)
             ELSE Return(c, "ErrInvalidInput")
       \/ /\ CallBody[c].user \notin Managers
          /\ Return(c, "ErrAccessDenied")
       \/ /\ CallsMayFail
          /\ \E err \in {"ErrCompanyNotFound", "ErrInternal"} :
               Return(c, IF IsCancel(c) THEN "ErrAccessDenied" ELSE err)

\* One UPDATE by id; Cancel also writes cancellation_reason and cancelled_at.
\* It may take effect without the server learning of it.
WriteStatus(c) ==
    /\ callPc[c] = "decided"
    /\ bookings' = SetStatus(bookings, CallBody[c].id, newStatus[c])
    /\ cancellation' = IF IsCancel(c) THEN [cancellation EXCEPT ![CallBody[c].id] = c]
                                      ELSE cancellation
    /\ callPc' = [callPc EXCEPT ![c] = "returned"]
    /\ \E err \in {"ok"} \cup (IF CallsMayFail THEN {"ErrInternal"} ELSE {}) :
         outcome' = [outcome EXCEPT ![c] = err]
    /\ UNCHANGED newStatus

\* GetByID or the UPDATE fails without effect.
FailStatement(c) ==
    /\ CallsMayFail
    /\ callPc[c] \in {"idle", "decided"}
    /\ Return(c, "ErrInternal")

CallStep(c) == ReadBooking(c) \/ CheckManager(c) \/ WriteStatus(c) \/ FailStatement(c)

\* A table filled beforehand with bookings in any status.
LifecycleInit ==
    /\ bookings \in [Requests -> [duration : {1}, status : BookingStatus] \cup {NoBooking}]
    /\ CallsInit

LifecycleNext == \E c \in Calls : CallStep(c)

LifecycleSpec == LifecycleInit /\ [][LifecycleNext]_lifecycleVars
-----------------------------------------------------------------------------
(* Properties.                                                             *)

LifecycleTypeOK ==
    /\ BookingsTypeOK
    /\ callPc \in [Calls -> {"idle", "asking", "decided", "returned"}]
    /\ newStatus \in [Calls -> BookingStatus]
    /\ outcome \in [Calls -> Outcomes]
    /\ cancellation \in [Requests -> Calls \cup {Nobody}]

\* The bookings that UpdateStatus is not called for.
NeverUpdated == {i \in Requests : \A c \in Calls : CallBody[c].id = i => IsCancel(c)}
OnlyCancelled == Stored(bookings) \cap NeverUpdated

(* A booking that stopped occupying its box never occupies it again by way *)
(* of Cancel, in spite of the gap between reading and writing the row: the *)
(* freed place may have been given to somebody else.                       *)
InactiveForGood ==
    [][\A i \in OnlyCancelled :
         ~IsActive(bookings[i].status) => ~IsActive(bookings'[i].status)]_lifecycleVars

(* Status, reason and time of a cancellation come from one and the same    *)
(* call, the last one to write, even when several cancel at once.          *)
ReasonMatchesStatus ==
    \A i \in OnlyCancelled : cancellation[i] # Nobody =>
        bookings[i].status = IF CallBody[cancellation[i]].user = Body[i].user
                             THEN "cancelled_by_user" ELSE "cancelled_by_company"

(* Who is told that the booking is cancelled can rely on it.               *)
CancelledWhenToldSo ==
    \A c \in Calls : outcome[c] = "ok" /\ CallBody[c].id \in OnlyCancelled =>
        IsCancelled(Booking(c).status) /\ cancellation[CallBody[c].id] # Nobody

(* Only the owner or a manager changes a booking, also when SellerService  *)
(* cannot be asked; an owner cannot choose the status.                     *)
OnlyEntitledCallers ==
    [][\A i \in Stored(bookings) : bookings'[i] # bookings[i] =>
         \E c \in Calls : /\ CallBody[c].id = i
                          /\ callPc[c] # callPc'[c]
                          /\ \/ CallBody[c].user \in Managers
                             \/ CallBody[c].user = Body[i].user /\ IsCancel(c)]_lifecycleVars
=============================================================================

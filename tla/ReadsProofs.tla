---------------------------- MODULE ReadsProofs ----------------------------
(***************************************************************************)
(* BookingReads for any table, calls, requests and reads: what Cancel and  *)
(* UpdateStatus do to bookings in spite of the gap between reading and     *)
(* writing a row, and what a reader is told beside them.                   *)
(***************************************************************************)
EXTENDS BookingReads, RulesProofs, FiniteSetTheorems, TLAPS

\* What a call knows of its booking, and what it may do to it.
CallInv(c) ==
    /\ callPc[c] \in {"asking", "decided"} => CallBody[c].id \in Stored(bookings)
    /\ callPc[c] = "asking" /\ IsCancel(c) => ~IsOwner(c)
    /\ callPc[c] = "decided" =>
         /\ IsCancel(c) => newStatus[c] = IF IsOwner(c) THEN "cancelled_by_user"
                                          ELSE "cancelled_by_company"
         /\ CallBody[c].user \in Managers \/ (IsOwner(c) /\ IsCancel(c))
    /\ outcome[c] = "ok" => CallBody[c].id \in Stored(bookings)

CallsInv ==
    /\ LifecycleTypeOK
    /\ \A c \in Calls : CallInv(c)
    /\ \A i \in Requests : cancellation[i] # Nobody => i \in Stored(bookings)
    /\ ReasonMatchesStatus
    /\ CancelledWhenToldSo
-----------------------------------------------------------------------------
LEMMA CallType ==
    ASSUME NEW c \in Calls
    PROVE  /\ CallBody[c].id \in Requests
           /\ CallBody[c].op \in {"cancel", "update"}
           /\ CallBody[c].user \in Nat
           /\ CallBody[c].status \in BookingStatus \cup {"unknown status"}
           /\ c # Nobody
BY LifecycleAssumption DEF CallBodies

\* A row is a record, and no record is the missing row.
LEMMA StoredRows ==
    ASSUME LifecycleTypeOK, NEW i \in Requests
    PROVE  /\ i \in Stored(bookings) <=> bookings[i] \in Row
           /\ i \in Stored(bookings) <=> bookings[i] # NoBooking
BY RequestsAssumption DEF LifecycleTypeOK, BookingsTypeOK, Stored

LEMMA CallsStart ==
    ASSUME BookingsTypeOK, CallsInit
    PROVE  CallsInv
<1>1. LifecycleTypeOK
  BY DEF CallsInit, LifecycleTypeOK, BookingStatus, ActiveStatuses, Outcomes
<1>2. \A c \in Calls : callPc[c] = "idle" /\ outcome[c] = "none"
  BY DEF CallsInit
<1>3. \A i \in Requests : cancellation[i] = Nobody
  BY DEF CallsInit
<1>4. ReasonMatchesStatus
  BY <1>3 DEF ReasonMatchesStatus, OnlyCancelled, NeverUpdated, Stored
<1>5. CancelledWhenToldSo
  BY <1>2 DEF CancelledWhenToldSo
<1>. QED BY <1>1, <1>2, <1>3, <1>4, <1>5 DEF CallsInv, CallInv
-----------------------------------------------------------------------------
(* The steps of a call that write nothing.                                 *)

LEMMA ReturnKeeps ==
    ASSUME CallsInv, NEW c \in Calls, NEW err \in Outcomes \ {"ok"}, Return(c, err)
    PROVE  CallsInv'
<1>1. LifecycleTypeOK'
  BY DEF CallsInv, LifecycleTypeOK, BookingsTypeOK, Return
<1>2. UNCHANGED <<bookings, newStatus, cancellation>>
  BY DEF Return
<1>3. /\ callPc' = [callPc EXCEPT ![c] = "returned"]
      /\ outcome' = [outcome EXCEPT ![c] = err]
  BY DEF Return
<1>4. \A d \in Calls : CallInv(d)'
  BY <1>2, <1>3 DEF CallsInv, LifecycleTypeOK, CallInv, IsCancel, IsOwner, Stored
<1>5. ReasonMatchesStatus'
  BY <1>2 DEF CallsInv, ReasonMatchesStatus, OnlyCancelled, NeverUpdated, Stored, IsCancel
<1>6. CancelledWhenToldSo'
  BY <1>2, <1>3
     DEF CallsInv, LifecycleTypeOK, CancelledWhenToldSo, OnlyCancelled, NeverUpdated, Stored,
         IsCancel, Booking
<1>. QED BY <1>1, <1>2, <1>4, <1>5, <1>6 DEF CallsInv, Stored

\* A call that goes on to ask, or has made up its mind.
LEMMA GoOnKeeps ==
    ASSUME CallsInv, NEW c \in Calls,
           NEW where \in {"asking", "decided"},
           callPc' = [callPc EXCEPT ![c] = where],
           newStatus' \in [Calls -> BookingStatus],
           \A d \in Calls \ {c} : newStatus'[d] = newStatus[d],
           UNCHANGED <<bookings, outcome, cancellation>>,
           CallInv(c)'
    PROVE  CallsInv'
<1>1. LifecycleTypeOK'
  BY DEF CallsInv, LifecycleTypeOK, BookingsTypeOK
<1>2. \A d \in Calls : CallInv(d)'
  <2>. SUFFICES ASSUME NEW d \in Calls \ {c} PROVE CallInv(d)'
    OBVIOUS
  <2>1. callPc'[d] = callPc[d]
    BY DEF CallsInv, LifecycleTypeOK
  <2>. QED BY <2>1 DEF CallsInv, CallInv, IsCancel, IsOwner, Stored
<1>3. ReasonMatchesStatus'
  BY DEF CallsInv, ReasonMatchesStatus, OnlyCancelled, NeverUpdated, Stored, IsCancel
<1>4. CancelledWhenToldSo'
  BY DEF CallsInv, CancelledWhenToldSo, OnlyCancelled, NeverUpdated, Stored,
         IsCancel, Booking
<1>. QED BY <1>1, <1>2, <1>3, <1>4 DEF CallsInv, Stored

LEMMA DecideKeeps ==
    ASSUME CallsInv, NEW c \in Calls, NEW s \in BookingStatus, Decide(c, s),
           CallBody[c].id \in Stored(bookings),
           IsCancel(c) => s = IF IsOwner(c) THEN "cancelled_by_user" ELSE "cancelled_by_company",
           CallBody[c].user \in Managers \/ (IsOwner(c) /\ IsCancel(c))
    PROVE  CallsInv'
<1>1. /\ callPc' = [callPc EXCEPT ![c] = "decided"]
      /\ newStatus' = [newStatus EXCEPT ![c] = s]
      /\ UNCHANGED <<bookings, outcome, cancellation>>
  BY DEF Decide
<1>2. newStatus' \in [Calls -> BookingStatus] /\ newStatus'[c] = s /\ callPc'[c] = "decided"
  BY <1>1 DEF CallsInv, LifecycleTypeOK
<1>3. \A d \in Calls \ {c} : newStatus'[d] = newStatus[d]
  BY <1>1 DEF CallsInv, LifecycleTypeOK
<1>4. CallInv(c)'
  BY <1>1, <1>2 DEF CallsInv, CallInv, IsCancel, IsOwner, Stored
<1>. QED BY <1>1, <1>2, <1>3, <1>4, GoOnKeeps

LEMMA ReadBookingKeeps ==
    ASSUME CallsInv, NEW c \in Calls, ReadBooking(c)
    PROVE  CallsInv'
<1>. USE CallType, StoredRows DEF CallsInv
<1>1. CASE Return(c, "ErrBookingNotFound") \/ Return(c, "ErrCannotCancel")
  BY <1>1, ReturnKeeps DEF Outcomes
<1>2. CASE /\ Booking(c) # NoBooking /\ IsCancel(c) /\ IsOwner(c)
           /\ Decide(c, "cancelled_by_user")
  BY <1>2, DecideKeeps DEF Booking, BookingStatus, InactiveStatuses
<1>3. CASE /\ Booking(c) # NoBooking
           /\ IsCancel(c) => ~IsOwner(c)
           /\ callPc' = [callPc EXCEPT ![c] = "asking"]
           /\ UNCHANGED <<bookings, newStatus, outcome, cancellation>>
  <2>1. CallBody[c].id \in Stored(bookings)'
    BY <1>3 DEF Booking, Stored
  <2>2. callPc'[c] = "asking"
    BY <1>3 DEF LifecycleTypeOK
  <2>3. CallInv(c)'
    BY <1>3, <2>1, <2>2 DEF CallInv, IsCancel, IsOwner
  <2>4. newStatus' \in [Calls -> BookingStatus]
    BY <1>3 DEF LifecycleTypeOK
  <2>. QED BY <1>3, <2>3, <2>4, GoOnKeeps
<1>. QED BY <1>1, <1>2, <1>3 DEF ReadBooking

LEMMA CheckManagerKeeps ==
    ASSUME CallsInv, NEW c \in Calls, CheckManager(c)
    PROVE  CallsInv'
<1>1. CallInv(c) /\ callPc[c] = "asking"
  BY DEF CallsInv, CheckManager
<1>2. CallBody[c].id \in Stored(bookings) /\ (IsCancel(c) => ~IsOwner(c))
  BY <1>1 DEF CallInv
<1>3. CASE CallBody[c].user \in Managers /\ IsCancel(c) /\ Decide(c, "cancelled_by_company")
  BY <1>2, <1>3, DecideKeeps DEF BookingStatus, InactiveStatuses
<1>4. CASE /\ CallBody[c].user \in Managers /\ ~IsCancel(c) /\ KnownStatus(c)
           /\ Decide(c, CallBody[c].status)
  BY <1>2, <1>4, DecideKeeps DEF KnownStatus
<1>5. CASE \E err \in {"ErrInvalidInput", "ErrAccessDenied", "ErrCompanyNotFound", "ErrInternal"} :
              Return(c, err)
  BY <1>5, ReturnKeeps DEF Outcomes
<1>. QED BY <1>3, <1>4, <1>5 DEF CheckManager

LEMMA FailStatementKeeps ==
    ASSUME CallsInv, NEW c \in Calls, FailStatement(c)
    PROVE  CallsInv'
BY ReturnKeeps DEF FailStatement, Outcomes
-----------------------------------------------------------------------------
(* The steps that write bookings.                                          *)

LEMMA WriteEffect ==
    ASSUME CallsInv, NEW c \in Calls, WriteStatus(c)
    PROVE  /\ BookingsTypeOK'
           /\ Stored(bookings)' = Stored(bookings)
           /\ bookings'[CallBody[c].id].status = newStatus[c]
           /\ bookings'[CallBody[c].id].duration = bookings[CallBody[c].id].duration
           /\ \A i \in Requests \ {CallBody[c].id} : bookings'[i] = bookings[i]
<1>. DEFINE i == CallBody[c].id
<1>1. i \in Requests /\ newStatus[c] \in BookingStatus
  BY CallType DEF CallsInv, LifecycleTypeOK
<1>2. bookings[i] \in Row
  BY <1>1, StoredRows DEF CallsInv, CallInv, WriteStatus
<1>3. bookings' = [bookings EXCEPT ![i] = [bookings[i] EXCEPT !.status = newStatus[c]]]
  BY DEF WriteStatus, SetStatus
<1>4. bookings'[i] = [bookings[i] EXCEPT !.status = newStatus[c]]
  BY <1>1, <1>3 DEF CallsInv, LifecycleTypeOK, BookingsTypeOK
<1>5. /\ bookings'[i] \in Row /\ bookings'[i].status = newStatus[c]
      /\ bookings'[i].duration = bookings[i].duration
  BY <1>1, <1>2, <1>4 DEF Row
<1>6. \A j \in Requests \ {i} : bookings'[j] = bookings[j]
  BY <1>3 DEF CallsInv, LifecycleTypeOK, BookingsTypeOK
<1>7. BookingsTypeOK'
  BY <1>1, <1>3, <1>5, <1>6 DEF CallsInv, LifecycleTypeOK, BookingsTypeOK
<1>8. Stored(bookings)' = Stored(bookings)
  BY <1>1, <1>2, <1>5, <1>6, RequestsAssumption DEF Stored
<1>. QED BY <1>5, <1>6, <1>7, <1>8

\* What Cancel writes is a cancellation that fits its caller.
LEMMA CancelWrites ==
    ASSUME CallsInv, NEW c \in Calls, WriteStatus(c), CallBody[c].id \in OnlyCancelled
    PROVE  /\ IsCancel(c)
           /\ newStatus[c] = IF CallBody[c].user = Body[CallBody[c].id].user
                             THEN "cancelled_by_user" ELSE "cancelled_by_company"
           /\ IsCancelled(newStatus[c])
           /\ ~IsActive(newStatus[c])
<1>1. IsCancel(c)
  BY DEF OnlyCancelled, NeverUpdated
<1>2. newStatus[c] = IF IsOwner(c) THEN "cancelled_by_user" ELSE "cancelled_by_company"
  BY <1>1 DEF CallsInv, CallInv, WriteStatus
<1>. QED BY <1>1, <1>2 DEF IsOwner, IsCancelled, IsActive, InactiveStatuses

LEMMA WriteStatusKeeps ==
    ASSUME CallsInv, NEW c \in Calls, WriteStatus(c)
    PROVE  CallsInv'
<1>. DEFINE i == CallBody[c].id
<1>1. i \in Requests /\ c # Nobody
  BY CallType
<1>2. PICK err \in {"ok", "ErrInternal"} : outcome' = [outcome EXCEPT ![c] = err]
  BY DEF WriteStatus
<1>3. /\ callPc' = [callPc EXCEPT ![c] = "returned"]
      /\ newStatus' = newStatus
      /\ cancellation' = IF IsCancel(c) THEN [cancellation EXCEPT ![i] = c] ELSE cancellation
  BY DEF WriteStatus
<1>4. LifecycleTypeOK'
  BY <1>1, <1>2, <1>3, WriteEffect DEF CallsInv, LifecycleTypeOK, Outcomes
<1>5. i \in Stored(bookings)
  BY DEF CallsInv, CallInv, WriteStatus
<1>6. ASSUME NEW d \in Calls PROVE CallInv(d)'
  <2>1. CASE d = c
    BY <1>3, <1>5, <2>1, WriteEffect DEF CallsInv, LifecycleTypeOK, CallInv, IsCancel, IsOwner
  <2>2. CASE d # c
    BY <1>2, <1>3, <2>2, WriteEffect
       DEF CallsInv, LifecycleTypeOK, CallInv, IsCancel, IsOwner
  <2>. QED BY <2>1, <2>2
<1>7. \A j \in Requests : cancellation'[j] # Nobody => j \in Stored(bookings)'
  BY <1>1, <1>3, <1>5, WriteEffect DEF CallsInv, LifecycleTypeOK
<1>8. OnlyCancelled' = OnlyCancelled
  BY WriteEffect DEF OnlyCancelled, NeverUpdated, IsCancel
<1>9. ReasonMatchesStatus'
  <2>. SUFFICES ASSUME NEW j \in OnlyCancelled, cancellation'[j] # Nobody
                PROVE  bookings'[j].status = IF CallBody[cancellation'[j]].user = Body[j].user
                                             THEN "cancelled_by_user" ELSE "cancelled_by_company"
    BY <1>8 DEF ReasonMatchesStatus
  <2>1. j \in Requests
    BY DEF OnlyCancelled, NeverUpdated, Stored
  <2>2. CASE j = i
    <3>1. cancellation'[j] = c
      BY <1>1, <1>3, <2>2, CancelWrites DEF CallsInv, LifecycleTypeOK
    <3>. QED BY <2>2, <3>1, WriteEffect, CancelWrites
  <2>3. CASE j # i
    <3>1. cancellation'[j] = cancellation[j]
      BY <1>3, <2>1, <2>3 DEF CallsInv, LifecycleTypeOK
    <3>. QED BY <2>1, <2>3, <3>1, WriteEffect DEF CallsInv, ReasonMatchesStatus
  <2>. QED BY <2>2, <2>3
<1>10. CancelledWhenToldSo'
  <2>. SUFFICES ASSUME NEW d \in Calls, CallBody[d].id \in OnlyCancelled, outcome'[d] = "ok"
                PROVE  /\ IsCancelled(bookings'[CallBody[d].id].status)
                       /\ cancellation'[CallBody[d].id] # Nobody
    BY <1>8 DEF CancelledWhenToldSo, Booking
  <2>1. CallBody[d].id \in Requests
    BY CallType
  <2>2. CASE CallBody[d].id = i
    BY <1>1, <1>3, <2>2, WriteEffect, CancelWrites DEF CallsInv, LifecycleTypeOK
  <2>3. CASE CallBody[d].id # i
    <3>1. d # c /\ outcome[d] = "ok"
      BY <1>2, <2>3 DEF CallsInv, LifecycleTypeOK
    <3>2. cancellation'[CallBody[d].id] = cancellation[CallBody[d].id]
      BY <1>3, <2>1, <2>3 DEF CallsInv, LifecycleTypeOK
    <3>. QED BY <2>1, <2>3, <3>1, <3>2, WriteEffect DEF CallsInv, CancelledWhenToldSo, Booking
  <2>. QED BY <2>2, <2>3
<1>. QED BY <1>4, <1>6, <1>7, <1>9, <1>10 DEF CallsInv

LEMMA CallStepKeeps ==
    ASSUME CallsInv, NEW c \in Calls, CallStep(c)
    PROVE  CallsInv'
BY ReadBookingKeeps, CheckManagerKeeps, WriteStatusKeeps, FailStatementKeeps DEF CallStep

\* A new booking is confirmed, and nobody has cancelled it.
LEMMA BookEffect ==
    ASSUME CallsInv, terms \in [Requests -> SlotConfig], NEW r \in Requests, Book(r)
    PROVE  /\ BookingsTypeOK'
           /\ r \notin Stored(bookings)
           /\ Stored(bookings)' = Stored(bookings) \cup {r}
           /\ \A i \in Stored(bookings) : bookings'[i] = bookings[i]
<1>1. terms[r].slotDuration \in Nat \ {0}
  BY ConfigAssumption
<1>2. bookings' = [bookings EXCEPT ![r] = [duration |-> terms[r].slotDuration,
                                           status |-> "confirmed"]]
  BY DEF Book, Create
<1>3. [duration |-> terms[r].slotDuration, status |-> "confirmed"] \in Row
  BY <1>1 DEF Row, BookingStatus, ActiveStatuses
<1>4. r \notin Stored(bookings)
  BY DEF Book, Open, Stored
<1>. QED BY <1>2, <1>3, <1>4, RequestsAssumption
        DEF CallsInv, LifecycleTypeOK, BookingsTypeOK, Stored

LEMMA BookKeeps ==
    ASSUME CallsInv, terms \in [Requests -> SlotConfig], NEW r \in Requests, Book(r),
           UNCHANGED callVars
    PROVE  CallsInv'
<1>1. UNCHANGED <<callPc, newStatus, outcome, cancellation>>
  BY DEF callVars
<1>2. LifecycleTypeOK'
  BY <1>1, BookEffect DEF CallsInv, LifecycleTypeOK
<1>3. \A d \in Calls : CallInv(d)'
  BY <1>1, BookEffect DEF CallsInv, CallInv, IsCancel, IsOwner
<1>4. \A i \in OnlyCancelled' : i \in OnlyCancelled \/ i = r
  BY BookEffect DEF OnlyCancelled, NeverUpdated, IsCancel
<1>5. cancellation[r] = Nobody /\ \A c \in Calls : outcome[c] = "ok" => CallBody[c].id # r
  BY BookEffect DEF CallsInv, CallInv
<1>6. \A i \in OnlyCancelled : bookings'[i] = bookings[i]
  BY BookEffect DEF OnlyCancelled, NeverUpdated
<1>7. ReasonMatchesStatus'
  BY <1>1, <1>4, <1>5, <1>6 DEF CallsInv, ReasonMatchesStatus
<1>8. CancelledWhenToldSo'
  BY <1>1, <1>4, <1>5, <1>6 DEF CallsInv, CancelledWhenToldSo, Booking
<1>9. \A i \in Requests : cancellation'[i] # Nobody => i \in Stored(bookings)'
  BY <1>1, BookEffect DEF CallsInv
<1>. QED BY <1>2, <1>3, <1>7, <1>8, <1>9 DEF CallsInv
-----------------------------------------------------------------------------
(* What the calls do, beside the requests and the read.                    *)

LEMMA CallsBegin == ReadsInit => CallsInv /\ terms \in [Requests -> SlotConfig]
<1>. SUFFICES ASSUME ReadsInit PROVE CallsInv /\ terms \in [Requests -> SlotConfig]
  OBVIOUS
<1>1. BookingsTypeOK
  BY ReadsAssumption DEF ReadsInit, BookingsTypeOK
<1>. QED BY <1>1, CallsStart DEF ReadsInit

LEMMA CallsGoOn ==
    ASSUME CallsInv, terms \in [Requests -> SlotConfig], [ReadsNext]_readsVars
    PROVE  CallsInv' /\ terms' \in [Requests -> SlotConfig]
<1>1. CASE UNCHANGED <<ledgerVars, callVars>>
  BY <1>1 DEF CallsInv, CallInv, LifecycleTypeOK, BookingsTypeOK, ReasonMatchesStatus,
              CancelledWhenToldSo, OnlyCancelled, NeverUpdated, IsCancel, IsOwner, Booking, Stored,
              ledgerVars, callVars
<1>2. ASSUME NEW r \in Requests, BookingMade(r) PROVE CallsInv' /\ UNCHANGED terms
  BY <1>2, BookKeeps DEF BookingMade, Book
<1>3. ASSUME NEW c \in Calls, BookingChanged(c) PROVE CallsInv' /\ UNCHANGED terms
  BY <1>3, CallStepKeeps DEF BookingChanged
<1>. QED BY <1>1, <1>2, <1>3 DEF ReadsNext, ReadStep, readsVars

(* Status, reason and time of a cancellation belong to one call, for any   *)
(* calls of Cancel and UpdateStatus beside any new bookings.               *)
THEOREM ReasonsMatch == ReadsSpec => []ReasonMatchesStatus
<1>. DEFINE Inv == CallsInv /\ terms \in [Requests -> SlotConfig]
<1>1. ReadsInit => Inv
  BY CallsBegin
<1>2. Inv /\ [ReadsNext]_readsVars => Inv'
  BY CallsGoOn
<1>3. Inv => ReasonMatchesStatus
  BY DEF CallsInv
<1>. QED BY <1>1, <1>2, <1>3, PTL DEF ReadsSpec

(* Who is told that a booking is cancelled finds it cancelled.             *)
THEOREM CancellationsHold == ReadsSpec => []CancelledWhenToldSo
<1>. DEFINE Inv == CallsInv /\ terms \in [Requests -> SlotConfig]
<1>1. ReadsInit => Inv
  BY CallsBegin
<1>2. Inv /\ [ReadsNext]_readsVars => Inv'
  BY CallsGoOn
<1>3. Inv => CancelledWhenToldSo
  BY DEF CallsInv
<1>. QED BY <1>1, <1>2, <1>3, PTL DEF ReadsSpec

\* A step changes a stored booking only by writing a status.
LEMMA OnlyWritesChange ==
    ASSUME CallsInv, terms \in [Requests -> SlotConfig], ReadsNext,
           NEW i \in Stored(bookings), bookings'[i] # bookings[i]
    PROVE  \E c \in Calls : WriteStatus(c) /\ CallBody[c].id = i
<1>1. ~ReadStep
  BY DEF ReadStep, ledgerVars
<1>2. \A r \in Requests : ~BookingMade(r)
  BY BookEffect DEF BookingMade
<1>3. PICK c \in Calls : CallStep(c)
  BY <1>1, <1>2 DEF ReadsNext, BookingChanged
<1>4. WriteStatus(c)
  BY <1>3 DEF CallStep, ReadBooking, CheckManager, FailStatement, Return, Decide
<1>5. CallBody[c].id = i
  BY <1>4, WriteEffect DEF Stored
<1>. QED BY <1>4, <1>5

(* A booking that only Cancel is called for never takes its place again    *)
(* once it has given it up.                                                *)
THEOREM PlacesStayFree == ReadsSpec => InactiveForGood
<1>. DEFINE Inv == CallsInv /\ terms \in [Requests -> SlotConfig]
            Act == \A i \in OnlyCancelled :
                      ~IsActive(bookings[i].status) => ~IsActive(bookings'[i].status)
<1>1. ReadsInit => Inv
  BY CallsBegin
<1>2. Inv /\ [ReadsNext]_readsVars => Inv'
  BY CallsGoOn
<1>3. Inv /\ [ReadsNext]_readsVars => [Act]_lifecycleVars
  <2>1. CASE UNCHANGED readsVars
    BY <2>1 DEF readsVars, ledgerVars, lifecycleVars
  <2>2. ASSUME Inv, ReadsNext, NEW i \in OnlyCancelled, ~IsActive(bookings[i].status)
        PROVE  ~IsActive(bookings'[i].status)
    <3>1. CASE bookings'[i] = bookings[i]
      BY <2>2, <3>1
    <3>2. CASE bookings'[i] # bookings[i]
      <4>1. PICK c \in Calls : WriteStatus(c) /\ CallBody[c].id = i
        BY <2>2, <3>2, OnlyWritesChange DEF OnlyCancelled, NeverUpdated
      <4>. QED BY <2>2, <4>1, WriteEffect, CancelWrites
    <3>. QED BY <3>1, <3>2
  <2>. QED BY <2>1, <2>2
<1>. QED BY <1>1, <1>2, <1>3, PTL DEF ReadsSpec, InactiveForGood

(* Only a manager, or the owner who cancels, changes a booking.            *)
THEOREM OnlyEntitledChange == ReadsSpec => OnlyEntitledCallers
<1>. DEFINE Inv == CallsInv /\ terms \in [Requests -> SlotConfig]
            Entitled(c, i) == /\ CallBody[c].id = i
                              /\ callPc[c] # callPc'[c]
                              /\ \/ CallBody[c].user \in Managers
                                 \/ CallBody[c].user = Body[i].user /\ IsCancel(c)
            Act == \A i \in Stored(bookings) : bookings'[i] # bookings[i] =>
                      \E c \in Calls : Entitled(c, i)
<1>1. ReadsInit => Inv
  BY CallsBegin
<1>2. Inv /\ [ReadsNext]_readsVars => Inv'
  BY CallsGoOn
<1>3. Inv /\ [ReadsNext]_readsVars => [Act]_lifecycleVars
  <2>1. CASE UNCHANGED readsVars
    BY <2>1 DEF readsVars, ledgerVars, lifecycleVars
  <2>2. ASSUME Inv, ReadsNext, NEW i \in Stored(bookings), bookings'[i] # bookings[i]
        PROVE  \E c \in Calls : Entitled(c, i)
    <3>1. PICK c \in Calls : WriteStatus(c) /\ CallBody[c].id = i
      BY <2>2, OnlyWritesChange
    <3>2. callPc[c] = "decided" /\ callPc'[c] = "returned"
      BY <2>2, <3>1 DEF WriteStatus, CallsInv, LifecycleTypeOK
    <3>3. CallInv(c)
      BY <2>2 DEF CallsInv
    <3>4. CallBody[c].user \in Managers \/ (CallBody[c].user = Body[i].user /\ IsCancel(c))
      BY <3>1, <3>2, <3>3 DEF CallInv, IsOwner
    <3>5. Entitled(c, i)
      BY <3>1, <3>2, <3>4
    <3>. QED BY <3>5
  <2>. QED BY <2>1, <2>2
<1>. QED BY <1>1, <1>2, <1>3, PTL DEF ReadsSpec, OnlyEntitledCallers
-----------------------------------------------------------------------------
(* What the reader is told.                                                *)

Columned(list) == \A i \in DOMAIN list :
                      list[i] \in [status : BookingStatus, reason : Calls \cup {Nobody}]

\* Where the read is, and what it holds there.
ReadInv ==
    /\ ask \in Asks
    /\ readAt \in {"coming", "asking", "reading", "answered"}
    /\ DOMAIN page \subseteq Requests /\ Columned(page)
    /\ readError \in Outcomes
    /\ answer \in {0, 200, 400, 401, 403, 404, 500}
    /\ answer # 0 <=> readAt = "answered"
    /\ readAt = "asking" => ask.kind \in {"booking", "company"}
    /\ readAt # "answered" /\ DOMAIN page # {} => ask.kind = "booking" /\ readAt = "asking"
    /\ readAt = "reading" /\ ask.kind = "company" => ask.reader \in Managers

\* The read holds the columns of its booking as they were at one moment.
HeldSince(moment) ==
    /\ moment.rows[ask.id] # NoBooking
    /\ page = [i \in {ask.id} |-> Columns(moment.rows, moment.reasons, i)]

MomentInv ==
    /\ readAt \in {"asking", "reading"} => Contents \in moments
    /\ readAt = "asking" /\ ask.kind = "booking" => \E moment \in moments : HeldSince(moment)
    /\ AnswersWereTrue

AllInv ==
    /\ CallsInv /\ terms \in [Requests -> SlotConfig]
    /\ ReadInv
    /\ MomentInv
    /\ StrangersSeeHistoriesOnly

LEMMA AskType ==
    ASSUME ask \in Asks
    PROVE  /\ ask.kind \in {"booking", "user", "company"} /\ ask.id \in Requests
           /\ ask.header \in {"given", "missing", "malformed"}
           /\ ask.status \in BookingStatus \cup {Null, "unknown status"}
           /\ ask \in Ask
BY ReadsAssumption DEF Ask

LEMMA StatusOfError ==
    ASSUME NEW err \in Outcomes
    PROVE  /\ ReadHttpStatus(err) \in {200, 403, 404, 500}
           /\ ReadHttpStatus(err) = 200 <=> err = "ok"
           /\ ReadHttpStatus(err) = 404 <=> ask.kind = "booking" /\ err = "ErrBookingNotFound"
BY DEF ReadHttpStatus, Outcomes

LEMMA ColumnsType ==
    ASSUME LifecycleTypeOK, NEW i \in Stored(bookings)
    PROVE  Columns(bookings, cancellation, i) \in
             [status : BookingStatus, reason : Calls \cup {Nobody}]
<1>1. i \in Requests
  BY DEF Stored
<1>2. bookings[i] \in Row
  BY <1>1, StoredRows
<1>3. bookings[i].status \in BookingStatus
  BY <1>2 DEF Row
<1>. QED BY <1>1, <1>3 DEF Columns, LifecycleTypeOK

LEMMA ReadBegins == ReadsInit => AllInv
<1>. SUFFICES ASSUME ReadsInit PROVE AllInv
  OBVIOUS
<1>1. DOMAIN page = {} /\ readAt = "coming" /\ answer = 0
  BY DEF ReadsInit
<1>2. ReadInv
  BY <1>1 DEF ReadsInit, ReadInv, Columned, Outcomes
<1>3. MomentInv
  BY <1>1 DEF MomentInv, AnswersWereTrue
<1>4. StrangersSeeHistoriesOnly
  BY <1>1 DEF StrangersSeeHistoriesOnly
<1>. QED BY <1>2, <1>3, <1>4, CallsBegin DEF AllInv

\* An answer other than 200 and 404 shows nothing and claims nothing.
LEMMA RespondError ==
    ASSUME AllInv, NEW err \in Outcomes \ {"ok"}, Respond(err, <<>>),
           ask.kind = "booking" /\ err = "ErrBookingNotFound" =>
               \E moment \in moments' : moment.rows[ask.id] = NoBooking
    PROVE  ReadInv' /\ MomentInv' /\ StrangersSeeHistoriesOnly'
<1>1. /\ readAt' = "answered" /\ page' = <<>> /\ readError' = err /\ ask' = ask
      /\ answer' = ReadHttpStatus(err)
  BY DEF Respond
<1>2. DOMAIN page' = {}
  BY <1>1
<1>3. ReadInv'
  BY <1>1, <1>2, StatusOfError DEF AllInv, ReadInv, Columned
<1>4. MomentInv'
  BY <1>1, StatusOfError DEF MomentInv, AnswersWereTrue
<1>5. StrangersSeeHistoriesOnly'
  BY <1>2 DEF StrangersSeeHistoriesOnly
<1>. QED BY <1>3, <1>4, <1>5

LEMMA RejectKeeps ==
    ASSUME AllInv, readAt = "coming", NEW code \in {400, 401}, Reject(code)
    PROVE  ReadInv' /\ MomentInv' /\ StrangersSeeHistoriesOnly'
BY DEF Reject, AllInv, ReadInv, Columned, MomentInv, AnswersWereTrue,
                    StrangersSeeHistoriesOnly

\* Whether StrangersSeeHistoriesOnly lets the reader see a booking.
MaySee(i) ==
    \/ ask.reader \in Managers
    \/ ask.reader = Body[i].user
    \/ ask.kind = "user" /\ ask.of = Body[i].user

\* What was read of a booking, or of a list, at a moment that is recorded.
LEMMA RespondOk ==
    ASSUME AllInv, NEW list, Respond("ok", list),
           DOMAIN list \subseteq Requests, Columned(list),
           \A i \in DOMAIN list : MaySee(i),
           UNCHANGED moments,
           \E moment \in moments : Shows(moment)'
    PROVE  ReadInv' /\ MomentInv' /\ StrangersSeeHistoriesOnly'
<1>1. /\ readAt' = "answered" /\ page' = list /\ readError' = "ok" /\ ask' = ask
      /\ answer' = 200
  BY DEF Respond, ReadHttpStatus
<1>2. ReadInv'
  BY <1>1 DEF AllInv, ReadInv, Columned, Outcomes
<1>3. PICK moment \in moments : Shows(moment)'
  OBVIOUS
<1>4. AnswersWereTrue'
  BY <1>1, <1>3 DEF AnswersWereTrue
<1>5. MomentInv'
  BY <1>1, <1>4 DEF MomentInv
<1>6. StrangersSeeHistoriesOnly'
  BY <1>1 DEF StrangersSeeHistoriesOnly, MaySee
<1>. QED BY <1>2, <1>5, <1>6

LEMMA ArriveKeeps ==
    ASSUME AllInv, ReadArrives, UNCHANGED <<bookings, cancellation>>
    PROVE  ReadInv' /\ MomentInv' /\ StrangersSeeHistoriesOnly'
<1>. USE DEF AllInv
<1>1. /\ readAt = "coming" /\ moments' = {Contents} /\ Contents' = Contents
      /\ DOMAIN page = {} /\ ask \in Asks
  BY ZenonT(60) DEF ReadArrives, ReadInv, Contents
<1>2. CASE Reject(400) \/ Reject(401)
  BY <1>1, <1>2, RejectKeeps
<1>3. CASE Respond("ErrInvalidInput", <<>>)
  BY <1>3, RespondError DEF Outcomes
<1>4. ASSUME ask.kind = "company", Continue("asking")
      PROVE  ReadInv' /\ MomentInv' /\ StrangersSeeHistoriesOnly'
  BY <1>1, <1>4 DEF Continue, ReadInv, Columned, MomentInv, AnswersWereTrue,
                    StrangersSeeHistoriesOnly
<1>5. ASSUME ask.kind # "company", Continue("reading")
      PROVE  ReadInv' /\ MomentInv' /\ StrangersSeeHistoriesOnly'
  BY <1>1, <1>5 DEF Continue, ReadInv, Columned, MomentInv, AnswersWereTrue,
                    StrangersSeeHistoriesOnly
<1>. QED BY <1>2, <1>3, <1>4, <1>5 DEF ReadArrives, Auth, BadParams, GetBooking, GetUserBookings,
                                      GetCompanyBookings

\* A booking shown as it is in one moment.
LEMMA OneShown ==
    ASSUME ask.kind = "booking", ask.id \in Requests, NEW moment, HeldSince(moment)
    PROVE  Shows(moment)
<1>1. {i \in Stored(moment.rows) : Concerns(i)} = {ask.id}
  BY DEF Concerns, Stored, HeldSince
<1>. QED BY <1>1 DEF Shows, HeldSince

LEMMA ReadOneKeeps ==
    ASSUME AllInv, ReadOne, UNCHANGED <<bookings, cancellation, moments>>
    PROVE  ReadInv' /\ MomentInv' /\ StrangersSeeHistoriesOnly'
<1>. DEFINE read == [i \in {ask.id} |-> Columns(bookings, cancellation, i)]
<1>1. /\ readAt = "reading" /\ ask.kind = "booking" /\ Contents \in moments
      /\ ask.id \in Requests /\ Contents' = Contents
  BY ZenonT(60), AskType DEF ReadOne, AllInv, ReadInv, MomentInv, Contents
<1>2. CASE bookings[ask.id] = NoBooking /\ Respond("ErrBookingNotFound", <<>>)
  <2>1. Contents.rows[ask.id] = NoBooking
    BY <1>2 DEF Contents
  <2>. QED BY <1>1, <1>2, <2>1, RespondError DEF Outcomes
<1>3. CASE bookings[ask.id] # NoBooking /\ page' = read /\ ask' = ask
  <2>1. ask.id \in Stored(bookings)
    BY <1>1, <1>3 DEF Stored
  <2>2. DOMAIN read = {ask.id} /\ Columned(read)
    BY <2>1, ColumnsType DEF Columned, AllInv, CallsInv
  <2>3. HeldSince(Contents)'
    BY <1>1, <1>3 DEF HeldSince, Contents
  <2>4. CASE Body[ask.id].user = ask.reader /\ Respond("ok", read)
    <3>1. Shows(Contents)'
      BY <1>1, <1>3, <2>3 DEF Shows, HeldSince, Concerns, Stored, Contents
    <3>2. \E moment \in moments : Shows(moment)'
      BY <1>1, <3>1
    <3>3. \A i \in DOMAIN read : MaySee(i)
      BY <2>2, <2>4 DEF MaySee
    <3>. QED BY <1>1, <2>2, <2>4, <3>2, <3>3, RespondOk
  <2>5. CASE readAt' = "asking" /\ UNCHANGED <<ask, readError, answer>>
    <3>1. ReadInv'
      BY <1>1, <1>3, <2>2, <2>5 DEF AllInv, ReadInv
    <3>2. \E moment \in moments' : HeldSince(moment)'
      BY <1>1, <2>3
    <3>3. MomentInv'
      BY <1>1, <2>5, <3>2 DEF AllInv, ReadInv, MomentInv, AnswersWereTrue
    <3>4. StrangersSeeHistoriesOnly'
      BY <1>1, <2>5 DEF AllInv, ReadInv, StrangersSeeHistoriesOnly
    <3>. QED BY <3>1, <3>3, <3>4
  <2>. QED BY <1>2, <1>3, <2>4, <2>5 DEF ReadOne, Respond
<1>. QED BY <1>2, <1>3 DEF ReadOne, Respond

LEMMA AskManagersKeeps ==
    ASSUME AllInv, AskManagers, UNCHANGED <<bookings, cancellation, moments>>
    PROVE  ReadInv' /\ MomentInv' /\ StrangersSeeHistoriesOnly'
<1>1. /\ readAt = "asking" /\ ask \in Asks /\ ask.kind \in {"booking", "company"}
      /\ Contents \in moments /\ Contents' = Contents
  BY DEF AskManagers, AllInv, ReadInv, MomentInv, Contents
<1>2. CASE ask.reader \in Managers /\ ask.kind = "booking" /\ Respond("ok", page)
  <2>1. PICK moment \in moments : HeldSince(moment)
    BY <1>1, <1>2 DEF AllInv, MomentInv
  <2>2. Shows(moment)
    BY <1>1, <1>2, <2>1, OneShown, AskType
  <2>3. Shows(moment)'
    BY <1>2, <2>2 DEF Shows, Concerns, Expected, Respond
  <2>4. \A i \in DOMAIN page : MaySee(i)
    BY <1>2 DEF MaySee
  <2>. QED BY <1>2, <2>3, <2>4, RespondOk DEF AllInv, ReadInv
<1>3. CASE ask.reader \in Managers /\ ask.kind = "company" /\ Continue("reading")
  BY <1>1, <1>3 DEF Continue, AllInv, ReadInv, Columned, MomentInv, AnswersWereTrue,
                    StrangersSeeHistoriesOnly
<1>4. CASE \E err \in {"ErrInvalidInput", "ErrAccessDenied", "ErrCompanyNotFound", "ErrInternal"} :
              Respond(err, <<>>)
  BY <1>4, RespondError DEF Outcomes
<1>. QED BY <1>2, <1>3, <1>4 DEF AskManagers, Refused

\* WHERE selects what the reader expects.
LEMMA SelectedExpected ==
    ASSUME LifecycleTypeOK, ask \in Asks, ask.kind # "booking", NEW i \in Stored(bookings)
    PROVE  Selected(i) <=> Concerns(i) /\ bookings[i].status \in Expected
<1>1. bookings[i].status \in BookingStatus
  BY StoredRows DEF Stored, Row
<1>2. IsActive(bookings[i].status) <=> bookings[i].status \in ActiveStatuses
  BY <1>1 DEF IsActive, BookingStatus, ActiveStatuses, InactiveStatuses
<1>3. ask.kind \in {"user", "company"}
  BY AskType
<1>. QED BY <1>1, <1>2, <1>3 DEF Selected, Concerns, Expected, StatusWanted

LEMMA ReadListKeeps ==
    ASSUME AllInv, ReadList, UNCHANGED <<bookings, cancellation, moments>>
    PROVE  ReadInv' /\ MomentInv' /\ StrangersSeeHistoriesOnly'
<1>. DEFINE ids == {j \in Stored(bookings) : Selected(j)}
            list == [i \in ids |-> Columns(bookings, cancellation, i)]
<1>1. /\ readAt = "reading" /\ ask \in Asks /\ ask.kind \in {"user", "company"}
      /\ Contents \in moments /\ Contents' = Contents /\ LifecycleTypeOK
      /\ ask.kind = "company" => ask.reader \in Managers
  BY ZenonT(60), AskType DEF ReadList, AllInv, ReadInv, MomentInv, Contents, CallsInv
<1>2. Respond("ok", list)
  BY DEF ReadList
<1>3. DOMAIN list \subseteq Requests /\ Columned(list)
  BY <1>1, ColumnsType DEF Columned, Stored
<1>4. ids = {i \in Stored(bookings) : Concerns(i) /\ bookings[i].status \in Expected}
  BY <1>1, SelectedExpected
<1>5. Shows(Contents)'
  <2>1. page' = list /\ ask' = ask
    BY <1>2 DEF Respond
  <2>2. Contents.rows = bookings /\ Contents.reasons = cancellation
    BY DEF Contents
  <2>3. DOMAIN page' = {i \in Stored(Contents.rows) :
                         (ask.kind = "booking" \/ Contents.rows[i].status \in Expected)
                           /\ Concerns(i)}
    BY <1>1, <1>4, <2>1, <2>2
  <2>. QED BY <1>1, <2>1, <2>2, <2>3 DEF Shows, Concerns, Expected
<1>6. \A i \in DOMAIN list : MaySee(i)
  BY <1>1 DEF Selected, MaySee
<1>. QED BY <1>1, <1>2, <1>3, <1>5, <1>6, RespondOk

LEMMA FailReadKeeps ==
    ASSUME AllInv, FailRead
    PROVE  ReadInv' /\ MomentInv' /\ StrangersSeeHistoriesOnly'
BY RespondError DEF FailRead, Outcomes

\* Requests and calls change the table while a read is under way.
LEMMA TableChanges ==
    ASSUME AllInv, ReadPending, UNCHANGED readVars, Record
    PROVE  ReadInv' /\ MomentInv' /\ StrangersSeeHistoriesOnly'
<1>. USE DEF AllInv, readVars
<1>1. answer = 0
  BY DEF ReadInv, ReadPending
<1>2. ReadInv' /\ StrangersSeeHistoriesOnly'
  BY <1>1 DEF ReadInv, Columned, StrangersSeeHistoriesOnly
<1>3. moments \subseteq moments' /\ (readAt \in {"asking", "reading"} => Contents' \in moments')
  BY DEF Record
<1>4. MomentInv'
  BY <1>1, <1>3 DEF MomentInv, AnswersWereTrue, HeldSince
<1>. QED BY <1>2, <1>4

LEMMA AllGoesOn == AllInv /\ [ReadsNext]_readsVars => AllInv'
<1>. SUFFICES ASSUME AllInv, [ReadsNext]_readsVars
              PROVE  ReadInv' /\ MomentInv' /\ StrangersSeeHistoriesOnly'
  BY CallsGoOn DEF AllInv
<1>1. CASE UNCHANGED readsVars
  <2>1. UNCHANGED <<ask, readAt, page, readError, answer, moments, bookings, cancellation>>
    BY <1>1 DEF readsVars, readVars, ledgerVars, callVars
  <2>2. ReadInv' /\ StrangersSeeHistoriesOnly'
    BY <2>1 DEF AllInv, ReadInv, Columned, StrangersSeeHistoriesOnly
  <2>3. Contents' = Contents /\ \A moment \in moments : HeldSince(moment)' <=> HeldSince(moment)
    BY <2>1 DEF Contents, HeldSince
  <2>4. \A moment \in moments : Shows(moment)' <=> Shows(moment)
    BY <2>1 DEF Shows, Concerns, Expected
  <2>5. AnswersWereTrue'
    BY <2>1, <2>4 DEF AllInv, MomentInv, AnswersWereTrue
  <2>6. MomentInv'
    BY <2>1, <2>3, <2>5 DEF AllInv, MomentInv
  <2>. QED BY <2>2, <2>6
<1>2. CASE ReadStep
  <2>1. UNCHANGED <<bookings, cancellation>>
    BY <1>2 DEF ReadStep, ledgerVars, callVars
  <2>2. CASE ReadArrives
    BY <2>1, <2>2, ArriveKeeps
  <2>3. CASE (ReadOne \/ AskManagers \/ ReadList \/ FailRead) /\ UNCHANGED moments
    BY <2>1, <2>3, ReadOneKeeps, AskManagersKeeps, ReadListKeeps, FailReadKeeps
  <2>. QED BY <1>2, <2>2, <2>3 DEF ReadStep
<1>3. CASE \E r \in Requests : BookingMade(r)
  BY <1>3, TableChanges DEF BookingMade
<1>4. CASE \E c \in Calls : BookingChanged(c)
  BY <1>4, TableChanges DEF BookingChanged
<1>. QED BY <1>1, <1>2, <1>3, <1>4 DEF ReadsNext

(* The inductive invariant of reads and calls holds throughout.           *)
THEOREM AllAlways == ReadsSpec => []AllInv
BY ReadBegins, AllGoesOn, PTL DEF ReadsSpec

(* Types of BookingReads, and with them the statuses its handlers answer.  *)
THEOREM ReadsTyped == ReadsSpec => []ReadsTypeOK
<1>1. AllInv => ReadsTypeOK
  BY ZenonT(60), AskType DEF AllInv, CallsInv, ReadInv, Columned, ReadsTypeOK
<1>. QED BY <1>1, AllAlways, PTL

(* Any answer was true at one moment since the read arrived.               *)
THEOREM AnswersTrue == ReadsSpec => []AnswersWereTrue
<1>1. AllInv => AnswersWereTrue
  BY DEF AllInv, MomentInv
<1>. QED BY <1>1, AllAlways, PTL

(* Who is neither owner nor manager sees a booking in histories only.      *)
THEOREM StrangersSeeLittle == ReadsSpec => []StrangersSeeHistoriesOnly
<1>1. AllInv => StrangersSeeHistoriesOnly
  BY DEF AllInv
<1>. QED BY <1>1, AllAlways, PTL
-----------------------------------------------------------------------------
(* What the day's list shows.                                              *)

\* The cars that take up boxes, as far as the count of POST /bookings sees them.
Parked == Active(bookings) \cap DayBookings

DefaultList == ask.kind = "company" /\ ask.status = Null /\ ~ask.includeInactive

\* Nothing is booked or cancelled any more once the list is made.
BoxesInv ==
    /\ AllInv
    /\ WithinBoxes(Parked)
    /\ DefaultList => DOMAIN page \subseteq Active(bookings)

LEMMA ParkedType ==
    ASSUME LifecycleTypeOK
    PROVE  /\ Parked \in SUBSET Requests
           /\ \A i \in Parked : /\ bookings[i] \in Row /\ bookings[i].duration \in Nat \ {0}
                              /\ Body[i].start \in TimeString
                              /\ EndsSameDay(Body[i].start, bookings[i].duration)
<1>1. Parked \in SUBSET Requests
  BY DEF Parked, Active, Stored
<1>2. ASSUME NEW i \in Parked
      PROVE  /\ bookings[i] \in Row /\ bookings[i].duration \in Nat \ {0}
             /\ Body[i].start \in TimeString
             /\ EndsSameDay(Body[i].start, bookings[i].duration)
  <2>1. i \in Stored(bookings) /\ i \in Requests
    BY DEF Parked, Active, Stored
  <2>2. bookings[i] \in Row
    BY <2>1, StoredRows
  <2> QED
    BY <2>1, <2>2, RequestsAssumption DEF Row, RequestBody, Parked, DayBookings
<1> QED
  BY <1>1, <1>2

(* Fewer cars are never too many.                                          *)
LEMMA FewerCars ==
    ASSUME NEW S \in SUBSET Requests, NEW T \in SUBSET S, WithinBoxes(S)
    PROVE  WithinBoxes(T)
<1> SUFFICES ASSUME NEW i \in T
             PROVE  \E c \in SlotConfig : Cardinality(CarsWith(i, T)) <= c.maxConcurrent
  BY DEF WithinBoxes
<1>1. PICK c \in SlotConfig : Cardinality(CarsWith(i, S)) <= c.maxConcurrent
  BY DEF WithinBoxes
<1>2. /\ CarsWith(i, T) \subseteq CarsWith(i, S)
      /\ IsFiniteSet(CarsWith(i, S))
  BY RequestsAssumption, FS_Subset DEF CarsWith
<1>3. /\ Cardinality(CarsWith(i, T)) <= Cardinality(CarsWith(i, S))
      /\ Cardinality(CarsWith(i, T)) \in Nat /\ Cardinality(CarsWith(i, S)) \in Nat
  BY <1>2, FS_Subset, FS_CardinalityType
<1>4. c.maxConcurrent \in Nat
  BY ConfigAssumption
<1> QED
  BY <1>1, <1>3, <1>4

(* The count of POST /bookings sees every car that would stand beside the  *)
(* new one, so there is a box left for that.                               *)
LEMMA BoxLeft ==
    ASSUME LifecycleTypeOK, terms \in [Requests -> SlotConfig], NEW r \in Requests, Book(r),
           EndsSameDay(Body[r].start, terms[r].slotDuration),
           NEW X \in SUBSET Parked,
           \A j \in X : /\ Body[j].address = Body[r].address /\ Body[j].date = Body[r].date
                       /\ ShareMinute(Body[r].start, terms[r].slotDuration,
                                      Body[j].start, bookings[j].duration)
    PROVE  Cardinality(X) + 1 <= terms[r].maxConcurrent /\ IsFiniteSet(X)
<1> DEFINE rows == GetByCompanyWithFilter(bookings, Body[r].address, Body[r].date)
           seen == Overlapping(bookings, rows, Body[r].start, terms[r].slotDuration)
<1>1. Body[r].start \in TimeString
  BY RequestsAssumption DEF RequestBody
<1>2. terms[r].slotDuration \in Nat \ {0} /\ terms[r].maxConcurrent \in Nat
  BY ConfigAssumption
<1>3. ASSUME NEW j \in X PROVE j \in seen
  <2>1. /\ j \in Parked /\ bookings[j].duration \in Nat \ {0} /\ Body[j].start \in TimeString
        /\ EndsSameDay(Body[j].start, bookings[j].duration)
    BY ParkedType
  <2>2. SlotOverlaps(Body[r].start, terms[r].slotDuration, Body[j].start, bookings[j].duration)
    BY <1>1, <1>2, <2>1, OverlapSeen
  <2>3. j \in rows /\ IsActive(bookings[j].status)
    BY <2>1 DEF GetByCompanyWithFilter, Parked, Active
  <2> QED
    BY <2>2, <2>3 DEF Overlapping
<1>4. IsFiniteSet(seen)
  BY RequestsAssumption, FS_Subset DEF Overlapping, GetByCompanyWithFilter, Active, Stored
<1>5. Cardinality(seen) < terms[r].maxConcurrent
  BY DEF Book, InTheWay, CountOverlappingBookings
<1> HIDE DEF seen
<1>6. X \subseteq seen
  BY <1>3
<1>7. /\ IsFiniteSet(X) /\ Cardinality(X) \in Nat /\ Cardinality(seen) \in Nat
      /\ Cardinality(X) <= Cardinality(seen)
  BY <1>4, <1>6, FS_Subset, FS_CardinalityType
<1> QED
  BY <1>2, <1>5, <1>7

(* A new car finds a box wherever it meets others.                         *)
LEMMA BookWithinBoxes ==
    ASSUME CallsInv, terms \in [Requests -> SlotConfig], WithinBoxes(Parked),
           NEW r \in Requests, Book(r)
    PROVE  WithinBoxes(Parked)'
<1>1. /\ LifecycleTypeOK /\ BookingsTypeOK' /\ r \notin Stored(bookings)
      /\ Stored(bookings)' = Stored(bookings) \cup {r}
      /\ \A i \in Stored(bookings) : bookings'[i] = bookings[i]
  BY BookEffect DEF CallsInv
<1>2. bookings'[r].duration = terms[r].slotDuration
  BY <1>1 DEF Book, Create, LifecycleTypeOK, BookingsTypeOK
<1>3. Parked' \ {r} \subseteq Parked /\ Parked \subseteq Stored(bookings)
  <2>1. \A i \in Parked' : i \in Stored(bookings)' /\ i \in Active(bookings)' /\ i \in DayBookings'
    BY DEF Parked, Active
  <2>2. ASSUME NEW i \in Parked', i # r PROVE i \in Parked
    <3>1. i \in Stored(bookings) /\ bookings'[i] = bookings[i]
      BY <1>1, <2>1, <2>2
    <3> QED
      BY <2>1, <3>1 DEF Parked, Active, DayBookings, OnlyCancelled, NeverUpdated, IsCancel
  <2> QED
    BY <2>2 DEF Parked, Active
<1>4. \A i \in Parked' \ {r} : bookings'[i] = bookings[i]
  BY <1>1, <1>3
<1> SUFFICES ASSUME NEW i \in Parked'
             PROVE  \E c \in SlotConfig : Cardinality(CarsWith(i, Parked)') <= c.maxConcurrent
  BY DEF WithinBoxes
<1> DEFINE cars == CarsWith(i, Parked)'
<1>5. cars = {j \in Parked' : /\ Body[j].address = Body[i].address /\ Body[j].date = Body[i].date
                             /\ Body[i].start \in Minutes(Body[j].start, bookings'[j].duration)}
  BY DEF CarsWith
<1> HIDE DEF cars
<1>6. CASE r \in cars
  <2>1. EndsSameDay(Body[r].start, terms[r].slotDuration)
    BY <1>2, <1>5, <1>6 DEF Parked, DayBookings
  <2>2. cars \ {r} \in SUBSET Parked
    BY <1>3, <1>5
  <2>3. ASSUME NEW j \in cars \ {r}
        PROVE  /\ Body[j].address = Body[r].address /\ Body[j].date = Body[r].date
               /\ ShareMinute(Body[r].start, terms[r].slotDuration,
                              Body[j].start, bookings[j].duration)
    <3>1. bookings'[j] = bookings[j]
      BY <1>4, <1>5
    <3>2. /\ Body[i].start \in Minutes(Body[r].start, terms[r].slotDuration)
          /\ Body[i].start \in Minutes(Body[j].start, bookings[j].duration)
      BY <1>2, <1>5, <1>6, <3>1
    <3>3. ShareMinute(Body[r].start, terms[r].slotDuration, Body[j].start, bookings[j].duration)
      BY <3>2 DEF ShareMinute
    <3> QED
      BY <1>5, <1>6, <3>3
  <2>4. Cardinality(cars \ {r}) + 1 <= terms[r].maxConcurrent /\ IsFiniteSet(cars \ {r})
    BY <1>1, <2>1, <2>2, <2>3, BoxLeft
  <2>5. cars = (cars \ {r}) \cup {r} /\ r \notin cars \ {r}
    BY <1>6
  <2>6. Cardinality(cars) = Cardinality(cars \ {r}) + 1
    BY <2>4, <2>5, FS_AddElement
  <2> QED
    BY <2>4, <2>6 DEF cars
<1>7. CASE r \notin cars
  <2>1. i # r
    <3>1. terms[r].slotDuration \in Nat \ {0} /\ Body[r].start \in TimeString
      BY ConfigAssumption, RequestsAssumption DEF RequestBody
    <3>2. Body[r].start \in Minutes(Body[r].start, terms[r].slotDuration)
      BY <3>1 DEF Minutes, TimeString
    <3> QED
      BY <1>2, <1>5, <1>7, <3>2
  <2>2. i \in Parked
    BY <1>3, <2>1
  <2>3. cars \in SUBSET CarsWith(i, Parked)
    BY <1>3, <1>4, <1>5, <1>7 DEF CarsWith
  <2>4. PICK c \in SlotConfig : Cardinality(CarsWith(i, Parked)) <= c.maxConcurrent
    BY <2>2 DEF WithinBoxes
  <2>5. IsFiniteSet(CarsWith(i, Parked))
    BY <1>1, ParkedType, RequestsAssumption, FS_Subset DEF CarsWith
  <2>6. /\ Cardinality(cars) <= Cardinality(CarsWith(i, Parked))
        /\ Cardinality(cars) \in Nat /\ Cardinality(CarsWith(i, Parked)) \in Nat
    BY <2>3, <2>5, FS_Subset, FS_CardinalityType
  <2>7. c.maxConcurrent \in Nat
    BY ConfigAssumption
  <2> QED
    BY <2>4, <2>6, <2>7 DEF cars
<1> QED
  BY <1>6, <1>7

(* A call leaves all cars where they are, or takes one away.               *)
LEMMA CallWithinBoxes ==
    ASSUME CallsInv, WithinBoxes(Parked), NEW c \in Calls, CallStep(c)
    PROVE  WithinBoxes(Parked)'
<1>1. LifecycleTypeOK /\ Parked \in SUBSET Requests
  BY ParkedType DEF CallsInv
<1>2. CASE UNCHANGED bookings
  <2>1. Parked' = Parked
    BY <1>2 DEF Parked, Active, DayBookings, OnlyCancelled, NeverUpdated, Stored, IsCancel
  <2>2. \A i : CarsWith(i, Parked)' = CarsWith(i, Parked)
    BY <1>2, <2>1 DEF CarsWith
  <2> QED
    BY <2>1, <2>2 DEF WithinBoxes
<1>3. CASE WriteStatus(c)
  <2> DEFINE id == CallBody[c].id
  <2>1. /\ Stored(bookings)' = Stored(bookings)
        /\ bookings'[id].status = newStatus[c]
        /\ \A i \in Requests : bookings'[i].duration = bookings[i].duration
        /\ \A i \in Requests \ {id} : bookings'[i] = bookings[i]
    BY <1>3, WriteEffect
  <2>2. OnlyCancelled' = OnlyCancelled
    BY <2>1 DEF OnlyCancelled, NeverUpdated, IsCancel
  <2>3. ASSUME NEW i \in Parked' PROVE i \in Parked
    <3>1. i \in OnlyCancelled /\ i \in Requests /\ IsActive(bookings'[i].status)
      BY <2>2 DEF Parked, DayBookings, Active, OnlyCancelled, NeverUpdated, Stored
    <3>2. i # id
      BY <1>3, <2>1, <3>1, CancelWrites
    <3> QED
      BY <2>1, <3>1, <3>2 DEF Parked, DayBookings, Active, OnlyCancelled, NeverUpdated
  <2>4. WithinBoxes(Parked')
    BY <1>1, <2>3, FewerCars
  <2>5. \A i \in Parked' : CarsWith(i, Parked') = CarsWith(i, Parked)'
    BY <1>1, <2>1, <2>3 DEF CarsWith
  <2> QED
    BY <2>4, <2>5 DEF WithinBoxes
<1> QED
  BY <1>2, <1>3 DEF CallStep, ReadBooking, CheckManager, FailStatement, Return, Decide

(* The default list is that of the active bookings.                        *)
LEMMA ListIsActive ==
    ASSUME AllInv, ReadStep, DefaultList, DOMAIN page \subseteq Active(bookings)
    PROVE  DOMAIN page' \subseteq Active(bookings)
<1>1. readAt # "answered" => DOMAIN page = {}
  BY DEF AllInv, ReadInv, DefaultList
<1>2. UNCHANGED page \/ page' = <<>> \/ ReadList
  BY DEF ReadStep, ReadArrives, Auth, BadParams, GetBooking, GetUserBookings,
         GetCompanyBookings, ReadOne, AskManagers, FailRead, Refused, Respond, Continue, Reject,
         DefaultList
<1>3. CASE ReadList
  <2>1. page' = [i \in {j \in Stored(bookings) : Selected(j)} |->
                    Columns(bookings, cancellation, i)]
    BY <1>3 DEF ReadList, Respond
  <2>2. \A i \in Stored(bookings) : Selected(i) => IsActive(bookings[i].status)
    BY DEF Selected, StatusWanted, DefaultList
  <2> QED
    BY <2>1, <2>2 DEF Active
<1> QED
  BY <1>2, <1>3

(* Every step keeps the cars within the boxes and the list among them.     *)
LEMMA BoxesGoOn == BoxesInv /\ [ReadsNext]_readsVars => BoxesInv'
<1> SUFFICES ASSUME BoxesInv, [ReadsNext]_readsVars
             PROVE  BoxesInv'
  OBVIOUS
<1>1. AllInv /\ AllInv' /\ CallsInv /\ terms \in [Requests -> SlotConfig]
  BY AllGoesOn DEF BoxesInv, AllInv
<1>2. CASE UNCHANGED ledgerVars /\ UNCHANGED callVars
  <2>1. UNCHANGED bookings
    BY <1>2 DEF ledgerVars
  <2>2. Parked' = Parked /\ Active(bookings)' = Active(bookings)
    BY <2>1 DEF Parked, Active, DayBookings, OnlyCancelled, NeverUpdated, Stored, IsCancel
  <2>3. WithinBoxes(Parked)'
    BY <2>1, <2>2 DEF BoxesInv, WithinBoxes, CarsWith
  <2>4. ask' = ask
    BY <1>1 DEF ReadsNext, ReadStep, BookingMade, BookingChanged, readsVars, readVars,
                ReadArrives, Auth, BadParams, GetBooking, GetUserBookings, GetCompanyBookings,
                ReadOne, AskManagers, ReadList, FailRead, Refused, Respond, Continue,
                Reject
  <2>5. UNCHANGED page \/ ReadStep
    BY DEF ReadsNext, BookingMade, BookingChanged, readsVars, readVars
  <2>6. DefaultList' => DOMAIN page' \subseteq Active(bookings)'
    BY <1>1, <2>2, <2>4, <2>5, ListIsActive DEF BoxesInv, DefaultList
  <2> QED
    BY <1>1, <2>3, <2>6 DEF BoxesInv
<1>3. ASSUME ReadPending, UNCHANGED readVars, WithinBoxes(Parked)'
      PROVE  BoxesInv'
  <2>1. DefaultList' => DOMAIN page' = {}
    <3>1. page' = page /\ ask' = ask
      BY <1>3 DEF readVars
    <3>2. readAt # "answered" /\ (DOMAIN page # {} => ask.kind = "booking")
      BY <1>1, <1>3 DEF ReadPending, AllInv, ReadInv
    <3> QED
      BY <3>1, <3>2 DEF DefaultList
  <2> QED
    BY <1>1, <1>3, <2>1 DEF BoxesInv
<1>4. CASE \E r \in Requests : BookingMade(r)
  BY <1>1, <1>3, <1>4, BookWithinBoxes DEF BookingMade, BoxesInv
<1>5. CASE \E c \in Calls : BookingChanged(c)
  BY <1>1, <1>3, <1>5, CallWithinBoxes DEF BookingChanged, BoxesInv
<1> QED
  BY <1>2, <1>4, <1>5 DEF ReadsNext, ReadStep, readsVars

(* ListedWithinBoxes: from a table in which the cars of the day have their *)
(* boxes, GET /companies/{id}/bookings shows no more cars than boxes, for  *)
(* any requests, cancellations and reads.                                  *)
THEOREM ListsWithinBoxes == WithinBoxes(Parked) /\ ReadsSpec => []ListedWithinBoxes
<1>1. WithinBoxes(Parked) /\ ReadsInit => BoxesInv
  <2> SUFFICES ASSUME WithinBoxes(Parked), ReadsInit PROVE BoxesInv
    OBVIOUS
  <2>1. DOMAIN page = {}
    BY DEF ReadsInit
  <2> QED
    BY <2>1, ReadBegins DEF BoxesInv
<1>2. BoxesInv /\ [ReadsNext]_readsVars => BoxesInv'
  BY BoxesGoOn
<1>3. BoxesInv => ListedWithinBoxes
  <2> SUFFICES ASSUME BoxesInv, DefaultList
               PROVE  WithinBoxes(DOMAIN page \cap DayBookings)
    BY DEF ListedWithinBoxes, DefaultList
  <2>1. DOMAIN page \cap DayBookings \in SUBSET Parked /\ Parked \in SUBSET Requests
    BY DEF BoxesInv, Parked, Active, Stored
  <2> QED
    BY <2>1, FewerCars DEF BoxesInv
<1> QED
  BY <1>1, <1>2, <1>3, PTL DEF ReadsSpec
=============================================================================

--------------------------- MODULE BookingService ---------------------------
(***************************************************************************)
(* The routed operations on bookings running together: POST /bookings,     *)
(* PATCH /bookings/{id}/cancel and the UPDATE of PUT .../config, on one    *)
(* database.  main.go has no route to UpdateStatus.                        *)
(***************************************************************************)
EXTENDS CreateBooking, BookingLifecycle

ASSUME RoutedAssumption == \A c \in Calls : CallBody[c].op = "cancel"

vars == <<createVars, callVars>>

Init == CreateInit /\ CallsInit

\* An UPDATE waits for the transaction that holds its row FOR UPDATE.
RowFree(c) == \A r \in Requests : CallBody[c].id \notin locks[r]

Request(r) == RequestStep(r) /\ UNCHANGED callVars

CancelCall(c) ==
    /\ \/ ReadBooking(c) \/ CheckManager(c)
       \/ RowFree(c) /\ WriteStatus(c)
       \/ FailStatement(c)
    /\ UNCHANGED <<configs, requestVars, auxVars>>

Reconfigure(l, c) == WriteConfig(l, c) /\ UNCHANGED callVars

\* Calls under way die with the process, their writes not made.
Restart ==
    /\ Crash
    /\ callPc' = [c \in Calls |-> IF callPc[c] = "idle" THEN "idle" ELSE "returned"]
    /\ UNCHANGED <<newStatus, outcome, cancellation>>

Next ==
    \/ \E r \in Requests : Request(r)
    \/ \E c \in Calls : CancelCall(c)
    \/ \E l \in Levels, c \in SlotConfig : Reconfigure(l, c)
    \/ Restart

Spec == Init /\ [][Next]_vars
-----------------------------------------------------------------------------
(* Properties of the whole; CreateBooking and BookingLifecycle state those *)
(* that each of them is responsible for.                                   *)

TypeOK == CreateTypeOK /\ LifecycleTypeOK

(* Admission is atomic: the queries, the insert and the commit of Execute, *)
(* interleaved with everything else, look like one step of the ledger.     *)
Ledger == INSTANCE SlotLedger WITH
    terms <- config,
    refused <- {r \in Requests : answer[r] = 409}

ImplementsLedger == Ledger!LedgerSpec
=============================================================================

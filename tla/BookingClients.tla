--------------------------- MODULE BookingClients ---------------------------
(***************************************************************************)
(* Clients of POST /bookings who try again when they were answered 500 or  *)
(* not at all, or lost patience, beside the cancellations and the updates  *)
(* of the configuration.  The service knows no idempotency key, so each    *)
(* try is a request of its own with the same body.                         *)
(***************************************************************************)
EXTENDS BookingService

CONSTANTS
    Clients,
    Tries,           \* Tries[k]: the requests client k may send, one by one
    Impatient        \* do clients also try again while they are being served?

ASSUME ClientsAssumption ==
    /\ Tries \in [Clients -> Seq(Requests)]
    /\ \A k \in Clients : \A i, j \in DOMAIN Tries[k] : Body[Tries[k][i]] = Body[Tries[k][j]]
    /\ \A k, l \in Clients : \A i \in DOMAIN Tries[k], j \in DOMAIN Tries[l] :
         Tries[k][i] = Tries[l][j] => k = l /\ i = j
    /\ Impatient \in BOOLEAN

VARIABLES
    sent,            \* how many tries each client has sent
    abandoned        \* requests whose client did not wait for the answer

(* Auxiliary: the requests a fault ended, or crossed; the failure of       *)
(* another service is one.                                                 *)
VARIABLE mishaps

clientVars == <<sent, abandoned, mishaps>>
clientsVars == <<vars, clientVars>>

ClientsInit ==
    /\ Init
    /\ sent = [k \in Clients |-> 0]
    /\ abandoned = {}
    /\ mishaps = {}
-----------------------------------------------------------------------------
Latest(k) == Tries[k][sent[k]]

\* Nothing tells the client whether it has a booking.
LeftInDoubt(k) == answer[Latest(k)] = 500 \/ pc[Latest(k)] = "lost"

StillServed(k) == pc[Latest(k)] \in InTransaction

Send(k) ==
    /\ sent[k] < Len(Tries[k])
    /\ \/ sent[k] = 0 /\ UNCHANGED abandoned
       \/ sent[k] > 0 /\ LeftInDoubt(k) /\ UNCHANGED abandoned
       \/ /\ sent[k] > 0 /\ Impatient /\ StillServed(k)
          /\ abandoned' = abandoned \cup {Latest(k)}
    /\ sent' = [sent EXCEPT ![k] = @ + 1]
    /\ LET try == Tries[k][sent[k] + 1] IN
         /\ Receive(try)
         /\ UNCHANGED callVars
         /\ mishaps' = IF answer'[try] = 500 THEN mishaps \cup {try} ELSE mishaps

\* Everything that is done about a request once it has come.
Serve(r) ==
    /\ \/ RequestProgress(r) /\ UNCHANGED mishaps
       \/ (DbError(r) \/ CommitUnknown(r)) /\ mishaps' = mishaps \cup {r}
    /\ UNCHANGED <<callVars, sent, abandoned>>

Die ==
    /\ Restart
    /\ mishaps' = mishaps \cup {r \in Requests : pc[r] \in InTransaction}
    /\ UNCHANGED <<sent, abandoned>>

ClientsNext ==
    \/ \E k \in Clients : Send(k)
    \/ \E r \in Requests : Serve(r)
    \/ \E c \in Calls : CancelCall(c) /\ UNCHANGED clientVars
    \/ \E l \in Levels, c \in SlotConfig : Reconfigure(l, c) /\ UNCHANGED clientVars
    \/ Die

\* As in CreateBooking; nothing obliges a client to try again.
ClientsFairness ==
    \A r \in Requests : WF_clientsVars(RequestProgress(r) /\ UNCHANGED <<callVars, clientVars>>)

ClientsSpec == ClientsInit /\ [][ClientsNext]_clientsVars /\ ClientsFairness
-----------------------------------------------------------------------------
(* Properties.                                                             *)

ClientsTypeOK ==
    /\ TypeOK
    /\ sent \in [Clients -> Nat]
    /\ \A k \in Clients : sent[k] <= Len(Tries[k])
    /\ abandoned \in SUBSET Requests
    /\ mishaps \in SUBSET Requests

(* Trying again books twice only if an earlier try took effect without the *)
(* client being told, or without its waiting to be told: an answer 500     *)
(* that the service decides on means that nothing was booked.              *)
BookedTwiceOnlyInDoubt ==
    \A k \in Clients : \A i, j \in DOMAIN Tries[k] :
        i < j /\ {Tries[k][i], Tries[k][j]} \subseteq Stored(bookings)
            => Tries[k][i] \in unknown \cup abandoned

Definite(k) == sent[k] > 0 /\ answer[Latest(k)] \in {201, 400, 404, 409}

\* The tries of a client that ran one after the other and without mishap.
FairTries(k) == {Tries[k][i] : i \in 1 .. sent[k]} \ (abandoned \cup mishaps)

\* Rows that have stopped occupying a box.
Turned(table) == Stored(table) \ Active(table)

\* Each row is made once, and turns inactive at most once.
Changes(table) == Cardinality(Stored(table)) + Cardinality(Turned(table))

(* A serialization failure costs a try, but at most one for each booking   *)
(* that is made and each that is cancelled meanwhile: who has had more     *)
(* undisturbed tries than that has been told whether the place is his.     *)
TryingAgainHelps ==
    \A k \in Clients :
        /\ sent[k] > 0 /\ pc[Latest(k)] = "done"
        /\ Cardinality(FairTries(k)) > Changes(bookings)
        => Definite(k)
=============================================================================

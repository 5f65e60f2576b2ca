--------------------------- MODULE CreateBooking ---------------------------
(***************************************************************************)
(* POST /bookings: internal/usecase/create_booking/usecase.go run by many  *)
(* requests at once, the transaction manager it is given, and what         *)
(* PostgreSQL does with its statements.                                    *)
(*                                                                         *)
(* TxInContext is TRUE for pkg/txmanager, which puts the transaction in    *)
(* the context the repositories read, and FALSE for pkg/simpletxmanager,   *)
(* which does not: there every statement runs on the pool and commits by   *)
(* itself while the transaction that was begun stays empty.                *)
(***************************************************************************)
EXTENDS BookingTable, BookingRules

CONSTANTS
    TxInContext,     \* which transaction manager main.go wired
    Faults,          \* may statements, commits and the process fail?
    Nows,            \* the moments a request may read from the clock
    FetchedBy,       \* FetchedBy[r]: answers the other services may give r
    InitialConfigs   \* the configuration tables to start from

ASSUME CreateAssumption ==
    /\ TxInContext \in BOOLEAN
    /\ Faults \in BOOLEAN
    /\ Nows \subseteq Moment
    /\ FetchedBy \in [Requests -> SUBSET Fetched]
    /\ InitialConfigs \subseteq ConfigTable

VARIABLES
    configs,         \* the committed table company_slots_config
    pc,              \* where each request is
    local,           \* now and IsOpen, read before the transaction
    config,          \* the configuration each request works with
    snapshot,        \* the bookings each transaction sees
    locks,           \* the rows each transaction holds FOR UPDATE
    answer           \* the HTTP status each client received, 0 before one

requestVars == <<pc, local, config, snapshot, locks, answer>>

(* Auxiliary: written beside the steps below, read by the properties only. *)
VARIABLES
    rank,            \* rank[r]: position of r's row in the order of commits
    offered,         \* offered[a]: the box counts in force at address a so far
    unknown          \* requests whose COMMIT took effect unacknowledged

auxVars == <<rank, offered, unknown>>

createVars == <<bookings, configs, requestVars, auxVars>>

InTransaction == {"begun", "configured", "counted", "inserted"}
Pcs == {"idle", "done", "lost"} \cup InTransaction
Answers == {0, 201, 400, 404, 409, 500}

NotRead == [now |-> [day |-> 0, minute |-> 0], open |-> FALSE]
EmptyTable == [r \in Requests |-> NoBooking]

\* The box counts that the configurations of a table, or the default one,
\* give a request at address a.
Boxes(table, a) ==
    {DefaultConfig.maxConcurrent} \cup
    {table[l].maxConcurrent : l \in {m \in Levels : m[1] \in {a, Null} /\ table[m] # NoConfig}}

CreateInit ==
    /\ bookings = EmptyTable
    /\ configs \in InitialConfigs
    /\ pc = [r \in Requests |-> "idle"]
    /\ local = [r \in Requests |-> NotRead]
    /\ config = [r \in Requests |-> DefaultConfig]
    /\ snapshot = [r \in Requests |-> EmptyTable]
    /\ locks = [r \in Requests |-> {}]
    /\ answer = [r \in Requests |-> 0]
    /\ rank = [r \in Requests |-> 0]
    /\ offered = [a \in Addresses |-> Boxes(configs, a)]
    /\ unknown = {}
-----------------------------------------------------------------------------
(* Leaving the transaction: COMMIT and ROLLBACK both drop the snapshot and *)
(* the row locks.  The request's memory goes with it, except the           *)
(* configuration, which the properties compare the row with.               *)

\* Mutant: the row locks are kept.
LeaveLocked(r, where, status) ==
    /\ pc' = [pc EXCEPT ![r] = where]
    /\ answer' = [answer EXCEPT ![r] = status]
    /\ local' = [local EXCEPT ![r] = NotRead]
    /\ snapshot' = [snapshot EXCEPT ![r] = EmptyTable]
    /\ UNCHANGED locks

Leave(r, where, status) ==
    /\ pc' = [pc EXCEPT ![r] = where]
    /\ answer' = [answer EXCEPT ![r] = status]
    /\ local' = [local EXCEPT ![r] = NotRead]
    /\ snapshot' = [snapshot EXCEPT ![r] = EmptyTable]
    /\ locks' = [locks EXCEPT ![r] = {}]

Reply(r, status) == Leave(r, "done", status)

\* The row becomes visible to everybody.
PutRow(r) ==
    /\ bookings' = Create(bookings, r, config[r].slotDuration)
    /\ rank' = [rank EXCEPT ![r] = Cardinality(Stored(bookings)) + 1]
-----------------------------------------------------------------------------
(* The clock is read, then the other services are asked, then BeginTx.     *)
Receive(r) ==
    /\ pc[r] = "idle"
    /\ \E now \in Nows, f \in FetchedBy[r] :
         \/ /\ FetchError(f) = "ok"
            /\ pc' = [pc EXCEPT ![r] = "begun"]
            /\ local' = [local EXCEPT ![r] = [now |-> now, open |-> f.open]]
            /\ UNCHANGED <<snapshot, locks, answer>>
         \/ /\ FetchError(f) # "ok"
            /\ Reply(r, HttpStatus(FetchError(f)))
    /\ UNCHANGED <<bookings, configs, config, auxVars>>

(* The first query of the transaction takes its snapshot, so the SELECTs   *)
(* of the hierarchy all see the configurations of this moment; the checks  *)
(* up to the second query are computed from what they return.              *)
ReadConfig(r) ==
    /\ pc[r] = "begun"
    /\ \E c \in {EffectiveConfig(configs, Body[r].address, Body[r].service)} :
       \E err \in {RuleError(Body[r], local[r].open, local[r].now, c)} :
         /\ config' = [config EXCEPT ![r] = c]
         /\ \/ /\ err = "ok"
               /\ pc' = [pc EXCEPT ![r] = "configured"]
               /\ snapshot' = [snapshot EXCEPT ![r] = IF TxInContext THEN bookings ELSE @]
               /\ UNCHANGED <<local, locks, answer>>
            \/ /\ err # "ok"
               /\ Reply(r, HttpStatus(err))
    /\ UNCHANGED <<bookings, configs, auxVars>>

View(r) == IF TxInContext THEN snapshot[r] ELSE bookings

Candidates(r) == GetByCompanyWithFilter(View(r), Body[r].address, Body[r].date)

Taken(r) == CountOverlappingBookings(View(r), Candidates(r),
                                     Body[r].start, config[r].slotDuration)

\* Mutant: one box too many, and one too few.
HasRoomForOneMore(r) == Taken(r) <= config[r].maxConcurrent
HasRoomToSpare(r) == Taken(r) + 1 < config[r].maxConcurrent

\* With maxConcurrent = 4 a slot with 0, 1, 2 or 3 overlapping bookings is free.
HasRoom(r) == Taken(r) < config[r].maxConcurrent

\* Mutant: no FOR UPDATE.
RowsNotLocked(r) == {}

\* The suffix FOR UPDATE is added when the context carries a transaction.
RowsLocked(r) == IF TxInContext THEN Candidates(r) ELSE {}

LockedByOthers(r) == UNION {locks[q] : q \in Requests \ {r}}

\* Mutant: rows changed since the snapshot are not noticed.
NoLockConflict(r) == FALSE

\* FOR UPDATE reached a row that changed after the snapshot.
LockConflict(r) == TxInContext /\ \E i \in Candidates(r) : bookings[i] # snapshot[r][i]

(* SELECT ... FOR UPDATE waits for the row locks of other transactions.    *)
AtBookings(r) ==
    /\ pc[r] = "configured"
    /\ TxInContext => Candidates(r) \cap LockedByOthers(r) = {}

ReadBookings(r) ==
    /\ AtBookings(r)
    /\ ~LockConflict(r)
    /\ HasRoom(r)
    /\ pc' = [pc EXCEPT ![r] = "counted"]
    /\ locks' = [locks EXCEPT ![r] = RowsLocked(r)]
    /\ UNCHANGED <<bookings, configs, local, config, snapshot, answer, auxVars>>

SlotNotAvailable(r) ==
    /\ AtBookings(r)
    /\ ~LockConflict(r)
    /\ ~HasRoom(r)
    /\ Reply(r, HttpStatus("ErrSlotNotAvailable"))
    /\ UNCHANGED <<bookings, configs, config, auxVars>>

FailLock(r) ==
    /\ AtBookings(r)
    /\ LockConflict(r)
    /\ Reply(r, HttpStatus("ErrInternal"))
    /\ UNCHANGED <<bookings, configs, config, auxVars>>

\* Mutant: the INSERT runs on the pool, not in the transaction.
InsertOnPool(r) ==
    /\ pc[r] = "counted"
    /\ pc' = [pc EXCEPT ![r] = "inserted"]
    /\ PutRow(r)
    /\ UNCHANGED <<configs, local, config, snapshot, locks, answer, offered, unknown>>

(* In a transaction the new row stays invisible; on the pool it is         *)
(* committed by its own statement.                                         *)
Insert(r) ==
    /\ pc[r] = "counted"
    /\ pc' = [pc EXCEPT ![r] = "inserted"]
    /\ IF TxInContext THEN UNCHANGED <<bookings, rank>> ELSE PutRow(r)
    /\ UNCHANGED <<configs, local, config, snapshot, locks, answer, offered, unknown>>

\* Another serializable transaction, unseen by r's snapshot, committed a row
\* r's query would have returned.  Both read the same rows and insert among
\* them, so PostgreSQL lets only the first of the two commit.
SerializationConflict(r) ==
    \E i \in Stored(bookings) :
        /\ snapshot[r][i] = NoBooking
        /\ Body[i].address = Body[r].address
        /\ Body[i].date = Body[r].date

\* Mutant: the transaction is not serializable.
CanCommitUnchecked(r) == pc[r] = "inserted"

CanCommit(r) ==
    /\ pc[r] = "inserted"
    /\ TxInContext => ~SerializationConflict(r)

Commit(r) ==
    /\ CanCommit(r)
    /\ IF TxInContext THEN PutRow(r) ELSE UNCHANGED <<bookings, rank>>
    /\ Reply(r, 201)
    /\ UNCHANGED <<configs, config, offered, unknown>>

\* Mutant: the row stays although COMMIT failed.
FailCommitKept(r) ==
    /\ pc[r] = "inserted"
    /\ TxInContext /\ SerializationConflict(r)
    /\ PutRow(r)
    /\ Reply(r, HttpStatus("CommitFailed"))
    /\ UNCHANGED <<configs, config, offered, unknown>>

\* The manager's error is wrapped, matched by no case of the handler.
FailCommit(r) ==
    /\ pc[r] = "inserted"
    /\ TxInContext /\ SerializationConflict(r)
    /\ Reply(r, HttpStatus("CommitFailed"))
    /\ UNCHANGED <<bookings, configs, config, auxVars>>
-----------------------------------------------------------------------------
(* Faults.                                                                 *)

\* BeginTx, a statement or COMMIT fails, PostgreSQL reports a spurious
\* serialization failure, or the client goes away and the context with it:
\* the manager rolls back and returns the error.
DbError(r) ==
    /\ Faults
    /\ pc[r] \in InTransaction
    /\ Reply(r, HttpStatus("ErrInternal"))
    /\ UNCHANGED <<bookings, configs, config, auxVars>>

\* COMMIT takes effect but its acknowledgement, or the response, is lost.
CommitUnknown(r) ==
    /\ Faults /\ TxInContext
    /\ CanCommit(r)
    /\ PutRow(r)
    /\ Reply(r, HttpStatus("CommitFailed")) \/ Leave(r, "lost", 0)
    /\ unknown' = unknown \cup {r}
    /\ UNCHANGED <<configs, config, offered>>

\* The process dies: clients get no answer, PostgreSQL rolls back.
Crash ==
    /\ Faults
    /\ \E r \in Requests : pc[r] \in InTransaction
    /\ pc' = [r \in Requests |-> IF pc[r] \in InTransaction THEN "lost" ELSE pc[r]]
    /\ local' = [r \in Requests |-> NotRead]
    /\ snapshot' = [r \in Requests |-> EmptyTable]
    /\ locks' = [r \in Requests |-> {}]
    /\ UNCHANGED <<bookings, configs, config, answer, auxVars>>
-----------------------------------------------------------------------------
(* The UPDATE of a PUT /companies/{id}/config, outside any transaction.    *)
WriteConfig(l, c) ==
    /\ configs[l] # NoConfig
    /\ configs' = [configs EXCEPT ![l] = c]
    /\ offered' = [a \in Addresses |->
                     offered[a] \cup (IF l[1] \in {a, Null} THEN {c.maxConcurrent} ELSE {})]
    /\ UNCHANGED <<bookings, requestVars, rank, unknown>>

\* The transaction as far as nothing fails that need not fail.
RequestProgress(r) ==
    \/ ReadConfig(r)
    \/ ReadBookings(r) \/ SlotNotAvailable(r) \/ FailLock(r)
    \/ Insert(r) \/ Commit(r) \/ FailCommit(r)

RequestStep(r) == Receive(r) \/ RequestProgress(r) \/ DbError(r) \/ CommitUnknown(r)

CreateNext ==
    \/ \E r \in Requests : RequestStep(r)
    \/ \E l \in Levels, c \in SlotConfig : WriteConfig(l, c)
    \/ Crash

\* net/http runs every accepted request to its end.  Faults need not happen.
CreateFairness == \A r \in Requests : WF_createVars(RequestProgress(r))

CreateSpec == CreateInit /\ [][CreateNext]_createVars /\ CreateFairness
-----------------------------------------------------------------------------
(* Properties.                                                             *)

CreateTypeOK ==
    /\ BookingsTypeOK
    /\ configs \in ConfigTable
    /\ pc \in [Requests -> Pcs]
    /\ local \in [Requests -> [now : Moment, open : BOOLEAN]]
    /\ config \in [Requests -> SlotConfig]
    /\ snapshot \in [Requests -> [Requests -> Row \cup {NoBooking}]]
    /\ locks \in [Requests -> SUBSET Requests]
    /\ answer \in [Requests -> Answers]
    /\ rank \in [Requests -> Nat]
    /\ offered \in [Addresses -> SUBSET Nat]
    /\ unknown \in SUBSET Requests

SamePlace(i, r) == Body[i].address = Body[r].address /\ Body[i].date = Body[r].date

MinutesOf(r) == Minutes(Body[r].start, bookings[r].duration)

\* Bookings that occupy a box and end before midnight.
Daytime == {i \in Active(bookings) : EndsSameDay(Body[i].start, bookings[i].duration)}

Occupying(r, m) == {i \in Daytime : SamePlace(i, r) /\ m \in MinutesOf(i)}

(* At no minute are there more cars at an address than some configuration  *)
(* of it has had boxes (max_concurrent_bookings): what the count and the   *)
(* serializable transaction of Execute exist for.  Bookings that run into  *)
(* midnight are left out, see CapacityAcrossMidnight.                      *)
CapacityRespected ==
    \A r \in Daytime : \A m \in MinutesOf(r) :
        \E n \in offered[Body[r].address] : Cardinality(Occupying(r, m)) <= n

Earlier(r) ==
    {i \in Daytime : SamePlace(i, r) /\ rank[i] < rank[r] /\ MinutesOf(i) \cap MinutesOf(r) # {}}

(* The sharp form: each booking found fewer than its own limit of the      *)
(* bookings that were committed before it and still stand, whatever was    *)
(* committed, cancelled or reconfigured while its transaction ran.         *)
AdmittedWithinLimit ==
    \A r \in Daytime : Cardinality(Earlier(r)) < config[r].maxConcurrent

(* The client's answer and the table agree: 201 exactly for the requests   *)
(* whose row is stored, up to commits whose outcome the server never       *)
(* learned.  A step that fails half-way leaves nothing behind.             *)
AnswerMatchesTable ==
    \A r \in Requests : r \in Stored(bookings) <=> (answer[r] = 201 \/ r \in unknown)

(* No client is turned away wrongly: when 409 is answered, the table holds *)
(* at least as many bookings sharing a minute with the wished slot as the  *)
(* configuration has boxes.  It holds of the table at that moment, not     *)
(* only of the snapshot, because the rows counted are locked unchanged.    *)
FullWhenRefused(r) ==
    answer'[r] = 409 /\ answer[r] = 0 =>
        config[r].maxConcurrent <=
            Cardinality({i \in Active(bookings) :
                           /\ SamePlace(i, r)
                           /\ ShareMinute(Body[i].start, bookings[i].duration,
                                          Body[r].start, config[r].slotDuration)})

RefusalsJustified == [][\A r \in Requests : FullWhenRefused(r)]_createVars

(* What a transaction counted is still so when it inserts and commits:     *)
(* nobody cancels a row it holds FOR UPDATE.                               *)
CountedRowsHeld ==
    \A r \in Requests : TxInContext /\ pc[r] \in {"counted", "inserted"} =>
        \A i \in Candidates(r) : bookings[i] = snapshot[r][i]

(* A confirmed booking starts no earlier than the notice after the moment  *)
(* its request was received, and no later than the days that may be booked *)
(* in advance: the comparisons of HH:MM strings decide what one would      *)
(* decide on dated times, whenever the notice ends before midnight.        *)
DatedMinute(day, minute) == day * MinutesPerDay + minute

Confirmed(r) == answer'[r] = 201 /\ answer[r] # 201

NoticeGiven(r) ==
    DatedMinute(Body[r].date, Body[r].start) >=
        DatedMinute(local[r].now.day, local[r].now.minute) + config[r].minNotice

WithinBookingWindow ==
    [][\A r \in Requests :
         Confirmed(r) /\ local[r].now.minute + config[r].minNotice < MinutesPerDay =>
            /\ NoticeGiven(r)
            /\ config[r].advanceDays = 0 \/ Body[r].date - local[r].now.day <= config[r].advanceDays
      ]_createVars

(* A date is refused only when it has passed or is more days ahead than    *)
(* may be booked, as the comments of validateDate say, on a server whose   *)
(* zone is UTC.                                                            *)
DatesRefusedRightly ==
    [][\A r \in Requests :
         LET now == local[r].now IN
         /\ pc[r] = "begun" /\ answer'[r] = 400
         /\ local[r].open
         /\ ~TooLateToBook(Body[r].date, Body[r].start, now, config'[r].minNotice)
         /\ ZoneOffset = 0
         => \/ Body[r].date < now.day
            \/ config'[r].advanceDays # 0 /\ Body[r].date > now.day + config'[r].advanceDays
      ]_createVars

(* Every request that reached the database is answered or dropped with the *)
(* process: lock waits end because every lock holder ends.  Requests are   *)
(* finitely many and come once, so in the end no transaction runs.         *)
RequestsEnd == <>[](\A r \in Requests : pc[r] \notin InTransaction)

(* What migrations/000002 says max_concurrent_bookings is, the number of   *)
(* simultaneous bookings, with no exception for the end of the day.        *)
CapacityAcrossMidnight ==
    \A r \in Active(bookings) : \A m \in MinutesOf(r) :
        \E n \in offered[Body[r].address] :
            Cardinality({i \in Active(bookings) : SamePlace(i, r) /\ m \in MinutesOf(i)}) <= n
=============================================================================

------------------------ MODULE CreateBookingProofs ------------------------
(***************************************************************************)
(* The steps of POST /bookings for every value of the constants: types,    *)
(* the rules each request keeps for itself, and the invariant behind       *)
(* capacity and answers under the manager that hands its transaction on.   *)
(* The steps of others are those of the modules that extend CreateBooking. *)
(***************************************************************************)
EXTENDS CreateBooking, RulesProofs, FiniteSetTheorems, TLAPS

(* The handler's switch answers every error with one of the known statuses. *)
LEMMA StatusType ==
    ASSUME NEW err PROVE HttpStatus(err) \in Answers
BY DEF HttpStatus, Answers

(* What a decoded POST body holds.                                         *)
LEMMA RequestType ==
    ASSUME NEW r \in Requests
    PROVE  /\ Body[r].address \in Addresses
           /\ Body[r].service \in Services
           /\ Body[r].user \in Nat
           /\ Body[r].date \in Nat
           /\ Body[r].start \in TimeString
BY RequestsAssumption DEF RequestBody

(* A service that has just started is well-typed.                          *)
LEMMA CreateTypeInit == CreateInit => CreateTypeOK
<1> SUFFICES ASSUME CreateInit PROVE CreateTypeOK
  OBVIOUS
<1> USE DEF CreateInit
<1>1. BookingsTypeOK
  BY DEF BookingsTypeOK, EmptyTable
<1>2. configs \in ConfigTable
  BY CreateAssumption
<1>3. local \in [Requests -> [now : Moment, open : BOOLEAN]]
  BY MinutesPerDayAssumption DEF NotRead, Moment, TimeString
<1>4. config \in [Requests -> SlotConfig]
  BY ConfigAssumption
<1>5. snapshot \in [Requests -> [Requests -> Row \cup {NoBooking}]]
  BY DEF EmptyTable
<1>6. offered \in [Addresses -> SUBSET Nat]
  <2>1. \A c \in SlotConfig : c.maxConcurrent \in Nat
    BY ConfigAssumption
  <2>2. \A a \in Addresses : Boxes(configs, a) \subseteq Nat
    BY <1>2, <2>1, ConfigAssumption DEF Boxes, ConfigTable
  <2> QED
    BY <2>2
<1> QED
  BY <1>1, <1>2, <1>3, <1>4, <1>5, <1>6 DEF CreateTypeOK, Pcs, InTransaction, Answers

(* Every way out of a transaction keeps the types of what it resets.       *)
LEMMA LeaveType ==
    ASSUME CreateTypeOK, NEW r \in Requests, NEW where \in {"done", "lost"},
           NEW status \in Answers, Leave(r, where, status)
    PROVE  /\ pc' \in [Requests -> Pcs]
           /\ local' \in [Requests -> [now : Moment, open : BOOLEAN]]
           /\ snapshot' \in [Requests -> [Requests -> Row \cup {NoBooking}]]
           /\ locks' \in [Requests -> SUBSET Requests]
           /\ answer' \in [Requests -> Answers]
<1> USE DEF CreateTypeOK, Leave
<1>1. NotRead \in [now : Moment, open : BOOLEAN]
  BY MinutesPerDayAssumption DEF NotRead, Moment, TimeString
<1>2. EmptyTable \in [Requests -> Row \cup {NoBooking}]
  BY DEF EmptyTable
<1>3. where \in Pcs
  BY DEF Pcs
<1> QED
  BY <1>1, <1>2, <1>3

\* The row that Execute inserts.
NewRow(r) == [duration |-> config[r].slotDuration, status |-> "confirmed"]

(* The row to insert is a legal one, since no configuration has slots of   *)
(* length zero.                                                            *)
LEMMA NewRowType ==
    ASSUME CreateTypeOK, NEW r \in Requests
    PROVE  NewRow(r) \in Row /\ NewRow(r) # NoBooking
<1>1. config[r].slotDuration \in Nat \ {0}
  BY ConfigAssumption DEF CreateTypeOK
<1> QED
  BY <1>1, RequestsAssumption DEF NewRow, Row, BookingStatus, ActiveStatuses

(* Inserting a row, by INSERT or by COMMIT, keeps the table well-typed.     *)
LEMMA PutRowType ==
    ASSUME CreateTypeOK, NEW r \in Requests, PutRow(r)
    PROVE  /\ BookingsTypeOK'
           /\ rank' \in [Requests -> Nat]
<1>1. BookingsTypeOK'
  BY NewRowType DEF CreateTypeOK, BookingsTypeOK, PutRow, Create, NewRow
<1>2. Cardinality(Stored(bookings)) + 1 \in Nat
  BY RequestsAssumption, FS_Subset, FS_CardinalityType DEF Stored
<1>3. rank' \in [Requests -> Nat]
  BY <1>2 DEF CreateTypeOK, PutRow
<1> QED
  BY <1>1, <1>3

(* No step of POST /bookings, failing ones included, breaks a type.        *)
LEMMA RequestStepType ==
    ASSUME CreateTypeOK, NEW r \in Requests, RequestStep(r)
    PROVE  CreateTypeOK'
<1> USE DEF CreateTypeOK, Reply
<1>1. CASE Receive(r)
  <2>1. PICK now \in Nows, f \in FetchedBy[r] :
          \/ /\ FetchError(f) = "ok"
             /\ pc' = [pc EXCEPT ![r] = "begun"]
             /\ local' = [local EXCEPT ![r] = [now |-> now, open |-> f.open]]
             /\ UNCHANGED <<snapshot, locks, answer>>
          \/ /\ FetchError(f) # "ok"
             /\ Leave(r, "done", HttpStatus(FetchError(f)))
    BY <1>1 DEF Receive
  <2>2. now \in Moment /\ f.open \in BOOLEAN
    BY CreateAssumption DEF Fetched
  <2>3. UNCHANGED <<bookings, configs, config, rank, offered, unknown>>
    BY <1>1 DEF Receive, auxVars
  <2>4. CASE FetchError(f) = "ok"
    <3>1. pc' \in [Requests -> Pcs]
      BY <2>1, <2>4 DEF Pcs, InTransaction
    <3>2. local' \in [Requests -> [now : Moment, open : BOOLEAN]]
      <4> DEFINE read == [now |-> now, open |-> f.open]
      <4>1. read \in [now : Moment, open : BOOLEAN]
        BY <2>2, Zenon
      <4>2. local' = [local EXCEPT ![r] = read]
        BY <2>1, <2>4
      <4> QED
        BY <4>1, <4>2, Zenon
    <3>3. UNCHANGED <<snapshot, locks, answer>>
      BY <2>1, <2>4
    <3> QED
      BY <2>3, <3>1, <3>2, <3>3 DEF BookingsTypeOK
  <2>5. CASE FetchError(f) # "ok"
    BY <2>1, <2>3, <2>5, LeaveType, StatusType DEF BookingsTypeOK
  <2> QED
    BY <2>4, <2>5
<1>2. CASE ReadConfig(r)
  <2> DEFINE c == EffectiveConfig(configs, Body[r].address, Body[r].service)
             err == RuleError(Body[r], local[r].open, local[r].now, c)
  <2>1. c \in SlotConfig
    BY EffectiveConfigType, RequestType
  <2> HIDE DEF c
  <2>2. /\ config' = [config EXCEPT ![r] = c]
        /\ UNCHANGED <<bookings, configs, rank, offered, unknown>>
    BY <1>2 DEF ReadConfig, auxVars, c
  <2>3. config' \in [Requests -> SlotConfig]
    BY <2>1, <2>2
  <2>4. \/ /\ pc' = [pc EXCEPT ![r] = "configured"]
           /\ snapshot' = [snapshot EXCEPT ![r] = IF TxInContext THEN bookings ELSE @]
           /\ UNCHANGED <<local, locks, answer>>
        \/ Leave(r, "done", HttpStatus(err))
    BY <1>2 DEF ReadConfig, c
  <2>5. CASE Leave(r, "done", HttpStatus(err))
    BY <2>2, <2>3, <2>5, LeaveType, StatusType DEF BookingsTypeOK
  <2>6. CASE /\ pc' = [pc EXCEPT ![r] = "configured"]
             /\ snapshot' = [snapshot EXCEPT ![r] = IF TxInContext THEN bookings ELSE @]
             /\ UNCHANGED <<local, locks, answer>>
    BY <2>2, <2>3, <2>6 DEF BookingsTypeOK, Pcs, InTransaction
  <2> QED
    BY <2>4, <2>5, <2>6
<1>3. CASE ReadBookings(r)
  <2>1. RowsLocked(r) \subseteq Requests
    BY DEF RowsLocked, Candidates, GetByCompanyWithFilter, Active, Stored
  <2> QED
    BY <1>3, <2>1 DEF ReadBookings, BookingsTypeOK, auxVars, Pcs, InTransaction
<1>4. CASE SlotNotAvailable(r)
  BY <1>4, LeaveType, StatusType DEF SlotNotAvailable, BookingsTypeOK, auxVars
<1>5. CASE FailLock(r)
  BY <1>5, LeaveType, StatusType DEF FailLock, BookingsTypeOK, auxVars
<1>6. CASE Insert(r)
  <2>1. pc' \in [Requests -> Pcs]
    BY <1>6 DEF Insert, Pcs, InTransaction
  <2>2. BookingsTypeOK' /\ rank' \in [Requests -> Nat]
    BY <1>6, PutRowType DEF Insert, BookingsTypeOK
  <2> QED
    BY <1>6, <2>1, <2>2 DEF Insert
<1>7. CASE Commit(r)
  <2>1. BookingsTypeOK' /\ rank' \in [Requests -> Nat]
    BY <1>7, PutRowType DEF Commit, BookingsTypeOK
  <2> QED
    BY <1>7, <2>1, LeaveType DEF Commit, Answers
<1>8. CASE FailCommit(r)
  BY <1>8, LeaveType, StatusType DEF FailCommit, BookingsTypeOK, auxVars
<1>9. CASE DbError(r)
  BY <1>9, LeaveType, StatusType DEF DbError, BookingsTypeOK, auxVars
<1>10. CASE CommitUnknown(r)
  <2>1. BookingsTypeOK' /\ rank' \in [Requests -> Nat]
    BY <1>10, PutRowType DEF CommitUnknown
  <2>2. 0 \in Answers
    BY DEF Answers
  <2> QED
    BY <1>10, <2>1, <2>2, LeaveType, StatusType DEF CommitUnknown
<1> QED
  BY <1>1, <1>2, <1>3, <1>4, <1>5, <1>6, <1>7, <1>8, <1>9, <1>10 DEF RequestStep, RequestProgress

(* Nor does the UPDATE of PUT .../config.                                  *)
LEMMA ReconfigureType ==
    ASSUME CreateTypeOK, NEW l \in Levels, NEW c \in SlotConfig, WriteConfig(l, c)
    PROVE  CreateTypeOK'
<1> USE DEF CreateTypeOK, WriteConfig, requestVars
<1>1. c.maxConcurrent \in Nat
  BY ConfigAssumption
<1>2. offered' \in [Addresses -> SUBSET Nat]
  BY <1>1
<1>3. configs' \in ConfigTable
  BY DEF ConfigTable
<1> QED
  BY <1>2, <1>3 DEF BookingsTypeOK

(* Nor does the death of the process.                                      *)
LEMMA CrashType ==
    ASSUME CreateTypeOK, Crash
    PROVE  CreateTypeOK'
<1>1. NotRead \in [now : Moment, open : BOOLEAN]
  BY MinutesPerDayAssumption DEF NotRead, Moment, TimeString
<1>2. EmptyTable \in [Requests -> Row \cup {NoBooking}]
  BY DEF EmptyTable
<1>3. pc' \in [Requests -> Pcs]
  BY DEF CreateTypeOK, Crash, Pcs
<1> QED
  BY <1>1, <1>2, <1>3 DEF CreateTypeOK, Crash, auxVars, BookingsTypeOK

(* Writes to the table keep the rows that are there.                       *)
LEMMA RowsStay ==
    ASSUME CreateTypeOK, NEW r \in Requests
    PROVE  /\ PutRow(r) => Stored(bookings)' = Stored(bookings) \cup {r}
           /\ \A s \in BookingStatus : r \in Stored(bookings) =>
                /\ Stored(SetStatus(bookings, r, s)) = Stored(bookings)
                /\ SetStatus(bookings, r, s) \in [Requests -> Row \cup {NoBooking}]
                /\ SetStatus(bookings, r, s)[r].duration = bookings[r].duration
                /\ SetStatus(bookings, r, s)[r].status = s
                /\ \A i \in Requests \ {r} : SetStatus(bookings, r, s)[i] = bookings[i]
<1> USE DEF CreateTypeOK, BookingsTypeOK, Stored
<1>1. ASSUME PutRow(r) PROVE Stored(bookings)' = Stored(bookings) \cup {r}
  <2>1. bookings' = [bookings EXCEPT ![r] = NewRow(r)]
    BY <1>1 DEF PutRow, Create, NewRow
  <2> QED
    BY <2>1, NewRowType
<1>2. ASSUME NEW s \in BookingStatus, bookings[r] # NoBooking
      PROVE  /\ Stored(SetStatus(bookings, r, s)) = Stored(bookings)
             /\ SetStatus(bookings, r, s) \in [Requests -> Row \cup {NoBooking}]
             /\ SetStatus(bookings, r, s)[r].duration = bookings[r].duration
             /\ SetStatus(bookings, r, s)[r].status = s
             /\ \A i \in Requests \ {r} : SetStatus(bookings, r, s)[i] = bookings[i]
  <2>1. bookings[r] \in Row
    BY <1>2
  <2>2. [bookings[r] EXCEPT !.status = s] \in Row
    BY <2>1 DEF Row
  <2>3. SetStatus(bookings, r, s) = [bookings EXCEPT ![r] = [bookings[r] EXCEPT !.status = s]]
    BY DEF SetStatus
  <2>4. SetStatus(bookings, r, s)[r] = [bookings[r] EXCEPT !.status = s]
    BY <2>3
  <2> QED
    BY <1>2, <2>1, <2>2, <2>3, <2>4, RequestsAssumption DEF Row
<1> QED
  BY <1>1, <1>2

-----------------------------------------------------------------------------
(* The rules and the answers.                                              *)

\* Past the first query a request has passed the rules, and neither the clock
\* it read nor its configuration changes any more.
RulesInv ==
    \A r \in Requests : pc[r] \in {"configured", "counted", "inserted"} =>
        RuleError(Body[r], local[r].open, local[r].now, config[r]) = "ok"

(* A request keeps what it has decided while others take their steps.      *)
LEMMA RulesStep ==
    ASSUME CreateTypeOK, RulesInv, NEW q \in Requests, RequestStep(q)
    PROVE  RulesInv'
<1> SUFFICES ASSUME NEW r \in Requests, pc'[r] \in {"configured", "counted", "inserted"}
             PROVE  RuleError(Body[r], local'[r].open, local'[r].now, config'[r]) = "ok"
  BY DEF RulesInv
<1> DEFINE same == pc'[r] = pc[r] /\ local'[r] = local[r] /\ config'[r] = config[r]
<1> USE DEF CreateTypeOK
<1>1. CASE same
  BY <1>1 DEF RulesInv
<1>2. CASE ReadConfig(q)
  <2> DEFINE c == EffectiveConfig(configs, Body[q].address, Body[q].service)
             err == RuleError(Body[q], local[q].open, local[q].now, c)
  <2>1. CASE q = r
    <3>1. pc'[r] # "done"
      OBVIOUS
    <3>2. err = "ok" /\ UNCHANGED local
      BY <1>2, <2>1, <3>1 DEF ReadConfig, Reply, Leave
    <3>3. config' = [config EXCEPT ![q] = c]
      BY <1>2 DEF ReadConfig
    <3> HIDE DEF c
    <3>4. config'[r] = c
      BY <2>1, <3>3
    <3> QED
      BY <2>1, <3>2, <3>4 DEF c
  <2>2. CASE q # r
    <3>1. /\ pc'[r] = pc[r] /\ local'[r] = local[r]
      BY <1>2, <2>2 DEF ReadConfig, Reply, Leave
    <3>2. config'[r] = config[r]
      BY <1>2, <2>2 DEF ReadConfig
    <3> QED
      BY <1>1, <3>1, <3>2
  <2> QED
    BY <2>1, <2>2
<1>3. CASE Receive(q)
  <2>1. pc'[q] \in {"begun", "done"} /\ config' = config
    BY <1>3 DEF Receive, Reply, Leave
  <2>2. q # r
    BY <2>1
  <2>3. pc'[r] = pc[r] /\ local'[r] = local[r]
    BY <1>3, <2>2 DEF Receive, Reply, Leave
  <2> QED
    BY <1>1, <2>1, <2>3
<1>4. CASE ReadBookings(q) \/ Insert(q)
  <2>1. /\ pc[q] \in {"configured", "counted"} /\ UNCHANGED <<local, config>>
        /\ q # r => pc'[r] = pc[r]
    BY <1>4 DEF ReadBookings, AtBookings, Insert
  <2> QED
    BY <2>1 DEF RulesInv
<1>5. ASSUME NEW where \in {"done", "lost"}, NEW status, Leave(q, where, status), config' = config
      PROVE  same
  BY <1>5 DEF Leave
<1>6. CASE SlotNotAvailable(q) \/ FailLock(q) \/ FailCommit(q) \/ DbError(q)
           \/ Commit(q) \/ CommitUnknown(q)
  BY <1>1, <1>5, <1>6 DEF SlotNotAvailable, FailLock, FailCommit, DbError, Commit, CommitUnknown,
                          Reply
<1> QED
  BY <1>2, <1>3, <1>4, <1>6 DEF RequestStep, RequestProgress

LEMMA StatusNeverCreated ==
    ASSUME NEW err PROVE HttpStatus(err) \in {400, 404, 409, 500}
BY DEF HttpStatus

\* 201 comes from COMMIT only.
LEMMA ConfirmedByCommit ==
    ASSUME CreateTypeOK, NEW r \in Requests, RequestStep(r), Confirmed(r)
    PROVE  pc[r] = "inserted"
<1>1. ASSUME NEW where, NEW status, Leave(r, where, status), status # 201
      PROVE  FALSE
  BY <1>1 DEF Leave, CreateTypeOK, Confirmed
<1>2. ~UNCHANGED answer
  BY DEF Confirmed
<1>3. ~DbError(r) /\ ~FailLock(r) /\ ~SlotNotAvailable(r) /\ ~FailCommit(r)
  BY <1>1, StatusNeverCreated DEF DbError, FailLock, SlotNotAvailable, FailCommit, Reply
<1>4. ~Receive(r) /\ ~ReadConfig(r)
  BY <1>1, <1>2, StatusNeverCreated DEF Receive, ReadConfig, Reply
<1>5. ~ReadBookings(r) /\ ~Insert(r)
  BY <1>2 DEF ReadBookings, Insert
<1> QED
  BY <1>3, <1>4, <1>5 DEF RequestStep, RequestProgress, Commit, CommitUnknown, CanCommit

\* Until its first query a request has no answer.
UnansweredInv == \A r \in Requests : pc[r] \in {"idle", "begun"} => answer[r] = 0

LEMMA UnansweredStep ==
    ASSUME CreateTypeOK, UnansweredInv, NEW q \in Requests, RequestStep(q)
    PROVE  UnansweredInv'
<1>1. ASSUME NEW where \in {"done", "lost"}, NEW status, Leave(q, where, status)
      PROVE  UnansweredInv'
  BY <1>1 DEF Leave, CreateTypeOK, UnansweredInv
<1>2. ASSUME NEW where, pc' = [pc EXCEPT ![q] = where], UNCHANGED answer,
             where = "begun" => pc[q] = "idle", where # "idle"
      PROVE  UnansweredInv'
  BY <1>2 DEF CreateTypeOK, UnansweredInv
<1>3. CASE Receive(q) \/ ReadConfig(q)
  BY <1>1, <1>2, <1>3 DEF Receive, ReadConfig, Reply
<1>4. CASE ReadBookings(q) \/ Insert(q)
  BY <1>2, <1>4 DEF ReadBookings, Insert
<1>5. CASE SlotNotAvailable(q) \/ FailLock(q) \/ FailCommit(q) \/ DbError(q)
           \/ Commit(q) \/ CommitUnknown(q)
  BY <1>1, <1>5 DEF SlotNotAvailable, FailLock, FailCommit, DbError, Commit, CommitUnknown, Reply
<1> QED
  BY <1>3, <1>4, <1>5 DEF RequestStep, RequestProgress

\* From "begun" a request is answered 400 by the rules only.
LEMMA RefusedByRules ==
    ASSUME CreateTypeOK, NEW r \in Requests, RequestStep(r), pc[r] = "begun",
           answer'[r] = 400, answer[r] = 0
    PROVE  /\ RuleError(Body[r], local[r].open, local[r].now, config'[r]) # "ok"
           /\ config'[r] \in SlotConfig
<1>1. ~DbError(r)
  BY DEF DbError, Reply, Leave, HttpStatus, CreateTypeOK
<1>2. ReadConfig(r)
  BY <1>1 DEF RequestStep, RequestProgress, Receive, ReadBookings, AtBookings, SlotNotAvailable,
              FailLock, Insert, Commit, CanCommit, FailCommit, CommitUnknown
<1> DEFINE c == EffectiveConfig(configs, Body[r].address, Body[r].service)
<1>3. /\ config' = [config EXCEPT ![r] = c]
      /\ RuleError(Body[r], local[r].open, local[r].now, c) = "ok" => UNCHANGED answer
  BY <1>2 DEF ReadConfig, Reply, Leave, HttpStatus, CreateTypeOK
<1>4. c \in SlotConfig
  BY EffectiveConfigType, RequestType DEF CreateTypeOK
<1> HIDE DEF c
<1>5. config'[r] = c
  BY <1>3 DEF CreateTypeOK
<1> QED
  BY <1>3, <1>4, <1>5

-----------------------------------------------------------------------------
(* The invariant.                                                          *)

Started == {"configured", "counted", "inserted"}

Counted == {"counted", "inserted"}

\* Answers and rows agree, and a request under way has neither.
AnswerInv(r) ==
    /\ r \in Stored(bookings) <=> (answer[r] = 201 \/ r \in unknown)
    /\ pc[r] \notin {"done", "lost"} => answer[r] = 0 /\ r \notin unknown

\* A snapshot ages in one way only: rows are added, and rows become inactive.
SnapshotInv(r) ==
    pc[r] \in Started =>
        \A i \in Stored(snapshot[r]) :
            /\ i \in Stored(bookings)
            /\ bookings[i].duration = snapshot[r][i].duration
            /\ IsActive(bookings[i].status) => IsActive(snapshot[r][i].status)

\* What was counted is locked, unchanged, and left room.
CountInv(r) ==
    pc[r] \in Counted =>
        /\ locks[r] = Candidates(r)
        /\ \A i \in Candidates(r) : bookings[i] = snapshot[r][i]
        /\ HasRoom(r)

\* The limit a request works with has been in force at its address.
OfferInv(r) == pc[r] \in Started => config[r].maxConcurrent \in offered[Body[r].address]

\* Ranks follow the order of commits.
RankInv == \A i \in Stored(bookings) : rank[i] <= Cardinality(Stored(bookings))

RequestInv ==
    \A r \in Requests : AnswerInv(r) /\ SnapshotInv(r) /\ CountInv(r) /\ OfferInv(r)

CreateInv ==
    /\ TxInContext
    /\ CreateTypeOK
    /\ RequestInv
    /\ \A a \in Addresses : Boxes(configs, a) \subseteq offered[a]
    /\ RankInv
    /\ AdmittedWithinLimit
    /\ CapacityRespected

-----------------------------------------------------------------------------
(* Operators.                                                              *)

(* A set of requests within another one has at most as many of them.       *)
LEMMA SmallerSet ==
    ASSUME NEW S \in SUBSET Requests, NEW T \in SUBSET S
    PROVE  /\ Cardinality(S) \in Nat /\ Cardinality(T) \in Nat
           /\ Cardinality(T) <= Cardinality(S)
<1>1. IsFiniteSet(S)
  BY RequestsAssumption, FS_Subset
<1> QED
  BY <1>1, FS_Subset, FS_CardinalityType

(* Adding or taking away one request changes the number by one.            *)
LEMMA OneMore ==
    ASSUME NEW S \in SUBSET Requests, NEW r \in Requests \ S
    PROVE  Cardinality(S \cup {r}) = Cardinality(S) + 1
<1>1. IsFiniteSet(S)
  BY RequestsAssumption, FS_Subset
<1> QED
  BY <1>1, FS_AddElement

(* The hierarchy only finds boxes that the address is offered.             *)
LEMMA EffectiveBoxes ==
    ASSUME NEW table \in ConfigTable, NEW a \in Addresses, NEW s \in Services
    PROVE  EffectiveConfig(table, a, s).maxConcurrent \in Boxes(table, a)
<1> DEFINE try == HierarchyFor(a, s)
           found == {i \in 1 .. 4 : table[try[i]] # NoConfig}
<1>1. \A i \in 1 .. 4 : try[i] \in Levels /\ try[i][1] \in {a, Null}
  BY DEF HierarchyFor, Levels
<1>2. CASE found = {}
  BY <1>2 DEF EffectiveConfig, GetConfigWithHierarchy, Boxes
<1>3. CASE found # {}
  <2>1. \E i \in found : \A j \in found : i <= j
    BY <1>3
  <2> DEFINE best == CHOOSE i \in found : \A j \in found : i <= j
  <2>2. best \in found
    BY <2>1
  <2>3. GetConfigWithHierarchy(table, a, s) = table[try[best]]
    BY <1>3 DEF GetConfigWithHierarchy
  <2>4. table[try[best]].maxConcurrent \in Boxes(table, a)
    BY <1>1, <2>2 DEF Boxes
  <2> QED
    BY <2>2, <2>3, <2>4 DEF EffectiveConfig
<1> QED
  BY <1>2, <1>3

-----------------------------------------------------------------------------
(* Steps of POST /bookings, by what they change.                           *)

QuietTable == UNCHANGED <<bookings, rank, unknown>>

Ends(r) ==
    /\ pc[r] \notin {"done", "lost"} /\ pc'[r] = "done"
    /\ answer'[r] \in {400, 404, 409, 500}
    /\ config'[r] # config[r] => pc[r] = "begun"
    /\ QuietTable

Begins(r) ==
    /\ pc[r] = "idle" /\ pc'[r] = "begun"
    /\ UNCHANGED <<answer, config>>
    /\ QuietTable

Configures(r) ==
    /\ pc[r] = "begun" /\ pc'[r] = "configured"
    /\ config'[r] = EffectiveConfig(configs, Body[r].address, Body[r].service)
    /\ snapshot'[r] = bookings
    /\ UNCHANGED answer
    /\ QuietTable

Counts(r) ==
    /\ pc[r] = "configured" /\ pc'[r] = "counted"
    /\ ReadBookings(r)
    /\ locks'[r] = Candidates(r)
    /\ QuietTable

Inserts(r) ==
    /\ pc[r] = "counted" /\ pc'[r] = "inserted"
    /\ UNCHANGED <<config, snapshot, locks, answer>>
    /\ QuietTable

Commits(r) ==
    /\ pc[r] = "inserted" /\ pc'[r] \in {"done", "lost"}
    /\ CanCommit(r) /\ PutRow(r)
    /\ \/ pc'[r] = "done" /\ answer'[r] = 201 /\ UNCHANGED unknown
       \/ pc'[r] = "done" /\ answer'[r] = 500 /\ unknown' = unknown \cup {r}
       \/ pc'[r] = "lost" /\ answer'[r] = 0 /\ unknown' = unknown \cup {r}
    /\ UNCHANGED config

Effect(r) ==
    Ends(r) \/ Begins(r) \/ Configures(r) \/ Counts(r) \/ Inserts(r) \/ Commits(r)

(* A request changes what belongs to other requests in no way.             *)
LEMMA OthersStay ==
    ASSUME CreateTypeOK, NEW r \in Requests, RequestStep(r), NEW q \in Requests, q # r
    PROVE  /\ pc'[q] = pc[q] /\ config'[q] = config[q] /\ snapshot'[q] = snapshot[q]
           /\ locks'[q] = locks[q] /\ answer'[q] = answer[q]
           /\ q \in unknown' <=> q \in unknown
<1> USE DEF CreateTypeOK
<1>1. CASE Receive(r)
  BY <1>1 DEF Receive, Reply, Leave, auxVars
<1>2. CASE ReadConfig(r)
  BY <1>2 DEF ReadConfig, Reply, Leave, auxVars
<1>3. CASE ReadBookings(r) \/ SlotNotAvailable(r) \/ FailLock(r)
  BY <1>3 DEF ReadBookings, SlotNotAvailable, FailLock, Reply, Leave, auxVars
<1>4. CASE Insert(r) \/ Commit(r) \/ FailCommit(r)
  BY <1>4 DEF Insert, Commit, FailCommit, Reply, Leave, auxVars
<1>5. CASE DbError(r) \/ CommitUnknown(r)
  BY <1>5 DEF DbError, CommitUnknown, Reply, Leave, auxVars
<1> QED
  BY <1>1, <1>2, <1>3, <1>4, <1>5 DEF RequestStep, RequestProgress

(* Every step of a request is one of the six kinds; configurations are     *)
(* written by others.                                                      *)
LEMMA RequestEffect ==
    ASSUME CreateTypeOK, TxInContext, NEW r \in Requests, RequestStep(r)
    PROVE  UNCHANGED <<configs, offered>> /\ Effect(r)
<1> USE DEF CreateTypeOK, Reply, Leave, QuietTable, auxVars
<1>0. \A err : HttpStatus(err) \in {400, 404, 409, 500}
  BY StatusNeverCreated
<1>1. CASE Receive(r)
  <2>1. CASE pc'[r] = "done"
    BY <1>1, <2>1, <1>0 DEF Receive, Ends, Effect
  <2>2. CASE pc'[r] # "done"
    BY <1>1, <2>2 DEF Receive, Begins, Effect
  <2> QED
    BY <1>1, <2>1, <2>2 DEF Receive
<1>2. CASE ReadConfig(r)
  <2> DEFINE c == EffectiveConfig(configs, Body[r].address, Body[r].service)
             err == RuleError(Body[r], local[r].open, local[r].now, c)
  <2>1. /\ pc[r] = "begun" /\ config' = [config EXCEPT ![r] = c]
        /\ UNCHANGED <<configs, offered, bookings, rank, unknown>>
    BY <1>2 DEF ReadConfig
  <2>2. \/ /\ pc' = [pc EXCEPT ![r] = "configured"]
           /\ snapshot' = [snapshot EXCEPT ![r] = IF TxInContext THEN bookings ELSE @]
           /\ UNCHANGED <<local, locks, answer>>
        \/ Reply(r, HttpStatus(err))
    BY <1>2 DEF ReadConfig
  <2>3. CASE Reply(r, HttpStatus(err))
    <3> HIDE DEF err, c
    <3> QED
      BY <2>1, <2>3, <1>0 DEF Ends, Effect
  <2>4. CASE /\ pc' = [pc EXCEPT ![r] = "configured"]
             /\ snapshot' = [snapshot EXCEPT ![r] = IF TxInContext THEN bookings ELSE @]
             /\ UNCHANGED <<local, locks, answer>>
    <3> HIDE DEF c
    <3>1. config'[r] = c
      BY <2>1
    <3> QED
      BY <2>1, <2>4, <3>1 DEF Configures, Effect, c
  <2> QED
    BY <2>1, <2>2, <2>3, <2>4
<1>3. CASE ReadBookings(r)
  <2>1. Counts(r)
    BY <1>3 DEF ReadBookings, AtBookings, RowsLocked, Counts
  <2> QED
    BY <1>3, <2>1 DEF ReadBookings, Effect
<1>4. CASE SlotNotAvailable(r) \/ FailLock(r) \/ FailCommit(r) \/ DbError(r)
  <2>1. PICK err : Leave(r, "done", HttpStatus(err))
    BY <1>4 DEF SlotNotAvailable, FailLock, FailCommit, DbError
  <2>2. pc[r] \in InTransaction
    BY <1>4 DEF SlotNotAvailable, FailLock, FailCommit, DbError, AtBookings, InTransaction
  <2>3. UNCHANGED <<bookings, configs, config, auxVars>>
    BY <1>4 DEF SlotNotAvailable, FailLock, FailCommit, DbError
  <2> QED
    BY <2>1, <2>2, <2>3, <1>0 DEF InTransaction, Ends, Effect
<1>5. CASE Insert(r)
  BY <1>5 DEF Insert, Inserts, Effect
<1>6. CASE Commit(r)
  BY <1>6 DEF Commit, CanCommit, Commits, Effect
<1>7. CASE CommitUnknown(r)
  BY <1>7 DEF CommitUnknown, CanCommit, HttpStatus, Commits, Effect
<1> QED
  BY <1>1, <1>2, <1>3, <1>4, <1>5, <1>6, <1>7 DEF RequestStep, RequestProgress

(* What a commit leaves in the table: the row itself, and all others.      *)
LEMMA RowCommitted ==
    ASSUME CreateTypeOK, NEW r \in Requests, PutRow(r)
    PROVE  /\ bookings'[r] = NewRow(r) /\ NewRow(r) \in Row /\ NewRow(r) # NoBooking
           /\ bookings'[r].duration = config[r].slotDuration
           /\ bookings'[r].status = "confirmed"
           /\ \A q \in Requests \ {r} : bookings'[q] = bookings[q] /\ rank'[q] = rank[q]
           /\ rank'[r] = Cardinality(Stored(bookings)) + 1
           /\ Stored(bookings)' = Stored(bookings) \cup {r}
<1>1. bookings' = [bookings EXCEPT ![r] = NewRow(r)]
  BY DEF PutRow, Create, NewRow
<1>2. bookings'[r] = NewRow(r)
  BY <1>1 DEF CreateTypeOK, BookingsTypeOK
<1>3. NewRow(r).duration = config[r].slotDuration /\ NewRow(r).status = "confirmed"
  BY DEF NewRow
<1> QED
  BY <1>1, <1>2, <1>3, NewRowType, RowsStay DEF PutRow, CreateTypeOK, BookingsTypeOK

-----------------------------------------------------------------------------
(* The conjuncts of the invariant under a step of a request.               *)

(* What a request has counted depends on its snapshot and its              *)
(* configuration only.                                                     *)
LEMMA CountedStays ==
    ASSUME TxInContext, NEW q \in Requests, snapshot'[q] = snapshot[q], config'[q] = config[q]
    PROVE  Candidates(q)' = Candidates(q) /\ (HasRoom(q)' <=> HasRoom(q))
<1>1. Candidates(q)' = Candidates(q)
  BY DEF Candidates, View, GetByCompanyWithFilter, Active, Stored
<1>2. Taken(q)' = Taken(q)
  BY <1>1 DEF Taken, View, CountOverlappingBookings, Overlapping
<1> QED
  BY <1>1, <1>2 DEF HasRoom

(* Only the request that commits is answered 201 or stored.                *)
LEMMA AnswerStep ==
    ASSUME CreateTypeOK, RequestInv, TxInContext, NEW r \in Requests, RequestStep(r),
           NEW q \in Requests
    PROVE  AnswerInv(q)'
<1>1. CreateTypeOK /\ AnswerInv(q)
  BY DEF RequestInv
<1>2. Effect(r)
  BY <1>1, RequestEffect
<1>3. CASE q # r
  <2>1. q \in Stored(bookings)' <=> q \in Stored(bookings)
    BY <1>1, <1>2, <1>3, RowCommitted
    DEF Effect, Ends, Begins, Configures, Counts, Inserts, Commits, QuietTable, Stored
  <2> QED
    BY <1>1, <1>3, <2>1, OthersStay DEF AnswerInv
<1>4. CASE q = r
  <2>1. CASE Commits(r)
    BY <1>1, <1>4, <2>1, RowCommitted DEF Commits, AnswerInv
  <2>2. CASE Ends(r)
    BY <1>1, <1>4, <2>2 DEF Ends, QuietTable, AnswerInv, Stored
  <2>3. CASE Begins(r) \/ Configures(r) \/ Inserts(r)
    BY <1>1, <1>4, <2>3 DEF Begins, Configures, Inserts, QuietTable, AnswerInv, Stored
  <2>4. CASE Counts(r)
    BY <1>1, <1>4, <2>4 DEF Counts, ReadBookings, auxVars, AnswerInv, Stored
  <2> QED
    BY <1>2, <2>1, <2>2, <2>3, <2>4 DEF Effect
<1> QED
  BY <1>3, <1>4

(* A request that is still to commit has no row in the table.              *)
LEMMA NewcomerHasNoRow ==
    ASSUME RequestInv, NEW r \in Requests, Commits(r)
    PROVE  r \notin Stored(bookings) /\ answer[r] = 0 /\ r \notin unknown
BY DEF RequestInv, AnswerInv, Commits

(* A step of a request deletes and changes no row.                         *)
LEMMA RowsPersist ==
    ASSUME CreateTypeOK, RequestInv, TxInContext, NEW r \in Requests, RequestStep(r)
    PROVE  \A i \in Stored(bookings) : i \in Stored(bookings)' /\ bookings'[i] = bookings[i]
<1>1. CASE Commits(r)
  <2>1. PutRow(r) /\ r \notin Stored(bookings)
    BY <1>1, NewcomerHasNoRow DEF Commits
  <2>2. /\ \A i \in Requests \ {r} : bookings'[i] = bookings[i]
        /\ Stored(bookings)' = Stored(bookings) \cup {r}
    BY <2>1, RowCommitted
  <2>3. Stored(bookings) \subseteq Requests
    BY DEF Stored
  <2> QED
    BY <2>1, <2>2, <2>3
<1>2. CASE UNCHANGED bookings
  BY <1>2 DEF Stored
<1>3. Effect(r)
  BY RequestEffect
<1> QED
  BY <1>1, <1>2, <1>3 DEF Effect, Ends, Begins, Configures, Counts, Inserts, QuietTable

(* A commit adds a row that no snapshot has.                               *)
LEMMA SnapshotStep ==
    ASSUME CreateTypeOK, RequestInv, TxInContext, NEW r \in Requests, RequestStep(r),
           NEW q \in Requests
    PROVE  SnapshotInv(q)'
<1>1. CreateTypeOK /\ SnapshotInv(q)
  BY DEF RequestInv
<1>2. Effect(r)
  BY <1>1, RequestEffect
<1>3. \A i \in Stored(bookings) : i \in Stored(bookings)' /\ bookings'[i] = bookings[i]
  BY <1>1, RowsPersist
<1>4. ASSUME snapshot'[q] = snapshot[q], pc'[q] \in Started => pc[q] \in Started
      PROVE  SnapshotInv(q)'
  BY <1>1, <1>3, <1>4 DEF SnapshotInv, Stored
<1>5. CASE q # r
  BY <1>4, <1>5, <1>1, OthersStay
<1>6. CASE q = r /\ Configures(r)
  BY <1>1, <1>6 DEF SnapshotInv, Configures, QuietTable, Stored
<1>7. CASE q = r /\ ~Configures(r)
  <2>1. CASE Counts(r) \/ Inserts(r)
    BY <1>4, <1>7, <2>1 DEF Counts, ReadBookings, Inserts, Started
  <2>2. CASE Ends(r) \/ Begins(r) \/ Commits(r)
    BY <1>7, <2>2 DEF Ends, Begins, Commits, SnapshotInv, Started
  <2> QED
    BY <1>2, <1>7, <2>1, <2>2 DEF Effect
<1> QED
  BY <1>5, <1>6, <1>7

(* Counted rows are not those of a newcomer.                               *)
LEMMA CountStep ==
    ASSUME CreateTypeOK, RequestInv, TxInContext, NEW r \in Requests, RequestStep(r),
           NEW q \in Requests
    PROVE  CountInv(q)'
<1>1. CreateTypeOK /\ CountInv(q) /\ SnapshotInv(q)
  BY DEF RequestInv
<1>2. Effect(r)
  BY <1>1, RequestEffect
<1>3. \A i \in Stored(bookings) : bookings'[i] = bookings[i]
  BY <1>1, RowsPersist
<1>4. Candidates(q) \subseteq Stored(snapshot[q])
  BY DEF Candidates, View, GetByCompanyWithFilter, Active
<1>5. ASSUME snapshot'[q] = snapshot[q], config'[q] = config[q], locks'[q] = locks[q],
             pc'[q] \in Counted => pc[q] \in Counted
      PROVE  CountInv(q)'
  <2> SUFFICES ASSUME pc'[q] \in Counted
               PROVE  /\ locks'[q] = Candidates(q)'
                      /\ \A i \in Candidates(q)' : bookings'[i] = snapshot'[q][i]
                      /\ HasRoom(q)'
    BY DEF CountInv
  <2>1. /\ locks[q] = Candidates(q)
        /\ \A i \in Candidates(q) : bookings[i] = snapshot[q][i]
        /\ HasRoom(q)
    BY <1>1, <1>5 DEF CountInv
  <2>2. \A i \in Candidates(q) : bookings'[i] = snapshot[q][i]
    BY <1>1, <1>3, <1>4, <1>5, <2>1 DEF SnapshotInv, Started, Counted
  <2> QED
    BY <1>5, <2>1, <2>2, CountedStays
<1>6. CASE q # r
  BY <1>1, <1>5, <1>6, OthersStay
<1>7. CASE q = r /\ Counts(r)
  <2>1. /\ locks'[r] = Candidates(r) /\ ~LockConflict(r) /\ HasRoom(r)
        /\ UNCHANGED <<snapshot, config, bookings>>
    BY <1>7 DEF Counts, ReadBookings
  <2>2. Candidates(r)' = Candidates(r) /\ HasRoom(r)'
    BY <2>1, CountedStays
  <2>3. \A i \in Candidates(r) : bookings'[i] = snapshot'[r][i]
    BY <2>1 DEF LockConflict
  <2> QED
    BY <1>7, <2>1, <2>2, <2>3 DEF CountInv
<1>8. CASE q = r /\ Inserts(r)
  BY <1>5, <1>8 DEF Inserts, Counted
<1>9. CASE q = r /\ (Ends(r) \/ Begins(r) \/ Configures(r) \/ Commits(r))
  BY <1>9 DEF Ends, Begins, Configures, Commits, CountInv, Counted
<1> QED
  BY <1>2, <1>6, <1>7, <1>8, <1>9 DEF Effect

(* The lookup gives a limit that is on offer.                              *)
LEMMA OfferStep ==
    ASSUME CreateTypeOK, RequestInv, TxInContext, \A a \in Addresses : Boxes(configs, a) \subseteq offered[a],
           NEW r \in Requests, RequestStep(r), NEW q \in Requests
    PROVE  OfferInv(q)'
<1>1. CreateTypeOK /\ OfferInv(q)
  BY DEF RequestInv
<1>2. Effect(r) /\ offered' = offered
  BY <1>1, RequestEffect
<1>3. ASSUME config'[q] = config[q], pc'[q] \in Started => pc[q] \in Started
      PROVE  OfferInv(q)'
  BY <1>1, <1>2, <1>3 DEF OfferInv
<1>4. CASE q # r
  BY <1>1, <1>3, <1>4, OthersStay
<1>5. CASE q = r /\ Configures(r)
  <2>1. config'[r].maxConcurrent \in Boxes(configs, Body[r].address)
    BY <1>1, <1>5, EffectiveBoxes, RequestType DEF Configures, CreateTypeOK
  <2> QED
    BY <1>2, <1>5, <2>1, RequestType DEF OfferInv
<1>6. CASE q = r /\ (Counts(r) \/ Inserts(r))
  BY <1>3, <1>6 DEF Counts, ReadBookings, Inserts, Started
<1>7. CASE q = r /\ (Ends(r) \/ Begins(r) \/ Commits(r))
  BY <1>7 DEF Ends, Begins, Commits, OfferInv, Started
<1> QED
  BY <1>2, <1>4, <1>5, <1>6, <1>7 DEF Effect

(* The newest row has the highest rank.                                    *)
LEMMA RankStep ==
    ASSUME CreateTypeOK, RequestInv, RankInv, TxInContext, NEW r \in Requests, RequestStep(r)
    PROVE  RankInv'
<1>1. CreateTypeOK /\ Effect(r)
  BY RequestEffect
<1>2. CASE Commits(r)
  <2>1. Stored(bookings)' = Stored(bookings) \cup {r} /\ r \notin Stored(bookings)
    BY <1>1, <1>2, RowCommitted, NewcomerHasNoRow DEF Commits
  <2>2. Stored(bookings) \in SUBSET Requests
    BY DEF Stored
  <2>3. Cardinality(Stored(bookings)') = Cardinality(Stored(bookings)) + 1
    BY <2>1, <2>2, OneMore
  <2>4. Cardinality(Stored(bookings)) \in Nat
    BY <2>2, SmallerSet
  <2>5. rank \in [Requests -> Nat]
    BY <1>1 DEF CreateTypeOK
  <2>6. \A i \in Stored(bookings)' : rank'[i] <= Cardinality(Stored(bookings)) + 1
    BY <1>1, <1>2, <2>1, <2>2, <2>4, <2>5, RowCommitted DEF Commits, RankInv
  <2> QED
    BY <2>1, <2>3, <2>6 DEF RankInv, Stored
<1>3. CASE ~Commits(r)
  BY <1>1, <1>3 DEF Effect, Ends, Begins, Configures, Counts, Inserts, QuietTable, RankInv, Stored
<1> QED
  BY <1>2, <1>3

-----------------------------------------------------------------------------
(* Admission.                                                              *)

(* The heart of the matter: when a request may commit, the bookings in its *)
(* way in the table are among those it counted in its snapshot.  A row it  *)
(* did not see is of another place or would be a serialization conflict,   *)
(* and rows it saw can only have become inactive.                          *)
InTheWay(r) ==
    {i \in Active(bookings) :
        /\ SamePlace(i, r)
        /\ SlotOverlaps(Body[r].start, config[r].slotDuration, Body[i].start, bookings[i].duration)}

LEMMA CountedAll ==
    ASSUME CreateTypeOK, RequestInv, TxInContext, NEW r \in Requests, pc[r] = "inserted", CanCommit(r)
    PROVE  /\ InTheWay(r) \in SUBSET Requests
           /\ Cardinality(InTheWay(r)) < config[r].maxConcurrent
<1> DEFINE Seen == Overlapping(View(r), Candidates(r), Body[r].start, config[r].slotDuration)
<1>1. SnapshotInv(r) /\ HasRoom(r) /\ CreateTypeOK
  BY DEF RequestInv, CountInv, Counted
<1>2. ASSUME NEW i \in InTheWay(r) PROVE i \in Seen
  <2>1. /\ i \in Stored(bookings) /\ IsActive(bookings[i].status)
        /\ Body[i].address = Body[r].address /\ Body[i].date = Body[r].date
        /\ SlotOverlaps(Body[r].start, config[r].slotDuration, Body[i].start, bookings[i].duration)
    BY <1>2 DEF InTheWay, Active, SamePlace
  <2>2. snapshot[r][i] # NoBooking
    BY <2>1 DEF CanCommit, SerializationConflict
  <2>3. i \in Stored(snapshot[r])
    BY <2>1, <2>2 DEF Stored
  <2>4. bookings[i].duration = snapshot[r][i].duration /\ IsActive(snapshot[r][i].status)
    BY <1>1, <2>1, <2>3 DEF SnapshotInv, Started
  <2> QED
    BY <2>1, <2>3, <2>4 DEF Overlapping, Candidates, View, GetByCompanyWithFilter, Active
<1>3. Seen \in SUBSET Requests /\ InTheWay(r) \in SUBSET Seen
  BY <1>2 DEF Overlapping, Candidates, View, GetByCompanyWithFilter, Active, Stored
<1>4. Cardinality(Seen) < config[r].maxConcurrent
  BY <1>1 DEF HasRoom, Taken, CountOverlappingBookings
<1>5. config[r].maxConcurrent \in Nat
  BY <1>1, ConfigAssumption DEF CreateTypeOK
<1> HIDE DEF Seen
<1> QED
  BY <1>3, <1>4, <1>5, SmallerSet

\* The bookings that share a minute with r's, once it is in the table.
Sharing(r) == {i \in Daytime : i # r /\ SamePlace(i, r) /\ MinutesOf(i) \cap MinutesOf(r) # {}}

(* So a booking that is admitted finds fewer than its limit in the table.  *)
LEMMA Admitted ==
    ASSUME CreateTypeOK, RequestInv, TxInContext, NEW r \in Requests, Commits(r), r \in Daytime'
    PROVE  /\ Sharing(r)' \in SUBSET Requests
           /\ Cardinality(Sharing(r)') < config[r].maxConcurrent
<1>1. CreateTypeOK /\ PutRow(r) /\ UNCHANGED config
  BY DEF Commits
<1>2. /\ Cardinality(InTheWay(r)) < config[r].maxConcurrent
      /\ InTheWay(r) \in SUBSET Requests
  BY CountedAll DEF Commits
<1>3. ASSUME NEW i \in Sharing(r)' PROVE i \in InTheWay(r)
  <2>1. /\ i \in Requests /\ i # r /\ i \in Daytime'
        /\ SamePlace(i, r) /\ (MinutesOf(i) \cap MinutesOf(r))' # {}
    BY <1>3 DEF Sharing, Daytime, Active, Stored, SamePlace
  <2>2. bookings'[i] = bookings[i] /\ bookings'[r].duration = config[r].slotDuration
    BY <1>1, <2>1, RowCommitted
  <2>3. /\ i \in Active(bookings)
        /\ EndsSameDay(Body[i].start, bookings[i].duration)
        /\ EndsSameDay(Body[r].start, config[r].slotDuration)
    BY <2>1, <2>2 DEF Daytime, Active, Stored
  <2>4. ShareMinute(Body[r].start, config[r].slotDuration, Body[i].start, bookings[i].duration)
    BY <2>1, <2>2 DEF ShareMinute, MinutesOf
  <2>5. bookings[i].duration \in Nat \ {0} /\ config[r].slotDuration \in Nat \ {0}
    BY <1>1, <2>3, ConfigAssumption DEF CreateTypeOK, BookingsTypeOK, Active, Stored, Row
  <2>6. Body[i].start \in TimeString /\ Body[r].start \in TimeString
    BY <2>1, RequestType
  <2>7. SlotOverlaps(Body[r].start, config[r].slotDuration, Body[i].start, bookings[i].duration)
    BY <2>3, <2>4, <2>5, <2>6, OverlapSeen
  <2> QED
    BY <2>1, <2>3, <2>7 DEF InTheWay
<1>4. Sharing(r)' \in SUBSET InTheWay(r)
  BY <1>3
<1>5. config[r].maxConcurrent \in Nat
  BY <1>1, ConfigAssumption DEF CreateTypeOK
<1> QED
  BY <1>2, <1>4, <1>5, SmallerSet

(* The row of a commit is later than all others, so it is in the account   *)
(* of nobody but its own request.                                          *)
LEMMA AdmittedStep ==
    ASSUME CreateTypeOK, RequestInv, RankInv, AdmittedWithinLimit, TxInContext,
           NEW r \in Requests, RequestStep(r)
    PROVE  AdmittedWithinLimit'
<1>1. CreateTypeOK /\ Effect(r)
  BY RequestEffect
<1>2. ASSUME ~Commits(r) PROVE AdmittedWithinLimit'
  <2>1. UNCHANGED <<bookings, rank>>
    BY <1>1, <1>2 DEF Effect, Ends, Begins, Configures, Counts, Inserts, QuietTable
  <2>2. ASSUME NEW q \in Daytime PROVE config'[q] = config[q]
    <3>1. q \in Requests /\ q \in Stored(bookings)
      BY <2>2 DEF Daytime, Active, Stored
    <3>2. CASE q # r
      BY <1>1, <3>1, <3>2, OthersStay
    <3>3. CASE q = r
      <4>1. pc[r] \in {"done", "lost"}
        BY <3>1, <3>3 DEF RequestInv, AnswerInv
      <4> QED
        BY <1>1, <1>2, <4>1 DEF Effect, Ends, Begins, Configures, Counts, Inserts
    <3> QED
      BY <3>2, <3>3
  <2>3. Daytime' = Daytime /\ \A q \in Daytime : Earlier(q)' = Earlier(q)
    BY <2>1 DEF Daytime, Active, Stored, Earlier, MinutesOf
  <2> QED
    BY <2>2, <2>3 DEF AdmittedWithinLimit
<1>3. ASSUME Commits(r) PROVE AdmittedWithinLimit'
  <2> SUFFICES ASSUME NEW q \in Daytime'
               PROVE  Cardinality(Earlier(q)') < config[q].maxConcurrent
    BY <1>3 DEF AdmittedWithinLimit, Commits
  <2>1. /\ Stored(bookings)' = Stored(bookings) \cup {r} /\ r \notin Stored(bookings)
        /\ \A i \in Stored(bookings) : bookings'[i] = bookings[i] /\ rank'[i] = rank[i]
        /\ rank'[r] = Cardinality(Stored(bookings)) + 1
    <3>1. PutRow(r)
      BY <1>3 DEF Commits
    <3>2. r \notin Stored(bookings)
      BY <1>3, NewcomerHasNoRow
    <3> QED
      BY <1>1, <3>1, <3>2, RowCommitted DEF Stored
  <2>2. Stored(bookings) \in SUBSET Requests /\ Cardinality(Stored(bookings)) \in Nat
    BY SmallerSet DEF Stored
  <2>3. q \in Requests /\ q \in Stored(bookings)'
    BY DEF Daytime, Active, Stored
  <2>4. config[q].maxConcurrent \in Nat
    BY <1>1, <2>3, ConfigAssumption DEF CreateTypeOK
  <2>5. CASE q = r
    <3>1. Earlier(r)' \in SUBSET Sharing(r)'
      <4> SUFFICES ASSUME NEW i \in Earlier(r)' PROVE i \in Sharing(r)'
        OBVIOUS
      <4>1. /\ i \in Daytime' /\ SamePlace(i, r) /\ (MinutesOf(i) \cap MinutesOf(r))' # {}
            /\ rank'[i] < rank'[r]
        BY DEF Earlier, SamePlace
      <4>2. i # r
        BY <4>1, <2>1, <2>2
      <4> QED
        BY <4>1, <4>2 DEF Sharing, SamePlace
    <3> QED
      BY <1>3, <2>4, <2>5, <3>1, Admitted, SmallerSet
  <2>6. CASE q # r
    <3>1. q \in Stored(bookings) /\ bookings'[q] = bookings[q] /\ q \in Daytime
      BY <2>1, <2>3, <2>6 DEF Daytime, Active, Stored
    <3>2. ASSUME NEW i \in Earlier(q)' PROVE i \in Earlier(q)
      <4>1. /\ i \in Daytime' /\ SamePlace(i, q) /\ (MinutesOf(i) \cap MinutesOf(q))' # {}
            /\ rank'[i] < rank'[q] /\ i \in Stored(bookings)'
        BY <3>2 DEF Earlier, SamePlace, Daytime, Active
      <4>2. i # r
        <5>1. rank[q] <= Cardinality(Stored(bookings)) /\ rank'[q] = rank[q]
          BY <2>1, <3>1 DEF RankInv
        <5>2. rank[q] \in Nat
          BY <1>1, <2>3 DEF CreateTypeOK
        <5> QED
          BY <2>1, <2>2, <4>1, <5>1, <5>2
      <4>3. i \in Stored(bookings) /\ bookings'[i] = bookings[i] /\ rank'[i] = rank[i]
            /\ rank'[q] = rank[q]
        BY <2>1, <3>1, <4>1, <4>2
      <4> QED
        BY <3>1, <4>1, <4>3 DEF Earlier, Daytime, Active, Stored, MinutesOf
    <3>3. Earlier(q) \in SUBSET Requests
      BY DEF Earlier, Daytime, Active, Stored
    <3>4. Cardinality(Earlier(q)) < config[q].maxConcurrent
      BY <3>1 DEF AdmittedWithinLimit
    <3>5. Earlier(q)' \in SUBSET Earlier(q)
      BY <3>2
    <3> QED
      BY <2>4, <3>3, <3>4, <3>5, SmallerSet
  <2> QED
    BY <2>5, <2>6
<1> QED
  BY <1>2, <1>3

(* A commit adds at most one to the number of cars at a minute, and then   *)
(* the limit of the request that commits bounds it.                        *)
LEMMA CapacityStep ==
    ASSUME CreateTypeOK, RequestInv, CapacityRespected, TxInContext,
           NEW r \in Requests, RequestStep(r)
    PROVE  CapacityRespected'
<1>1. CreateTypeOK /\ Effect(r) /\ offered' = offered
  BY RequestEffect
<1>2. ASSUME ~Commits(r) PROVE CapacityRespected'
  <2>1. UNCHANGED <<bookings, offered>>
    BY <1>1, <1>2 DEF Effect, Ends, Begins, Configures, Counts, Inserts, QuietTable
  <2> QED
    BY SMTT(30), <2>1 DEF CapacityRespected, Daytime, Active, Stored, MinutesOf, Occupying
<1>3. ASSUME Commits(r) PROVE CapacityRespected'
  <2> SUFFICES ASSUME NEW q \in Daytime', NEW m \in MinutesOf(q)'
               PROVE  \E n \in offered[Body[q].address] : Cardinality(Occupying(q, m)') <= n
    BY <1>1 DEF CapacityRespected
  <2>1. /\ Stored(bookings)' = Stored(bookings) \cup {r}
        /\ \A i \in Requests \ {r} : bookings'[i] = bookings[i]
    BY <1>1, <1>3, RowCommitted DEF Commits
  <2>2. \A i \in Daytime' : i \in Requests /\ (i # r => i \in Daytime)
    BY <2>1 DEF Daytime, Active, Stored
  <2>3. Occupying(q, m)' \in SUBSET Requests /\ Occupying(q, m) \in SUBSET Requests
    BY DEF Occupying, Daytime, Active, Stored
  <2>4. CASE r \in Occupying(q, m)'
    <3>1. r \in Daytime' /\ SamePlace(r, q) /\ m \in MinutesOf(r)'
      BY <2>4 DEF Occupying, SamePlace
    <3>2. Sharing(r)' \in SUBSET Requests /\ Cardinality(Sharing(r)') < config[r].maxConcurrent
      BY <1>3, <3>1, Admitted
    <3>3. r \notin Sharing(r)'
      BY DEF Sharing
    <3>4. Occupying(q, m)' \subseteq Sharing(r)' \cup {r}
      <4> SUFFICES ASSUME NEW i \in Occupying(q, m)', i # r PROVE i \in Sharing(r)'
        OBVIOUS
      <4>1. i \in Daytime' /\ SamePlace(i, q) /\ m \in MinutesOf(i)'
        BY DEF Occupying, SamePlace
      <4> QED
        BY <3>1, <4>1 DEF Sharing, SamePlace
    <3>5. Cardinality(Sharing(r)' \cup {r}) = Cardinality(Sharing(r)') + 1
      BY <3>2, <3>3, OneMore
    <3>6. /\ Cardinality(Occupying(q, m)') <= Cardinality(Sharing(r)' \cup {r})
          /\ Cardinality(Occupying(q, m)') \in Nat
      BY <3>2, <3>4, SmallerSet
    <3>7. Cardinality(Sharing(r)') \in Nat
      BY <3>2, SmallerSet
    <3>8. config[r].maxConcurrent \in offered[Body[q].address]
      BY <1>3, <3>1 DEF RequestInv, OfferInv, Commits, Started, SamePlace
    <3>9. config[r].maxConcurrent \in Nat
      BY <1>1, ConfigAssumption DEF CreateTypeOK
    <3>10. Cardinality(Occupying(q, m)') <= config[r].maxConcurrent
      BY <3>2, <3>5, <3>6, <3>7, <3>9
    <3> QED
      BY <3>8, <3>10
  <2>5. CASE r \notin Occupying(q, m)'
    <3>1. q # r
      BY <2>5 DEF Occupying, SamePlace
    <3>2. q \in Daytime /\ m \in MinutesOf(q)
      BY <2>1, <2>2, <3>1 DEF MinutesOf
    <3>3. Occupying(q, m)' \in SUBSET Occupying(q, m)
      BY <2>1, <2>2, <2>5 DEF Occupying, MinutesOf, SamePlace
    <3>4. PICK n \in offered[Body[q].address] : Cardinality(Occupying(q, m)) <= n
      BY <3>2 DEF CapacityRespected
    <3>5. n \in Nat
      <4>1. Body[q].address \in Addresses
        BY <2>2, RequestType
      <4> QED
        BY <1>1, <3>4, <4>1 DEF CreateTypeOK
    <3>6. Cardinality(Occupying(q, m)') <= n
      BY <2>3, <3>3, <3>4, <3>5, SmallerSet
    <3> QED
      BY <3>6
  <2> QED
    BY <2>4, <2>5
<1> QED
  BY <1>2, <1>3

(* When rows only become inactive and offers only grow, limits stay kept.  *)
LEMMA FewerRows ==
    ASSUME CreateTypeOK, AdmittedWithinLimit, CapacityRespected,
           \A i \in Daytime' : i \in Daytime /\ bookings'[i].duration = bookings[i].duration,
           UNCHANGED <<rank, config>>,
           \A a \in Addresses : offered[a] \subseteq offered'[a]
    PROVE  AdmittedWithinLimit' /\ CapacityRespected'
<1>1. Daytime \in SUBSET Requests
  BY DEF Daytime, Active, Stored
<1>2. ASSUME NEW r \in Daytime' PROVE Cardinality(Earlier(r)') < config'[r].maxConcurrent
  <2>1. r \in Daytime /\ Earlier(r)' \in SUBSET Earlier(r) /\ Earlier(r) \in SUBSET Requests
    BY <1>1, <1>2 DEF Earlier, MinutesOf, SamePlace
  <2>2. config[r].maxConcurrent \in Nat
    BY <1>1, <2>1, ConfigAssumption DEF CreateTypeOK
  <2>3. Cardinality(Earlier(r)) < config[r].maxConcurrent
    BY <2>1 DEF AdmittedWithinLimit
  <2> QED
    BY <2>1, <2>2, <2>3, SmallerSet
<1>3. ASSUME NEW r \in Daytime', NEW m \in MinutesOf(r)'
      PROVE  \E n \in offered'[Body[r].address] : Cardinality(Occupying(r, m)') <= n
  <2>1. /\ r \in Daytime /\ m \in MinutesOf(r)
        /\ Occupying(r, m)' \in SUBSET Occupying(r, m) /\ Occupying(r, m) \in SUBSET Requests
    BY <1>1, <1>3 DEF Occupying, MinutesOf, SamePlace
  <2>2. PICK n \in offered[Body[r].address] : Cardinality(Occupying(r, m)) <= n
    BY <2>1 DEF CapacityRespected
  <2>3. Body[r].address \in Addresses
    BY <1>1, <2>1, RequestType
  <2>4. n \in Nat /\ n \in offered'[Body[r].address]
    BY <2>2, <2>3 DEF CreateTypeOK
  <2>5. Cardinality(Occupying(r, m)') <= n
    BY <2>1, <2>2, <2>4, SmallerSet
  <2> QED
    BY <2>4, <2>5
<1> QED
  BY <1>2, <1>3 DEF AdmittedWithinLimit, CapacityRespected

-----------------------------------------------------------------------------
(* Where a 409 comes from.                                                 *)

(* The other services never make the slot "not available".                 *)
LEMMA FetchNeverFull ==
    ASSUME NEW f PROVE FetchError(f) # "ErrSlotNotAvailable"
BY OneOfTheErrors DEF FetchError, Check

(* Nor do the rules on dates, opening days and notice.                     *)
LEMMA RulesNeverFull ==
    ASSUME NEW body, NEW open, NEW now, NEW c
    PROVE  RuleError(body, open, now, c) # "ErrSlotNotAvailable"
BY OneOfTheErrors DEF RuleError, Check

(* 409 is the answer to one error only, and only a full slot gives it.     *)
LEMMA RefusedWhenFull ==
    ASSUME CreateTypeOK, NEW r \in Requests, RequestStep(r), answer[r] # 409, answer'[r] = 409
    PROVE  SlotNotAvailable(r)
<1> USE DEF CreateTypeOK, Reply
<1>1. \A err : HttpStatus(err) = 409 => err = "ErrSlotNotAvailable"
  BY DEF HttpStatus
<1>2. \A where, status : Leave(r, where, status) => answer'[r] = status
  BY DEF Leave
<1>3. CASE Receive(r)
  <2>1. PICK now \in Nows, f \in FetchedBy[r] :
          UNCHANGED answer \/ Leave(r, "done", HttpStatus(FetchError(f)))
    BY <1>3 DEF Receive
  <2>2. HttpStatus(FetchError(f)) = 409
    BY <2>1, <1>2
  <2> QED
    BY <2>2, <1>1, FetchNeverFull
<1>4. CASE ReadConfig(r)
  <2>1. PICK c : UNCHANGED answer
                 \/ Leave(r, "done", HttpStatus(RuleError(Body[r], local[r].open, local[r].now, c)))
    BY <1>4 DEF ReadConfig
  <2>2. HttpStatus(RuleError(Body[r], local[r].open, local[r].now, c)) = 409
    BY <2>1, <1>2
  <2> QED
    BY <2>2, <1>1, RulesNeverFull
<1>5. CASE ReadBookings(r) \/ Insert(r)
  BY <1>5 DEF ReadBookings, Insert
<1>6. CASE FailLock(r) \/ FailCommit(r) \/ DbError(r)
  <2>1. answer'[r] \in {HttpStatus("ErrInternal"), HttpStatus("CommitFailed")}
    BY <1>2, <1>6 DEF FailLock, FailCommit, DbError
  <2> QED
    BY <1>1, <2>1
<1>7. CASE Commit(r)
  BY <1>2, <1>7 DEF Commit
<1>8. CASE CommitUnknown(r)
  <2>1. answer'[r] \in {HttpStatus("CommitFailed"), 0}
    BY <1>2, <1>8 DEF CommitUnknown
  <2> QED
    BY <1>1, <2>1
<1> QED
  BY <1>3, <1>4, <1>5, <1>6, <1>7, <1>8 DEF RequestStep, RequestProgress

\* The bookings counted against r, as they are in the table.
Counting(r) == Overlapping(View(r), Candidates(r), Body[r].start, config[r].slotDuration)

(* What a refusal has counted is in the table unchanged, in a transaction  *)
(* because a row that changed would have failed the lock.                  *)
LEMMA CountedStands ==
    ASSUME CreateTypeOK, NEW r \in Requests, SlotNotAvailable(r)
    PROVE  /\ config[r].maxConcurrent <= Cardinality(Counting(r))
           /\ Counting(r) \in SUBSET Requests
           /\ \A i \in Counting(r) :
                /\ i \in Active(bookings) /\ SamePlace(i, r)
                /\ SlotOverlaps(Body[r].start, config[r].slotDuration,
                                Body[i].start, bookings[i].duration)
<1>1. ~HasRoom(r) /\ ~LockConflict(r) /\ config[r].maxConcurrent \in Nat
  BY ConfigAssumption DEF SlotNotAvailable, CreateTypeOK
<1>2. \A i \in Candidates(r) :
        /\ i \in Requests /\ SamePlace(i, r)
        /\ View(r)[i] = bookings[i] /\ View(r)[i] # NoBooking /\ IsActive(View(r)[i].status)
  BY <1>1 DEF LockConflict, Candidates, GetByCompanyWithFilter, Active, Stored, View, SamePlace
<1>3. Counting(r) \in SUBSET Requests
  BY <1>2 DEF Counting, Overlapping
<1>4. config[r].maxConcurrent <= Cardinality(Counting(r))
  BY <1>1, <1>3, SmallerSet DEF HasRoom, Taken, CountOverlappingBookings, Counting
<1> QED
  BY <1>2, <1>3, <1>4 DEF Counting, Overlapping, Active, Stored
-----------------------------------------------------------------------------
(* The invariant under the steps of CreateBooking.                         *)

(* At the start there are no rows, no answers and no transactions.         *)
LEMMA CreateStart == TxInContext /\ CreateInit => CreateInv
<1> SUFFICES ASSUME TxInContext, CreateInit PROVE CreateInv
  OBVIOUS
<1>1. CreateTypeOK
  BY CreateTypeInit
<1>2. Stored(bookings) = {}
  BY DEF CreateInit, EmptyTable, Stored
<1>3. RequestInv
  BY <1>2 DEF CreateInit, RequestInv, AnswerInv, SnapshotInv, CountInv, OfferInv, Started, Counted
<1>4. RankInv
  BY <1>2 DEF RankInv
<1>5. AdmittedWithinLimit /\ CapacityRespected
  BY <1>2 DEF AdmittedWithinLimit, CapacityRespected, Daytime, Active
<1>6. \A a \in Addresses : Boxes(configs, a) \subseteq offered[a]
  BY DEF CreateInit
<1> QED
  BY <1>1, <1>3, <1>4, <1>5, <1>6 DEF CreateInv

(* Every step of a request keeps it.                                       *)
LEMMA RequestKeeps ==
    ASSUME CreateInv, NEW r \in Requests, RequestStep(r)
    PROVE  CreateInv'
<1>1. CreateTypeOK'
  BY RequestStepType DEF CreateInv
<1>2. UNCHANGED <<configs, offered>>
  BY RequestEffect DEF CreateInv
<1>3. RequestInv'
  BY AnswerStep, SnapshotStep, CountStep, OfferStep DEF CreateInv, RequestInv
<1>4. RankInv' /\ AdmittedWithinLimit' /\ CapacityRespected'
  BY RankStep, AdmittedStep, CapacityStep DEF CreateInv
<1>5. \A a \in Addresses : Boxes(configs, a)' \subseteq offered'[a]
  BY <1>2 DEF CreateInv, Boxes
<1> QED
  BY <1>1, <1>3, <1>4, <1>5 DEF CreateInv

(* A new configuration adds an offer; what has begun keeps its own.        *)
LEMMA ReconfigureKeeps ==
    ASSUME CreateInv, NEW l \in Levels, NEW c \in SlotConfig, WriteConfig(l, c)
    PROVE  CreateInv'
<1>1. CreateTypeOK /\ CreateTypeOK'
  BY ReconfigureType DEF CreateInv
<1>2. UNCHANGED <<bookings, requestVars, rank, unknown>>
  BY DEF WriteConfig
<1>3. \A a \in Addresses : offered[a] \subseteq offered'[a]
  BY <1>1 DEF WriteConfig
<1>4. ASSUME NEW a \in Addresses PROVE Boxes(configs, a)' \subseteq offered'[a]
  <2>1. configs' = [configs EXCEPT ![l] = c]
    BY DEF WriteConfig
  <2>2. Boxes(configs, a)' \subseteq
          Boxes(configs, a) \cup (IF l[1] \in {a, Null} THEN {c.maxConcurrent} ELSE {})
    BY <1>1, <2>1 DEF CreateTypeOK, ConfigTable, Boxes
  <2>3. offered'[a] = offered[a] \cup (IF l[1] \in {a, Null} THEN {c.maxConcurrent} ELSE {})
    BY DEF WriteConfig
  <2> QED
    BY <2>2, <2>3 DEF CreateInv
<1>5. ASSUME NEW q \in Requests
      PROVE  (AnswerInv(q) /\ SnapshotInv(q) /\ CountInv(q) /\ OfferInv(q))'
  <2>1. AnswerInv(q) /\ SnapshotInv(q) /\ CountInv(q) /\ OfferInv(q)
    BY DEF CreateInv, RequestInv
  <2>2. AnswerInv(q)' /\ SnapshotInv(q)'
    BY <1>2, <2>1 DEF AnswerInv, SnapshotInv, Stored, requestVars
  <2>3. Candidates(q)' = Candidates(q) /\ (HasRoom(q)' <=> HasRoom(q))
    BY <1>2, CountedStays DEF CreateInv, requestVars
  <2>4. CountInv(q)'
    BY <1>2, <2>1, <2>3 DEF CountInv, requestVars
  <2>5. OfferInv(q)'
    BY <1>2, <1>3, <2>1, RequestType DEF OfferInv, requestVars
  <2> QED
    BY <2>2, <2>4, <2>5
<1>6. RankInv'
  BY <1>2 DEF CreateInv, RankInv, Stored
<1>7. \A i \in Daytime' : i \in Daytime /\ bookings'[i].duration = bookings[i].duration
  BY <1>2 DEF Daytime, Active, Stored
<1>8. AdmittedWithinLimit' /\ CapacityRespected'
  BY <1>1, <1>2, <1>3, <1>7, FewerRows DEF CreateInv, requestVars
<1> QED
  BY <1>1, <1>4, <1>5, <1>6, <1>8 DEF CreateInv, RequestInv

(* After a crash no transaction is left, and the table is as committed.    *)
LEMMA CrashKeeps ==
    ASSUME CreateInv, Crash
    PROVE  CreateInv'
<1>1. CreateTypeOK /\ CreateTypeOK'
  BY CrashType DEF CreateInv
<1>2. /\ UNCHANGED <<bookings, configs, config, answer, rank, offered, unknown>>
      /\ pc' = [r \in Requests |-> IF pc[r] \in InTransaction THEN "lost" ELSE pc[r]]
  BY DEF Crash, auxVars
<1>3. \A r \in Requests : pc'[r] \in {"idle", "done", "lost"} /\ (pc'[r] = "idle" => pc[r] = "idle")
  BY <1>1, <1>2 DEF CreateTypeOK, Pcs
<1>4. RequestInv'
  BY <1>2, <1>3
  DEF CreateInv, RequestInv, AnswerInv, SnapshotInv, CountInv, OfferInv, Started, Counted, Stored
<1>5. RankInv'
  BY <1>2 DEF CreateInv, RankInv, Stored
<1>6. \A i \in Daytime' : i \in Daytime /\ bookings'[i].duration = bookings[i].duration
  BY <1>2 DEF Daytime, Active, Stored
<1>7. AdmittedWithinLimit' /\ CapacityRespected'
  BY <1>1, <1>2, <1>6, FewerRows DEF CreateInv
<1>8. \A a \in Addresses : Boxes(configs, a)' \subseteq offered'[a]
  BY <1>2 DEF CreateInv, Boxes
<1> QED
  BY <1>1, <1>4, <1>5, <1>7, <1>8 DEF CreateInv

(* It is about the variables of CreateBooking only.                        *)
LEMMA CreateUnchanged ==
    ASSUME CreateInv, UNCHANGED createVars
    PROVE  CreateInv'
<1>1. UNCHANGED <<bookings, configs, requestVars, auxVars>>
  BY DEF createVars
<1>2. CreateTypeOK'
  BY <1>1 DEF CreateInv, CreateTypeOK, BookingsTypeOK, requestVars, auxVars
<1>3. ASSUME NEW q \in Requests
      PROVE  (AnswerInv(q) /\ SnapshotInv(q) /\ CountInv(q) /\ OfferInv(q))'
  <2>1. AnswerInv(q) /\ SnapshotInv(q) /\ CountInv(q) /\ OfferInv(q)
    BY DEF CreateInv, RequestInv
  <2>2. AnswerInv(q)' /\ SnapshotInv(q)' /\ OfferInv(q)'
    BY <1>1, <2>1 DEF AnswerInv, SnapshotInv, OfferInv, Stored, requestVars, auxVars
  <2>3. Candidates(q)' = Candidates(q) /\ (HasRoom(q)' <=> HasRoom(q))
    BY <1>1, CountedStays DEF CreateInv, requestVars
  <2>4. CountInv(q)'
    BY <1>1, <2>1, <2>3 DEF CountInv, requestVars
  <2> QED
    BY <2>2, <2>4
<1>4. RankInv' /\ AdmittedWithinLimit' /\ CapacityRespected'
  <2>1. \A i \in Daytime' : i \in Daytime /\ bookings'[i].duration = bookings[i].duration
    BY <1>1 DEF Daytime, Active, Stored
  <2>2. AdmittedWithinLimit' /\ CapacityRespected'
    BY <1>1, <2>1, FewerRows DEF CreateInv, requestVars, auxVars
  <2>3. RankInv'
    BY <1>1 DEF CreateInv, RankInv, Stored, auxVars
  <2> QED
    BY <2>2, <2>3
<1>5. \A a \in Addresses : Boxes(configs, a)' \subseteq offered'[a]
  BY <1>1 DEF CreateInv, Boxes, auxVars
<1> QED
  BY <1>2, <1>3, <1>4, <1>5 DEF CreateInv, RequestInv
=============================================================================

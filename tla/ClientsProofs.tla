--------------------------- MODULE ClientsProofs ---------------------------
(***************************************************************************)
(* Clients who try again, for every number of clients and tries.  What     *)
(* they do is a run of the service, of which all that is proved about it   *)
(* holds.  What a client may conclude from the answers he got needs three  *)
(* facts more: a table ages in one way only, a try is followed by another  *)
(* one only when it was given up, and of the tries that failed undisturbed *)
(* there are no more than changes of the table.                            *)
(***************************************************************************)
EXTENDS BookingClients, BookingServiceProofs

-----------------------------------------------------------------------------
(* The invariant.                                                          *)

\* What the clients remember has its type.
BooksOK ==
    /\ sent \in [Clients -> Nat]
    /\ \A k \in Clients : sent[k] <= Len(Tries[k])
    /\ abandoned \in SUBSET Requests
    /\ mishaps \in SUBSET Requests

\* Rows are added, and the only change to a row is that it turns inactive.
Ages(table, later) ==
    /\ Stored(table) \subseteq Stored(later)
    /\ \A i \in Stored(table) : later[i] = table[i] \/ ~IsActive(later[i].status)

SnapshotAges(r) == pc[r] \in Started => Ages(snapshot[r], bookings)

\* Only a mishap leaves a request without an answer.
EndInv(r) ==
    /\ pc[r] = "lost" => r \in mishaps /\ answer[r] # 201
    /\ pc[r] = "done" => answer[r] # 0

GivenUp(t) == t \in abandoned \/ pc[t] = "lost" \/ answer[t] = 500

\* A client has at most one try under way that he still waits for.
TriesInv(k) ==
    /\ \A i \in 1 .. sent[k] : i < sent[k] => GivenUp(Tries[k][i])
    /\ \A i \in 1 .. Len(Tries[k]) : i > sent[k] => pc[Tries[k][i]] = "idle"

Failures(k) == {t \in FairTries(k) : answer[t] = 500}

\* Each of them met a change of the table of its own.
FailuresInv(k) ==
    /\ Cardinality(Failures(k)) <= Changes(bookings)
    /\ sent[k] > 0 /\ pc[Latest(k)] \in Started =>
         Cardinality(Failures(k)) <= Changes(snapshot[Latest(k)])

ClientsInv ==
    /\ ServiceInv
    /\ BooksOK
    /\ \A r \in Requests : SnapshotAges(r) /\ EndInv(r)
    /\ \A k \in Clients : TriesInv(k) /\ FailuresInv(k)

-----------------------------------------------------------------------------
(* The service and its clients.                                            *)

(* Every try is a request.                                                 *)
LEMMA TryType ==
    ASSUME NEW k \in Clients, NEW i \in 1 .. Len(Tries[k])
    PROVE  Tries[k][i] \in Requests
BY ClientsAssumption

(* The tries a client has sent are requests, and they are finitely many.   *)
LEMMA SentType ==
    ASSUME BooksOK, NEW k \in Clients
    PROVE  /\ sent[k] \in Nat /\ Len(Tries[k]) \in Nat /\ sent[k] <= Len(Tries[k])
           /\ \A i \in 1 .. sent[k] : i \in 1 .. Len(Tries[k]) /\ Tries[k][i] \in Requests
           /\ sent[k] > 0 => Latest(k) \in Requests
           /\ FairTries(k) \in SUBSET Requests
           /\ Failures(k) \in SUBSET FairTries(k)
<1>1. sent[k] \in Nat /\ Len(Tries[k]) \in Nat /\ sent[k] <= Len(Tries[k])
  BY ClientsAssumption DEF BooksOK
<1>2. \A i \in 1 .. sent[k] : i \in 1 .. Len(Tries[k]) /\ Tries[k][i] \in Requests
  BY <1>1, TryType
<1> QED
  BY <1>1, <1>2 DEF Latest, FairTries, Failures

(* Nobody has sent anything yet.                                           *)
LEMMA BooksInit == ClientsInit => BooksOK
BY ClientsAssumption DEF ClientsInit, BooksOK

(* No step breaks the books.                                               *)
LEMMA BooksStep == BooksOK /\ [ClientsNext]_clientsVars => BooksOK'
<1> SUFFICES ASSUME BooksOK, [ClientsNext]_clientsVars PROVE BooksOK'
  OBVIOUS
<1> USE DEF BooksOK
<1>1. ASSUME NEW k \in Clients, Send(k) PROVE BooksOK'
  <2>1. sent[k] \in Nat /\ Len(Tries[k]) \in Nat /\ sent[k] < Len(Tries[k])
    BY <1>1, ClientsAssumption DEF Send
  <2>2. sent[k] + 1 \in 1 .. Len(Tries[k])
    BY <2>1
  <2>3. Tries[k][sent[k] + 1] \in Requests
    BY <2>2, TryType
  <2>4. sent' = [sent EXCEPT ![k] = @ + 1]
    BY <1>1 DEF Send
  <2>5. sent' \in [Clients -> Nat] /\ \A l \in Clients : sent'[l] <= Len(Tries[l])
    BY <2>1, <2>4
  <2>6. abandoned' \in SUBSET Requests
    <3>1. sent[k] > 0 => Latest(k) \in Requests
      BY SentType
    <3> QED
      BY <1>1, <3>1 DEF Send
  <2>7. mishaps' \in SUBSET Requests
    BY <1>1, <2>3 DEF Send
  <2> QED
    BY <2>5, <2>6, <2>7
<1>2. ASSUME NEW r \in Requests, Serve(r) PROVE BooksOK'
  BY <1>2 DEF Serve
<1>3. CASE Die
  BY <1>3 DEF Die
<1>4. CASE UNCHANGED clientVars
  BY <1>4 DEF clientVars
<1> QED
  BY <1>1, <1>2, <1>3, <1>4 DEF ClientsNext, clientsVars

(* Whatever clients do, they keep count of it.                             *)
THEOREM BooksAlways == ClientsSpec => []BooksOK
BY BooksInit, BooksStep, PTL DEF ClientsSpec

(* A try is a request like any other to the service.                       *)
LEMMA SendIsRequest ==
    ASSUME BooksOK, NEW k \in Clients, Send(k)
    PROVE  Tries[k][sent[k] + 1] \in Requests /\ Request(Tries[k][sent[k] + 1])
<1>1. sent[k] \in Nat /\ Len(Tries[k]) \in Nat /\ sent[k] < Len(Tries[k])
  BY SentType DEF Send
<1>2. sent[k] + 1 \in 1 .. Len(Tries[k])
  BY <1>1
<1> QED
  BY <1>2, TryType DEF Send, Request, RequestStep

(* So every step is a step of the service, or of no concern to it.         *)
LEMMA ServiceSteps == BooksOK /\ [ClientsNext]_clientsVars => [Next]_vars
<1> SUFFICES ASSUME BooksOK, ClientsNext PROVE Next
  BY DEF clientsVars
<1>1. ASSUME NEW r \in Requests, Serve(r) PROVE Request(r)
  BY <1>1 DEF Serve, Request, RequestStep
<1> QED
  BY <1>1, SendIsRequest DEF ClientsNext, Die, Next

(* What clients do, to whom nothing is promised about repeated requests,   *)
(* is a run of the service: there is no trace in it of a try that belongs  *)
(* to an earlier one, and all that holds of the service holds of the tries. *)
THEOREM TriesAreRequests == ClientsSpec => Spec
<1>1. ClientsInit => Init
  BY DEF ClientsInit
<1> QED
  BY <1>1, BooksAlways, ServiceSteps, PTL DEF ClientsSpec, Spec

(* ClientsTypeOK: whoever calls and however often, under either manager,   *)
(* every answer is one the handler knows and every row one the table takes. *)
THEOREM ClientsTypes == ClientsSpec => []ClientsTypeOK
<1>1. TypeOK /\ BooksOK => ClientsTypeOK
  BY DEF BooksOK, ClientsTypeOK
<1> QED
  BY <1>1, BooksAlways, TriesAreRequests, TypeCorrect, PTL

-----------------------------------------------------------------------------
(* How tables age.                                                         *)

(* What a table may become, and that may become, it may become.            *)
LEMMA AgesOn ==
    ASSUME NEW t, NEW u, NEW v, Ages(t, u), Ages(u, v)
    PROVE  Ages(t, v)
BY DEF Ages

(* Rows once stored stay stored, rows once inactive stay inactive.         *)
LEMMA ChangesGrow ==
    ASSUME NEW t, NEW u, Ages(t, u)
    PROVE  /\ Changes(t) \in Nat /\ Changes(u) \in Nat
           /\ Changes(t) <= Changes(u)
<1>1. Stored(u) \in SUBSET Requests /\ Stored(t) \in SUBSET Stored(u)
  BY DEF Ages, Stored
<1>2. Turned(u) \in SUBSET Requests /\ Turned(t) \in SUBSET Turned(u)
  BY <1>1 DEF Ages, Turned, Active
<1>3. /\ Cardinality(Stored(t)) \in Nat /\ Cardinality(Stored(u)) \in Nat
      /\ Cardinality(Stored(t)) <= Cardinality(Stored(u))
  BY <1>1, SmallerSet
<1>4. /\ Cardinality(Turned(t)) \in Nat /\ Cardinality(Turned(u)) \in Nat
      /\ Cardinality(Turned(t)) <= Cardinality(Turned(u))
  BY <1>2, SmallerSet
<1> QED
  BY <1>3, <1>4 DEF Changes

(* A row more is a change more.                                            *)
LEMMA OneRowMore ==
    ASSUME NEW t, NEW u, Ages(t, u), NEW i, i \in Stored(u), i \notin Stored(t)
    PROVE  Changes(t) + 1 <= Changes(u)
<1>1. Stored(t) \cup {i} \in SUBSET Stored(u) /\ Stored(u) \in SUBSET Requests
  BY DEF Ages, Stored
<1>2. Stored(t) \in SUBSET Requests /\ i \in Requests \ Stored(t)
  BY <1>1
<1>3. Turned(u) \in SUBSET Requests /\ Turned(t) \in SUBSET Turned(u)
  BY <1>1 DEF Ages, Turned, Active
<1>4. /\ Cardinality(Stored(t) \cup {i}) = Cardinality(Stored(t)) + 1
      /\ Cardinality(Stored(t)) \in Nat
  BY <1>2, OneMore, SmallerSet
<1>5. /\ Cardinality(Stored(t) \cup {i}) <= Cardinality(Stored(u))
      /\ Cardinality(Stored(u)) \in Nat
  BY <1>1, SmallerSet
<1>6. /\ Cardinality(Turned(t)) <= Cardinality(Turned(u))
      /\ Cardinality(Turned(t)) \in Nat /\ Cardinality(Turned(u)) \in Nat
  BY <1>3, SmallerSet
<1> QED
  BY <1>4, <1>5, <1>6 DEF Changes

(* So is a row that was active and is not any more.                        *)
LEMMA OneMoreTurned ==
    ASSUME NEW t, NEW u, Ages(t, u), NEW i, i \in Stored(t),
           IsActive(t[i].status), ~IsActive(u[i].status)
    PROVE  Changes(t) + 1 <= Changes(u)
<1>1. Stored(u) \in SUBSET Requests /\ Stored(t) \in SUBSET Stored(u)
  BY DEF Ages, Stored
<1>2. Turned(t) \cup {i} \in SUBSET Turned(u) /\ Turned(u) \in SUBSET Requests
  BY <1>1 DEF Ages, Turned, Active
<1>3. Turned(t) \in SUBSET Requests /\ i \in Requests \ Turned(t)
  BY <1>1, <1>2 DEF Turned, Active
<1>4. /\ Cardinality(Turned(t) \cup {i}) = Cardinality(Turned(t)) + 1
      /\ Cardinality(Turned(t)) \in Nat
  BY <1>3, OneMore, SmallerSet
<1>5. /\ Cardinality(Turned(t) \cup {i}) <= Cardinality(Turned(u))
      /\ Cardinality(Turned(u)) \in Nat
  BY <1>2, SmallerSet
<1>6. /\ Cardinality(Stored(t)) <= Cardinality(Stored(u))
      /\ Cardinality(Stored(t)) \in Nat /\ Cardinality(Stored(u)) \in Nat
  BY <1>1, SmallerSet
<1> QED
  BY <1>4, <1>5, <1>6 DEF Changes

(* The table ages at every step of the service.                            *)
LEMMA TableAges ==
    ASSUME ServiceInv, [Next]_vars
    PROVE  Ages(bookings, bookings')
<1>1. ASSUME NEW r \in Requests, Request(r) PROVE Ages(bookings, bookings')
  BY <1>1, RowsPersist DEF ServiceInv, CreateInv, Request, Ages, Stored
<1>2. ASSUME NEW c \in Calls, CancelCall(c) PROVE Ages(bookings, bookings')
  BY <1>2, CancelEffect DEF ServiceInv, Ages, Stored
<1>3. CASE UNCHANGED bookings
  BY <1>3 DEF Ages
<1> QED
  BY <1>1, <1>2, <1>3 DEF Next, Reconfigure, WriteConfig, Restart, Crash, vars, createVars

(* And with it what a transaction sees, compared with what is there.       *)
LEMMA SnapshotsAge ==
    ASSUME ServiceInv, [Next]_vars, NEW q \in Requests, SnapshotAges(q)
    PROVE  SnapshotAges(q)'
<1>1. Ages(bookings, bookings')
  BY TableAges
<1>2. CreateInv /\ CreateTypeOK
  BY DEF ServiceInv, CreateInv
<1>3. ASSUME snapshot'[q] = snapshot[q], pc'[q] \in Started => pc[q] \in Started
      PROVE  SnapshotAges(q)'
  <2> SUFFICES ASSUME pc'[q] \in Started PROVE Ages(snapshot'[q], bookings')
    BY DEF SnapshotAges, Ages, Stored
  <2>1. Ages(snapshot[q], bookings)
    BY <1>3 DEF SnapshotAges
  <2>2. Ages(snapshot[q], bookings')
    BY <1>1, <2>1, AgesOn
  <2> QED
    BY <1>3, <2>2
<1>4. ASSUME NEW r \in Requests, Request(r) PROVE SnapshotAges(q)'
  <2>1. Effect(r) /\ RequestStep(r)
    BY <1>2, <1>4, RequestEffect DEF CreateInv, Request
  <2>2. CASE q # r
    BY <1>2, <1>3, <2>1, <2>2, OthersStay
  <2>3. CASE q = r /\ Configures(r)
    BY <1>1, <2>3 DEF Configures, QuietTable, SnapshotAges, Ages, Stored
  <2>4. CASE q = r /\ (Counts(r) \/ Inserts(r))
    BY <1>3, <2>4 DEF Counts, ReadBookings, Inserts, Started
  <2>5. CASE q = r /\ (Ends(r) \/ Begins(r) \/ Commits(r))
    BY <2>5 DEF Ends, Begins, Commits, SnapshotAges, Started
  <2> QED
    BY <2>1, <2>2, <2>3, <2>4, <2>5 DEF Effect
<1>5. CASE Restart
  BY <1>2, <1>5 DEF Restart, Crash, SnapshotAges, Started, InTransaction
<1>6. CASE UNCHANGED requestVars
  BY <1>3, <1>6 DEF requestVars
<1> QED
  BY <1>4, <1>5, <1>6 DEF Next, CancelCall, Reconfigure, WriteConfig, vars, createVars

-----------------------------------------------------------------------------
(* Steps of POST /bookings, as far as clients see them.                    *)

(* A request that has ended takes no further step.                         *)
LEMMA EndedStays ==
    ASSUME CreateInv, NEW r \in Requests, RequestStep(r)
    PROVE  pc[r] \notin {"done", "lost"} /\ answer[r] = 0
<1>1. Effect(r)
  BY RequestEffect DEF CreateInv
<1>2. pc[r] \notin {"done", "lost"}
  BY <1>1 DEF Effect, Ends, Begins, Configures, Counts, Inserts, Commits
<1> QED
  BY <1>2 DEF CreateInv, RequestInv, AnswerInv

(* The rules on dates, opening days and notice are never answered 500.     *)
LEMMA RulesAnswered ==
    ASSUME NEW body, NEW open, NEW now, NEW c, RuleError(body, open, now, c) # "ok"
    PROVE  HttpStatus(RuleError(body, open, now, c)) = 400
<1> DEFINE checks == <<
    Check(~IsDateInPast(body.date, now),                       "ErrInvalidDate"),
    Check(~DateTooFar(body.date, now, c.advanceDays),     "ErrDateTooFarInFuture"),
    Check(open,                                                "ErrCompanyClosed"),
    Check(~TooLateToBook(body.date, body.start, now, c.minNotice), "ErrTooLateToBook") >>
<1>1. DOMAIN checks = 1 .. 4
  OBVIOUS
<1>2. RuleError(body, open, now, c) = FirstError(checks)
  BY DEF RuleError
<1>3. \A i \in DOMAIN checks :
        checks[i].err \in {"ErrInvalidDate", "ErrDateTooFarInFuture", "ErrCompanyClosed",
                          "ErrTooLateToBook"}
  BY DEF Check
<1> HIDE DEF checks
<1>4. Failing(checks) # {}
  BY <1>2 DEF FirstError, Failing
<1>5. DOMAIN checks \subseteq 1 .. 8
  BY <1>1
<1>6. PICK i \in Failing(checks) : FirstError(checks) = checks[i].err
  BY <1>4, <1>5, SomeError
<1>7. FirstError(checks) \in {"ErrInvalidDate", "ErrDateTooFarInFuture", "ErrCompanyClosed",
                             "ErrTooLateToBook"}
  BY <1>3, <1>6 DEF Failing
<1> QED
  BY <1>2, <1>7 DEF HttpStatus

(* Where nothing fails that need not fail, 500 means one of two things:    *)
(* another booking of that place and day was committed meanwhile, or one   *)
(* that was counted on was changed.                                        *)
LEMMA ConflictOnly ==
    ASSUME CreateInv, NEW r \in Requests, RequestProgress(r), answer'[r] = 500
    PROVE  FailCommit(r) \/ FailLock(r)
<1> USE DEF Reply
<1>0. CreateTypeOK /\ answer[r] = 0
  BY EndedStays DEF RequestStep, CreateInv
<1>1. \A where, status : Leave(r, where, status) => answer'[r] = status
  BY <1>0 DEF Leave, CreateTypeOK
<1>2. ~ReadConfig(r)
  <2> SUFFICES ASSUME ReadConfig(r) PROVE FALSE
    OBVIOUS
  <2>1. PICK c :
          \/ UNCHANGED answer
          \/ /\ RuleError(Body[r], local[r].open, local[r].now, c) # "ok"
             /\ Leave(r, "done", HttpStatus(RuleError(Body[r], local[r].open, local[r].now, c)))
    BY DEF ReadConfig
  <2>2. answer'[r] = 400
    BY <2>1, <1>0, <1>1, RulesAnswered
  <2> QED
    BY <2>2
<1>3. ~SlotNotAvailable(r)
  BY <1>1 DEF SlotNotAvailable, HttpStatus
<1>4. ~ReadBookings(r) /\ ~Insert(r)
  BY <1>0 DEF ReadBookings, Insert
<1>5. ~Commit(r)
  BY <1>1 DEF Commit
<1> QED
  BY <1>0, <1>2, <1>3, <1>4, <1>5 DEF RequestProgress

(* It loses against a change that its snapshot does not show: a row that   *)
(* is not there, or one that is active there and was cancelled since.      *)
LEMMA ConflictIsChange ==
    ASSUME CreateInv, NEW r \in Requests, SnapshotAges(r), FailCommit(r) \/ FailLock(r)
    PROVE  /\ pc[r] \in Started
           /\ Changes(snapshot[r]) + 1 <= Changes(bookings)
<1>1. pc[r] \in Started
  BY DEF FailCommit, FailLock, AtBookings, Started
<1>2. Ages(snapshot[r], bookings)
  BY <1>1 DEF SnapshotAges
<1>3. CASE FailCommit(r)
  <2>1. PICK i \in Stored(bookings) : i \notin Stored(snapshot[r])
    BY <1>3 DEF FailCommit, SerializationConflict, Stored
  <2> QED
    BY <1>1, <1>2, <2>1, OneRowMore
<1>4. CASE FailLock(r)
  <2>1. PICK i \in Candidates(r) : bookings[i] # snapshot[r][i]
    BY <1>4 DEF FailLock, LockConflict
  <2>2. i \in Stored(snapshot[r]) /\ IsActive(snapshot[r][i].status)
    BY DEF CreateInv, Candidates, View, GetByCompanyWithFilter, Active
  <2>3. ~IsActive(bookings[i].status)
    BY <1>2, <2>1, <2>2 DEF Ages
  <2> QED
    BY <1>1, <1>2, <2>2, <2>3, OneMoreTurned
<1> QED
  BY <1>3, <1>4

-----------------------------------------------------------------------------
(* The invariant, step by step.                                            *)

(* What every step of a request leaves as it is for clients.               *)
LEMMA StepKeeps ==
    ASSUME ClientsInv, NEW r \in Requests, Request(r), abandoned \subseteq abandoned'
    PROVE  /\ ServiceInv' /\ \A q \in Requests : SnapshotAges(q)'
           /\ \A t \in Requests : GivenUp(t) => GivenUp(t)'
           /\ \A q \in Requests \ {r} : pc'[q] = pc[q] /\ answer'[q] = answer[q]
                                        /\ snapshot'[q] = snapshot[q]
           /\ Ages(bookings, bookings')
<1>1. CreateInv /\ CreateTypeOK /\ ServiceInv /\ Next /\ RequestStep(r)
  BY DEF ClientsInv, ServiceInv, CreateInv, Next, Request
<1>2. ServiceInv' /\ Ages(bookings, bookings')
  BY <1>1, ServiceStep, TableAges
<1>3. \A q \in Requests : SnapshotAges(q)'
  BY <1>1, SnapshotsAge DEF ClientsInv
<1>4. \A q \in Requests \ {r} : pc'[q] = pc[q] /\ answer'[q] = answer[q]
                                /\ snapshot'[q] = snapshot[q]
  BY <1>1, OthersStay
<1>5. ASSUME NEW t \in Requests, GivenUp(t) PROVE GivenUp(t)'
  <2>1. CASE t = r
    BY <1>1, <1>5, <2>1, EndedStays DEF GivenUp
  <2>2. CASE t # r
    BY <1>4, <1>5, <2>2 DEF GivenUp
  <2> QED
    BY <2>1, <2>2
<1> QED
  BY <1>2, <1>3, <1>4, <1>5

(* A client who sends a try has given up the one before.  No try of        *)
(* anybody fails by it without a mishap.                                   *)
LEMMA SendKeeps ==
    ASSUME ClientsInv, NEW k \in Clients, Send(k)
    PROVE  ClientsInv'
<1> DEFINE try == Tries[k][sent[k] + 1]
<1>1. BooksOK /\ CreateInv
  BY DEF ClientsInv, ServiceInv
<1>2. sent[k] \in Nat /\ Len(Tries[k]) \in Nat /\ sent[k] < Len(Tries[k])
  BY <1>1, SentType DEF Send
<1>3. sent[k] + 1 \in 1 .. Len(Tries[k]) /\ try \in Requests
  BY <1>2, TryType
<1>4. /\ Request(try) /\ abandoned \subseteq abandoned' /\ mishaps \subseteq mishaps'
      /\ answer'[try] = 500 => try \in mishaps'
      /\ sent' = [sent EXCEPT ![k] = @ + 1] /\ UNCHANGED bookings
      /\ sent[k] > 0 => LeftInDoubt(k) \/ Latest(k) \in abandoned'
  BY <1>3 DEF Send, Request, RequestStep, Receive
<1>5. BooksOK'
  BY <1>1, BooksStep DEF ClientsNext
<1>6. /\ ServiceInv' /\ \A q \in Requests : SnapshotAges(q)'
      /\ \A t \in Requests : GivenUp(t) => GivenUp(t)'
      /\ \A q \in Requests \ {try} : pc'[q] = pc[q] /\ answer'[q] = answer[q]
                                   /\ snapshot'[q] = snapshot[q]
  BY <1>3, <1>4, StepKeeps
<1>7. /\ pc[try] = "idle" /\ pc'[try] \in {"begun", "done"}
      /\ pc'[try] = "done" => answer'[try] # 0
  <2>1. Receive(try)
    BY DEF Send
  <2> HIDE DEF try
  <2>2. pc[try] = "idle" /\ pc \in [Requests -> Pcs] /\ answer \in [Requests -> Answers]
    BY <1>1, <2>1 DEF Receive, CreateInv, CreateTypeOK
  <2>3. \/ pc' = [pc EXCEPT ![try] = "begun"]
        \/ \E err : Leave(try, "done", HttpStatus(err))
    BY <2>1 DEF Receive, Reply
  <2>4. \A err : HttpStatus(err) # 0
    BY StatusNeverCreated
  <2> QED
    BY <1>3, <2>2, <2>3, <2>4 DEF Leave
<1> HIDE DEF try
<1>8. \A q \in Requests : EndInv(q)'
  BY <1>4, <1>6, <1>7 DEF EndInv, ClientsInv
<1>9. sent'[k] = sent[k] + 1 /\ \A l \in Clients \ {k} : sent'[l] = sent[l]
  BY <1>1, <1>4 DEF BooksOK
<1>10. ASSUME NEW l \in Clients PROVE TriesInv(l)'
  <2>1. /\ sent[l] \in Nat /\ Len(Tries[l]) \in Nat /\ sent[l] <= Len(Tries[l])
        /\ TriesInv(l)
    BY <1>1, SentType DEF ClientsInv
  <2>2. ASSUME NEW i \in 1 .. sent'[l], i < sent'[l] PROVE GivenUp(Tries[l][i])'
    <3>1. i \in 1 .. sent[l] /\ Tries[l][i] \in Requests
      BY <1>2, <1>9, <2>1, <2>2, TryType
    <3>2. CASE i < sent[l]
      BY <1>6, <2>1, <3>1, <3>2 DEF TriesInv
    <3>3. CASE ~(i < sent[l])
      <4>1. l = k /\ i = sent[k] /\ Tries[l][i] = Latest(k)
        BY <1>9, <2>1, <2>2, <3>1, <3>3 DEF Latest
      <4>2. GivenUp(Latest(k)) \/ Latest(k) \in abandoned'
        BY <1>4, <3>1, <4>1 DEF LeftInDoubt, GivenUp
      <4> QED
        BY <1>6, <3>1, <4>1, <4>2 DEF GivenUp
    <3> QED
      BY <3>2, <3>3
  <2>3. ASSUME NEW i \in 1 .. Len(Tries[l]), i > sent'[l] PROVE pc'[Tries[l][i]] = "idle"
    <3>1. i > sent[l] /\ Tries[l][i] \in Requests
      BY <1>2, <1>9, <2>1, <2>3, TryType
    <3>2. Tries[l][i] # try
      <4>1. ~(l = k /\ i = sent[k] + 1)
        BY <1>9, <2>3
      <4>2. i \in DOMAIN Tries[l] /\ sent[k] + 1 \in DOMAIN Tries[k]
        BY <1>3, ClientsAssumption
      <4> QED
        BY <4>1, <4>2, ClientsAssumption DEF try
    <3> QED
      BY <1>6, <2>1, <3>1, <3>2 DEF TriesInv
  <2> QED
    BY <2>2, <2>3 DEF TriesInv
<1>11. ASSUME NEW l \in Clients PROVE FailuresInv(l)'
  <2>1. /\ sent[l] \in Nat /\ Len(Tries[l]) \in Nat /\ sent[l] <= Len(Tries[l])
        /\ FailuresInv(l)
        /\ Failures(l) \in SUBSET Requests
    BY <1>1, SentType DEF ClientsInv
  <2>2. /\ \A i \in 1 .. sent'[l] : i \in 1 .. Len(Tries[l]) /\ Tries[l][i] \in Requests
        /\ sent'[l] > 0 => Latest(l)' \in Requests
    <3>1. sent'[l] \in Nat /\ sent'[l] <= Len(Tries[l])
      BY <1>5 DEF BooksOK
    <3>2. \A i \in 1 .. sent'[l] : i \in 1 .. Len(Tries[l])
      BY <2>1, <3>1
    <3> QED
      BY <3>1, <3>2, TryType DEF Latest
  <2>3. ASSUME NEW t \in Failures(l)' PROVE t \in Failures(l)
    <3>1. PICK i \in 1 .. sent'[l] : t = Tries[l][i]
      BY DEF Failures, FairTries
    <3>2. t \notin abandoned /\ t \notin mishaps /\ answer'[t] = 500 /\ t # try
      BY <1>4 DEF Failures, FairTries
    <3>3. i \in 1 .. sent[l]
      BY <1>2, <1>9, <2>1, <3>1, <3>2 DEF try
    <3>4. answer[t] = 500
      BY <1>6, <2>2, <3>1, <3>2
    <3> QED
      BY <3>1, <3>2, <3>3, <3>4 DEF Failures, FairTries
  <2>4. Cardinality(Failures(l)') <= Cardinality(Failures(l))
        /\ Cardinality(Failures(l)') \in Nat /\ Cardinality(Failures(l)) \in Nat
    BY <2>1, <2>3, SmallerSet
  <2>5. Changes(bookings) \in Nat /\ bookings' = bookings
    BY <1>4, ChangesGrow DEF Ages
  <2>6. ASSUME sent'[l] > 0, pc'[Latest(l)'] \in Started
        PROVE  Cardinality(Failures(l)') <= Changes(snapshot'[Latest(l)'])
    <3>1. Latest(l)' # try /\ Latest(l)' \in Requests
      BY <1>7, <2>2, <2>6 DEF Started
    <3>2. l # k
      BY <1>9, <3>1 DEF try, Latest
    <3>3. Latest(l)' = Latest(l) /\ sent[l] > 0
      BY <1>9, <2>6, <3>2 DEF Latest
    <3>4. snapshot'[Latest(l)] = snapshot[Latest(l)] /\ pc[Latest(l)] \in Started
      BY <1>6, <2>6, <3>1, <3>3
    <3>5. Cardinality(Failures(l)) <= Changes(snapshot[Latest(l)])
      BY <2>1, <3>3, <3>4 DEF FailuresInv
    <3>6. Changes(snapshot[Latest(l)]) \in Nat
      BY ChangesGrow DEF Ages
    <3> QED
      BY <2>4, <3>3, <3>4, <3>5, <3>6
  <2> QED
    BY <2>1, <2>4, <2>5, <2>6 DEF FailuresInv
<1> QED
  BY <1>5, <1>6, <1>8, <1>10, <1>11 DEF ClientsInv

(* A try that fails undisturbed has met a change of the table that the     *)
(* client's earlier failures do not account for.                           *)
LEMMA FailureCounted ==
    ASSUME ClientsInv, NEW r \in Requests, Serve(r), NEW k \in Clients,
           r \in Failures(k)'
    PROVE  /\ sent[k] > 0 /\ r = Latest(k) /\ pc'[r] = "done"
           /\ Cardinality(Failures(k)) + 1 <= Changes(bookings)
<1>1. CreateInv /\ BooksOK /\ SnapshotAges(r) /\ TriesInv(k) /\ FailuresInv(k)
  BY DEF ClientsInv, ServiceInv
<1>2. r \notin mishaps' /\ r \notin abandoned /\ answer'[r] = 500
  BY DEF Failures, FairTries, Serve
<1>3. RequestProgress(r)
  BY <1>2 DEF Serve
<1>4. FailCommit(r) \/ FailLock(r)
  BY <1>1, <1>2, <1>3, ConflictOnly
<1>5. /\ pc[r] \in Started /\ pc'[r] = "done" /\ answer[r] = 0
      /\ Changes(snapshot[r]) + 1 <= Changes(bookings)
  <2>1. answer[r] = 0
    BY <1>1, <1>3, EndedStays DEF RequestStep
  <2>2. pc'[r] = "done"
    BY <1>1, <1>4 DEF FailCommit, FailLock, Reply, Leave, CreateInv, CreateTypeOK
  <2> QED
    BY <1>1, <1>4, <2>1, <2>2, ConflictIsChange
<1>6. PICK i \in 1 .. sent[k] : r = Tries[k][i]
  BY DEF Failures, FairTries, Serve
<1>7. ~GivenUp(r) /\ sent[k] \in Nat
  BY <1>1, <1>2, <1>5, SentType DEF GivenUp, Started
<1>8. i = sent[k]
  BY <1>1, <1>6, <1>7 DEF TriesInv
<1>9. r = Latest(k) /\ sent[k] > 0
  BY <1>6, <1>7, <1>8 DEF Latest
<1>10. Cardinality(Failures(k)) <= Changes(snapshot[r])
  BY <1>1, <1>5, <1>9 DEF FailuresInv
<1>11. /\ Cardinality(Failures(k)) \in Nat
       /\ Changes(snapshot[r]) \in Nat /\ Changes(bookings) \in Nat
  <2>1. Failures(k) \in SUBSET Requests
    BY <1>1, SentType
  <2> QED
    BY <2>1, SmallerSet, ChangesGrow DEF Ages
<1> QED
  BY <1>5, <1>9, <1>10, <1>11

(* Whatever becomes of a request, its clients' books stay in order.        *)
LEMMA ServeKeeps ==
    ASSUME ClientsInv, NEW r \in Requests, Serve(r)
    PROVE  ClientsInv'
<1>1. BooksOK /\ CreateInv
  BY DEF ClientsInv, ServiceInv
<1>2. /\ Request(r) /\ RequestStep(r) /\ UNCHANGED <<sent, abandoned>> /\ mishaps \subseteq mishaps'
  BY DEF Serve, Request, RequestStep
<1>3. BooksOK'
  BY <1>1, BooksStep DEF ClientsNext
<1>4. /\ ServiceInv' /\ \A q \in Requests : SnapshotAges(q)'
      /\ \A t \in Requests : GivenUp(t) => GivenUp(t)'
      /\ \A q \in Requests \ {r} : pc'[q] = pc[q] /\ answer'[q] = answer[q]
                                   /\ snapshot'[q] = snapshot[q]
      /\ Ages(bookings, bookings')
  BY <1>2, StepKeeps
<1>5. Effect(r) /\ CreateTypeOK /\ AnswerInv(r) /\ pc[r] # "idle"
  <2>1. pc[r] # "idle"
    BY DEF Serve, RequestProgress, ReadConfig, ReadBookings, SlotNotAvailable, FailLock, AtBookings,
           Insert, Commit, FailCommit, CommitUnknown, CanCommit, DbError, InTransaction
  <2> QED
    BY <1>1, <1>2, <2>1, RequestEffect DEF CreateInv, RequestInv
<1>6. pc'[r] = "lost" => r \in mishaps'
  <2>1. RequestProgress(r) => UNCHANGED unknown
    BY DEF RequestProgress, ReadConfig, ReadBookings, SlotNotAvailable, FailLock, Insert, Commit,
           FailCommit, auxVars
  <2>2. pc'[r] = "lost" => ~UNCHANGED unknown
    BY <1>5 DEF Effect, Ends, Begins, Configures, Counts, Inserts, Commits, AnswerInv
  <2> QED
    BY <2>1, <2>2 DEF Serve
<1>7. \A q \in Requests : EndInv(q)'
  <2>1. /\ pc'[r] = "lost" => answer'[r] # 201
        /\ pc'[r] = "done" => answer'[r] # 0
    BY <1>5 DEF Effect, Ends, Begins, Configures, Counts, Inserts, Commits
  <2> QED
    BY <1>2, <1>4, <1>6, <2>1 DEF EndInv, ClientsInv
<1>8. ASSUME NEW k \in Clients PROVE TriesInv(k)'
  <2>1. /\ \A i \in 1 .. sent[k] : Tries[k][i] \in Requests
        /\ \A i \in 1 .. Len(Tries[k]) : Tries[k][i] \in Requests
        /\ TriesInv(k)
    BY <1>1, SentType, TryType DEF ClientsInv
  <2>2. \A i \in 1 .. sent'[k] : i < sent'[k] => GivenUp(Tries[k][i])'
    BY <1>2, <1>4, <2>1 DEF TriesInv
  <2>3. \A i \in 1 .. Len(Tries[k]) : i > sent'[k] => pc'[Tries[k][i]] = "idle"
    BY <1>2, <1>4, <1>5, <2>1 DEF TriesInv
  <2> QED
    BY <2>2, <2>3 DEF TriesInv
<1>9. ASSUME NEW k \in Clients PROVE FailuresInv(k)'
  <2>1. /\ sent[k] \in Nat /\ FailuresInv(k)
        /\ sent[k] > 0 => Latest(k) \in Requests
        /\ FairTries(k) \in SUBSET Requests /\ Failures(k) \in SUBSET Requests
    BY <1>1, SentType DEF ClientsInv
  <2>2. Failures(k)' \subseteq Failures(k) \cup {r}
    BY <1>2, <1>4, <2>1 DEF Failures, FairTries
  <2>3. /\ Cardinality(Failures(k)) \in Nat
        /\ Changes(bookings) \in Nat /\ Changes(bookings') \in Nat
        /\ Changes(bookings) <= Changes(bookings')
        /\ \A q \in Requests : Changes(snapshot[q]) \in Nat
    <3>1. \A q \in Requests : Ages(snapshot[q], snapshot[q])
      BY DEF Ages
    <3> QED
      BY <1>4, <2>1, <3>1, SmallerSet, ChangesGrow
  <2>4. Latest(k)' = Latest(k) /\ sent'[k] = sent[k]
    BY <1>2 DEF Latest
  <2>5. CASE r \in Failures(k)'
    <3>1. /\ r = Latest(k) /\ pc'[r] = "done" /\ sent[k] > 0
          /\ Cardinality(Failures(k)) + 1 <= Changes(bookings)
      BY <2>5, FailureCounted
    <3>2. /\ Cardinality(Failures(k)') <= Cardinality(Failures(k)) + 1
          /\ Cardinality(Failures(k)') \in Nat
      <4>1. Failures(k)' \ {r} \in SUBSET Failures(k)
        BY <2>2
      <4>2. Cardinality(Failures(k)' \ {r}) <= Cardinality(Failures(k))
            /\ Cardinality(Failures(k)' \ {r}) \in Nat
        BY <2>1, <4>1, SmallerSet
      <4>3. Failures(k)' = (Failures(k)' \ {r}) \cup {r} /\ Failures(k)' \ {r} \in SUBSET Requests
        BY <2>1, <2>5, <4>1
      <4>4. Cardinality(Failures(k)') = Cardinality(Failures(k)' \ {r}) + 1
        BY <4>3, OneMore
      <4> QED
        BY <2>3, <4>2, <4>4
    <3>3. Cardinality(Failures(k)') <= Changes(bookings')
      BY <1>4, <2>3, <3>1, <3>2
    <3>4. pc'[Latest(k)'] \notin Started
      BY <2>4, <3>1 DEF Started
    <3> QED
      BY <3>3, <3>4 DEF FailuresInv
  <2>6. CASE r \notin Failures(k)'
    <3>1. Failures(k)' \in SUBSET Failures(k)
      BY <2>2, <2>6
    <3>2. Cardinality(Failures(k)') <= Cardinality(Failures(k)) /\ Cardinality(Failures(k)') \in Nat
      BY <2>1, <3>1, SmallerSet
    <3>3. Cardinality(Failures(k)) <= Changes(bookings)
      BY <2>1 DEF FailuresInv
    <3>4. Cardinality(Failures(k)') <= Changes(bookings')
      BY <1>4, <2>3, <3>2, <3>3
    <3>5. ASSUME sent[k] > 0, pc'[Latest(k)] \in Started
          PROVE  Cardinality(Failures(k)') <= Changes(snapshot'[Latest(k)])
      <4> DEFINE q == Latest(k)
      <4>1. q \in Requests
        BY <2>1, <3>5
      <4>2. CASE snapshot'[q] = snapshot[q] /\ pc[q] \in Started
        <5>1. Cardinality(Failures(k)) <= Changes(snapshot[q])
          BY <2>1, <3>5, <4>2 DEF FailuresInv
        <5> QED
          BY <2>3, <3>2, <4>1, <4>2, <5>1
      <4>3. CASE q = r /\ Configures(r)
        BY <2>3, <3>2, <3>3, <4>3 DEF Configures
      <4>4. CASE q = r /\ ~Configures(r)
        BY <1>5, <3>5, <4>2, <4>4
        DEF Effect, Ends, Begins, Counts, ReadBookings, Inserts, Commits, Started
      <4> QED
        BY <1>4, <3>5, <4>1, <4>2, <4>3, <4>4
    <3> QED
      BY <2>4, <3>4, <3>5 DEF FailuresInv
  <2> QED
    BY <2>5, <2>6
<1> QED
  BY <1>3, <1>4, <1>7, <1>8, <1>9 DEF ClientsInv

(* What the process takes with it is a mishap to all whom it served.       *)
LEMMA DieKeeps ==
    ASSUME ClientsInv, Die
    PROVE  ClientsInv'
<1>1. BooksOK /\ CreateInv /\ CreateTypeOK
  BY DEF ClientsInv, ServiceInv, CreateInv
<1>2. /\ Next /\ UNCHANGED <<sent, abandoned, bookings, answer>>
      /\ pc' = [r \in Requests |-> IF pc[r] \in InTransaction THEN "lost" ELSE pc[r]]
      /\ mishaps' = mishaps \cup {r \in Requests : pc[r] \in InTransaction}
  BY DEF Die, Restart, Crash, Next
<1>3. BooksOK' /\ ServiceInv'
  BY <1>1, <1>2, BooksStep, ServiceStep DEF ClientsInv, ClientsNext
<1>4. \A r \in Requests :
        /\ pc'[r] \notin Started
        /\ pc[r] \in {"idle", "done", "lost"} => pc'[r] = pc[r]
        /\ pc[r] \in InTransaction => answer[r] = 0
  BY <1>1, <1>2 DEF CreateInv, RequestInv, AnswerInv, CreateTypeOK, Pcs, InTransaction, Started
<1>5. \A q \in Requests : SnapshotAges(q)' /\ EndInv(q)'
  BY <1>2, <1>4 DEF SnapshotAges, EndInv, ClientsInv
<1>6. ASSUME NEW k \in Clients PROVE TriesInv(k)'
  <2>1. /\ \A i \in 1 .. sent[k] : Tries[k][i] \in Requests
        /\ \A i \in 1 .. Len(Tries[k]) : Tries[k][i] \in Requests
        /\ TriesInv(k)
    BY <1>1, SentType, TryType DEF ClientsInv
  <2>2. \A t \in Requests : GivenUp(t) => GivenUp(t)'
    BY <1>2, <1>4 DEF GivenUp
  <2> QED
    BY <1>2, <1>4, <2>1, <2>2 DEF TriesInv
<1>7. ASSUME NEW k \in Clients PROVE FailuresInv(k)'
  <2>1. /\ FailuresInv(k) /\ Failures(k) \in SUBSET Requests
        /\ sent[k] > 0 => Latest(k) \in Requests
    BY <1>1, SentType DEF ClientsInv
  <2>2. Failures(k)' \in SUBSET Failures(k)
    BY <1>2 DEF Failures, FairTries
  <2>3. /\ Cardinality(Failures(k)') <= Cardinality(Failures(k))
        /\ Cardinality(Failures(k)') \in Nat /\ Cardinality(Failures(k)) \in Nat
        /\ Changes(bookings) \in Nat
    BY <2>1, <2>2, SmallerSet, ChangesGrow DEF Ages
  <2>4. sent'[k] > 0 => pc'[Latest(k)'] \notin Started
    BY <1>2, <1>4, <2>1 DEF Latest
  <2> QED
    BY <1>2, <2>1, <2>3, <2>4 DEF FailuresInv
<1> QED
  BY <1>3, <1>5, <1>6, <1>7 DEF ClientsInv

(* Cancellations and updates of the configuration are no try's own.        *)
LEMMA OthersKeep ==
    ASSUME ClientsInv, [Next]_vars, UNCHANGED <<pc, snapshot, answer, sent, abandoned, mishaps>>,
           BooksOK'
    PROVE  ClientsInv'
<1>1. ServiceInv' /\ Ages(bookings, bookings')
  BY ServiceStep, TableAges DEF ClientsInv
<1>2. \A q \in Requests : SnapshotAges(q)' /\ EndInv(q)'
  BY SnapshotsAge DEF ClientsInv, EndInv
<1>3. \A k \in Clients : TriesInv(k)'
  BY DEF ClientsInv, TriesInv, GivenUp
<1>4. ASSUME NEW k \in Clients PROVE FailuresInv(k)'
  <2>1. /\ FailuresInv(k) /\ Failures(k) \in SUBSET Requests
    BY SentType DEF ClientsInv
  <2>2. Failures(k)' = Failures(k) /\ Latest(k)' = Latest(k)
    BY DEF Failures, FairTries, Latest
  <2>3. /\ Changes(bookings) \in Nat /\ Changes(bookings') \in Nat
        /\ Changes(bookings) <= Changes(bookings') /\ Cardinality(Failures(k)) \in Nat
    BY <1>1, <2>1, ChangesGrow, SmallerSet
  <2> QED
    BY <2>1, <2>2, <2>3 DEF FailuresInv
<1> QED
  BY <1>1, <1>2, <1>3, <1>4 DEF ClientsInv

-----------------------------------------------------------------------------
(* The theorems.                                                           *)

(* Nobody has tried and nothing has failed yet.                            *)
LEMMA ClientsStart == TxInContext /\ ClientsInit => ClientsInv
<1> SUFFICES ASSUME TxInContext, ClientsInit PROVE ClientsInv
  OBVIOUS
<1>1. ServiceInv /\ BooksOK
  BY ServiceInit, BooksInit DEF ClientsInit
<1>2. /\ \A r \in Requests : pc[r] = "idle"
      /\ \A k \in Clients : sent[k] = 0
  BY DEF ClientsInit, Init, CreateInit
<1>3. \A r \in Requests : SnapshotAges(r) /\ EndInv(r)
  BY <1>2 DEF SnapshotAges, EndInv, Started
<1>4. \A k \in Clients : TriesInv(k)
  BY <1>2, TryType DEF TriesInv
<1>5. ASSUME NEW k \in Clients PROVE FailuresInv(k)
  <2>1. Failures(k) = {}
    BY <1>2 DEF Failures, FairTries
  <2>2. Cardinality(Failures(k)) = 0 /\ Changes(bookings) \in Nat
    BY <2>1, FS_EmptySet, ChangesGrow DEF Ages
  <2> QED
    BY <1>2, <2>2 DEF FailuresInv
<1> QED
  BY <1>1, <1>3, <1>4, <1>5 DEF ClientsInv

(* Nothing but clients, the service and its faults changes what clients    *)
(* may conclude.                                                           *)
LEMMA ClientsKept == ClientsInv /\ [ClientsNext]_clientsVars => ClientsInv'
<1> SUFFICES ASSUME ClientsInv, [ClientsNext]_clientsVars PROVE ClientsInv'
  OBVIOUS
<1>1. BooksOK' /\ [Next]_vars
  BY BooksStep, ServiceSteps DEF ClientsInv
<1>2. CASE UNCHANGED clientsVars
  BY <1>1, <1>2, OthersKeep DEF clientsVars, clientVars, vars, createVars, requestVars
<1>3. CASE \/ \E c \in Calls : CancelCall(c) /\ UNCHANGED clientVars
           \/ \E l \in Levels, c \in SlotConfig : Reconfigure(l, c) /\ UNCHANGED clientVars
  BY <1>1, <1>3, OthersKeep DEF CancelCall, Reconfigure, WriteConfig, clientVars, requestVars
<1> QED
  BY <1>2, <1>3, SendKeeps, ServeKeeps, DieKeeps DEF ClientsNext

(* The invariant of clients, with the transaction in the context.          *)
THEOREM ClientsAlways == TxInContext /\ ClientsSpec => []ClientsInv
BY ClientsStart, ClientsKept, PTL DEF ClientsSpec

(* A row in the table belongs to a request answered 201 or left in doubt;  *)
(* a client goes on to the next try after neither.                         *)
LEMMA InDoubtOnly == ClientsInv => BookedTwiceOnlyInDoubt
<1> SUFFICES ASSUME ClientsInv, NEW k \in Clients, NEW i \in DOMAIN Tries[k],
                    NEW j \in DOMAIN Tries[k], i < j,
                    {Tries[k][i], Tries[k][j]} \subseteq Stored(bookings)
             PROVE  Tries[k][i] \in unknown \cup abandoned
  BY DEF BookedTwiceOnlyInDoubt
<1>1. /\ BooksOK /\ TriesInv(k)
      /\ \A r \in Requests : AnswerInv(r) /\ EndInv(r)
  BY DEF ClientsInv, ServiceInv, CreateInv, RequestInv
<1>2. i \in 1 .. Len(Tries[k]) /\ j \in 1 .. Len(Tries[k]) /\ sent[k] \in Nat
      /\ Len(Tries[k]) \in Nat
  BY <1>1, SentType, ClientsAssumption
<1>3. Tries[k][i] \in Requests /\ Tries[k][j] \in Requests
  BY <1>2, TryType
<1>4. pc[Tries[k][j]] # "idle"
  BY <1>1, <1>3 DEF AnswerInv
<1>5. j <= sent[k]
  BY <1>1, <1>2, <1>4 DEF TriesInv
<1>6. i \in 1 .. sent[k] /\ i < sent[k]
  BY <1>2, <1>5
<1>7. GivenUp(Tries[k][i])
  BY <1>1, <1>6 DEF TriesInv
<1>8. answer[Tries[k][i]] = 201 \/ Tries[k][i] \in unknown
  BY <1>1, <1>3 DEF AnswerInv
<1> QED
  BY <1>1, <1>3, <1>7, <1>8 DEF GivenUp, EndInv

(* BookedTwiceOnlyInDoubt: with pkg/txmanager, of two bookings of the same *)
(* client's wish the earlier took effect without his being told, because   *)
(* the acknowledgement of COMMIT was lost or he did not wait for it.       *)
THEOREM NotBookedTwice == TxInContext /\ ClientsSpec => []BookedTwiceOnlyInDoubt
BY ClientsAlways, InDoubtOnly, PTL

(* All tries of a client whose latest one was not decided were failures,   *)
(* and there are no more of them than changes of the table.                *)
LEMMA EnoughTries == ClientsInv => TryingAgainHelps
<1> SUFFICES ASSUME ClientsInv, NEW k \in Clients, sent[k] > 0, pc[Latest(k)] = "done",
                    Cardinality(FairTries(k)) > Changes(bookings),
                    answer[Latest(k)] \notin {201, 400, 404, 409}
             PROVE  FALSE
  BY DEF TryingAgainHelps, Definite
<1>1. /\ BooksOK /\ TriesInv(k) /\ FailuresInv(k)
      /\ answer \in [Requests -> Answers]
      /\ \A r \in Requests : EndInv(r)
  BY DEF ClientsInv, ServiceInv, CreateInv, CreateTypeOK
<1>2. sent[k] \in Nat /\ Latest(k) \in Requests /\ FairTries(k) \in SUBSET Requests
      /\ \A i \in 1 .. sent[k] : Tries[k][i] \in Requests
  BY <1>1, SentType
<1>3. answer[Latest(k)] = 500
  BY <1>1, <1>2 DEF EndInv, Answers
<1>4. ASSUME NEW t \in FairTries(k) PROVE t \in Failures(k)
  <2>1. PICK i \in 1 .. sent[k] : t = Tries[k][i]
    BY DEF FairTries
  <2>2. CASE i = sent[k]
    BY <1>3, <2>1, <2>2 DEF Latest, Failures
  <2>3. CASE i < sent[k]
    <3>1. GivenUp(t) /\ t \notin abandoned \cup mishaps /\ t \in Requests
      BY <1>1, <1>2, <2>1, <2>3 DEF TriesInv, FairTries
    <3> QED
      BY <1>1, <3>1 DEF GivenUp, EndInv, Failures
  <2> QED
    BY <1>2, <2>1, <2>2, <2>3
<1>5. Failures(k) = FairTries(k)
  BY <1>4 DEF Failures
<1>6. Cardinality(FairTries(k)) \in Nat /\ Changes(bookings) \in Nat
  BY <1>2, SmallerSet, ChangesGrow DEF Ages
<1> QED
  BY <1>1, <1>5, <1>6 DEF FailuresInv

(* TryingAgainHelps: with pkg/txmanager, a client who has had more         *)
(* undisturbed tries than bookings were made and bookings were cancelled   *)
(* has been told whether the place is his, also while others cancel and    *)
(* reconfigure; the 500 of a serialization failure is no endless answer.   *)
THEOREM TriesAreBounded == TxInContext /\ ClientsSpec => []TryingAgainHelps
BY ClientsAlways, EnoughTries, PTL

(* Trying again overfills nothing: however many tries there are, at no     *)
(* minute are there more cars at an address than it has had boxes, and     *)
(* whoever was answered 201 has his row.                                   *)
THEOREM RetriesWithinCapacity ==
    TxInContext /\ ClientsSpec => [](AdmittedWithinLimit /\ CapacityRespected /\ AnswerMatchesTable)
BY TriesAreRequests, AdmissionAlways, CapacityAlways, AnswersAlways, PTL
=============================================================================

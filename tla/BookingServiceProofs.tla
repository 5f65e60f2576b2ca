------------------------ MODULE BookingServiceProofs ------------------------
(***************************************************************************)
(* BookingService for every value of the constants: types, the window of   *)
(* dates and times, capacity and answers with the transaction manager that *)
(* hands the transaction to the repositories (TxInContext), refusals, and  *)
(* that the service implements SlotLedger.                                 *)
(***************************************************************************)
EXTENDS BookingService, CreateBookingProofs

\* Between reading a row and writing it nobody deletes it.
CallsFoundRow ==
    \A c \in Calls : callPc[c] \in {"asking", "decided"} => CallBody[c].id \in Stored(bookings)

TypeInv == TypeOK /\ CallsFoundRow

(* The service starts in a well-typed state, with no call under way.       *)
LEMMA TypeInit == Init => TypeInv
<1> SUFFICES ASSUME Init PROVE TypeInv
  OBVIOUS
<1> USE DEF Init, CreateInit, CallsInit
<1>1. BookingsTypeOK
  BY DEF BookingsTypeOK, EmptyTable
<1>2. configs \in ConfigTable
  BY CreateAssumption
<1>3. local \in [Requests -> [now : Moment, open : BOOLEAN]]
  BY MinutesPerDayAssumption DEF NotRead, Moment, TimeString
<1>4. config \in [Requests -> SlotConfig]
  BY ConfigAssumption
<1>5. snapshot \in [Requests -> [Requests -> Row \cup {NoBooking}]]
  BY DEF EmptyTable
<1>6. offered \in [Addresses -> SUBSET Nat]
  <2>1. \A c \in SlotConfig : c.maxConcurrent \in Nat
    BY ConfigAssumption
  <2>2. \A a \in Addresses : Boxes(configs, a) \subseteq Nat
    BY <1>2, <2>1, ConfigAssumption DEF Boxes, ConfigTable
  <2> QED
    BY <2>2
<1>7. CreateTypeOK
  BY <1>1, <1>2, <1>3, <1>4, <1>5, <1>6 DEF CreateTypeOK, Pcs, InTransaction, Answers
<1>8. LifecycleTypeOK
  BY <1>1 DEF LifecycleTypeOK, BookingStatus, ActiveStatuses, Outcomes
<1>9. CallsFoundRow
  BY DEF CallsFoundRow
<1> QED
  BY <1>7, <1>8, <1>9 DEF TypeInv, TypeOK

(* A call of Cancel or UpdateStatus that returns writes only its outcome.  *)
LEMMA ReturnType ==
    ASSUME LifecycleTypeOK, NEW c \in Calls, NEW err \in Outcomes, Return(c, err)
    PROVE  LifecycleTypeOK'
BY DEF LifecycleTypeOK, Return, BookingsTypeOK

(* A call that decides writes only the status it has decided on.           *)
LEMMA DecideType ==
    ASSUME LifecycleTypeOK, NEW c \in Calls, NEW s \in BookingStatus, Decide(c, s)
    PROVE  LifecycleTypeOK'
BY DEF LifecycleTypeOK, Decide, BookingsTypeOK

(* What the parameters of a call hold.                                     *)
LEMMA CallType ==
    ASSUME NEW c \in Calls
    PROVE  /\ CallBody[c].id \in Requests
           /\ CallBody[c].user \in Nat
           /\ CallBody[c].op \in {"cancel", "update"}
BY LifecycleAssumption DEF CallBodies

(* What a call does to the table, and what it needs to have seen there.    *)
LEMMA CallStepType ==
    ASSUME TypeInv, NEW c \in Calls, CancelCall(c)
    PROVE  TypeInv'
<1> DEFINE i == CallBody[c].id
<1>1. i \in Requests
  BY CallType
<1>2. UNCHANGED <<configs, pc, local, config, snapshot, locks, answer, rank, offered, unknown>>
  BY DEF CancelCall, requestVars, auxVars
<1>3. "cancelled_by_user" \in BookingStatus /\ "cancelled_by_company" \in BookingStatus
  BY DEF BookingStatus, InactiveStatuses
<1> USE DEF TypeInv, TypeOK
<1>4. LifecycleTypeOK' /\ (BookingsTypeOK' => CreateTypeOK')
  <2>1. ASSUME ReadBooking(c) PROVE LifecycleTypeOK'
    <3>1. \A err \in {"ErrBookingNotFound", "ErrCannotCancel"} : err \in Outcomes
      BY DEF Outcomes
    <3>2. ASSUME callPc' = [callPc EXCEPT ![c] = "asking"],
                 UNCHANGED <<bookings, newStatus, outcome, cancellation>>
          PROVE  LifecycleTypeOK'
      BY <3>2 DEF LifecycleTypeOK, BookingsTypeOK
    <3> QED
      BY <2>1, <1>3, <3>1, <3>2, ReturnType, DecideType DEF ReadBooking
  <2>2. ASSUME CheckManager(c) PROVE LifecycleTypeOK'
    <3>1. \A err \in {"ErrInvalidInput", "ErrAccessDenied", "ErrCompanyNotFound", "ErrInternal"} :
            err \in Outcomes
      BY DEF Outcomes
    <3> QED
      BY <2>2, <1>3, <3>1, ReturnType, DecideType DEF CheckManager, KnownStatus
  <2>3. ASSUME FailStatement(c) PROVE LifecycleTypeOK'
    BY <2>3, ReturnType DEF FailStatement, Outcomes
  <2>4. ASSUME WriteStatus(c) PROVE LifecycleTypeOK'
    <3>1. newStatus[c] \in BookingStatus /\ i \in Stored(bookings)
      BY <2>4 DEF LifecycleTypeOK, WriteStatus, CallsFoundRow
    <3>2. BookingsTypeOK'
      BY <2>4, <1>1, <3>1, RowsStay DEF WriteStatus, BookingsTypeOK
    <3>3. PICK err \in {"ok", "ErrInternal"} : outcome' = [outcome EXCEPT ![c] = err]
      BY <2>4 DEF WriteStatus
    <3>4. outcome' \in [Calls -> Outcomes]
      BY <3>3 DEF LifecycleTypeOK, Outcomes
    <3>5. cancellation' \in [Requests -> Calls \cup {Nobody}]
      BY <2>4 DEF LifecycleTypeOK, WriteStatus
    <3> QED
      BY <2>4, <3>2, <3>4, <3>5 DEF LifecycleTypeOK, WriteStatus
  <2> QED
    BY <1>2, <2>1, <2>2, <2>3, <2>4 DEF CancelCall, CreateTypeOK
<1>5. Stored(bookings) \subseteq Stored(bookings)'
  <2>1. CASE WriteStatus(c)
    <3>1. newStatus[c] \in BookingStatus /\ i \in Stored(bookings)
      BY <2>1 DEF LifecycleTypeOK, WriteStatus, CallsFoundRow
    <3>2. bookings' = SetStatus(bookings, i, newStatus[c])
      BY <2>1 DEF WriteStatus
    <3>3. Stored(SetStatus(bookings, i, newStatus[c])) = Stored(bookings)
      BY <1>1, <3>1, RowsStay
    <3> QED
      BY <3>2, <3>3 DEF Stored
  <2>2. CASE UNCHANGED bookings
    BY <2>2 DEF Stored
  <2> QED
    BY <2>1, <2>2 DEF CancelCall, ReadBooking, CheckManager, FailStatement, Return, Decide
<1>6. CallsFoundRow'
  <2>1. \A d \in Calls : callPc'[d] \in {"asking", "decided"} =>
          callPc[d] \in {"asking", "decided"} \/ CallBody[d].id \in Stored(bookings)
    <3> SUFFICES ASSUME NEW d \in Calls, callPc'[d] \in {"asking", "decided"},
                        callPc[d] \notin {"asking", "decided"}
                 PROVE  CallBody[d].id \in Stored(bookings)
      OBVIOUS
    <3>1. d = c /\ ReadBooking(c) /\ Booking(c) # NoBooking
      BY DEF CancelCall, ReadBooking, CheckManager, WriteStatus, FailStatement, Return, Decide,
             LifecycleTypeOK
    <3> QED
      BY <3>1, <1>1 DEF Stored, Booking
  <2> QED
    BY <2>1, <1>5 DEF CallsFoundRow
<1> QED
  BY <1>4, <1>6 DEF LifecycleTypeOK

(* Every step of the service keeps types, and no row is ever deleted.      *)
LEMMA TypeStep == TypeInv /\ [Next]_vars => TypeInv'
<1> SUFFICES ASSUME TypeInv, [Next]_vars PROVE TypeInv'
  OBVIOUS
<1> USE DEF TypeInv, TypeOK
<1>1. ASSUME NEW r \in Requests, Request(r) PROVE TypeInv'
  <2>1. CreateTypeOK' /\ UNCHANGED callVars
    BY <1>1, RequestStepType DEF Request
  <2>2. LifecycleTypeOK'
    BY <2>1 DEF LifecycleTypeOK, CreateTypeOK, callVars
  <2>3. Stored(bookings) \subseteq Stored(bookings)'
    <3>1. CASE PutRow(r)
      BY <3>1, RowsStay
    <3>2. CASE UNCHANGED bookings
      BY <3>2 DEF Stored
    <3> QED
      BY <1>1, <3>1, <3>2
      DEF Request, RequestStep, RequestProgress, Receive, ReadConfig, ReadBookings, SlotNotAvailable, FailLock,
          Insert, Commit, FailCommit, DbError, CommitUnknown
  <2> QED
    BY <2>1, <2>2, <2>3 DEF CallsFoundRow, callVars
<1>2. ASSUME NEW c \in Calls, CancelCall(c) PROVE TypeInv'
  BY <1>2, CallStepType
<1>3. ASSUME NEW l \in Levels, NEW c \in SlotConfig, Reconfigure(l, c) PROVE TypeInv'
  BY <1>3, ReconfigureType DEF Reconfigure, WriteConfig, LifecycleTypeOK, BookingsTypeOK,
     CallsFoundRow, callVars, Stored
<1>4. CASE Restart
  <2>1. CreateTypeOK'
    BY <1>4, CrashType DEF Restart
  <2>2. callPc' \in [Calls -> {"idle", "asking", "decided", "returned"}]
    BY <1>4 DEF Restart
  <2>3. LifecycleTypeOK'
    BY <1>4, <2>1, <2>2 DEF Restart, LifecycleTypeOK, CreateTypeOK
  <2>4. CallsFoundRow'
    BY <1>4 DEF Restart, CallsFoundRow
  <2> QED
    BY <2>1, <2>3, <2>4
<1>5. CASE UNCHANGED vars
  BY <1>5 DEF vars, createVars, requestVars, auxVars, callVars, CreateTypeOK, LifecycleTypeOK,
     BookingsTypeOK, CallsFoundRow, Stored
<1> QED
  BY <1>1, <1>2, <1>3, <1>4, <1>5 DEF Next

(* Whatever the requests, calls, configurations and faults: every variable *)
(* keeps its type, and a call that decided on a status has a row to write  *)
(* it to.                                                                  *)
THEOREM TypeInvariant == Spec => []TypeInv
BY TypeInit, TypeStep, PTL DEF Spec

(* Type correctness of the running service: TypeOK, which TLC checks on a  *)
(* small instance, for every number of requests, calls and configurations. *)
THEOREM TypeCorrect == Spec => []TypeOK
<1>1. TypeInv => TypeOK
  BY DEF TypeInv
<1> QED
  BY <1>1, TypeInvariant, PTL

-----------------------------------------------------------------------------
(* The booking window.                                                     *)

LEMMA RulesGoOn == TypeInv /\ RulesInv /\ [Next]_vars => RulesInv'
<1> SUFFICES ASSUME TypeInv, RulesInv, [Next]_vars
             PROVE  RulesInv'
  OBVIOUS
<1>1. CASE UNCHANGED <<pc, local, config>>
  BY <1>1 DEF RulesInv
<1>2. CASE \E r \in Requests : Request(r)
  BY <1>2, RulesStep DEF Request, TypeInv, TypeOK
<1>3. CASE Restart
  BY <1>3 DEF Restart, Crash, RulesInv, InTransaction
<1> QED
  BY <1>1, <1>2, <1>3 DEF Next, CancelCall, Reconfigure, WriteConfig, vars, createVars, requestVars

(* At every moment, whoever is past the rules has passed them.             *)
THEOREM RulesAlways == Spec => []RulesInv
<1>1. Init => RulesInv
  BY DEF Init, CreateInit, RulesInv
<1> QED
  BY <1>1, RulesGoOn, TypeInvariant, PTL DEF Spec

\* A step that changes r's answer is a step of r.
LEMMA AnswerIsOwn ==
    ASSUME CreateTypeOK, [Next]_vars, NEW r \in Requests, answer'[r] # answer[r]
    PROVE  RequestStep(r)
<1>1. PICK q \in Requests : RequestStep(q)
  BY DEF Next, Request, CancelCall, Reconfigure, WriteConfig, Restart, Crash, vars, createVars,
         requestVars
<1>2. ASSUME NEW where, NEW status, Leave(q, where, status), q # r
      PROVE  FALSE
  BY <1>2 DEF Leave, CreateTypeOK
<1>3. CASE q # r
  BY <1>1, <1>2, <1>3 DEF RequestStep, RequestProgress, Receive, ReadConfig, ReadBookings,
       SlotNotAvailable, FailLock, Insert, Commit, FailCommit, DbError, CommitUnknown, Reply
<1> QED
  BY <1>1, <1>3

(* Who is confirmed keeps notice and horizon, whatever the zone, when the  *)
(* notice ends before midnight: the rules checked before the count still   *)
(* say so at COMMIT.                                                       *)
THEOREM WindowKept == Spec => WithinBookingWindow
<1>1. ASSUME TypeInv, RulesInv, [Next]_vars, NEW r \in Requests, Confirmed(r),
             local[r].now.minute + config[r].minNotice < MinutesPerDay
      PROVE  /\ NoticeGiven(r)
             /\ config[r].advanceDays = 0
                  \/ Body[r].date - local[r].now.day <= config[r].advanceDays
  <2>1. CreateTypeOK
    BY <1>1 DEF TypeInv, TypeOK
  <2>2. pc[r] = "inserted"
    BY <1>1, <2>1, AnswerIsOwn, ConfirmedByCommit DEF Confirmed
  <2>3. RuleError(Body[r], local[r].open, local[r].now, config[r]) = "ok"
    BY <1>1, <2>2 DEF RulesInv
  <2>4. /\ ~IsDateInPast(Body[r].date, local[r].now)
        /\ ~DateTooFar(Body[r].date, local[r].now, config[r].advanceDays)
        /\ ~TooLateToBook(Body[r].date, Body[r].start, local[r].now, config[r].minNotice)
    BY <2>3, RulesPassed
  <2>5. /\ Body[r].date \in Nat /\ Body[r].start \in TimeString
        /\ local[r].now \in Moment
        /\ config[r].minNotice \in Nat /\ config[r].advanceDays \in Nat
    BY <2>1, RequestType, ConfigAssumption DEF CreateTypeOK
  <2>6. /\ Body[r].date >= local[r].now.day
        /\ config[r].advanceDays = 0
             \/ Body[r].date - local[r].now.day <= config[r].advanceDays
    BY <2>4, <2>5, DatesLetThrough
  <2>7. NoticeGiven(r)
    BY <1>1, <2>4, <2>5, <2>6, NoticeKept DEF NoticeGiven, DatedMinute
  <2> QED
    BY <2>6, <2>7
<1>2. TypeInv /\ RulesInv /\ [Next]_vars =>
        [\A r \in Requests :
           Confirmed(r) /\ local[r].now.minute + config[r].minNotice < MinutesPerDay =>
              /\ NoticeGiven(r)
              /\ config[r].advanceDays = 0
                   \/ Body[r].date - local[r].now.day <= config[r].advanceDays]_createVars
  BY <1>1
<1> QED
  BY <1>2, TypeInvariant, RulesAlways, PTL DEF Spec, WithinBookingWindow, Confirmed, NoticeGiven,
     DatedMinute

(* A request that has not begun its first query is not answered.           *)
THEOREM UnansweredAlways == Spec => []UnansweredInv
<1>1. Init => UnansweredInv
  BY DEF Init, CreateInit, UnansweredInv
<1>2. TypeInv /\ UnansweredInv /\ [Next]_vars => UnansweredInv'
  <2> SUFFICES ASSUME TypeInv, UnansweredInv, [Next]_vars
               PROVE  UnansweredInv'
    OBVIOUS
  <2>1. CASE UNCHANGED <<pc, answer>>
    BY <2>1 DEF UnansweredInv
  <2>2. CASE \E r \in Requests : Request(r)
    BY <2>2, UnansweredStep DEF Request, TypeInv, TypeOK
  <2>3. CASE Restart
    BY <2>3 DEF Restart, Crash, UnansweredInv, InTransaction
  <2> QED
    BY <2>1, <2>2, <2>3 DEF Next, CancelCall, Reconfigure, WriteConfig, vars, createVars,
                            requestVars
<1> QED
  BY <1>1, <1>2, TypeInvariant, PTL DEF Spec

(* On a server in UTC nobody is told that a date is wrong unless it has    *)
(* passed or is too far ahead.                                             *)
THEOREM DatesRefusedForCause == Spec => DatesRefusedRightly
<1>1. ASSUME TypeInv, UnansweredInv, [Next]_vars, NEW r \in Requests,
             pc[r] = "begun", answer'[r] = 400, local[r].open,
             ~TooLateToBook(Body[r].date, Body[r].start, local[r].now, config'[r].minNotice),
             ZoneOffset = 0
      PROVE  \/ Body[r].date < local[r].now.day
             \/ /\ config'[r].advanceDays # 0
                /\ Body[r].date > local[r].now.day + config'[r].advanceDays
  <2>1. CreateTypeOK /\ answer[r] = 0
    BY <1>1 DEF TypeInv, TypeOK, UnansweredInv
  <2>2. RequestStep(r)
    BY <1>1, <2>1, AnswerIsOwn
  <2>3. /\ RuleError(Body[r], local[r].open, local[r].now, config'[r]) # "ok"
        /\ config'[r] \in SlotConfig
    BY ZenonT(60), <1>1, <2>1, <2>2, RefusedByRules
  <2>4. \/ IsDateInPast(Body[r].date, local[r].now)
        \/ DateTooFar(Body[r].date, local[r].now, config'[r].advanceDays)
    <3>1. RuleError(Body[r], local[r].open, local[r].now, config'[r]) = "ok" <=>
            /\ ~IsDateInPast(Body[r].date, local[r].now)
            /\ ~DateTooFar(Body[r].date, local[r].now, config'[r].advanceDays)
            /\ local[r].open
            /\ ~TooLateToBook(Body[r].date, Body[r].start, local[r].now, config'[r].minNotice)
      BY RulesPassed
    <3> QED
      BY <1>1, <2>3, <3>1, Zenon
  <2>5. /\ Body[r].date \in Nat /\ local[r].now \in Moment /\ config'[r].advanceDays \in Nat
    BY <2>1, <2>3, RequestType, ConfigAssumption DEF CreateTypeOK
  <2> QED
    BY <1>1, <2>4, <2>5, DatesRefused
<1>2. TypeInv /\ UnansweredInv /\ [Next]_vars =>
        [\A r \in Requests :
           LET now == local[r].now IN
           /\ pc[r] = "begun" /\ answer'[r] = 400
           /\ local[r].open
           /\ ~TooLateToBook(Body[r].date, Body[r].start, now, config'[r].minNotice)
           /\ ZoneOffset = 0
           => \/ Body[r].date < now.day
              \/ config'[r].advanceDays # 0
                   /\ Body[r].date > now.day + config'[r].advanceDays]_createVars
  BY <1>1
<1> QED
  BY <1>2, TypeInvariant, UnansweredAlways, PTL DEF Spec, DatesRefusedRightly

-----------------------------------------------------------------------------
(* Capacity and answers.                                                   *)

\* A call of Cancel writes one of the two statuses of a cancellation.
CancelInv ==
    \A c \in Calls : callPc[c] = "decided" =>
        newStatus[c] \in {"cancelled_by_user", "cancelled_by_company"}

ServiceInv == TypeInv /\ CreateInv /\ CancelInv

(* An UPDATE of Cancel makes one row inactive, a row that is locked by     *)
(* no transaction.                                                         *)
LEMMA CancelEffect ==
    ASSUME TypeInv, CancelInv, NEW c \in Calls, CancelCall(c)
    PROVE  /\ UNCHANGED <<configs, requestVars, auxVars>>
           /\ Stored(bookings)' = Stored(bookings)
           /\ \A i \in Stored(bookings) :
                /\ bookings'[i].duration = bookings[i].duration
                /\ bookings'[i] # bookings[i] =>
                     /\ ~IsActive(bookings'[i].status)
                     /\ \A r \in Requests : i \notin locks[r]
           /\ CancelInv'
<1>1. UNCHANGED <<configs, requestVars, auxVars>>
  BY DEF CancelCall
<1>2. IsCancel(c)
  BY RoutedAssumption DEF IsCancel
<1>3. LifecycleTypeOK /\ CreateTypeOK
  BY DEF TypeInv, TypeOK
<1>4. CASE WriteStatus(c) /\ RowFree(c)
  <2> DEFINE i == CallBody[c].id
             s == newStatus[c]
  <2>1. i \in Requests /\ i \in Stored(bookings) /\ s \in BookingStatus
    BY <1>3, <1>4, CallType DEF WriteStatus, TypeInv, CallsFoundRow, LifecycleTypeOK
  <2>2. s \in {"cancelled_by_user", "cancelled_by_company"}
    BY <1>4 DEF WriteStatus, CancelInv
  <2>3. ~IsActive(s)
    BY <2>2 DEF IsActive, InactiveStatuses
  <2>4. bookings' = SetStatus(bookings, i, s)
    BY <1>4 DEF WriteStatus
  <2>5. \A r \in Requests : i \notin locks[r]
    BY <1>4 DEF RowFree
  <2>6. CancelInv'
    BY <1>3, <1>4 DEF WriteStatus, CancelInv, LifecycleTypeOK
  <2> HIDE DEF i, s
  <2>7. /\ Stored(SetStatus(bookings, i, s)) = Stored(bookings)
        /\ SetStatus(bookings, i, s)[i].duration = bookings[i].duration
        /\ SetStatus(bookings, i, s)[i].status = s
        /\ \A j \in Requests \ {i} : SetStatus(bookings, i, s)[j] = bookings[j]
    BY <1>3, <2>1, RowsStay
  <2>8. Stored(bookings)' = Stored(bookings) /\ Stored(bookings) \subseteq Requests
    BY <2>4, <2>7 DEF Stored
  <2> QED
    BY <1>1, <2>3, <2>4, <2>5, <2>6, <2>7, <2>8
<1>5. CASE ReadBooking(c) \/ CheckManager(c) \/ FailStatement(c)
  <2>1. UNCHANGED bookings
    BY <1>5 DEF ReadBooking, CheckManager, FailStatement, Return, Decide
  <2>2. CancelInv'
    BY <1>2, <1>3, <1>5
    DEF ReadBooking, CheckManager, FailStatement, Return, Decide, CancelInv, LifecycleTypeOK
  <2> QED
    BY <1>1, <2>1, <2>2 DEF Stored
<1> QED
  BY <1>4, <1>5 DEF CancelCall

(* Cancellations respect what transactions have seen and counted.          *)
LEMMA CancelStep ==
    ASSUME ServiceInv, NEW c \in Calls, CancelCall(c), TypeInv'
    PROVE  ServiceInv'
<1>1. /\ UNCHANGED <<configs, requestVars, auxVars>>
      /\ Stored(bookings)' = Stored(bookings)
      /\ \A i \in Stored(bookings) :
           /\ bookings'[i].duration = bookings[i].duration
           /\ bookings'[i] # bookings[i] =>
                ~IsActive(bookings'[i].status) /\ \A r \in Requests : i \notin locks[r]
      /\ CancelInv'
  BY CancelEffect DEF ServiceInv
<1>2. CreateTypeOK
  BY DEF ServiceInv, CreateInv
<1>3. ASSUME NEW q \in Requests
      PROVE  (AnswerInv(q) /\ SnapshotInv(q) /\ CountInv(q) /\ OfferInv(q))'
  <2>1. AnswerInv(q) /\ SnapshotInv(q) /\ CountInv(q) /\ OfferInv(q)
    BY DEF ServiceInv, CreateInv, RequestInv
  <2>2. AnswerInv(q)'
    BY <1>1, <2>1 DEF AnswerInv, requestVars, auxVars
  <2>3. SnapshotInv(q)'
    BY <1>1, <2>1 DEF SnapshotInv, Stored, requestVars
  <2>4. CountInv(q)'
    <3> SUFFICES ASSUME pc[q] \in Counted
                 PROVE  CountInv(q)'
      BY <1>1 DEF CountInv, requestVars
    <3>1. /\ locks[q] = Candidates(q)
          /\ \A i \in Candidates(q) : bookings[i] = snapshot[q][i]
          /\ HasRoom(q)
      BY <2>1 DEF CountInv
    <3>2. Candidates(q) \subseteq Stored(snapshot[q])
      BY DEF Candidates, View, GetByCompanyWithFilter, Active, ServiceInv, CreateInv
    <3>3. \A i \in Candidates(q) : bookings'[i] = bookings[i]
      BY <1>1, <2>1, <3>1, <3>2 DEF SnapshotInv, Started, Counted
    <3>4. Candidates(q)' = Candidates(q) /\ HasRoom(q)'
      BY <1>1, <3>1, CountedStays DEF ServiceInv, CreateInv, requestVars
    <3> QED
      BY <1>1, <3>1, <3>3, <3>4 DEF CountInv, requestVars
  <2>5. OfferInv(q)'
    BY <1>1, <2>1 DEF OfferInv, requestVars, auxVars
  <2> QED
    BY <2>2, <2>3, <2>4, <2>5
<1>4. RankInv'
  BY <1>1 DEF ServiceInv, CreateInv, RankInv, auxVars
<1>5. \A i \in Daytime' : i \in Daytime /\ bookings'[i].duration = bookings[i].duration
  BY <1>1 DEF Daytime, Active
<1>6. AdmittedWithinLimit' /\ CapacityRespected'
  BY <1>1, <1>2, <1>5, FewerRows DEF ServiceInv, CreateInv, requestVars, auxVars
<1>7. \A a \in Addresses : Boxes(configs, a)' \subseteq offered'[a]
  BY <1>1 DEF ServiceInv, CreateInv, Boxes, auxVars
<1> QED
  BY <1>1, <1>3, <1>4, <1>6, <1>7 DEF ServiceInv, CreateInv, RequestInv, TypeInv, TypeOK

(* At the start no call has decided anything.                              *)
LEMMA ServiceInit == TxInContext /\ Init => ServiceInv
<1>1. Init => CreateInit /\ CancelInv
  BY DEF Init, CallsInit, CancelInv
<1> QED
  BY <1>1, TypeInit, CreateStart DEF ServiceInv

(* Every step of the service keeps the invariant.                          *)
LEMMA ServiceStep == ServiceInv /\ [Next]_vars => ServiceInv'
<1> SUFFICES ASSUME ServiceInv, [Next]_vars PROVE ServiceInv'
  OBVIOUS
<1>1. TypeInv' /\ CreateInv
  BY TypeStep DEF ServiceInv
<1>2. ASSUME NEW r \in Requests, Request(r) PROVE ServiceInv'
  BY <1>1, <1>2, RequestKeeps DEF Request, ServiceInv, CancelInv, callVars
<1>3. ASSUME NEW c \in Calls, CancelCall(c) PROVE ServiceInv'
  BY <1>1, <1>3, CancelStep
<1>4. ASSUME NEW l \in Levels, NEW c \in SlotConfig, Reconfigure(l, c) PROVE ServiceInv'
  BY <1>1, <1>4, ReconfigureKeeps DEF Reconfigure, ServiceInv, CancelInv, callVars
<1>5. CASE Restart
  <2>1. CancelInv'
    BY <1>5 DEF Restart, CancelInv
  <2> QED
    BY <1>1, <1>5, <2>1, CrashKeeps DEF Restart, ServiceInv
<1>6. CASE UNCHANGED vars
  BY <1>1, <1>6, CreateUnchanged DEF vars, ServiceInv, CancelInv, callVars
<1> QED
  BY <1>2, <1>3, <1>4, <1>5, <1>6 DEF Next

(* With the transaction in the context, the invariant holds throughout.    *)
THEOREM ServiceInvariant == TxInContext /\ Spec => []ServiceInv
BY ServiceInit, ServiceStep, PTL DEF Spec

(* However many requests, cancellations, reconfigurations, failures and    *)
(* crashes interleave: no minute of a day holds more cars than some        *)
(* configuration of the address has had boxes.                             *)
THEOREM CapacityAlways == TxInContext /\ Spec => []CapacityRespected
<1>1. ServiceInv => CapacityRespected
  BY DEF ServiceInv, CreateInv
<1> QED
  BY <1>1, ServiceInvariant, PTL

\* No booking of any configuration reaches midnight.
NothingOvernight ==
    \A r \in Requests, c \in SlotConfig : EndsSameDay(Body[r].start, c.slotDuration)

\* What is stored is as long as the slots of some configuration.
LengthsInv ==
    \A i \in Stored(bookings) : \E c \in SlotConfig : bookings[i].duration = c.slotDuration

(* Only a commit adds a row, as long as the request's configuration says.  *)
LEMMA LengthsGoOn == ServiceInv /\ LengthsInv /\ [Next]_vars => LengthsInv'
<1> SUFFICES ASSUME ServiceInv, LengthsInv, [Next]_vars
             PROVE  LengthsInv'
  OBVIOUS
<1>1. TypeInv /\ CancelInv /\ CreateInv /\ CreateTypeOK
  BY DEF ServiceInv, TypeInv, TypeOK
<1>2. ASSUME NEW r \in Requests, PutRow(r) PROVE LengthsInv'
  <2>1. /\ bookings'[r].duration = config[r].slotDuration /\ config[r] \in SlotConfig
        /\ \A q \in Requests \ {r} : bookings'[q] = bookings[q]
        /\ Stored(bookings)' = Stored(bookings) \cup {r}
    BY <1>1, <1>2, RowCommitted DEF CreateTypeOK
  <2>2. Stored(bookings) \subseteq Requests
    BY DEF Stored
  <2> QED
    BY <2>1, <2>2 DEF LengthsInv
<1>3. CASE UNCHANGED bookings
  BY <1>3 DEF LengthsInv, Stored
<1>4. ASSUME NEW r \in Requests, RequestStep(r) PROVE LengthsInv'
  <2>1. Effect(r)
    BY <1>1, <1>4, RequestEffect DEF CreateInv
  <2> QED
    BY <1>2, <1>3, <2>1 DEF Effect, Ends, Begins, Configures, Counts, Inserts, Commits, QuietTable
<1>5. ASSUME NEW c \in Calls, CancelCall(c) PROVE LengthsInv'
  <2>1. /\ Stored(bookings)' = Stored(bookings)
        /\ \A i \in Stored(bookings) : bookings'[i].duration = bookings[i].duration
    BY <1>1, <1>5, CancelEffect
  <2> QED
    BY <2>1 DEF LengthsInv
<1> QED
  BY <1>3, <1>4, <1>5 DEF Next, Request, Reconfigure, WriteConfig, Restart, Crash, vars, createVars

(* The end of the day is the only exception to the limit of the schema:    *)
(* where no booking can reach midnight, at no minute are there more cars   *)
(* than boxes, of all the bookings that occupy one.                        *)
THEOREM CapacityWithinTheDay ==
    NothingOvernight /\ TxInContext /\ Spec => []CapacityAcrossMidnight
<1> SUFFICES ASSUME NothingOvernight PROVE TxInContext /\ Spec => []CapacityAcrossMidnight
  OBVIOUS
<1>1. Init => LengthsInv
  BY DEF Init, CreateInit, EmptyTable, LengthsInv, Stored
<1>2. LengthsInv /\ CapacityRespected => CapacityAcrossMidnight
  <2> SUFFICES ASSUME LengthsInv, CapacityRespected
               PROVE  CapacityAcrossMidnight
    OBVIOUS
  <2>1. Active(bookings) \subseteq Daytime
    BY DEF Active, Stored, Daytime, LengthsInv, NothingOvernight
  <2>2. Active(bookings) = Daytime
    BY <2>1 DEF Daytime
  <2> QED
    BY <2>2 DEF CapacityRespected, Occupying, CapacityAcrossMidnight
<1> QED
  BY <1>1, <1>2, LengthsGoOn, ServiceInvariant, CapacityAlways, PTL DEF Spec

(* And each booking was admitted within the limit it was checked against.  *)
THEOREM AdmissionAlways == TxInContext /\ Spec => []AdmittedWithinLimit
<1>1. ServiceInv => AdmittedWithinLimit
  BY DEF ServiceInv, CreateInv
<1> QED
  BY <1>1, ServiceInvariant, PTL

(* A client is told 201 exactly when its row is stored, up to commits of   *)
(* unknown outcome.                                                        *)
THEOREM AnswersAlways == TxInContext /\ Spec => []AnswerMatchesTable
<1>1. ServiceInv => AnswerMatchesTable
  BY DEF ServiceInv, CreateInv, RequestInv, AnswerInv, AnswerMatchesTable
<1> QED
  BY <1>1, ServiceInvariant, PTL

(* Rows a transaction has counted stay as counted until it ends.           *)
THEOREM CountedRowsAlways == TxInContext /\ Spec => []CountedRowsHeld
<1>1. ServiceInv => CountedRowsHeld
  BY DEF ServiceInv, CreateInv, RequestInv, CountInv, Counted, CountedRowsHeld
<1> QED
  BY <1>1, ServiceInvariant, PTL

-----------------------------------------------------------------------------
(* Refusals.                                                               *)

(* A step that refuses leaves the table as it is, and as full as it says.  *)
LEMMA RefusalStep ==
    ASSUME TypeInv, [Next]_vars, NEW r \in Requests
    PROVE  FullWhenRefused(r)
<1> SUFFICES ASSUME answer'[r] = 409, answer[r] = 0
             PROVE  FullWhenRefused(r)
  BY DEF FullWhenRefused
<1>1. CreateTypeOK
  BY DEF TypeInv, TypeOK
<1>2. PICK q \in Requests : RequestStep(q)
  BY DEF Next, Request, CancelCall, Reconfigure, WriteConfig, Restart, Crash, vars, createVars,
     requestVars
<1>3. q = r
  BY <1>1, <1>2, OthersStay
<1>4. SlotNotAvailable(r)
  BY <1>1, <1>2, <1>3, RefusedWhenFull
<1> DEFINE full == {i \in Active(bookings) :
                      /\ SamePlace(i, r)
                      /\ ShareMinute(Body[i].start, bookings[i].duration,
                                     Body[r].start, config[r].slotDuration)}
<1>5. full \in SUBSET Requests
  BY DEF Active, Stored
<1>6. Counting(r) \in SUBSET full
  <2> SUFFICES ASSUME NEW i \in Counting(r)
               PROVE  ShareMinute(Body[i].start, bookings[i].duration,
                                  Body[r].start, config[r].slotDuration)
    BY <1>1, <1>4, CountedStands
  <2>1. /\ i \in Active(bookings)
        /\ SlotOverlaps(Body[r].start, config[r].slotDuration, Body[i].start, bookings[i].duration)
    BY <1>1, <1>4, CountedStands
  <2>2. bookings[i].duration \in Nat \ {0} /\ config[r].slotDuration \in Nat \ {0}
    BY <1>1, <2>1, ConfigAssumption DEF CreateTypeOK, BookingsTypeOK, Active, Stored, Row
  <2>3. Body[i].start \in TimeString /\ Body[r].start \in TimeString
    BY <2>1, RequestType DEF Active, Stored
  <2> QED
    BY <2>1, <2>2, <2>3, OverlapTrue
<1>7. config[r].maxConcurrent <= Cardinality(Counting(r))
  BY <1>1, <1>4, CountedStands
<1>8. config[r].maxConcurrent \in Nat
  BY <1>1, ConfigAssumption DEF CreateTypeOK
<1> HIDE DEF full
<1>9. config[r].maxConcurrent <= Cardinality(full)
  BY <1>5, <1>6, <1>7, <1>8, SmallerSet
<1> QED
  BY <1>9 DEF FullWhenRefused, full

(* Nobody is turned away from a slot that is not full, under either        *)
(* transaction manager.                                                    *)
THEOREM RefusalsAlways == Spec => RefusalsJustified
<1>1. TypeInv /\ [Next]_vars => [\A r \in Requests : FullWhenRefused(r)]_createVars
  BY RefusalStep
<1> QED
  BY <1>1, TypeInvariant, PTL DEF Spec, RefusalsJustified

-----------------------------------------------------------------------------
(* Refinement.                                                             *)

refusedSet == {r \in Requests : answer[r] = 409}

(* A service that has just started is an empty ledger.                     *)
LEMMA LedgerStart == Init => Ledger!LedgerInit
BY ConfigAssumption DEF Init, CreateInit, EmptyTable, Ledger!LedgerInit

(* A request of which nothing is decided is open in the ledger.            *)
LEMMA OpenInLedger ==
    ASSUME RequestInv, NEW r \in Requests, pc[r] \notin {"done", "lost"}
    PROVE  Ledger!Open(r)
BY DEF RequestInv, AnswerInv, Stored, Ledger!Open

(* The statements of the ledger on its table are those of the service.     *)
LEMMA LedgerStatements ==
    ASSUME NEW table, NEW i, NEW value
    PROVE  /\ Ledger!Stored(table) = Stored(table)
           /\ Ledger!Create(table, i, value) = Create(table, i, value)
           /\ Ledger!SetStatus(table, i, value) = SetStatus(table, i, value)
BY DEF Ledger!Stored, Stored, Ledger!Create, Create, Ledger!SetStatus, SetStatus

(* The ledger counts what is in the way in the table.                      *)
LEMMA LedgerCount ==
    ASSUME NEW r \in Requests
    PROVE  Ledger!InTheWay(r) = Cardinality(InTheWay(r))
<1>1. Overlapping(bookings, GetByCompanyWithFilter(bookings, Body[r].address, Body[r].date),
                  Body[r].start, config[r].slotDuration) = InTheWay(r)
  BY DEF Overlapping, GetByCompanyWithFilter, Active, InTheWay, SamePlace
<1>2. ASSUME NEW start, NEW duration, NEW other, NEW length
      PROVE  Ledger!SlotOverlaps(start, duration, other, length)
             <=> SlotOverlaps(start, duration, other, length)
  BY DEF Ledger!SlotOverlaps, SlotOverlaps, Ledger!IsBefore, IsBefore, Ledger!IsAfter, IsAfter,
     Ledger!AddMinutes, AddMinutes
<1>3. ASSUME NEW status PROVE Ledger!IsActive(status) <=> IsActive(status)
  BY DEF Ledger!IsActive, IsActive, Ledger!InactiveStatuses, InactiveStatuses
<1>4. Ledger!GetByCompanyWithFilter(bookings, Body[r].address, Body[r].date)
      = GetByCompanyWithFilter(bookings, Body[r].address, Body[r].date)
  BY <1>3 DEF Ledger!GetByCompanyWithFilter, GetByCompanyWithFilter, Ledger!Active, Active,
     Ledger!Stored, Stored
<1>5. ASSUME NEW rows, NEW start, NEW duration
      PROVE  Ledger!Overlapping(bookings, rows, start, duration)
             = Overlapping(bookings, rows, start, duration)
  BY <1>2, <1>3 DEF Ledger!Overlapping, Overlapping
<1>6. Ledger!Overlapping(bookings,
        Ledger!GetByCompanyWithFilter(bookings, Body[r].address, Body[r].date),
        Body[r].start, config[r].slotDuration) = InTheWay(r)
  BY <1>1, <1>4, <1>5
<1> QED
  BY <1>6 DEF Ledger!InTheWay, Ledger!CountOverlappingBookings, Ledger!Cardinality, Cardinality

(* Every step of a request is a step of the ledger or leaves it alone:     *)
(* the lookup quotes terms, the second query may refuse, the commit books. *)
LEMMA RequestLedger ==
    ASSUME ServiceInv, NEW r \in Requests, RequestStep(r)
    PROVE  Ledger!LedgerNext \/ UNCHANGED <<bookings, config, refusedSet>>
<1>1. TypeInv /\ RequestInv /\ TxInContext /\ CreateTypeOK /\ AnswerInv(r)
  BY DEF ServiceInv, CreateInv, TypeInv, TypeOK, RequestInv
<1>2. Effect(r)
  BY <1>1, RequestEffect
<1>3. pc[r] \notin {"done", "lost"} /\ answer[r] = 0
  BY <1>1, <1>2
  DEF Effect, Ends, Begins, Configures, Counts, Inserts, Commits, AnswerInv
<1>4. Ledger!Open(r)
  BY <1>1, <1>3, OpenInLedger
<1>5. ASSUME ~SlotNotAvailable(r) PROVE UNCHANGED refusedSet
  <2>1. answer'[r] # 409
    BY <1>1, <1>3, <1>5, RefusedWhenFull
  <2> QED
    BY <1>1, <1>3, <2>1, OthersStay DEF refusedSet
<1>6. CASE SlotNotAvailable(r)
  <2>1. /\ config[r].maxConcurrent <= Cardinality(Counting(r))
        /\ Counting(r) \in SUBSET Requests /\ Counting(r) \subseteq InTheWay(r)
    BY <1>1, <1>6, CountedStands DEF InTheWay
  <2>2. InTheWay(r) \in SUBSET Requests /\ config[r].maxConcurrent \in Nat
    BY <1>1, ConfigAssumption DEF InTheWay, Active, Stored, CreateTypeOK
  <2>3. Ledger!InTheWay(r) >= config[r].maxConcurrent
    <3>1. /\ Cardinality(Counting(r)) <= Cardinality(InTheWay(r))
          /\ Cardinality(Counting(r)) \in Nat /\ Cardinality(InTheWay(r)) \in Nat
      BY <2>1, <2>2, SmallerSet
    <3> QED
      BY <2>1, <2>2, <3>1, LedgerCount
  <2>4. answer'[r] = 409 /\ UNCHANGED <<bookings, config>>
    <3>1. HttpStatus("ErrSlotNotAvailable") = 409
      BY DEF HttpStatus
    <3> QED
      BY <1>1, <1>6, <3>1 DEF SlotNotAvailable, Reply, Leave, CreateTypeOK
  <2>5. refusedSet' = refusedSet \cup {r}
    BY <1>1, <2>4, OthersStay DEF refusedSet
  <2>6. Ledger!Refuse(r)
    BY <1>4, <2>3, <2>4, <2>5 DEF Ledger!Refuse, refusedSet
  <2> QED
    BY <2>6 DEF Ledger!LedgerNext
<1>7. CASE ReadConfig(r)
  <2>1. PICK c \in SlotConfig : config' = [config EXCEPT ![r] = c]
    BY <1>1, <1>7, EffectiveConfigType, RequestType DEF ReadConfig, CreateTypeOK
  <2>2. UNCHANGED bookings /\ ~SlotNotAvailable(r)
    BY <1>7 DEF ReadConfig, SlotNotAvailable, AtBookings
  <2>3. Ledger!Quote(r)
    BY <1>4, <1>5, <2>1, <2>2 DEF Ledger!Quote, refusedSet
  <2> QED
    BY <2>3 DEF Ledger!LedgerNext
<1>8. CASE Commits(r) /\ ~SlotNotAvailable(r)
  <2>1. Ledger!InTheWay(r) < config[r].maxConcurrent
    BY <1>1, <1>8, CountedAll, LedgerCount DEF Commits
  <2>2. Ledger!Book(r)
    BY <1>4, <1>5, <1>8, <2>1, LedgerStatements DEF Ledger!Book, Commits, PutRow, refusedSet
  <2> QED
    BY <2>2 DEF Ledger!LedgerNext
<1>9. CASE ~SlotNotAvailable(r) /\ ~ReadConfig(r) /\ ~Commits(r)
  <2>1. UNCHANGED bookings
    BY <1>2, <1>9 DEF Effect, Ends, Begins, Configures, Counts, Inserts, QuietTable
  <2>2. UNCHANGED config
    BY <1>9 DEF RequestStep, RequestProgress, Receive, ReadBookings, FailLock, Insert, Commit,
       FailCommit, DbError, CommitUnknown
  <2> QED
    BY <1>5, <1>9, <2>1, <2>2
<1> QED
  BY <1>6, <1>7, <1>8, <1>9

(* Every step of the service is a step of the ledger or leaves it alone.   *)
LEMMA LedgerStep == ServiceInv /\ [Next]_vars => [Ledger!LedgerNext]_(Ledger!ledgerVars)
<1> SUFFICES ASSUME ServiceInv, [Next]_vars
             PROVE  Ledger!LedgerNext \/ UNCHANGED <<bookings, config, refusedSet>>
  BY DEF Ledger!ledgerVars, refusedSet
<1>1. ASSUME NEW r \in Requests, Request(r)
      PROVE  Ledger!LedgerNext \/ UNCHANGED <<bookings, config, refusedSet>>
  BY <1>1, RequestLedger DEF Request
<1>2. ASSUME NEW c \in Calls, CancelCall(c)
      PROVE  Ledger!LedgerNext \/ UNCHANGED <<bookings, config, refusedSet>>
  <2>1. UNCHANGED <<config, refusedSet>>
    BY <1>2 DEF CancelCall, requestVars, refusedSet
  <2>2. CASE WriteStatus(c)
    <3> DEFINE i == CallBody[c].id
               s == newStatus[c]
    <3>1. i \in Requests /\ i \in Stored(bookings)
      BY <2>2, CallType DEF ServiceInv, TypeInv, CallsFoundRow, WriteStatus
    <3>2. s \in {"cancelled_by_user", "cancelled_by_company"} /\ bookings' = SetStatus(bookings, i, s)
      BY <2>2 DEF ServiceInv, CancelInv, WriteStatus
    <3>3. Ledger!Release(i)
      BY <2>1, <3>1, <3>2, LedgerStatements DEF Ledger!Release, refusedSet
    <3> QED
      BY <3>1, <3>3 DEF Ledger!LedgerNext
  <2>3. CASE ~WriteStatus(c)
    BY <1>2, <2>1, <2>3 DEF CancelCall, ReadBooking, CheckManager, FailStatement, Return, Decide
  <2> QED
    BY <2>2, <2>3
<1>3. ASSUME NEW l \in Levels, NEW c \in SlotConfig, Reconfigure(l, c)
      PROVE  UNCHANGED <<bookings, config, refusedSet>>
  BY <1>3 DEF Reconfigure, WriteConfig, requestVars, refusedSet
<1>4. CASE Restart
  BY <1>4 DEF Restart, Crash, refusedSet
<1>5. CASE UNCHANGED vars
  BY <1>5 DEF vars, createVars, requestVars, refusedSet
<1> QED
  BY <1>1, <1>2, <1>3, <1>4, <1>5 DEF Next

(* With the transaction in the context, POST and cancel together are the   *)
(* atomic ledger: transactions, locks and failures show only as requests   *)
(* that come to nothing.                                                   *)
THEOREM LedgerImplemented == TxInContext /\ Spec => ImplementsLedger
BY LedgerStart, LedgerStep, ServiceInvariant, PTL DEF Spec, ImplementsLedger, Ledger!LedgerSpec
=============================================================================

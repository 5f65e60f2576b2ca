--------------------------- MODULE ConnectionPool ---------------------------
(***************************************************************************)
(* The pool of database connections all operations share (main.go sets its *)
(* size, database/sql implements it), and what each operation of the       *)
(* service asks of it, statement by statement.                             *)
(*                                                                         *)
(* A transaction keeps one connection from BeginTx to Commit or Rollback.  *)
(* Under pkg/txmanager (TxInContext) its statements use that connection;   *)
(* under pkg/simpletxmanager each asks the pool for another one.  Outside  *)
(* a transaction a statement has a connection while it runs.               *)
(***************************************************************************)
EXTENDS Integers, Sequences, FiniteSets

CONSTANTS
    Ops,             \* operations clients may start
    Kind,            \* Kind[op]: the handler that runs op
    TxInContext,     \* which transaction manager main.go wired
    MaxOpenConns     \* cfg.Database.MaxOpenConns

\* What a handler does that takes time: remote calls and statements, one
\* "level" for each SELECT of GetConfigWithHierarchy.
Scripts ==
    [createBooking   |-> <<"remote", "begin", "level", "level", "level", "level",
                           "lock", "insert", "commit">>,
     cancelBooking   |-> <<"select", "remote", "cancel">>,
     updateConfig    |-> <<"level", "level", "level", "level", "select", "remote", "update">>,
     availableSlots  |-> <<"remote", "level", "level", "level", "level", "select">>,
     getBooking      |-> <<"select", "remote">>,
     companyBookings |-> <<"remote", "select">>,
     userBookings    |-> <<"select">>,
     getConfig       |-> <<"level", "level", "level", "level">>]

ASSUME PoolAssumption ==
    /\ IsFiniteSet(Ops)
    /\ Kind \in [Ops -> DOMAIN Scripts]
    /\ TxInContext \in BOOLEAN
    /\ MaxOpenConns \in Nat \ {0}

VARIABLES
    pos,             \* the step of its script each operation is at, 0 before it
    begun,           \* operations whose transaction has a connection
    running,         \* operations with a connection for one statement, or BEGIN
    waiting,         \* operations queued for a connection
    failed,          \* transactions whose function returned an error
    locked           \* transactions that hold rows FOR UPDATE

poolVars == <<pos, begun, running, waiting, failed, locked>>

Script(op) == Scripts[Kind[op]]
Ended(op) == pos[op] > Len(Script(op))
UnderWay(op) == pos[op] # 0 /\ ~Ended(op)
Step(op) == IF UnderWay(op) THEN Script(op)[pos[op]] ELSE "none"
AtDatabase(op) == Step(op) \notin {"none", "remote"}

PoolInit ==
    /\ pos = [op \in Ops |-> 0]
    /\ begun = {} /\ running = {} /\ waiting = {} /\ failed = {} /\ locked = {}

GoTo(op, p) == pos' = [pos EXCEPT ![op] = p]
End(op) == GoTo(op, Len(Script(op)) + 1)

\* Once a level has a row the levels after it are left out.
SkipsLevels(op, p) ==
    /\ \A q \in pos[op] .. p - 1 : Script(op)[q] = "level"
    /\ p \in DOMAIN Script(op) => Script(op)[p] # "level"

Advance(op) ==
    \E p \in pos[op] + 1 .. Len(Script(op)) + 1 :
        /\ p = pos[op] + 1 \/ SkipsLevels(op, p)
        /\ GoTo(op, p)
-----------------------------------------------------------------------------
(* The pool.                                                               *)

InUse == Cardinality(begun) + Cardinality(running)

\* DB.conn: a connection is there or may be opened.
HasFreeConn == InUse < MaxOpenConns

Take(op) ==
    IF HasFreeConn THEN /\ running' = running \cup {op}
                        /\ UNCHANGED waiting
                   ELSE /\ waiting' = waiting \cup {op}
                        /\ UNCHANGED running

\* DB.putConn: a connection given back goes to one of those that wait, in no
\* particular order.
GiveBack(others) ==
    \/ /\ waiting = {}
       /\ running' = others
       /\ UNCHANGED waiting
    \/ \E w \in waiting : /\ running' = others \cup {w}
                          /\ waiting' = waiting \ {w}
-----------------------------------------------------------------------------
(* The operations.                                                         *)

Arrive(op) ==
    /\ pos[op] = 0
    /\ GoTo(op, 1)
    /\ UNCHANGED <<begun, running, waiting, failed, locked>>

\* SellerService or UserService answers, or the handler returns on its error.
AskOther(op) ==
    /\ Step(op) = "remote"
    /\ GoTo(op, pos[op] + 1) \/ End(op)
    /\ UNCHANGED <<begun, running, waiting, failed, locked>>

\* Mutant: the context is not looked at.
NeverInTx(op) == FALSE

\* GetExecutor finds the transaction in the context.
InTx(op) == TxInContext /\ op \in begun

NeedsConn(op) ==
    /\ AtDatabase(op) /\ Step(op) # "commit"
    /\ op \notin running \cup waiting \cup failed
    /\ ~InTx(op)

AskPool(op) ==
    /\ NeedsConn(op)
    /\ Take(op)
    /\ UNCHANGED <<pos, begun, failed, locked>>

\* BEGIN succeeds: the transaction keeps the connection.
Begin(op) ==
    /\ op \in running /\ Step(op) = "begin"
    /\ begun' = begun \cup {op}
    /\ running' = running \ {op}
    /\ Advance(op)
    /\ UNCHANGED <<waiting, failed, locked>>

\* The UPDATE of a cancellation waits for rows locked by a transaction.
RowsFree(op) == Step(op) \in {"lock", "cancel"} => locked \subseteq {op}

\* Mutant: rows are not closed, the connection stays with its operation.
StatementKeepsConn(op) ==
    /\ op \in running /\ AtDatabase(op) /\ Step(op) # "begin" /\ RowsFree(op)
    /\ Advance(op)
    /\ UNCHANGED <<begun, running, waiting, failed, locked>>

Statement(op) ==
    /\ op \in running /\ Step(op) # "begin"
    /\ Step(op) = "cancel" => RowsFree(op)
    /\ Advance(op)
    /\ GiveBack(running \ {op})
    /\ UNCHANGED <<begun, failed, locked>>

StatementInTx(op) ==
    /\ InTx(op) /\ op \notin failed
    /\ Step(op) # "commit" /\ RowsFree(op)
    /\ locked' = IF Step(op) = "lock" THEN locked \cup {op} ELSE locked
    /\ Advance(op)
    /\ UNCHANGED <<begun, running, waiting, failed>>

\* COMMIT, successful or not.
Commit(op) ==
    /\ Step(op) = "commit" /\ op \in begun \ failed
    /\ End(op)
    /\ begun' = begun \ {op}
    /\ locked' = locked \ {op}
    /\ GiveBack(running)
    /\ UNCHANGED failed

\* Mutants: an error returned without Rollback; the locks are kept.
RollbackForgotten(op) ==
    /\ op \in begun \ (running \cup waiting)
    /\ End(op)
    /\ failed' = failed \ {op}
    /\ UNCHANGED <<begun, locked, running, waiting>>

RollbackLocked(op) ==
    /\ op \in begun \ (running \cup waiting)
    /\ End(op)
    /\ begun' = begun \ {op}
    /\ failed' = failed \ {op}
    /\ UNCHANGED locked
    /\ GiveBack(running)

\* The function of the transaction returns an error, or panics: an early
\* return, a statement that failed, a client that went away.
Rollback(op) ==
    /\ op \in begun \ (running \cup waiting)
    /\ End(op)
    /\ begun' = begun \ {op}
    /\ failed' = failed \ {op}
    /\ locked' = locked \ {op}
    /\ GiveBack(running)

\* A statement with a connection of its own fails, also for a handler that
\* returns early on its result.
Fail(op) ==
    /\ op \in running
    /\ GiveBack(running \ {op})
    /\ IF op \in begun THEN failed' = failed \cup {op} /\ UNCHANGED pos
                       ELSE End(op) /\ UNCHANGED failed
    /\ UNCHANGED <<begun, locked>>

\* The client of a waiting request goes away and cancels its context.
LeaveQueue(op) ==
    /\ op \in waiting
    /\ waiting' = waiting \ {op}
    /\ IF op \in begun THEN failed' = failed \cup {op} /\ UNCHANGED pos
                       ELSE End(op) /\ UNCHANGED failed
    /\ UNCHANGED <<begun, running, locked>>

\* What an operation at the database does if nothing goes wrong.
Proceed(op) ==
    \/ AskPool(op) \/ Begin(op) \/ Statement(op) \/ StatementInTx(op) \/ Commit(op)
    \/ op \in failed /\ Rollback(op)

OpStep(op) ==
    Arrive(op) \/ AskOther(op) \/ Proceed(op) \/ Rollback(op) \/ Fail(op) \/ LeaveQueue(op)

PoolNext == \E op \in Ops : OpStep(op)

\* Nothing obliges the other services to answer or a client to go away.
PoolFairness == \A op \in Ops : WF_poolVars(Proceed(op))

PoolSpec == PoolInit /\ [][PoolNext]_poolVars /\ PoolFairness
-----------------------------------------------------------------------------
(* Properties.                                                             *)

PoolTypeOK ==
    /\ pos \in [Ops -> Nat]
    /\ \A op \in Ops : pos[op] <= Len(Script(op)) + 1
    /\ begun \subseteq Ops /\ running \subseteq Ops /\ waiting \subseteq Ops
    /\ failed \subseteq begun /\ locked \subseteq begun

(* No path through a handler loses a connection, a row lock or a place in  *)
(* the queue: who has ended, or waits for another service, holds nothing.  *)
NothingKept ==
    \A op \in Ops : ~AtDatabase(op) => op \notin begun \cup running \cup waiting \cup locked

Transactions == {op \in Ops : Kind[op] = "createBooking"}

\* Enough connections that not all of them are kept by empty transactions.
PoolLargeEnough == TxInContext \/ Cardinality(Transactions) < MaxOpenConns

Blocked(op) == op \in waiting \/ (op \in running /\ ~RowsFree(op))
                              \/ (InTx(op) /\ ~RowsFree(op))

(* Waiting is never circular, neither for connections nor through row      *)
(* locks into connections: while anybody is blocked, somebody who holds    *)
(* what is waited for can go on.                                           *)
SomebodyGoesOn ==
    PoolLargeEnough /\ (\E op \in Ops : Blocked(op)) =>
        \E op \in begun \cup running : ~Blocked(op)

(* No operation stays at the database for ever, however slow SellerService *)
(* and UserService are for other operations.                               *)
DatabaseAnswers == \A op \in Ops : AtDatabase(op) ~> ~AtDatabase(op)

(* TEST_PLAN stage 6 sends 50 bookings at once, twice the connections of   *)
(* config.toml, and wants answers within 500 ms.  Here: that a transaction *)
(* ends at all, in a pool no larger than the number of bookings.           *)
PostsAreAnswered == \A op \in Transactions : op \in begun ~> op \notin begun
=============================================================================

---------------------------- MODULE ServerProofs ----------------------------
(***************************************************************************)
(* Server for any operations, any size of the pool, either transaction     *)
(* manager and any file and environment: nothing leaks and waiting is      *)
(* never circular, whatever moment the process ends at, and what Load      *)
(* returns can be used.                                                    *)
(***************************************************************************)
EXTENDS Server, FiniteSetTheorems, TLAPS

\* Transactions and where they are, what a connection is held or wanted for,
\* and when rows are locked.
OpInv(op) ==
    /\ op \in begun => Kind[op] = "createBooking" /\ pos[op] \in 3 .. 9
    /\ op \in running \cup waiting =>
         AtDatabase(op) /\ Step(op) # "commit" /\ op \notin failed /\ ~InTx(op)
    /\ op \in locked => TxInContext /\ pos[op] \in {8, 9}

\* database/sql stays within the limit and hands a free connection on.
PoolWellUsed ==
    /\ InUse <= MaxOpenConns
    /\ waiting # {} => InUse = MaxOpenConns

\* At most one transaction holds rows.
OneLocker == \A a, b \in locked : a = b

PoolInv ==
    /\ PoolTypeOK
    /\ PoolWellUsed
    /\ running \cap waiting = {}
    /\ OneLocker
    /\ \A op \in Ops : OpInv(op)
-----------------------------------------------------------------------------
(* What the proofs need of the scripts.                                    *)

Kinds == {"createBooking", "cancelBooking", "updateConfig", "availableSlots", "getBooking",
          "companyBookings", "userBookings", "getConfig"}

LEMMA KindType == \A op \in Ops : Kind[op] \in Kinds
<1>1. DOMAIN Scripts = Kinds
  BY DEF Scripts, Kinds
<1>. QED BY <1>1, PoolAssumption

LEMMA ScriptType == \A op \in Ops : Len(Script(op)) \in Nat \ {0}
<1>. SUFFICES ASSUME NEW op \in Ops PROVE Len(Script(op)) \in Nat \ {0}
  OBVIOUS
<1>1. CASE Kind[op] = "createBooking"
  BY <1>1 DEF Scripts, Script
<1>2. CASE Kind[op] = "cancelBooking"
  BY <1>2 DEF Scripts, Script
<1>3. CASE Kind[op] = "updateConfig"
  BY <1>3 DEF Scripts, Script
<1>4. CASE Kind[op] = "availableSlots"
  BY <1>4 DEF Scripts, Script
<1>5. CASE Kind[op] \in {"getBooking", "companyBookings"}
  BY <1>5 DEF Scripts, Script
<1>6. CASE Kind[op] = "userBookings"
  BY <1>6 DEF Scripts, Script
<1>7. CASE Kind[op] = "getConfig"
  BY <1>7 DEF Scripts, Script
<1>. QED BY <1>1, <1>2, <1>3, <1>4, <1>5, <1>6, <1>7, KindType DEF Kinds

LEMMA BookingScript ==
    \A op \in Ops : Kind[op] = "createBooking" =>
        /\ Len(Script(op)) = 9
        /\ DOMAIN Script(op) = 1 .. 9
        /\ Script(op)[7] = "lock" /\ Script(op)[8] = "insert" /\ Script(op)[9] = "commit"
        /\ \A p \in 3 .. 6 : Script(op)[p] = "level"
        /\ Script(op)[1] = "remote" /\ Script(op)[2] = "begin"
BY DEF Scripts, Script

LEMMA OnlyBookingsBegin ==
    ASSUME PoolTypeOK, NEW op \in Ops, Step(op) = "begin"
    PROVE  Kind[op] = "createBooking" /\ pos[op] = 2
<1>1. pos[op] \in 1 .. Len(Script(op)) /\ Script(op)[pos[op]] = "begin"
  BY ScriptType DEF PoolTypeOK, Step, UnderWay, Ended
<1>2. CASE Kind[op] = "createBooking"
  BY <1>1, <1>2 DEF Scripts, Script
<1>3. CASE Kind[op] = "updateConfig"
  BY <1>1, <1>3 DEF Scripts, Script
<1>4. CASE Kind[op] = "availableSlots"
  BY <1>1, <1>4 DEF Scripts, Script
<1>5. CASE Kind[op] = "cancelBooking"
  BY <1>1, <1>5 DEF Scripts, Script
<1>6. CASE Kind[op] = "getBooking"
  BY <1>1, <1>6 DEF Scripts, Script
<1>7. CASE Kind[op] = "companyBookings"
  BY <1>1, <1>7 DEF Scripts, Script
<1>8. CASE Kind[op] = "userBookings"
  BY <1>1, <1>8 DEF Scripts, Script
<1>9. CASE Kind[op] = "getConfig"
  BY <1>1, <1>9 DEF Scripts, Script
<1>. QED BY <1>2, <1>3, <1>4, <1>5, <1>6, <1>7, <1>8, <1>9, KindType DEF Kinds
-----------------------------------------------------------------------------
(* What the pool does to the counts.                                       *)

LEMMA FiniteOps == ASSUME NEW S \in SUBSET Ops PROVE IsFiniteSet(S) /\ Cardinality(S) \in Nat
BY PoolAssumption, FS_Subset, FS_CardinalityType

LEMMA AddOp ==
    ASSUME NEW S \in SUBSET Ops, NEW op \in Ops, op \notin S
    PROVE  Cardinality(S \cup {op}) = Cardinality(S) + 1
BY FiniteOps, FS_AddElement

LEMMA RemoveOp ==
    ASSUME NEW S \in SUBSET Ops, NEW op \in S
    PROVE  Cardinality(S \ {op}) = Cardinality(S) - 1
BY FiniteOps, FS_RemoveElement

\* A connection given back goes to one that waits, or is free for anybody.
LEMMA GivenBack ==
    ASSUME PoolTypeOK, PoolWellUsed, running \cap waiting = {},
           NEW others \in SUBSET running, GiveBack(others),
           begun' \in SUBSET Ops,
           Cardinality(begun') + Cardinality(others) = InUse - 1
    PROVE  /\ PoolWellUsed' /\ (running \cap waiting = {})'
           /\ running' \in SUBSET (others \cup waiting) /\ waiting' \in SUBSET waiting
<1>1. /\ others \in SUBSET Ops /\ others \cap waiting = {}
      /\ InUse \in Int /\ Cardinality(begun') \in Int /\ Cardinality(others) \in Int
      /\ MaxOpenConns \in Int
  BY FiniteOps, PoolAssumption DEF PoolTypeOK, InUse
<1>2. CASE waiting = {} /\ running' = others /\ UNCHANGED waiting
  BY <1>1, <1>2 DEF PoolWellUsed, InUse
<1>3. ASSUME NEW w \in waiting, running' = others \cup {w}, waiting' = waiting \ {w}
      PROVE  /\ PoolWellUsed' /\ (running \cap waiting = {})'
             /\ running' \in SUBSET (others \cup waiting) /\ waiting' \in SUBSET waiting
  <2>1. w \in Ops /\ w \notin others
    BY <1>1, <1>3 DEF PoolTypeOK
  <2>2. Cardinality(running') = Cardinality(others) + 1
    BY <1>1, <1>3, <2>1, AddOp
  <2>3. InUse' = InUse /\ InUse = MaxOpenConns
    BY <1>1, <1>3, <2>2 DEF PoolWellUsed, InUse
  <2>. QED BY <1>1, <1>3, <2>3 DEF PoolWellUsed
<1>. QED BY <1>2, <1>3 DEF GiveBack

LEMMA Advanced ==
    ASSUME PoolTypeOK, NEW op \in Ops, UnderWay(op), Advance(op)
    PROVE  /\ pos' \in [Ops -> Nat]
           /\ \A q \in Ops \ {op} : pos'[q] = pos[q]
           /\ pos'[op] \in pos[op] + 1 .. Len(Script(op)) + 1
           /\ pos'[op] # pos[op] + 1 => SkipsLevels(op, pos'[op])
BY ScriptType DEF PoolTypeOK, Advance, GoTo

LEMMA EndedNow ==
    ASSUME PoolTypeOK, NEW op \in Ops, End(op)
    PROVE  /\ pos' \in [Ops -> Nat]
           /\ \A q \in Ops \ {op} : pos'[q] = pos[q]
           /\ pos'[op] = Len(Script(op)) + 1
           /\ ~AtDatabase(op)'
BY ScriptType DEF PoolTypeOK, End, GoTo, AtDatabase, Step, UnderWay, Ended

\* An operation that does not move keeps its place and what follows from it.
LEMMA NotMoved ==
    ASSUME NEW q, pos'[q] = pos[q]
    PROVE  Step(q)' = Step(q) /\ AtDatabase(q)' = AtDatabase(q) /\ UnderWay(q)' = UnderWay(q)
BY DEF Step, AtDatabase, UnderWay, Ended
-----------------------------------------------------------------------------
(* The invariant, action by action.                                        *)

\* A step of one operation leaves the others' part of the invariant alone.
OnlyMoves(op) ==
    /\ pos' \in [Ops -> Nat]
    /\ \A q \in Ops \ {op} : pos'[q] = pos[q]
    /\ pos'[op] <= Len(Script(op)) + 1
    /\ begun' \in SUBSET (begun \cup {op})
    /\ running' \cup waiting' \in SUBSET (running \cup waiting \cup {op})
    /\ failed' \in SUBSET (failed \cup {op})
    /\ locked' \in SUBSET (locked \cup {op})
    /\ failed' \subseteq begun' /\ locked' \subseteq begun'

LEMMA StepInv ==
    ASSUME PoolInv, NEW op \in Ops, OnlyMoves(op),
           PoolWellUsed', (running \cap waiting = {})', OneLocker', OpInv(op)'
    PROVE  PoolInv'
<1>1. PoolTypeOK'
  BY DEF PoolInv, PoolTypeOK, OnlyMoves, Script
<1>2. ASSUME NEW q \in Ops, q # op PROVE OpInv(q)'
  <2>1. pos'[q] = pos[q]
    BY <1>2 DEF OnlyMoves
  <2>2. Step(q)' = Step(q) /\ AtDatabase(q)' = AtDatabase(q)
    BY <2>1, NotMoved
  <2>3. OpInv(q)
    BY DEF PoolInv
  <2>. QED BY <1>2, <2>1, <2>2, <2>3 DEF OnlyMoves, OpInv, InTx
<1>. QED BY <1>1, <1>2 DEF PoolInv

\* Somebody asks for nothing new and locks nothing new.
LEMMA SamePool ==
    ASSUME PoolInv, UNCHANGED <<begun, running, waiting, locked>>
    PROVE  PoolWellUsed' /\ (running \cap waiting = {})' /\ OneLocker'
BY DEF PoolInv, PoolWellUsed, InUse, OneLocker

LEMMA ArriveStep == ASSUME PoolInv, NEW op \in Ops, Arrive(op) PROVE PoolInv'
<1>1. op \notin begun \cup running \cup waiting \cup locked \cup failed
  BY DEF PoolInv, PoolTypeOK, OpInv, Arrive, AtDatabase, Step, UnderWay
<1>2. OnlyMoves(op)
  BY ScriptType DEF PoolInv, PoolTypeOK, Arrive, GoTo, OnlyMoves
<1>3. OpInv(op)'
  BY <1>1 DEF Arrive, OpInv
<1>. QED BY <1>2, <1>3, StepInv, SamePool DEF Arrive

LEMMA AskOtherStep == ASSUME PoolInv, NEW op \in Ops, AskOther(op) PROVE PoolInv'
<1>1. UnderWay(op) /\ Script(op)[pos[op]] = "remote" /\ pos[op] \in 1 .. Len(Script(op))
  BY ScriptType DEF AskOther, Step, UnderWay, Ended, PoolInv, PoolTypeOK
<1>2. op \notin begun
  <2>1. SUFFICES ASSUME op \in begun PROVE FALSE
    OBVIOUS
  <2>2. Kind[op] = "createBooking" /\ pos[op] \in 3 .. 9
    BY <2>1 DEF PoolInv, OpInv
  <2>3. pos[op] \in 3 .. 6 \/ pos[op] = 7 \/ pos[op] = 8 \/ pos[op] = 9
    BY <2>2
  <2>4. Script(op)[pos[op]] # "remote"
    BY <2>2, <2>3, BookingScript
  <2>. QED BY <1>1, <2>4
<1>3. op \notin running \cup waiting \cup locked \cup failed
  BY <1>2 DEF PoolInv, PoolTypeOK, OpInv, AskOther, AtDatabase
<1>4. OnlyMoves(op)
  BY <1>1, ScriptType DEF PoolInv, PoolTypeOK, AskOther, GoTo, End, OnlyMoves
<1>5. OpInv(op)'
  BY <1>2, <1>3 DEF AskOther, OpInv
<1>. QED BY <1>4, <1>5, StepInv, SamePool DEF AskOther

LEMMA AskPoolStep == ASSUME PoolInv, NEW op \in Ops, AskPool(op) PROVE PoolInv'
<1>1. /\ UNCHANGED <<pos, begun, failed, locked>>
      /\ AtDatabase(op) /\ Step(op) # "commit"
      /\ op \notin running \cup waiting \cup failed /\ ~InTx(op)
  BY DEF AskPool, NeedsConn
<1>2. OnlyMoves(op)
  BY <1>1 DEF PoolInv, PoolTypeOK, AskPool, Take, OnlyMoves
<1>3. OpInv(op)'
  <2>1. Step(op)' = Step(op) /\ AtDatabase(op)' = AtDatabase(op)
    BY <1>1, NotMoved
  <2>. QED BY <1>1, <2>1 DEF PoolInv, OpInv, InTx
<1>4. PoolWellUsed'
  <2>1. running \in SUBSET Ops /\ begun \in SUBSET Ops
    BY DEF PoolInv, PoolTypeOK
  <2>2. /\ InUse \in Int /\ Cardinality(begun) \in Int /\ Cardinality(running) \in Int
        /\ MaxOpenConns \in Int
    BY <2>1, FiniteOps, PoolAssumption DEF InUse
  <2>3. CASE HasFreeConn
    <3>1. running' = running \cup {op} /\ waiting' = waiting
      BY <2>3 DEF AskPool, Take
    <3>2. Cardinality(running') = Cardinality(running) + 1
      BY <1>1, <2>1, <3>1, AddOp
    <3>3. InUse' = InUse + 1
      BY <1>1, <2>2, <3>2 DEF InUse
    <3>. QED BY <2>2, <2>3, <3>1, <3>3 DEF PoolInv, PoolWellUsed, HasFreeConn
  <2>4. CASE ~HasFreeConn
    BY <1>1, <2>2, <2>4 DEF AskPool, Take, PoolInv, PoolWellUsed, HasFreeConn, InUse
  <2>. QED BY <2>3, <2>4
<1>5. (running \cap waiting = {})' /\ OneLocker'
  BY <1>1 DEF AskPool, Take, PoolInv, OneLocker
<1>. QED BY <1>2, <1>3, <1>4, <1>5, StepInv

LEMMA BeginStep == ASSUME PoolInv, NEW op \in Ops, Begin(op) PROVE PoolInv'
<1>1. Kind[op] = "createBooking" /\ pos[op] = 2 /\ op \notin begun /\ op \in running
  BY OnlyBookingsBegin DEF PoolInv, OpInv, Begin
<1>2. UnderWay(op)
  BY <1>1, BookingScript DEF UnderWay, Ended
<1>3. Len(Script(op)) = 9 /\ Script(op)[2] = "begin"
  BY <1>1, BookingScript
<1>4. /\ pos' \in [Ops -> Nat] /\ \A q \in Ops \ {op} : pos'[q] = pos[q]
      /\ pos'[op] = 3
  BY <1>1, <1>2, <1>3, Advanced DEF PoolInv, Begin, SkipsLevels
<1>5. OnlyMoves(op)
  BY <1>1, <1>3, <1>4 DEF PoolInv, PoolTypeOK, Begin, OnlyMoves
<1>6. OpInv(op)'
  <2>1. op \notin waiting /\ op \notin locked
    BY <1>1 DEF PoolInv, PoolTypeOK
  <2>. QED BY <1>1, <1>4, <2>1 DEF Begin, OpInv
<1>7. PoolWellUsed'
  <2>1. running \in SUBSET Ops /\ begun \in SUBSET Ops
    BY DEF PoolInv, PoolTypeOK
  <2>2. Cardinality(begun') = Cardinality(begun) + 1
    BY <1>1, <2>1, AddOp DEF Begin
  <2>3. Cardinality(running') = Cardinality(running) - 1
    BY <1>1, <2>1, RemoveOp DEF Begin
  <2>4. InUse' = InUse
    BY <2>1, <2>2, <2>3, FiniteOps DEF InUse
  <2>. QED BY <2>4 DEF Begin, PoolInv, PoolWellUsed
<1>8. (running \cap waiting = {})' /\ OneLocker'
  BY DEF Begin, PoolInv, OneLocker
<1>. QED BY <1>5, <1>6, <1>7, <1>8, StepInv

\* A statement's connection is given back.
LEMMA StatementGivesBack ==
    ASSUME PoolInv, NEW op \in running, UNCHANGED begun, GiveBack(running \ {op})
    PROVE  /\ PoolWellUsed' /\ (running \cap waiting = {})'
           /\ running' \in SUBSET ((running \ {op}) \cup waiting) /\ waiting' \in SUBSET waiting
           /\ op \notin running' \cup waiting'
<1>1. running \in SUBSET Ops /\ begun \in SUBSET Ops
  BY DEF PoolInv, PoolTypeOK
<1>2. Cardinality(begun') + Cardinality(running \ {op}) = InUse - 1
  BY <1>1, RemoveOp, FiniteOps DEF InUse
<1>3. op \notin waiting
  BY DEF PoolInv
<1>. QED BY <1>1, <1>2, <1>3, GivenBack DEF PoolInv

\* A transaction's connection is given back.
LEMMA TransactionGivesBack ==
    ASSUME PoolInv, NEW op \in begun, op \notin running, op \notin waiting,
           begun' = begun \ {op}, GiveBack(running)
    PROVE  /\ PoolWellUsed' /\ (running \cap waiting = {})'
           /\ running' \in SUBSET (running \cup waiting) /\ waiting' \in SUBSET waiting
           /\ op \notin running' \cup waiting'
<1>1. running \in SUBSET Ops /\ begun \in SUBSET Ops
  BY DEF PoolInv, PoolTypeOK
<1>2. Cardinality(begun') + Cardinality(running) = InUse - 1
  BY <1>1, RemoveOp, FiniteOps DEF InUse
<1>. QED BY <1>1, <1>2, GivenBack DEF PoolInv

\* A transaction that advances stays between its BEGIN and its COMMIT.
LEMMA TransactionAdvanced ==
    ASSUME PoolInv, NEW op \in begun, op \in Ops, Advance(op), Step(op) # "commit"
    PROVE  /\ pos' \in [Ops -> Nat] /\ \A q \in Ops \ {op} : pos'[q] = pos[q]
           /\ pos'[op] \in pos[op] + 1 .. 9
           /\ pos[op] = 7 => pos'[op] = 8
<1>1. Kind[op] = "createBooking" /\ pos[op] \in 3 .. 9
  BY DEF PoolInv, OpInv
<1>2. UnderWay(op) /\ Step(op) = Script(op)[pos[op]]
  BY SMTT(30), <1>1, BookingScript DEF UnderWay, Ended, Step
<1>3. pos[op] \in 3 .. 8
  BY <1>1, <1>2, BookingScript
<1>4. /\ pos' \in [Ops -> Nat] /\ \A q \in Ops \ {op} : pos'[q] = pos[q]
      /\ pos'[op] \in pos[op] + 1 .. 10
      /\ pos'[op] # pos[op] + 1 => SkipsLevels(op, pos'[op])
  <2>0. Len(Script(op)) = 9
    BY <1>1, BookingScript
  <2>1. Len(Script(op)) + 1 = 10
    BY <2>0
  <2>2. PoolTypeOK
    BY DEF PoolInv
  <2>. QED BY <1>2, <2>1, <2>2, Advanced
<1>5. pos'[op] # 10
  <2>1. ASSUME pos'[op] = 10 PROVE FALSE
    <3>1. SkipsLevels(op, 10)
      BY <1>3, <1>4, <2>1
    <3>2. Script(op)[9] = "level"
      BY <1>3, <3>1 DEF SkipsLevels
    <3>. QED BY <1>1, <3>2, BookingScript
  <2>. QED BY <2>1
<1>6. ASSUME pos[op] = 7 PROVE pos'[op] = 8
  <2>1. ASSUME pos'[op] # 8 PROVE FALSE
    <3>1. Script(op)[7] = "level"
      BY <1>4, <1>6, <2>1 DEF SkipsLevels
    <3>. QED BY <1>1, <3>1, BookingScript
  <2>. QED BY <2>1
<1>. QED BY <1>3, <1>4, <1>5, <1>6

LEMMA StatementStep == ASSUME PoolInv, NEW op \in Ops, Statement(op) PROVE PoolInv'
<1>1. op \in running /\ AtDatabase(op) /\ Step(op) # "commit" /\ op \notin failed /\ ~InTx(op)
  BY DEF Statement, PoolInv, OpInv
<1>2. UnderWay(op) /\ pos[op] \in Nat
  BY <1>1 DEF AtDatabase, Step, PoolInv, PoolTypeOK
<1>3. /\ PoolWellUsed' /\ (running \cap waiting = {})'
      /\ running' \in SUBSET ((running \ {op}) \cup waiting) /\ waiting' \in SUBSET waiting
      /\ op \notin running' \cup waiting'
  BY <1>1, StatementGivesBack DEF Statement
<1>4. /\ pos' \in [Ops -> Nat] /\ \A q \in Ops \ {op} : pos'[q] = pos[q]
      /\ pos'[op] \in pos[op] + 1 .. Len(Script(op)) + 1
  BY <1>2, Advanced DEF Statement, PoolInv
<1>5. OnlyMoves(op)
  BY <1>2, <1>3, <1>4, ScriptType DEF Statement, PoolInv, PoolTypeOK, OnlyMoves
<1>6. OpInv(op)'
  <2>1. op \notin locked
    BY <1>1 DEF PoolInv, PoolTypeOK, OpInv, InTx
  <2>2. op \in begun => pos'[op] \in 3 .. 9
    BY <1>1, TransactionAdvanced DEF Statement, PoolInv, OpInv
  <2>. QED BY <1>3, <2>1, <2>2 DEF Statement, PoolInv, OpInv
<1>7. OneLocker'
  BY DEF Statement, PoolInv, OneLocker
<1>. QED BY <1>3, <1>5, <1>6, <1>7, StepInv

LEMMA StatementInTxStep == ASSUME PoolInv, NEW op \in Ops, StatementInTx(op) PROVE PoolInv'
<1>1. op \in begun /\ TxInContext /\ op \notin running \cup waiting
  BY DEF StatementInTx, InTx, PoolInv, OpInv
<1>2. Kind[op] = "createBooking" /\ pos[op] \in 3 .. 9 /\ Len(Script(op)) = 9
  BY <1>1, BookingScript DEF PoolInv, OpInv
<1>3. Step(op) = Script(op)[pos[op]]
  BY <1>2, BookingScript DEF Step, UnderWay, Ended
<1>4. /\ pos' \in [Ops -> Nat] /\ \A q \in Ops \ {op} : pos'[q] = pos[q]
      /\ pos'[op] \in pos[op] + 1 .. 9
      /\ pos[op] = 7 => pos'[op] = 8
  BY <1>1, TransactionAdvanced DEF StatementInTx
<1>5. Step(op) = "lock" => pos[op] = 7
  <2>1. \A p \in 3 .. 9 : Script(op)[p] = "lock" => p = 7
    <3>1. \A p \in 3 .. 9 : p \in 3 .. 6 \/ p \in {7, 8, 9}
      OBVIOUS
    <3>. QED BY <1>2, <3>1, BookingScript
  <2>. QED BY <1>2, <1>3, <2>1
<1>6. OnlyMoves(op)
  BY <1>1, <1>2, <1>4 DEF StatementInTx, PoolInv, PoolTypeOK, OnlyMoves
<1>7. OpInv(op)'
  <2>1. op \in locked' => pos'[op] \in {8, 9}
    BY <1>2, <1>4, <1>5 DEF StatementInTx, PoolInv, OpInv
  <2>. QED BY <1>1, <1>2, <1>4, <2>1 DEF StatementInTx, OpInv
<1>8. OneLocker'
  BY DEF StatementInTx, RowsFree, PoolInv, OneLocker
<1>9. PoolWellUsed' /\ (running \cap waiting = {})'
  BY DEF StatementInTx, PoolInv, PoolWellUsed, InUse
<1>. QED BY <1>6, <1>7, <1>8, <1>9, StepInv

LEMMA CommitStep == ASSUME PoolInv, NEW op \in Ops, Commit(op) PROVE PoolInv'
<1>1. op \in begun /\ op \notin running \cup waiting
  BY DEF Commit, PoolInv, OpInv
<1>2. /\ PoolWellUsed' /\ (running \cap waiting = {})'
      /\ running' \in SUBSET (running \cup waiting) /\ waiting' \in SUBSET waiting
      /\ op \notin running' \cup waiting'
  BY <1>1, TransactionGivesBack DEF Commit
<1>3. PoolTypeOK /\ End(op) /\ begun' = begun \ {op} /\ failed' = failed /\ op \notin failed
      /\ locked' = locked \ {op}
  BY DEF Commit, PoolInv
<1>4. OnlyMoves(op)
  BY <1>2, <1>3, EndedNow, ScriptType DEF PoolTypeOK, OnlyMoves
<1>5. OpInv(op)' /\ OneLocker'
  BY <1>2, <1>3 DEF PoolInv, OpInv, OneLocker
<1>. QED BY <1>2, <1>4, <1>5, StepInv

LEMMA RollbackStep == ASSUME PoolInv, NEW op \in Ops, Rollback(op) PROVE PoolInv'
<1>1. op \in begun /\ op \notin running \cup waiting
  BY DEF Rollback
<1>2. /\ PoolWellUsed' /\ (running \cap waiting = {})'
      /\ running' \in SUBSET (running \cup waiting) /\ waiting' \in SUBSET waiting
      /\ op \notin running' \cup waiting'
  BY <1>1, TransactionGivesBack DEF Rollback
<1>3. PoolTypeOK /\ End(op) /\ begun' = begun \ {op} /\ failed' = failed \ {op}
      /\ locked' = locked \ {op}
  BY DEF Rollback, PoolInv
<1>4. OnlyMoves(op)
  BY <1>2, <1>3, EndedNow, ScriptType DEF PoolTypeOK, OnlyMoves
<1>5. OpInv(op)' /\ OneLocker'
  BY <1>2, <1>3 DEF PoolInv, OpInv, OneLocker
<1>. QED BY <1>2, <1>4, <1>5, StepInv

\* Where an operation is whose statement failed: in its rollback, or at its end.
LEMMA FailedThere ==
    ASSUME PoolInv, NEW op \in Ops, op \in running \cup waiting,
           IF op \in begun THEN failed' = failed \cup {op} /\ UNCHANGED pos
                           ELSE End(op) /\ UNCHANGED failed,
           UNCHANGED <<begun, locked>>,
           running' \cup waiting' \in SUBSET (running \cup waiting), op \notin running' \cup waiting'
    PROVE  OnlyMoves(op) /\ OpInv(op)' /\ OneLocker'
<1>1. PoolTypeOK /\ op \notin failed
  BY DEF PoolInv, OpInv
<1>2. CASE op \in begun
  BY <1>1, <1>2 DEF PoolInv, PoolTypeOK, OnlyMoves, OpInv, OneLocker
<1>3. CASE op \notin begun
  <2>1. op \notin locked
    BY <1>1, <1>3 DEF PoolTypeOK
  <2>2. OnlyMoves(op)
    BY <1>1, <1>3, EndedNow, ScriptType DEF PoolTypeOK, OnlyMoves
  <2>. QED BY <1>3, <2>1, <2>2 DEF PoolInv, OpInv, OneLocker
<1>. QED BY <1>2, <1>3

LEMMA FailStep == ASSUME PoolInv, NEW op \in Ops, Fail(op) PROVE PoolInv'
<1>1. op \in running
  BY DEF Fail
<1>2. /\ PoolWellUsed' /\ (running \cap waiting = {})'
      /\ running' \in SUBSET ((running \ {op}) \cup waiting) /\ waiting' \in SUBSET waiting
      /\ op \notin running' \cup waiting'
  BY <1>1, StatementGivesBack DEF Fail
<1>3. OnlyMoves(op) /\ OpInv(op)' /\ OneLocker'
  BY <1>1, <1>2, FailedThere DEF Fail
<1>. QED BY <1>2, <1>3, StepInv

LEMMA LeaveQueueStep == ASSUME PoolInv, NEW op \in Ops, LeaveQueue(op) PROVE PoolInv'
<1>1. op \in waiting /\ op \notin running /\ waiting' = waiting \ {op} /\ running' = running
  BY DEF LeaveQueue, PoolInv
<1>2. OnlyMoves(op) /\ OpInv(op)' /\ OneLocker'
  BY <1>1, FailedThere DEF LeaveQueue
<1>3. PoolWellUsed' /\ (running \cap waiting = {})'
  BY <1>1 DEF LeaveQueue, PoolInv, PoolWellUsed, InUse
<1>. QED BY <1>2, <1>3, StepInv

LEMMA PoolStep == ASSUME PoolInv, [PoolNext]_poolVars PROVE PoolInv'
<1>1. ASSUME NEW op \in Ops, OpStep(op) PROVE PoolInv'
  BY <1>1, ArriveStep, AskOtherStep, AskPoolStep, BeginStep, StatementStep,
     StatementInTxStep, CommitStep, RollbackStep, FailStep, LeaveQueueStep
     DEF OpStep, Proceed
<1>2. CASE UNCHANGED poolVars
  BY <1>2 DEF poolVars, PoolInv, PoolTypeOK, PoolWellUsed, InUse, OneLocker, OpInv,
     AtDatabase, InTx, Step, UnderWay, Ended
<1>. QED BY <1>1, <1>2 DEF PoolNext

LEMMA PoolStart == PoolInit => PoolInv
<1>1. Cardinality({}) = 0
  BY FS_EmptySet
<1>. QED BY <1>1, ScriptType, PoolAssumption DEF PoolInit, PoolInv, PoolTypeOK, PoolWellUsed,
     InUse, OneLocker, OpInv

LEMMA PoolInvariant == PoolSpec => []PoolInv
BY PoolStart, PoolStep, PTL DEF PoolSpec

(* A process that ends takes all of it away, at whatever moment.           *)
LEMMA ExitStep == ASSUME PoolInv, Exit PROVE PoolInv'
<1>1. pos' \in [Ops -> Nat] /\ \A op \in Ops : pos'[op] <= Len(Script(op)) + 1
  BY ScriptType DEF Exit, PoolInv, PoolTypeOK
<1>2. PoolTypeOK'
  BY <1>1 DEF Exit, PoolTypeOK
<1>3. PoolWellUsed'
  BY FS_EmptySet, PoolAssumption DEF Exit, PoolWellUsed, InUse
<1>4. QED
  BY <1>2, <1>3 DEF Exit, PoolInv, OneLocker, OpInv

(* Nor do the steps of main before and between disturb the pool.           *)
LEMMA ServerPoolStep == ASSUME PoolInv, [ServerNext]_serverVars PROVE PoolInv'
<1>1. CASE UNCHANGED poolVars
  BY <1>1, PoolStep
<1>2. CASE Exit
  BY <1>2, ExitStep
<1>3. ASSUME NEW op \in Ops, Serve(op) PROVE PoolInv'
  BY <1>3, PoolStep DEF Serve, PoolNext
<1>. QED BY <1>1, <1>2, <1>3 DEF ServerNext, LoadConfig, Start, Die, Signal, Drained,
     ShutdownTimeout, serverVars

LEMMA ServerPoolInvariant == ServerSpec => []PoolInv
BY PoolStart, ServerPoolStep, PTL DEF ServerSpec, ServerInit
-----------------------------------------------------------------------------
(* The theorems.                                                           *)

(* Positions, connections, queue and locks keep their types.               *)
THEOREM PoolTypes == PoolSpec \/ ServerSpec => []PoolTypeOK
BY PoolInvariant, ServerPoolInvariant, PTL DEF PoolInv

(* Whoever has ended or waits for another service holds no connection, no  *)
(* row lock and no place in the queue.                                     *)
THEOREM NothingKeptAlways == PoolSpec \/ ServerSpec => []NothingKept
<1>1. PoolInv => NothingKept
  <2>. SUFFICES ASSUME PoolInv, NEW op \in Ops, ~AtDatabase(op)
                PROVE  op \notin begun \cup running \cup waiting \cup locked
    BY DEF NothingKept
  <2>1. op \notin running \cup waiting
    BY DEF PoolInv, OpInv
  <2>2. op \notin begun
    <3>1. SUFFICES ASSUME op \in begun PROVE AtDatabase(op)
      OBVIOUS
    <3>2. Kind[op] = "createBooking" /\ pos[op] \in 3 .. 9
      BY <3>1 DEF PoolInv, OpInv
    <3>3. Len(Script(op)) = 9
      BY <3>2, BookingScript
    <3>4. UnderWay(op)
      BY <3>2, <3>3 DEF UnderWay, Ended
    <3>5. Step(op) = Script(op)[pos[op]]
      BY <3>4 DEF Step
    <3>6. pos[op] \in 3 .. 6 \/ pos[op] \in {7, 8, 9}
      BY <3>2
    <3>. QED BY <3>2, <3>5, <3>6, BookingScript DEF AtDatabase
  <2>3. op \notin locked
    BY <2>2 DEF PoolInv, PoolTypeOK
  <2>. QED BY <2>1, <2>2, <2>3
<1>. QED BY <1>1, PoolInvariant, ServerPoolInvariant, PTL

(* Waiting is never circular: with the manager that hands its transaction  *)
(* on one connection is enough, with the simple one as many as there are   *)
(* bookings and one more.                                                  *)
THEOREM NeverCircular == PoolSpec \/ ServerSpec => []SomebodyGoesOn
<1>1. PoolInv => SomebodyGoesOn
  <2>. SUFFICES ASSUME PoolInv, PoolLargeEnough, NEW op \in Ops, Blocked(op)
                PROVE  \E q \in begun \cup running : ~Blocked(q)
    BY DEF SomebodyGoesOn
  <2>1. \A q \in Ops : OpInv(q)
    BY DEF PoolInv
  <2>2. begun \in SUBSET Ops /\ running \in SUBSET Ops /\ locked \in SUBSET begun
    BY DEF PoolInv, PoolTypeOK
  <2>3. CASE locked # {}
    <3>1. PICK l \in locked : TRUE
      BY <2>3
    <3>2. l \in begun /\ InTx(l) /\ l \notin running \cup waiting
      BY <2>1, <2>2 DEF OpInv, InTx
    <3>3. RowsFree(l)
      BY DEF RowsFree, PoolInv, OneLocker
    <3>. QED BY <3>2, <3>3 DEF Blocked
  <2>4. CASE locked = {}
    <3>1. \A q \in Ops : Blocked(q) => q \in waiting
      BY <2>4 DEF Blocked, RowsFree
    <3>2. InUse = MaxOpenConns
      BY <3>1 DEF PoolInv, PoolWellUsed
    <3>3. CASE running # {}
      BY <3>1, <3>3, <2>2 DEF PoolInv
    <3>4. CASE running = {}
      <4>1. Cardinality(begun) = MaxOpenConns
        BY <3>2, <3>4, <2>2, FiniteOps, FS_EmptySet DEF InUse
      <4>2. begun # {}
        BY <4>1, FS_EmptySet, PoolAssumption
      <4>3. TxInContext
        <5>1. begun \in SUBSET Transactions /\ Transactions \in SUBSET Ops
          BY <2>1, <2>2 DEF OpInv, Transactions
        <5>2. Cardinality(begun) <= Cardinality(Transactions)
          BY <5>1, FiniteOps, FS_Subset
        <5>. QED BY <4>1, <5>1, <5>2, FiniteOps, PoolAssumption DEF PoolLargeEnough
      <4>4. \A q \in begun : q \notin waiting
        BY <4>3, <2>1, <2>2 DEF OpInv, InTx
      <4>. QED BY <3>1, <4>2, <4>4, <2>2
    <3>. QED BY <3>3, <3>4
  <2>. QED BY <2>3, <2>4
<1>. QED BY <1>1, PoolInvariant, ServerPoolInvariant, PTL
-----------------------------------------------------------------------------
(* Settings.                                                               *)

\* Defaults are filled in last: until then a setting is what the file gives,
\* and after the second stage what Given says.
LoadInv ==
    /\ file \in Files /\ env \in Environments
    /\ stage \in {"decoding", "overriding", "validating", "loaded", "exited"}
    /\ stage = "decoding" => cfg = file
    /\ stage \notin {"decoding", "exited"} => file # NoFile
    /\ stage = "overriding" => cfg = file
    /\ stage = "validating" => cfg = [s \in Settings |-> Given(s)]
    /\ UsableWhenLoaded /\ RefusedRightly

(* File and environment together give every setting a value of its class.  *)
LEMMA GivenType ==
    ASSUME file \in Files \ {NoFile}, env \in Environments, NEW s \in Settings
    PROVE  Given(s) \in Values(s)
<1>1. file[s] \in Values(s)
  BY AppConfigAssumption DEF IsFile
<1>2. CASE s \in DOMAIN env /\ env[s] \notin {Unset, Malformed}
  <2>1. env[s] \in Values(s) \/ (s \in Texts /\ env[s] = "given")
    BY <1>2, AppConfigAssumption DEF IsEnvironment
  <2>2. s \in Texts => "given" \in Values(s)
    BY DEF Values
  <2> QED
    BY <1>2, <2>1, <2>2 DEF Given
<1> QED
  BY <1>1, <1>2 DEF Given

(* A default is of its setting's class, and neither zero nor empty.        *)
LEMMA DefaultType ==
    ASSUME NEW s \in Settings, Defaulted(s)
    PROVE  /\ Default(s) \in Values(s)
           /\ s \in Limits => Default(s) # 0
           /\ s \in Texts => Default(s) # ""
           /\ s \in DefaultedTexts \cup Limits
<1>1. CASE s \in DefaultedTexts
  <2>1. Default(s) = "default" /\ s \notin Limits
    BY <1>1 DEF DefaultedTexts, Default, Limits, FileOnly
  <2> QED
    BY <1>1, <2>1 DEF Values, Texts
<1>2. CASE s \in Limits
  <2>1. Default(s) \in Int /\ Default(s) # 0
    BY <1>2 DEF Limits, FileOnly, Default
  <2>2. s \notin Texts /\ s \in Numbers
    BY <1>2 DEF Limits, FileOnly, Texts, RequiredTexts, FreeTexts, DefaultedTexts, Numbers
  <2> QED
    BY <1>2, <2>1, <2>2 DEF Values
<1> QED
  BY <1>1, <1>2 DEF Defaulted, Limits

(* The classes that validate treats differently have nothing in common.    *)
LEMMA ClassesDiffer ==
    /\ RequiredTexts \cap (DefaultedTexts \cup Limits) = {}
    /\ Ports \cap (DefaultedTexts \cup Limits) = {}
    /\ DefaultedTexts \cap Limits = {}
    /\ RequiredTexts \cup DefaultedTexts \subseteq Texts
    /\ Texts \cup Ports \cup Limits \subseteq Settings
    /\ Ports \cap Texts = {} /\ Ports \subseteq Numbers
BY DEF RequiredTexts, DefaultedTexts, FreeTexts, Ports, Limits, FileOnly, Texts, Numbers, Settings

LEMMA MaxPortNat == MaxPort \in Nat
BY DEF MaxPort

(* What validate lets through is usable with its defaults filled in.       *)
LEMMA LoadedUsable ==
    ASSUME LoadInv, stage = "validating", Acceptable,
           cfg' = [s \in Settings |-> IF Defaulted(s) THEN Default(s) ELSE cfg[s]]
    PROVE  UsableWhenLoaded'
<1>1. \A s \in Settings : cfg[s] \in Values(s)
  BY GivenType DEF LoadInv
<1>2. \A s \in Settings : cfg'[s] = IF Defaulted(s) THEN Default(s) ELSE cfg[s]
  OBVIOUS
<1>3. IsFile(cfg')
  BY <1>1, <1>2, DefaultType DEF IsFile
<1>4. \A s \in RequiredTexts \cup Ports : cfg'[s] = cfg[s]
  BY <1>2, ClassesDiffer DEF Defaulted
<1>5. ASSUME NEW s \in DefaultedTexts PROVE cfg'[s] # ""
  BY <1>2, DefaultType, ClassesDiffer DEF Defaulted
<1>6. ASSUME NEW s \in Limits PROVE cfg'[s] # 0
  BY <1>2, DefaultType, ClassesDiffer DEF Defaulted
<1>7. ASSUME NEW s \in Ports PROVE 0 < cfg'[s] /\ cfg'[s] <= MaxPort
  <2>1. s \in Settings /\ s \in Numbers /\ s \notin Texts
    BY ClassesDiffer
  <2>2. cfg[s] \in Int
    BY <1>1, <2>1 DEF Values
  <2>3. 0 < cfg[s] /\ cfg[s] <= MaxPort
    <3>1. ~(cfg[s] <= 0 \/ cfg[s] > MaxPort)
      BY Zenon DEF Acceptable
    <3> QED
      BY <2>2, <3>1, MaxPortNat
  <2> QED
    BY <1>4, <2>3
<1>8. ASSUME NEW s \in RequiredTexts PROVE cfg'[s] # ""
  BY <1>4, Zenon DEF Acceptable
<1> QED
  BY <1>3, <1>5, <1>6, <1>7, <1>8, Zenon DEF UsableWhenLoaded

(* What validate refuses is wrong in the file and not put right by the     *)
(* environment.                                                            *)
LEMMA RefusedForCause ==
    ASSUME LoadInv, stage = "validating", ~Acceptable, UNCHANGED <<file, env>>
    PROVE  RefusedRightly'
<1>1. \A s \in Settings : cfg[s] = Given(s) /\ Given(s)' = Given(s) /\ Given(s) \in Values(s)
  BY GivenType DEF LoadInv, Given
<1>2. \A s \in Ports : Given(s) \in Int
  BY <1>1, ClassesDiffer DEF Values
<1>3. CASE \E s \in RequiredTexts : cfg[s] = ""
  <2>1. PICK s \in RequiredTexts : cfg[s] = ""
    BY <1>3
  <2>2. Given(s)' = ""
    BY <1>1, <2>1, ClassesDiffer
  <2> QED
    BY <2>1, <2>2, Zenon DEF RefusedRightly
<1>4. CASE \E s \in Ports : cfg[s] <= 0 \/ cfg[s] > MaxPort
  <2>1. PICK s \in Ports : cfg[s] <= 0 \/ cfg[s] > MaxPort
    BY <1>4
  <2>2. s \in Settings
    BY ClassesDiffer
  <2>3. Given(s)' < 1 \/ Given(s)' > MaxPort
    BY <1>1, <1>2, <2>1, <2>2, MaxPortNat
  <2> QED
    BY <2>1, <2>3, Zenon DEF RefusedRightly
<1> QED
  BY <1>3, <1>4, Zenon DEF Acceptable

(* Every stage of Load hands on what the next one relies on.               *)
LEMMA LoadStep == ASSUME LoadInv, AppConfigNext PROVE LoadInv'
<1>1. CASE Decode
  BY <1>1 DEF Decode, LoadInv, UsableWhenLoaded, RefusedRightly
<1>2. CASE OverrideFromEnv
  <2>1. cfg' = [s \in Settings |-> Given(s)']
    BY <1>2 DEF OverrideFromEnv, Overrides, Given, LoadInv
  <2>2. UsableWhenLoaded' /\ RefusedRightly'
    BY <1>2 DEF OverrideFromEnv, UsableWhenLoaded, RefusedRightly
  <2> QED
    BY <1>2, <2>1, <2>2 DEF OverrideFromEnv, LoadInv
<1>3. CASE Validate
  <2>1. CASE Acceptable
    <3>1. UsableWhenLoaded' /\ stage' = "loaded"
      BY <1>3, <2>1, LoadedUsable DEF Validate
    <3> QED
      BY <1>3, <3>1 DEF Validate, LoadInv, RefusedRightly
  <2>2. CASE ~Acceptable
    <3>1. RefusedRightly' /\ stage' = "exited"
      BY <1>3, <2>2, RefusedForCause DEF Validate
    <3> QED
      BY <1>3, <3>1 DEF Validate, LoadInv, UsableWhenLoaded
  <2> QED
    BY <2>1, <2>2
<1> QED
  BY <1>1, <1>2, <1>3 DEF AppConfigNext

LEMMA LoadInvariant == ServerSpec => []LoadInv
<1>1. ServerInit => LoadInv
  BY DEF ServerInit, AppConfigInit, LoadInv, UsableWhenLoaded, RefusedRightly
<1>2. LoadInv /\ [ServerNext]_serverVars => LoadInv'
  <2>1. ASSUME LoadInv, UNCHANGED configVars PROVE LoadInv'
    <3>1. UNCHANGED <<file, env, stage, cfg>>
      BY <2>1 DEF configVars
    <3>2. \A s : Given(s)' = Given(s)
      BY <3>1 DEF Given
    <3>3. UsableWhenLoaded' /\ RefusedRightly'
      BY <2>1, <3>1, <3>2, Zenon DEF LoadInv, UsableWhenLoaded, RefusedRightly
    <3> QED
      BY <2>1, <3>1, <3>2, <3>3 DEF LoadInv
  <2> QED
    BY <2>1, LoadStep DEF ServerNext, LoadConfig, Start, Die, Signal, Drained, ShutdownTimeout,
       Exit, Serve, serverVars
<1> QED
  BY <1>1, <1>2, PTL DEF ServerSpec

(* Whatever config.toml and the environment hold, a process that serves    *)
(* has every text it needs, ports that exist, and no timeout or pool size  *)
(* of zero.                                                                *)
THEOREM LoadedIsUsable == ServerSpec => []UsableWhenLoaded
BY LoadInvariant, PTL DEF LoadInv

(* And it refuses to start only for a setting that neither source gives    *)
(* rightly.                                                                *)
THEOREM RefusedForAReason == ServerSpec => []RefusedRightly
BY LoadInvariant, PTL DEF LoadInv
=============================================================================

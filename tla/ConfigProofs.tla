---------------------------- MODULE ConfigProofs ----------------------------
(***************************************************************************)
(* The limits of configurations and the outcome of concurrent edits, for   *)
(* any number of calls, whatever they ask for.                             *)
(***************************************************************************)
EXTENDS SlotsConfig, FiniteSetTheorems, TLAPS

\* The tables to start from keep the limits themselves.
TablesWithinLimits ==
    \A table \in InitialConfigs : \A l \in Levels : table[l] # NoConfig =>
        ValidConfig(table[l]) /\ ~ViolatesCheck(table[l])

\* Finitely many addresses and services, so that rows can be numbered.
FinitelyManyLevels == IsFiniteSet(Levels)

-----------------------------------------------------------------------------
(* The inductive invariant.                                                *)

\* A row that has an id has columns.
RowsInv == \A l \in Levels : ids[l] # 0 => configs[l] \in Held

\* What a call holds has been validated and has the values it was asked to
\* write; who got past SellerService is a manager.
EditInv(e) ==
    /\ editPc[e] \in {"asking", "checking", "writing"} /\ Op(e) \in {"put", "create"} =>
         /\ ValidConfig(held[e])
         /\ \A f \in DOMAIN asked[e].patch : held[e][f] = asked[e].patch[f]
    /\ editPc[e] \in {"checking", "writing"} => IsManager(e)
    /\ editPc[e] = "finding" => Op(e) = "put"
    /\ editPc[e] = "reading" => Op(e) # "create"
    /\ result[e] = "ok" => editPc[e] = "returned"

Deletes(e) == Op(e) \in {"delete", "deleteByKey"} /\ result[e] = "ok"

Creates(e) == Op(e) = "create" /\ result[e] = "ok"

\* What a Create made is there until somebody deletes it.
CreatesInv ==
    \A e \in Edits : Creates(e) => ids[asked[e].level] # 0 \/ \E d \in Edits : Deletes(d)

ResultsTyped ==
    /\ result \in [Edits -> EditErrors \cup {"none", "ok"}]
    /\ rowId \in [Edits -> Nat]

EditsInv ==
    /\ ConfigTypeOK
    /\ RowsInv /\ ConfigsStayValid
    /\ \A e \in Edits : EditInv(e)
    /\ CreatesInv /\ OneCreateWins

-----------------------------------------------------------------------------
(* Types of what calls are asked and of what they make of it.              *)

LEMMA AskTyped ==
    ASSUME NEW body \in Asks
    PROVE  /\ body.op \in {"put", "create", "delete", "deleteByKey"}
           /\ body.op = "delete" => body.id \in Nat
           /\ body.op # "delete" => body.level \in Levels
           /\ body.op \in {"put", "create"} => IsPatch(body.patch)
           /\ body.op = "create" => DOMAIN body.patch = Fields
BY EditsAssumption DEF IsEditBody

LEMMA ApplyTyped ==
    ASSUME NEW c \in Held, NEW patch, IsPatch(patch)
    PROVE  /\ Apply(c, patch) \in Held
           /\ \A f \in DOMAIN patch : Apply(c, patch)[f] = patch[f]
BY DEF Apply, Held, IsPatch

LEMMA ConfigsAreHeld == SlotConfig \subseteq Held
<1>1. SUFFICES ASSUME NEW c \in [slotDuration : Nat \ {0}, maxConcurrent : Nat \ {0},
                                 advanceDays : Nat, minNotice : Nat]
               PROVE  c \in Held
  BY ConfigAssumption
<1>2. /\ c = [f \in Fields |-> c[f]]
      /\ \A f \in Fields : c[f] \in Int
  BY DEF Fields
<1>. QED BY <1>2 DEF Held

LEMMA PatchHeld ==
    ASSUME NEW body \in Asks, body.op = "create"
    PROVE  body.patch \in Held
BY AskTyped DEF IsPatch, Held

LEMMA DefaultHeld == DefaultConfig \in Held
BY ConfigsAreHeld, ConfigAssumption

-----------------------------------------------------------------------------
(* Initial states.                                                         *)

LEMMA EditsBegin == TablesWithinLimits /\ FinitelyManyLevels /\ ConfigInit => EditsInv
<1>. SUFFICES ASSUME TablesWithinLimits, FinitelyManyLevels, ConfigInit
              PROVE  EditsInv
  OBVIOUS
<1>1. configs \in ConfigTable /\ ConfigsStayValid
  BY EditsAssumption DEF ConfigInit, TablesWithinLimits, ConfigsStayValid
<1>2. configs \in [Levels -> Held \cup {NoConfig}]
  BY <1>1, ConfigsAreHeld DEF ConfigTable
<1> DEFINE rows == {l \in Levels : configs[l] # NoConfig}
<1>3. Cardinality(rows) \in Nat
  BY FS_Subset, FS_CardinalityType DEF FinitelyManyLevels
<1>4. PICK number \in [rows -> 1 .. Cardinality(rows)] :
           /\ ids = [l \in Levels |-> IF l \in rows THEN number[l] ELSE 0]
           /\ lastId = Cardinality(rows)
  BY DEF ConfigInit
<1>5. lastId \in Nat /\ ids \in [Levels -> 0 .. lastId]
  BY <1>3, <1>4
<1>6. RowsInv
  BY <1>2, <1>4 DEF RowsInv
<1>7. /\ asked \in [Edits -> Asks] /\ editPc = [e \in Edits |-> "idle"]
      /\ try = [e \in Edits |-> 1] /\ rowId = [e \in Edits |-> 0]
      /\ held = [e \in Edits |-> DefaultConfig] /\ result = [e \in Edits |-> "none"]
  BY DEF ConfigInit
<1>8. ResultsTyped /\ \A e \in Edits : EditInv(e)
  <2>1. ResultsTyped
    BY <1>7 DEF ResultsTyped, EditErrors
  <2>2. \A e \in Edits : editPc[e] = "idle" /\ result[e] = "none"
    BY <1>7
  <2>. QED BY <2>1, <2>2 DEF EditInv
<1>9. ConfigTypeOK
  BY <1>2, <1>5, <1>7, <1>8, DefaultHeld DEF ConfigTypeOK, EditPcs, ResultsTyped
<1>10. CreatesInv /\ OneCreateWins
  BY <1>7 DEF CreatesInv, OneCreateWins, Creates
<1>. QED BY <1>1, <1>6, <1>8, <1>9, <1>10 DEF EditsInv

-----------------------------------------------------------------------------
(* The two ways a step leaves its call: gone on, or returned.              *)

\* What every step does to the other calls.
OthersKeep(e) ==
    \A g \in Edits \ {e} : /\ editPc'[g] = editPc[g] /\ try'[g] = try[g]
                           /\ rowId'[g] = rowId[g] /\ held'[g] = held[g]
                           /\ result'[g] = result[g]

LEMMA Returned ==
    ASSUME EditsInv, NEW e \in Edits, NEW err \in EditErrors \cup {"ok"}, ReturnFrom(e, err), asked' = asked
    PROVE  /\ editPc' \in [Edits -> EditPcs] /\ try' \in [Edits -> 1 .. 4]
           /\ held' \in [Edits -> Held] /\ ResultsTyped'
           /\ editPc'[e] = "returned" /\ result'[e] = err
           /\ EditInv(e)' /\ OthersKeep(e)
<1>1. /\ editPc \in [Edits -> EditPcs] /\ try \in [Edits -> 1 .. 4]
      /\ held \in [Edits -> Held] /\ ResultsTyped
  BY DEF EditsInv, ConfigTypeOK, ResultsTyped
<1>2. "returned" \in EditPcs
  BY DEF EditPcs
<1>3. /\ editPc' \in [Edits -> EditPcs] /\ try' \in [Edits -> 1 .. 4]
      /\ held' \in [Edits -> Held] /\ ResultsTyped'
  BY <1>1, <1>2, DefaultHeld DEF ReturnFrom, ResultsTyped
<1>4. editPc'[e] = "returned" /\ result'[e] = err
  BY <1>1 DEF ReturnFrom, ResultsTyped
<1>5. OthersKeep(e)
  BY <1>1 DEF ReturnFrom, ResultsTyped, OthersKeep
<1>. QED BY <1>3, <1>4, <1>5 DEF EditInv

\* A step that changes no table keeps the rest of the invariant, if the call
\* it belongs to is well.
LEMMA TablesKept ==
    ASSUME EditsInv, UNCHANGED tables, UNCHANGED asked, NEW e \in Edits,
           editPc[e] # "returned",
           editPc' \in [Edits -> EditPcs], try' \in [Edits -> 1 .. 4],
           held' \in [Edits -> Held], ResultsTyped',
           EditInv(e)', OthersKeep(e), result'[e] # "ok"
    PROVE  EditsInv'
<1>1. ConfigTypeOK' /\ RowsInv' /\ ConfigsStayValid'
  BY DEF EditsInv, ConfigTypeOK, ResultsTyped, RowsInv, ConfigsStayValid, tables
<1>2. \A g \in Edits : EditInv(g)'
  BY DEF EditsInv, EditInv, OthersKeep, Op, IsManager
<1>3. result[e] # "ok"
  BY DEF EditsInv, EditInv
<1>4. \A g \in Edits : result'[g] = "ok" <=> result[g] = "ok"
  BY <1>3 DEF OthersKeep
<1>5. CreatesInv' /\ OneCreateWins'
  BY <1>4 DEF EditsInv, CreatesInv, Creates, Deletes, OneCreateWins, Op, tables
<1>. QED BY <1>1, <1>2, <1>5 DEF EditsInv

LEMMA ReturnedUnchanged ==
    ASSUME EditsInv, UNCHANGED tables, UNCHANGED asked, NEW e \in Edits,
           editPc[e] # "returned", NEW err \in EditErrors, ReturnFrom(e, err)
    PROVE  EditsInv'
<1>1. err # "ok" /\ err \in EditErrors \cup {"ok"}
  BY DEF EditErrors
<1>. QED BY <1>1, Returned, TablesKept

\* The same for a step that goes on with its call.
LEMMA WentOn ==
    ASSUME EditsInv, UNCHANGED tables, UNCHANGED asked, NEW e \in Edits,
           editPc[e] # "returned", NEW where \in EditPcs, Goto(e, where),
           try' = try, NEW id \in Nat, rowId' = [rowId EXCEPT ![e] = id],
           NEW c \in Held, held' = [held EXCEPT ![e] = c],
           where \in {"asking", "checking", "writing"} /\ Op(e) \in {"put", "create"} =>
              ValidConfig(c) /\ \A f \in DOMAIN asked[e].patch : c[f] = asked[e].patch[f],
           where \in {"checking", "writing"} => IsManager(e),
           where = "finding" => Op(e) = "put", where = "reading" => Op(e) # "create"
    PROVE  EditsInv'
<1>1. /\ editPc \in [Edits -> EditPcs] /\ try \in [Edits -> 1 .. 4]
      /\ held \in [Edits -> Held] /\ ResultsTyped
  BY DEF EditsInv, ConfigTypeOK, ResultsTyped
<1>2. /\ editPc' \in [Edits -> EditPcs] /\ try' \in [Edits -> 1 .. 4]
      /\ held' \in [Edits -> Held] /\ ResultsTyped'
  BY <1>1 DEF Goto, ResultsTyped
<1>3. editPc'[e] = where /\ held'[e] = c /\ result' = result
  BY <1>1 DEF Goto
<1>4. OthersKeep(e)
  BY <1>1 DEF Goto, ResultsTyped, OthersKeep
<1>5. result[e] # "ok"
  BY DEF EditsInv, EditInv
<1>6. EditInv(e)'
  BY <1>3, <1>5 DEF EditInv, Op, IsManager
<1>. QED BY <1>2, <1>3, <1>4, <1>5, <1>6, TablesKept

-----------------------------------------------------------------------------
(* Every action preserves the invariant.                                   *)

\* A call that keeps its row and its configuration, in the form WentOn has.
LEMMA SameMemory ==
    ASSUME EditsInv, NEW e \in Edits
    PROVE  /\ rowId[e] \in Nat /\ rowId = [rowId EXCEPT ![e] = rowId[e]]
           /\ held[e] \in Held /\ held = [held EXCEPT ![e] = held[e]]
BY DEF EditsInv, ConfigTypeOK, ResultsTyped

LEMMA EditTyped ==
    ASSUME EditsInv, NEW e \in Edits
    PROVE  /\ Op(e) \in {"put", "create", "delete", "deleteByKey"}
           /\ Op(e) = "delete" => asked[e].id \in Nat
           /\ Op(e) # "delete" => asked[e].level \in Levels
           /\ Op(e) \in {"put", "create"} => IsPatch(asked[e].patch)
           /\ Op(e) = "create" => asked[e].patch \in Held
<1>1. asked[e] \in Asks
  BY DEF EditsInv, ConfigTypeOK
<1>. QED BY <1>1, AskTyped, PatchHeld DEF Op

LEMMA BeginKeeps ==
    ASSUME EditsInv, NEW e \in Edits, Begin(e), UNCHANGED asked
    PROVE  EditsInv'
<1>. USE SameMemory, EditTyped
<1>1. UNCHANGED tables /\ editPc[e] # "returned"
  BY DEF Begin
<1>2. CASE Op(e) = "put" /\ Goto(e, "finding") /\ UNCHANGED <<try, rowId, held>>
  BY <1>1, <1>2, WentOn DEF EditPcs
<1>3. CASE /\ Op(e) = "create" /\ CheckData(e, asked[e].patch)
           /\ held' = [held EXCEPT ![e] = asked[e].patch]
           /\ Goto(e, "asking") /\ UNCHANGED <<try, rowId>>
  BY <1>1, <1>3, WentOn DEF EditPcs, CheckData
<1>4. CASE ReturnFrom(e, "ErrInvalidInput")
  BY <1>1, <1>4, ReturnedUnchanged DEF EditErrors
<1>5. CASE /\ Op(e) = "delete" /\ rowId' = [rowId EXCEPT ![e] = asked[e].id]
           /\ Goto(e, "reading") /\ UNCHANGED <<try, held>>
  BY <1>1, <1>5, WentOn DEF EditPcs
<1>6. CASE Op(e) = "deleteByKey" /\ Goto(e, "asking") /\ UNCHANGED <<try, rowId, held>>
  BY <1>1, <1>6, WentOn DEF EditPcs
<1>. QED BY <1>2, <1>3, <1>4, <1>5, <1>6 DEF Begin

LEMMA FindKeeps ==
    ASSUME EditsInv, NEW e \in Edits, FindRow(e), UNCHANGED asked
    PROVE  EditsInv'
<1>1. UNCHANGED tables /\ editPc[e] = "finding"
  BY DEF FindRow
<1> DEFINE l == HierarchyFor(asked[e].level[1], asked[e].level[2])[try[e]]
<1>2. CASE /\ ids[l] # 0 /\ rowId' = [rowId EXCEPT ![e] = ids[l]]
           /\ Goto(e, "reading") /\ UNCHANGED <<try, held>>
  <2>1. ids[l] \in Nat /\ Op(e) # "create"
    <3>1. Op(e) = "put" /\ asked[e].level \in Levels
      BY <1>1, EditTyped DEF EditsInv, EditInv
    <3>2. try[e] \in 1 .. 4
      BY DEF EditsInv, ConfigTypeOK
    <3>3. l \in Levels
      BY <3>1, <3>2 DEF HierarchyFor, Levels
    <3>. QED BY <3>1, <3>3 DEF EditsInv, ConfigTypeOK
  <2>. QED BY <1>1, <1>2, <2>1, WentOn, SameMemory DEF EditPcs
<1>3. CASE /\ MoreLevels(e) /\ try' = [try EXCEPT ![e] = @ + 1]
           /\ UNCHANGED <<editPc, result, rowId, held>>
  <2>1. try' \in [Edits -> 1 .. 4] /\ \A g \in Edits \ {e} : try'[g] = try[g]
    BY <1>3 DEF EditsInv, ConfigTypeOK, MoreLevels
  <2>2. OthersKeep(e) /\ EditInv(e)' /\ ResultsTyped'
    BY <1>3, <2>1 DEF OthersKeep, EditsInv, EditInv, ResultsTyped, ConfigTypeOK, Op, IsManager
  <2>3. result[e] # "ok"
    BY <1>1 DEF EditsInv, EditInv
  <2>4. editPc' \in [Edits -> EditPcs] /\ held' \in [Edits -> Held]
    BY <1>3 DEF EditsInv, ConfigTypeOK
  <2>. QED BY <1>1, <1>3, <2>1, <2>2, <2>3, <2>4, TablesKept
<1>4. CASE ReturnFrom(e, "ErrConfigNotFound")
  BY <1>1, <1>4, ReturnedUnchanged DEF EditErrors
<1>. QED BY <1>2, <1>3, <1>4 DEF FindRow

LEMMA ReadKeeps ==
    ASSUME EditsInv, NEW e \in Edits, ReadRow(e), UNCHANGED asked
    PROVE  EditsInv'
<1>1. UNCHANGED tables /\ editPc[e] = "reading"
  BY DEF ReadRow
<1>2. CASE ReturnFrom(e, "ErrConfigNotFound") \/ ReturnFrom(e, "ErrInvalidInput")
  BY <1>1, <1>2, ReturnedUnchanged DEF EditErrors
<1>3. ASSUME NEW l \in RowLevels(rowId[e]),
             NEW c, c = IF Op(e) = "put" THEN Apply(configs[l], asked[e].patch)
                                         ELSE configs[l],
             Op(e) = "put" => CheckData(e, c), held' = [held EXCEPT ![e] = c],
             Goto(e, "asking"), UNCHANGED <<try, rowId>>
      PROVE  EditsInv'
  <2>1. configs[l] \in Held
    BY DEF RowLevels, EditsInv, RowsInv
  <2>2. c \in Held /\ (Op(e) = "put" => \A f \in DOMAIN asked[e].patch : c[f] = asked[e].patch[f])
    BY <1>3, <2>1, EditTyped, ApplyTyped
  <2>3. Op(e) # "create"
    BY <1>1 DEF EditsInv, EditInv
  <2>. QED BY ZenonT(60), <1>1, <1>3, <2>2, <2>3, SameMemory, WentOn DEF EditPcs, CheckData
<1>. QED BY <1>2, <1>3 DEF ReadRow

LEMMA AskKeeps ==
    ASSUME EditsInv, NEW e \in Edits, AskCompany(e), UNCHANGED asked
    PROVE  EditsInv'
<1>1. UNCHANGED tables /\ editPc[e] = "asking"
  BY DEF AskCompany
<1>2. CASE /\ IsManager(e) /\ Goto(e, IF Op(e) = "create" THEN "checking" ELSE "writing")
           /\ UNCHANGED <<try, rowId, held>>
  <2> DEFINE where == IF Op(e) = "create" THEN "checking" ELSE "writing"
  <2>1. where \in EditPcs
    BY DEF EditPcs
  <2>2. Op(e) \in {"put", "create"} => /\ ValidConfig(held[e])
                                       /\ \A f \in DOMAIN asked[e].patch :
                                            held[e][f] = asked[e].patch[f]
    BY <1>1 DEF EditsInv, EditInv
  <2>. QED BY <1>1, <1>2, <2>1, <2>2, SameMemory, WentOn
<1>3. CASE \E err \in {"ErrAccessDenied", "ErrCompanyNotFound", "ErrInternal"} :
              ReturnFrom(e, err)
  BY <1>1, <1>3, ReturnedUnchanged DEF EditErrors
<1>4. CASE \E err \in PlaceErrors(e) : ReturnFrom(e, err)
  <2>1. PlaceErrors(e) \subseteq EditErrors
    BY DEF PlaceErrors, EditErrors
  <2>. QED BY <1>1, <1>4, <2>1, ReturnedUnchanged DEF EditErrors
<1>. QED BY <1>2, <1>3, <1>4 DEF AskCompany

LEMMA CheckKeeps ==
    ASSUME EditsInv, NEW e \in Edits, CheckExisting(e), UNCHANGED asked
    PROVE  EditsInv'
<1>1. UNCHANGED tables /\ editPc[e] = "checking"
  BY DEF CheckExisting
<1>2. CASE ReturnFrom(e, "ErrConfigAlreadyExists")
  BY <1>1, <1>2, ReturnedUnchanged DEF EditErrors
<1>3. CASE Goto(e, "writing") /\ UNCHANGED <<try, rowId, held>>
  <2>1. /\ IsManager(e)
        /\ Op(e) \in {"put", "create"} => /\ ValidConfig(held[e])
                                          /\ \A f \in DOMAIN asked[e].patch :
                                               held[e][f] = asked[e].patch[f]
    BY <1>1 DEF EditsInv, EditInv
  <2>. QED BY <1>1, <1>3, <2>1, SameMemory, WentOn DEF EditPcs
<1>. QED BY <1>2, <1>3 DEF CheckExisting

\* A step that writes: what it must establish of the tables.
LEMMA TablesWritten ==
    ASSUME EditsInv, UNCHANGED asked, NEW e \in Edits, editPc[e] = "writing",
           ReturnFrom(e, "ok"), lastId' \in Nat,
           configs' \in [Levels -> Held \cup {NoConfig}],
           ids' \in [Levels -> 0 .. lastId'],
           RowsInv', ConfigsStayValid',
           \A l \in Levels : ids[l] # 0 => ids'[l] # 0 \/ Deletes(e)',
           Op(e) = "create" => ids[asked[e].level] = 0 /\ ids'[asked[e].level] # 0
    PROVE  EditsInv'
<1>1. /\ editPc' \in [Edits -> EditPcs] /\ try' \in [Edits -> 1 .. 4]
      /\ held' \in [Edits -> Held] /\ ResultsTyped'
      /\ result'[e] = "ok" /\ EditInv(e)' /\ OthersKeep(e)
  BY Returned
<1>2. ConfigTypeOK'
  BY <1>1 DEF EditsInv, ConfigTypeOK, ResultsTyped
<1>3. \A g \in Edits : EditInv(g)'
  BY <1>1 DEF EditsInv, EditInv, OthersKeep, Op, IsManager
<1>4. result[e] # "ok"
  BY DEF EditsInv, EditInv
<1>5. /\ \A g \in Edits : Deletes(g) => Deletes(g)'
      /\ \A g \in Edits \ {e} : Creates(g)' => Creates(g)
      /\ Creates(e)' => Op(e) = "create"
  BY <1>1, <1>4 DEF Deletes, Creates, OthersKeep, Op
<1>6. \A g \in Edits : Op(g) # "delete" => asked[g].level \in Levels
  BY EditTyped
<1>7. CreatesInv'
  <2>1. SUFFICES ASSUME NEW g \in Edits, Creates(g)'
                 PROVE  ids'[asked[g].level] # 0 \/ \E d \in Edits : Deletes(d)'
    BY DEF CreatesInv
  <2>2. CASE g = e
    BY <1>5, <2>1, <2>2
  <2>3. CASE g # e
    <3>1. Creates(g)
      BY <1>5, <2>1, <2>3
    <3>2. ids[asked[g].level] # 0 \/ \E d \in Edits : Deletes(d)
      BY <3>1 DEF EditsInv, CreatesInv
    <3>3. asked[g].level \in Levels
      BY <1>6, <3>1 DEF Creates
    <3>. QED BY <1>5, <3>2, <3>3
  <2>. QED BY <2>2, <2>3
<1>8. OneCreateWins'
  <2>1. SUFFICES ASSUME NEW g \in Edits, NEW h \in Edits, g # h, Creates(g)', Creates(h)',
                        asked[g].level = asked[h].level
                 PROVE  \E d \in Edits : Deletes(d)'
    BY DEF OneCreateWins, Creates, Deletes, Op
  <2>2. CASE g # e /\ h # e
    <3>1. Creates(g) /\ Creates(h)
      BY <1>5, <2>1, <2>2
    <3>2. \E d \in Edits : Deletes(d)
      BY <2>1, <3>1 DEF EditsInv, OneCreateWins, Creates, Deletes
    <3>. QED BY <1>5, <3>2
  <2>3. ASSUME NEW k \in Edits, k # e, Creates(k), Op(e) = "create",
               asked[k].level = asked[e].level
        PROVE  \E d \in Edits : Deletes(d)'
    BY <1>5, <2>3 DEF EditsInv, CreatesInv
  <2>. QED BY <1>5, <2>1, <2>2, <2>3
<1>. QED BY <1>2, <1>3, <1>7, <1>8 DEF EditsInv

LEMMA InsertKeeps ==
    ASSUME EditsInv, NEW e \in Edits, InsertRow(e), UNCHANGED asked
    PROVE  EditsInv'
<1> DEFINE l == asked[e].level
<1>1. editPc[e] = "writing" /\ Op(e) = "create"
  BY DEF InsertRow
<1>2. CASE ReturnFrom(e, "ErrInternal") /\ UNCHANGED tables
  BY <1>1, <1>2, ReturnedUnchanged DEF EditErrors
<1>3. CASE /\ ids[l] = 0 /\ ~ViolatesCheck(held[e])
           /\ configs' = [configs EXCEPT ![l] = held[e]]
           /\ ids' = [ids EXCEPT ![l] = lastId + 1]
           /\ lastId' = lastId + 1
           /\ ReturnFrom(e, "ok")
  <2>1. l \in Levels
    BY <1>1, EditTyped
  <2>2. /\ held[e] \in Held /\ ValidConfig(held[e])
        /\ ids \in [Levels -> 0 .. lastId] /\ lastId \in Nat
        /\ configs \in [Levels -> Held \cup {NoConfig}]
    BY <1>1 DEF EditsInv, ConfigTypeOK, EditInv
  <2>3. /\ ids' \in [Levels -> 0 .. lastId'] /\ lastId' \in Nat
        /\ ids'[l] # 0 /\ \A m \in Levels : ids[m] # 0 => ids'[m] # 0
        /\ \A m \in Levels \ {l} : ids'[m] = ids[m]
    BY <1>3, <2>1, <2>2
  <2>4. /\ configs' \in [Levels -> Held \cup {NoConfig}] /\ configs'[l] = held[e]
        /\ \A m \in Levels \ {l} : configs'[m] = configs[m]
    BY <1>3, <2>1, <2>2
  <2>5. RowsInv'
    BY <2>2, <2>3, <2>4 DEF EditsInv, RowsInv
  <2>6. ConfigsStayValid'
    BY <1>3, <2>2, <2>4 DEF EditsInv, ConfigsStayValid
  <2>. QED BY <1>1, <1>3, <2>3, <2>4, <2>5, <2>6, TablesWritten
<1>. QED BY <1>2, <1>3 DEF InsertRow, ViolatesIndex

LEMMA UpdateKeeps ==
    ASSUME EditsInv, NEW e \in Edits, UpdateRow(e), UNCHANGED asked
    PROVE  EditsInv'
<1>1. editPc[e] = "writing" /\ Op(e) = "put" /\ UNCHANGED <<ids, lastId>>
  BY DEF UpdateRow
<1>2. CASE UNCHANGED configs /\ \E err \in {"ErrConfigNotFound", "ErrInternal"} :
                                  ReturnFrom(e, err)
  BY <1>1, <1>2, ReturnedUnchanged DEF EditErrors, tables
<1>3. ASSUME ~ViolatesCheck(held[e]), NEW l \in Target(e),
             configs' = [configs EXCEPT ![l] = held[e]], ReturnFrom(e, "ok")
      PROVE  EditsInv'
  <2>1. l \in Levels
    BY DEF Target, RowLevels
  <2>2. /\ held[e] \in Held /\ ValidConfig(held[e])
        /\ ids \in [Levels -> 0 .. lastId] /\ lastId \in Nat
        /\ configs \in [Levels -> Held \cup {NoConfig}]
    BY <1>1 DEF EditsInv, ConfigTypeOK, EditInv
  <2>3. /\ configs' \in [Levels -> Held \cup {NoConfig}] /\ configs'[l] = held[e]
        /\ \A m \in Levels \ {l} : configs'[m] = configs[m]
    BY <1>3, <2>1, <2>2
  <2>4. RowsInv'
    BY <1>1, <2>2, <2>3 DEF EditsInv, RowsInv
  <2>5. ConfigsStayValid'
    BY <1>3, <2>2, <2>3 DEF EditsInv, ConfigsStayValid
  <2>. QED BY <1>1, <1>3, <2>2, <2>3, <2>4, <2>5, TablesWritten
<1>. QED BY <1>2, <1>3 DEF UpdateRow

LEMMA DeleteKeeps ==
    ASSUME EditsInv, NEW e \in Edits, DeleteRow(e), UNCHANGED asked
    PROVE  EditsInv'
<1>1. editPc[e] = "writing" /\ Op(e) \in {"delete", "deleteByKey"} /\ lastId' = lastId
  BY DEF DeleteRow
<1>2. CASE ReturnFrom(e, "ErrConfigNotFound") /\ UNCHANGED <<configs, ids>>
  BY <1>1, <1>2, ReturnedUnchanged DEF EditErrors, tables
<1>3. ASSUME NEW l \in Levels, configs' = [configs EXCEPT ![l] = NoConfig],
             ids' = [ids EXCEPT ![l] = 0], ReturnFrom(e, "ok")
      PROVE  EditsInv'
  <2>1. /\ ids \in [Levels -> 0 .. lastId] /\ lastId \in Nat
        /\ configs \in [Levels -> Held \cup {NoConfig}]
    BY DEF EditsInv, ConfigTypeOK
  <2>2. /\ configs' \in [Levels -> Held \cup {NoConfig}] /\ configs'[l] = NoConfig
        /\ ids' \in [Levels -> 0 .. lastId'] /\ lastId' \in Nat /\ ids'[l] = 0
        /\ \A m \in Levels \ {l} : configs'[m] = configs[m] /\ ids'[m] = ids[m]
    BY <1>1, <1>3, <2>1
  <2>3. RowsInv'
    BY <2>2 DEF EditsInv, RowsInv
  <2>4. ConfigsStayValid'
    BY <2>2 DEF EditsInv, ConfigsStayValid
  <2>5. Deletes(e)'
    <3>1. result'[e] = "ok" /\ asked' = asked
      BY <1>3, Returned
    <3>. QED BY <1>1, <3>1 DEF Deletes, Op
  <2>. QED BY <1>1, <1>3, <2>2, <2>3, <2>4, <2>5, TablesWritten
<1>. QED BY <1>1, <1>2, <1>3 DEF DeleteRow, RowLevels

LEMMA EditsGoOn == EditsInv /\ [ConfigNext]_configVars => EditsInv'
<1>. SUFFICES ASSUME EditsInv, [ConfigNext]_configVars
              PROVE  EditsInv'
  OBVIOUS
<1>1. CASE UNCHANGED configVars
  BY <1>1 DEF configVars, editVars, EditsInv, ConfigTypeOK, RowsInv, ConfigsStayValid,
              EditInv, CreatesInv, Creates, Deletes, OneCreateWins, Op, IsManager
<1>2. ASSUME NEW e \in Edits, EditStep(e), UNCHANGED asked
      PROVE  EditsInv'
  <2>1. CASE FailEdit(e)
    BY <2>1, <1>2, ReturnedUnchanged DEF FailEdit, EditErrors
  <2>. QED BY <1>2, <2>1, BeginKeeps, FindKeeps, ReadKeeps, AskKeeps, CheckKeeps,
              InsertKeeps, UpdateKeeps, DeleteKeeps DEF EditStep
<1>. QED BY <1>1, <1>2 DEF ConfigNext

\* The hypotheses of all theorems below.
Configured == TablesWithinLimits /\ FinitelyManyLevels

(* The inductive invariant holds throughout.                               *)
THEOREM EditsAlways == Configured /\ ConfigSpec => []EditsInv
BY EditsBegin, EditsGoOn, PTL DEF ConfigSpec, Configured

(* The table, its ids and the calls on it keep their types.                *)
THEOREM ConfigTypes == Configured /\ ConfigSpec => []ConfigTypeOK
BY EditsAlways, PTL DEF EditsInv

(* No interleaving of PUTs, Creates and deletions stores a configuration   *)
(* beyond the limits.                                                      *)
THEOREM LimitsHold == Configured /\ ConfigSpec => []ConfigsStayValid
BY EditsAlways, PTL DEF EditsInv

(* Only one of several Creates of one level succeeds without a deletion.   *)
THEOREM OneCreateAlways == Configured /\ ConfigSpec => []OneCreateWins
BY EditsAlways, PTL DEF EditsInv

-----------------------------------------------------------------------------
(* What a single step may do, given the invariant.                         *)

\* Only writes touch the table.
LEMMA OnlyWritesChange ==
    ASSUME EditsInv, NEW e \in Edits, EditStep(e), configs' # configs
    PROVE  InsertRow(e) \/ UpdateRow(e) \/ DeleteRow(e)
BY DEF EditStep, Begin, FindRow, ReadRow, AskCompany, CheckExisting, FailEdit, tables

(* Nobody but a manager changes a configuration, however long ago          *)
(* SellerService was asked.                                                *)
THEOREM OnlyManagersAlways == Configured /\ ConfigSpec => OnlyManagersConfigure
<1>1. ASSUME EditsInv, [ConfigNext]_configVars, configs' # configs
      PROVE  \E e \in Edits : editPc[e] # editPc'[e] /\ asked[e].user \in Managers
  <2>1. PICK e \in Edits : EditStep(e) /\ asked' = asked
    BY <1>1 DEF ConfigNext, configVars
  <2>2. editPc[e] = "writing"
    BY <1>1, <2>1, OnlyWritesChange DEF InsertRow, UpdateRow, DeleteRow
  <2>3. asked[e].user \in Managers
    BY <1>1, <2>2 DEF EditsInv, EditInv, IsManager
  <2>4. \E err \in EditErrors \cup {"ok"} : ReturnFrom(e, err)
    BY <1>1, <2>1, OnlyWritesChange DEF InsertRow, UpdateRow, DeleteRow, EditErrors
  <2>5. editPc'[e] = "returned"
    BY <1>1, <2>1, <2>4, Returned
  <2>. QED BY <2>2, <2>3, <2>5
<1>2. EditsInv /\ [ConfigNext]_configVars =>
        [configs' # configs => \E e \in Edits : editPc[e] # editPc'[e]
                                                /\ asked[e].user \in Managers]_configVars
  BY <1>1
<1>. QED BY <1>2, EditsAlways, PTL DEF ConfigSpec, OnlyManagersConfigure

\* A step that makes a PUT succeed is its UPDATE.
LEMMA SuccessIsUpdate ==
    ASSUME EditsInv, NEW e \in Edits, EditStep(e), asked' = asked,
           NEW g \in Edits, Op(g) = "put", Succeeds(g)
    PROVE  /\ g = e /\ editPc[g] = "writing"
           /\ \E l \in Target(g) : configs' = [configs EXCEPT ![l] = held[g]]
<1>0. /\ editPc \in [Edits -> EditPcs]
      /\ result \in [Edits -> EditErrors \cup {"none", "ok"}]
  BY DEF EditsInv, ConfigTypeOK
<1>1. g = e
  BY <1>0 DEF Succeeds, EditStep, Begin, FindRow, ReadRow, AskCompany, CheckExisting,
         InsertRow, UpdateRow, DeleteRow, FailEdit, ReturnFrom, Goto
<1>2. result'[e] = "ok" /\ result[e] = "none"
  BY <1>1 DEF Succeeds
<1>3. ASSUME NEW err \in EditErrors, ReturnFrom(e, err)
      PROVE  FALSE
  BY <1>0, <1>2, <1>3 DEF ReturnFrom, EditErrors
<1>4. ASSUME UNCHANGED result
      PROVE  FALSE
  BY <1>2, <1>4
<1>5. UpdateRow(e)
  <2>1. PlaceErrors(e) \subseteq EditErrors
    BY DEF PlaceErrors, EditErrors
  <2>2. ~Begin(e) /\ ~FindRow(e) /\ ~ReadRow(e)
    BY <1>3, <1>4 DEF Begin, FindRow, ReadRow, Goto, EditErrors
  <2>3. ~AskCompany(e)
    BY <1>3, <1>4, <2>1 DEF AskCompany, Goto, EditErrors
  <2>4. ~CheckExisting(e) /\ ~FailEdit(e)
    BY <1>3, <1>4 DEF CheckExisting, FailEdit, Goto, EditErrors
  <2>5. ~InsertRow(e) /\ ~DeleteRow(e)
    BY <1>1 DEF InsertRow, DeleteRow
  <2>. QED BY <2>2, <2>3, <2>4, <2>5 DEF EditStep
<1>. QED BY <1>1, <1>3, <1>5 DEF UpdateRow, EditErrors

(* A PUT that is told ok changed the row it had found and no other, also   *)
(* when that row was deleted or its level filled anew in the meantime.     *)
THEOREM PutHitsItsRow == Configured /\ ConfigSpec => PutHitsTheRowItFound
<1>1. ASSUME EditsInv, [ConfigNext]_configVars, NEW g \in Edits, Op(g) = "put", Succeeds(g)
      PROVE  \E l \in Levels :
                /\ ids[l] = rowId[g]
                /\ \A f \in DOMAIN asked[g].patch : configs'[l][f] = asked[g].patch[f]
                /\ \A m \in Levels \ {l} : configs'[m] = configs[m]
  <2>1. result' # result
    BY <1>1 DEF Succeeds
  <2>2. PICK e \in Edits : EditStep(e) /\ asked' = asked
    BY <1>1, <2>1 DEF ConfigNext, configVars, editVars
  <2>3. editPc[g] = "writing"
    BY <1>1, <2>2, SuccessIsUpdate
  <2>4. PICK l \in Target(g) : configs' = [configs EXCEPT ![l] = held[g]]
    BY <1>1, <2>2, SuccessIsUpdate
  <2>5. \A f \in DOMAIN asked[g].patch : held[g][f] = asked[g].patch[f]
    BY <1>1, <2>3 DEF EditsInv, EditInv
  <2>6. l \in Levels /\ ids[l] = rowId[g]
    BY DEF Target, RowLevels
  <2>7. configs'[l] = held[g] /\ \A m \in Levels \ {l} : configs'[m] = configs[m]
    BY <1>1, <2>4, <2>6 DEF EditsInv, ConfigTypeOK
  <2>. QED BY <2>5, <2>6, <2>7
<1>2. EditsInv /\ [ConfigNext]_configVars =>
        [\A e \in Edits : Op(e) = "put" /\ Succeeds(e) =>
             \E l \in Levels :
                /\ ids[l] = rowId[e]
                /\ \A f \in DOMAIN asked[e].patch : configs'[l][f] = asked[e].patch[f]
                /\ \A m \in Levels \ {l} : configs'[m] = configs[m]]_configVars
  BY <1>1
<1>. QED BY <1>2, EditsAlways, PTL DEF ConfigSpec, PutHitsTheRowItFound, Succeeds, Op

-----------------------------------------------------------------------------
(* The fields a PUT does not name.                                         *)

Holding(e) == Op(e) = "put" /\ editPc[e] \in {"asking", "writing"}

\* When a PUT is about to write no other one has read the same row.
PutsOfARowInTurn ==
    \A e, g \in Edits :
        Holding(e) /\ Holding(g) /\ editPc[g] = "writing" /\ rowId[e] = rowId[g] => e = g

\* No two rows have the same id.
IdsUnique == \A l, m \in Levels : ids[l] # 0 /\ ids[l] = ids[m] => l = m

\* A row that a PUT has found has an id given before; what it has read is
\* what the row still holds.
FreshEdit(e) ==
    Op(e) = "put" =>
        /\ rowId[e] <= lastId /\ editPc[e] # "checking"
        /\ Holding(e) =>
             \A l \in RowLevels(rowId[e]) : held[e] = Apply(configs[l], asked[e].patch)

FreshInv == \A e \in Edits : FreshEdit(e)

\* Nothing has been read at the start.
LEMMA FreshBegin == EditsInv /\ ConfigInit => IdsUnique /\ FreshInv
<1> SUFFICES ASSUME EditsInv, ConfigInit PROVE IdsUnique /\ FreshInv
  OBVIOUS
<1> DEFINE rows == {l \in Levels : configs[l] # NoConfig}
<1>1. PICK number \in [rows -> 1 .. Cardinality(rows)] :
           /\ \A l, m \in rows : number[l] = number[m] => l = m
           /\ ids = [l \in Levels |-> IF l \in rows THEN number[l] ELSE 0]
  BY DEF ConfigInit
<1>2. IdsUnique
  BY <1>1 DEF IdsUnique
<1>3. \A e \in Edits : editPc[e] = "idle" /\ rowId[e] = 0
  BY DEF ConfigInit
<1>4. 0 <= lastId
  BY DEF EditsInv, ConfigTypeOK
<1> QED
  BY <1>2, <1>3, <1>4 DEF FreshInv, FreshEdit, Holding

\* The sequence never gives an id twice.
LEMMA IdsStayUnique == EditsInv /\ IdsUnique /\ [ConfigNext]_configVars => IdsUnique'
<1> SUFFICES ASSUME EditsInv, IdsUnique, [ConfigNext]_configVars
             PROVE  IdsUnique'
  OBVIOUS
<1>1. ids \in [Levels -> 0 .. lastId] /\ lastId \in Nat
  BY DEF EditsInv, ConfigTypeOK
<1>2. CASE UNCHANGED ids
  BY <1>2 DEF IdsUnique
<1>3. ASSUME NEW l \in Levels, ids' = [ids EXCEPT ![l] = lastId + 1] PROVE IdsUnique'
  BY <1>1, <1>3 DEF IdsUnique
<1>4. ASSUME NEW l \in Levels, ids' = [ids EXCEPT ![l] = 0] PROVE IdsUnique'
  BY <1>1, <1>4 DEF IdsUnique
<1>5. ASSUME NEW e \in Edits, EditStep(e) PROVE IdsUnique'
  <2>1. CASE InsertRow(e)
    BY <1>2, <1>3, <2>1, EditTyped DEF InsertRow, tables
  <2>2. CASE DeleteRow(e)
    BY <1>2, <1>4, <2>2 DEF DeleteRow, RowLevels
  <2> QED
    BY <1>2, <1>5, <2>1, <2>2
    DEF EditStep, Begin, FindRow, ReadRow, AskCompany, CheckExisting, UpdateRow, FailEdit, tables
<1> QED
  BY <1>2, <1>5 DEF ConfigNext, configVars

\* A step changes the memory of its own call only.
LEMMA OthersUntouched ==
    ASSUME EditsInv, NEW e \in Edits, EditStep(e)
    PROVE  OthersKeep(e)
<1>1. /\ editPc \in [Edits -> EditPcs] /\ try \in [Edits -> 1 .. 4]
      /\ rowId \in [Edits -> Nat] /\ held \in [Edits -> Held]
      /\ result \in [Edits -> EditErrors \cup {"none", "ok"}]
  BY DEF EditsInv, ConfigTypeOK
<1>2. ASSUME NEW err, ReturnFrom(e, err) PROVE OthersKeep(e)
  BY <1>1, <1>2 DEF ReturnFrom, OthersKeep
<1>3. ASSUME NEW where, Goto(e, where), try' = try, NEW id, rowId' = [rowId EXCEPT ![e] = id],
             NEW c, held' = [held EXCEPT ![e] = c]
      PROVE  OthersKeep(e)
  BY <1>1, <1>3 DEF Goto, OthersKeep
<1>4. rowId = [rowId EXCEPT ![e] = rowId[e]] /\ held = [held EXCEPT ![e] = held[e]]
  BY <1>1
<1>5. CASE Begin(e)
  BY <1>2, <1>3, <1>4, <1>5 DEF Begin
<1>6. CASE FindRow(e)
  <2>1. ASSUME try' = [try EXCEPT ![e] = @ + 1], UNCHANGED <<editPc, result, rowId, held>>
        PROVE  OthersKeep(e)
    BY <1>1, <2>1 DEF OthersKeep
  <2> QED
    BY <1>2, <1>3, <1>4, <1>6, <2>1 DEF FindRow
<1>7. CASE ReadRow(e)
  BY <1>2, <1>3, <1>4, <1>7 DEF ReadRow
<1>8. CASE AskCompany(e) \/ CheckExisting(e)
  BY <1>2, <1>3, <1>4, <1>8 DEF AskCompany, CheckExisting
<1>9. CASE InsertRow(e) \/ UpdateRow(e) \/ DeleteRow(e) \/ FailEdit(e)
  BY <1>2, <1>9 DEF InsertRow, UpdateRow, DeleteRow, FailEdit
<1> QED
  BY <1>5, <1>6, <1>7, <1>8, <1>9 DEF EditStep

\* What a step does to a row that another PUT has read: nothing, unless it
\* deletes it.
LEMMA ReadRowsStay ==
    ASSUME EditsInv, FreshInv, PutsOfARowInTurn, NEW e \in Edits, EditStep(e),
           NEW g \in Edits, g # e, Holding(g), NEW l \in RowLevels(rowId[g])'
    PROVE  l \in RowLevels(rowId[g]) /\ configs'[l] = configs[l]
<1>1. /\ ids \in [Levels -> 0 .. lastId] /\ lastId \in Nat
      /\ configs \in [Levels -> Held \cup {NoConfig}] /\ rowId \in [Edits -> Nat]
  BY DEF EditsInv, ConfigTypeOK
<1>2. l \in Levels /\ ids'[l] # 0 /\ ids'[l] = rowId[g]
  BY OthersUntouched DEF RowLevels, OthersKeep
<1>3. rowId[g] <= lastId
  BY DEF FreshInv, FreshEdit, Holding
<1>4. CASE UNCHANGED <<configs, ids>>
  BY <1>2, <1>4 DEF RowLevels
<1>5. CASE InsertRow(e)
  <2> DEFINE new == asked[e].level
  <2>1. CASE /\ configs' = [configs EXCEPT ![new] = held[e]]
             /\ ids' = [ids EXCEPT ![new] = lastId + 1]
    <3>1. new \in Levels
      BY <1>5, EditTyped DEF InsertRow
    <3>2. l # new
      BY <1>1, <1>2, <1>3, <2>1, <3>1
    <3> QED
      BY <1>1, <1>2, <2>1, <3>1, <3>2 DEF RowLevels
  <2> QED
    BY <1>4, <1>5, <2>1 DEF InsertRow, tables
<1>6. CASE UpdateRow(e)
  <2>1. ASSUME NEW m \in Target(e), configs' = [configs EXCEPT ![m] = held[e]]
        PROVE  l \in RowLevels(rowId[g]) /\ configs'[l] = configs[l]
    <3>1. ids' = ids /\ m \in Levels /\ ids[m] = rowId[e]
      BY <1>6, <2>1 DEF UpdateRow, Target, RowLevels
    <3>2. Holding(e) /\ editPc[e] = "writing"
      BY <1>6 DEF UpdateRow, Holding
    <3>3. rowId[e] # rowId[g]
      BY <3>2 DEF PutsOfARowInTurn
    <3> QED
      BY <1>1, <1>2, <2>1, <3>1, <3>3 DEF RowLevels
  <2> QED
    BY <1>4, <1>6, <2>1 DEF UpdateRow
<1>7. CASE DeleteRow(e)
  <2>1. ASSUME NEW m \in Levels, configs' = [configs EXCEPT ![m] = NoConfig],
               ids' = [ids EXCEPT ![m] = 0]
        PROVE  l \in RowLevels(rowId[g]) /\ configs'[l] = configs[l]
    BY <1>1, <1>2, <2>1 DEF RowLevels
  <2> QED
    BY <1>4, <1>7, <2>1 DEF DeleteRow, RowLevels
<1> QED
  BY <1>4, <1>5, <1>6, <1>7
  DEF EditStep, Begin, FindRow, ReadRow, AskCompany, CheckExisting, FailEdit, tables

\* A call that steps has a fresh copy, or none.
LEMMA OwnCopyFresh ==
    ASSUME EditsInv, IdsUnique, FreshInv, NEW e \in Edits, EditStep(e), asked' = asked,
           lastId' \in Nat, Op(e) = "put"
    PROVE  FreshEdit(e)'
<1>1. /\ editPc \in [Edits -> EditPcs] /\ rowId \in [Edits -> Nat] /\ held \in [Edits -> Held]
      /\ lastId \in Nat /\ ids \in [Levels -> 0 .. lastId]
  BY DEF EditsInv, ConfigTypeOK
<1>2. FreshEdit(e) /\ Op(e)' = Op(e)
  BY DEF FreshInv, Op
<1>3. ASSUME NEW err, ReturnFrom(e, err) PROVE FreshEdit(e)'
  BY <1>1, <1>3 DEF ReturnFrom, FreshEdit, Holding
<1>4. CASE Begin(e)
  BY <1>1, <1>2, <1>3, <1>4 DEF Begin, Goto, tables, FreshEdit, Holding
<1>5. CASE FindRow(e)
  <2> DEFINE l == HierarchyFor(asked[e].level[1], asked[e].level[2])[try[e]]
  <2>1. l \in Levels
    <3>1. asked[e].level \in Levels /\ try[e] \in 1 .. 4
      BY EditTyped DEF EditsInv, ConfigTypeOK
    <3> QED
      BY <3>1 DEF HierarchyFor, Levels
  <2> HIDE DEF l
  <2>2. CASE rowId' = [rowId EXCEPT ![e] = ids[l]] /\ Goto(e, "reading")
    <3>1. rowId'[e] = ids[l] /\ editPc'[e] = "reading" /\ lastId' = lastId
      BY <1>1, <1>5, <2>2 DEF FindRow, Goto, tables
    <3>2. ids[l] <= lastId
      BY <1>1, <2>1
    <3> QED
      BY <3>1, <3>2 DEF FreshEdit, Holding
  <2>3. CASE UNCHANGED <<editPc, rowId, held>>
    BY <1>2, <1>5, <2>3 DEF FindRow, tables, FreshEdit, Holding
  <2> QED
    BY <1>3, <1>5, <2>2, <2>3 DEF FindRow, l
<1>6. CASE ReadRow(e)
  <2>1. ASSUME NEW l \in RowLevels(rowId[e]), UNCHANGED <<rowId, tables>>, Goto(e, "asking"),
               held' = [held EXCEPT ![e] = Apply(configs[l], asked[e].patch)]
        PROVE  FreshEdit(e)'
    <3>1. \A m \in RowLevels(rowId[e])' : m = l
      BY <2>1 DEF RowLevels, tables, IdsUnique
    <3> QED
      BY <1>1, <1>2, <2>1, <3>1 DEF Goto, FreshEdit, tables
  <2> QED
    BY <1>3, <1>6, <2>1 DEF ReadRow
<1>7. CASE AskCompany(e)
  <2>1. CASE Goto(e, "writing") /\ UNCHANGED <<rowId, held>>
    BY <1>1, <1>2, <1>7, <2>1 DEF AskCompany, Goto, tables, FreshEdit, Holding, RowLevels
  <2> QED
    BY <1>3, <1>7, <2>1 DEF AskCompany
<1>8. CASE CheckExisting(e)
  BY <1>2, <1>8 DEF CheckExisting, FreshEdit
<1>9. CASE UpdateRow(e) \/ FailEdit(e)
  BY <1>3, <1>9 DEF UpdateRow, FailEdit
<1> QED
  BY <1>4, <1>5, <1>6, <1>7, <1>8, <1>9 DEF EditStep, InsertRow, DeleteRow

\* Every step keeps what PUTs have read fresh, if they take turns.
LEMMA FreshGoOn ==
    EditsInv /\ EditsInv' /\ IdsUnique /\ FreshInv /\ PutsOfARowInTurn /\ [ConfigNext]_configVars
        => FreshInv'
<1> SUFFICES ASSUME EditsInv, EditsInv', IdsUnique, FreshInv, PutsOfARowInTurn,
                    [ConfigNext]_configVars
             PROVE  FreshInv'
  OBVIOUS
<1>1. lastId \in Nat /\ lastId' \in Nat /\ rowId \in [Edits -> Nat]
  BY DEF EditsInv, ConfigTypeOK
<1>2. ASSUME NEW e \in Edits, EditStep(e), asked' = asked, NEW g \in Edits
      PROVE  FreshEdit(g)'
  <2>1. CASE g = e
    <3>1. CASE Op(e) = "put"
      BY <1>1, <1>2, <2>1, <3>1, OwnCopyFresh
    <3>2. CASE Op(e) # "put"
      BY <1>2, <2>1, <3>2 DEF FreshEdit, Op
    <3> QED
      BY <3>1, <3>2
  <2>2. CASE g # e
    <3>1. FreshEdit(g) /\ OthersKeep(e)
      BY <1>2, OthersUntouched DEF FreshInv
    <3>2. lastId <= lastId'
      <4>1. lastId' = lastId \/ lastId' = lastId + 1
        BY <1>2 DEF EditStep, Begin, FindRow, ReadRow, AskCompany, CheckExisting, InsertRow,
                    UpdateRow, DeleteRow, FailEdit, tables
      <4> QED
        BY <1>1, <4>1
    <3>3. Holding(g)' <=> Holding(g)
      BY <1>2, <2>2, <3>1 DEF OthersKeep, Holding, Op
    <3>4. \A l \in RowLevels(rowId[g])' : Holding(g) =>
            l \in RowLevels(rowId[g]) /\ configs'[l] = configs[l]
      BY <1>2, <2>2, ReadRowsStay
    <3>5. /\ rowId'[g] = rowId[g] /\ held'[g] = held[g] /\ editPc'[g] = editPc[g]
          /\ asked'[g] = asked[g] /\ rowId[g] \in Nat
      BY <1>1, <1>2, <2>2, <3>1 DEF OthersKeep
    <3>6. Op(g)' = Op(g) /\ (Op(g) = "put" => rowId'[g] <= lastId' /\ editPc'[g] # "checking")
      BY <1>1, <3>1, <3>2, <3>5 DEF FreshEdit, Op
    <3>7. ASSUME Op(g) = "put", Holding(g), NEW l \in RowLevels(rowId[g])'
          PROVE  held'[g] = Apply(configs'[l], asked'[g].patch)
      BY <3>1, <3>4, <3>5, <3>7 DEF FreshEdit
    <3> QED
      BY <3>3, <3>6, <3>7 DEF FreshEdit
  <2> QED
    BY <2>1, <2>2
<1>3. CASE UNCHANGED configVars
  BY <1>3 DEF configVars, editVars, FreshInv, FreshEdit, Holding, RowLevels, Op
<1> QED
  BY <1>2, <1>3 DEF ConfigNext, FreshInv

(* A PUT loses an update only to another PUT of the same row that read it  *)
(* before and writes it after: where these come one after the other, all   *)
(* fields it does not name stay as they are, whatever Creates, deletions   *)
(* and PUTs of other rows do meanwhile.                                    *)
THEOREM NamedFieldsOnly ==
    Configured /\ ConfigSpec /\ []PutsOfARowInTurn => OnlyNamedFieldsChange
<1>1. ASSUME EditsInv, IdsUnique, FreshInv, [ConfigNext]_configVars, NEW g \in Edits,
             Op(g) = "put", Succeeds(g), NEW l \in RowLevels(rowId[g]),
             NEW f \in Fields \ DOMAIN asked[g].patch
      PROVE  configs'[l][f] = configs[l][f]
  <2>1. result' # result
    BY <1>1 DEF Succeeds
  <2>2. PICK e \in Edits : EditStep(e) /\ asked' = asked
    BY <1>1, <2>1 DEF ConfigNext, configVars, editVars
  <2>3. Holding(g)
    BY <1>1, <2>2, SuccessIsUpdate DEF Holding
  <2>4. PICK m \in Target(g) : configs' = [configs EXCEPT ![m] = held[g]]
    BY <1>1, <2>2, SuccessIsUpdate
  <2>5. m = l /\ l \in Levels
    BY <1>1 DEF Target, RowLevels, IdsUnique
  <2>6. held[g] = Apply(configs[l], asked[g].patch)
    BY <1>1, <2>3 DEF FreshInv, FreshEdit
  <2>7. configs'[l] = held[g]
    BY <1>1, <2>4, <2>5 DEF EditsInv, ConfigTypeOK
  <2> QED
    BY <1>1, <2>6, <2>7 DEF Apply
<1>2. EditsInv /\ IdsUnique /\ FreshInv /\ [ConfigNext]_configVars =>
        [\A e \in Edits : Op(e) = "put" /\ Succeeds(e) =>
           \A l \in RowLevels(rowId[e]) : \A f \in Fields \ DOMAIN asked[e].patch :
             configs'[l][f] = configs[l][f]]_configVars
  BY <1>1
<1> QED
  BY <1>2, EditsAlways, FreshBegin, IdsStayUnique, FreshGoOn, PTL
  DEF ConfigSpec, OnlyNamedFieldsChange, Succeeds, Op
=============================================================================

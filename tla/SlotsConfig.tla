---------------------------- MODULE SlotsConfig ----------------------------
(***************************************************************************)
(* internal/service/config/service.go and the handler of PUT               *)
(* /companies/{id}/config: edits of the configuration table, several at    *)
(* once.  Each reads, asks SellerService and writes in separate            *)
(* statements, with no transaction around them.  Only PUT has a route;     *)
(* Create, Delete and DeleteByKey are ready for one.                       *)
(***************************************************************************)
EXTENDS ConfigHierarchy, FiniteSets

CONSTANTS
    Edits,           \* the calls
    Asks,            \* what a call may ask for
    Managers,        \* the company's managerIds
    InitialConfigs,  \* the configuration tables to start from
    EditsMayFail     \* may SellerService and the statements fail?

Fields == {"slotDuration", "maxConcurrent", "advanceDays", "minNotice"}

\* The fields a PUT names; a Create names all of them.
IsPatch(patch) == \E named \in SUBSET Fields : patch \in [named -> Int]

IsEditBody(body) ==
    /\ body.op \in {"put", "create", "delete", "deleteByKey"}
    /\ body.user \in Nat
    /\ IF body.op = "delete" THEN body.id \in Nat ELSE body.level \in Levels
    /\ body.op \in {"put", "create"} => IsPatch(body.patch)
    /\ body.op = "create" => DOMAIN body.patch = Fields

ASSUME EditsAssumption ==
    /\ \A body \in Asks : IsEditBody(body)
    /\ Managers \subseteq Nat
    /\ InitialConfigs \subseteq ConfigTable
    /\ EditsMayFail \in BOOLEAN

VARIABLES
    configs,         \* the table company_slots_config
    ids,             \* ids[l]: id of the row at level l, 0 if none
    lastId,          \* the sequence behind the ids
    asked,           \* asked[e]: what call e asks for
    editPc,          \* where each call is
    try,             \* the level of the hierarchy a PUT looks at next
    rowId,           \* the row a call is about
    held,            \* the configuration a call works with
    result           \* the error each call returned, "ok" or "none"

editVars == <<asked, editPc, try, rowId, held, result>>
configVars == <<configs, ids, lastId, editVars>>

EditPcs == {"idle", "finding", "reading", "asking", "checking", "writing", "returned"}

Op(e) == asked[e].op

\* A row for each configuration of the table, numbered in any order.
ConfigInit ==
    /\ configs \in InitialConfigs
    /\ LET rows == {l \in Levels : configs[l] # NoConfig} IN
       \E number \in [rows -> 1 .. Cardinality(rows)] :
         /\ \A l, m \in rows : number[l] = number[m] => l = m
         /\ ids = [l \in Levels |-> IF l \in rows THEN number[l] ELSE 0]
         /\ lastId = Cardinality(rows)
    /\ asked \in [Edits -> Asks]
    /\ editPc = [e \in Edits |-> "idle"]
    /\ try = [e \in Edits |-> 1]
    /\ rowId = [e \in Edits |-> 0]
    /\ held = [e \in Edits |-> DefaultConfig]
    /\ result = [e \in Edits |-> "none"]
-----------------------------------------------------------------------------
\* The limits of validateConfigData.
ValidConfig(c) ==
    /\ c.slotDuration \in 1 .. 480
    /\ c.maxConcurrent \in 1 .. 100
    /\ c.advanceDays \in 0 .. 365
    /\ c.minNotice \in 0 .. 10080

\* ApplyToConfig: a field that is not named stays as it was read.
Apply(c, patch) == [f \in Fields |-> IF f \in DOMAIN patch THEN patch[f] ELSE c[f]]

\* Mutant: a partial update is not validated.
CheckCreate(e, c) == Op(e) = "create" => ValidConfig(c)

CheckData(e, c) == ValidConfig(c)

RowLevels(id) == {l \in Levels : ids[l] # 0 /\ ids[l] = id}

Goto(e, where) ==
    /\ editPc' = [editPc EXCEPT ![e] = where]
    /\ UNCHANGED result

\* The call's memory goes with it.
ReturnFrom(e, err) ==
    /\ editPc' = [editPc EXCEPT ![e] = "returned"]
    /\ result' = [result EXCEPT ![e] = err]
    /\ try' = [try EXCEPT ![e] = 1]
    /\ rowId' = [rowId EXCEPT ![e] = 0]
    /\ held' = [held EXCEPT ![e] = DefaultConfig]

tables == <<configs, ids, lastId>>

(* Where each call begins: PUT with the lookup of the handler, Create with *)
(* validation, the others with GetByID or GetCompany.                      *)
Begin(e) ==
    /\ editPc[e] = "idle"
    /\ \/ /\ Op(e) = "put"
          /\ Goto(e, "finding")
          /\ UNCHANGED <<try, rowId, held>>
       \/ /\ Op(e) = "create" /\ CheckData(e, asked[e].patch)
          /\ held' = [held EXCEPT ![e] = asked[e].patch]
          /\ Goto(e, "asking")
          /\ UNCHANGED <<try, rowId>>
       \/ /\ Op(e) = "create" /\ ~CheckData(e, asked[e].patch)
          /\ ReturnFrom(e, "ErrInvalidInput")
       \/ /\ Op(e) = "delete"
          /\ rowId' = [rowId EXCEPT ![e] = asked[e].id]
          /\ Goto(e, "reading")
          /\ UNCHANGED <<try, held>>
       \/ /\ Op(e) = "deleteByKey"
          /\ Goto(e, "asking")
          /\ UNCHANGED <<try, rowId, held>>
    /\ UNCHANGED tables

\* Mutant: one level too many.
OneMoreLevel(e) == try[e] <= 4

MoreLevels(e) == try[e] < 4

(* GetWithHierarchy, one SELECT for each level: the row PUT is about.      *)
FindRow(e) ==
    /\ editPc[e] = "finding"
    /\ LET l == HierarchyFor(asked[e].level[1], asked[e].level[2])[try[e]]
       IN  \/ /\ ids[l] # 0
              /\ rowId' = [rowId EXCEPT ![e] = ids[l]]
              /\ Goto(e, "reading")
              /\ UNCHANGED <<try, held>>
           \/ /\ ids[l] = 0 /\ MoreLevels(e)
              /\ try' = [try EXCEPT ![e] = @ + 1]
              /\ UNCHANGED <<editPc, result, rowId, held>>
           \/ /\ ids[l] = 0 /\ ~MoreLevels(e)
              /\ ReturnFrom(e, "ErrConfigNotFound")
    /\ UNCHANGED tables

(* GetByID.  Update merges and validates before it asks who may update.    *)
ReadRow(e) ==
    /\ editPc[e] = "reading"
    /\ \/ /\ RowLevels(rowId[e]) = {}
          /\ ReturnFrom(e, "ErrConfigNotFound")
       \/ \E l \in RowLevels(rowId[e]) :
            LET c == IF Op(e) = "put" THEN Apply(configs[l], asked[e].patch)
                                      ELSE configs[l]
            IN  \/ /\ Op(e) = "put" => CheckData(e, c)
                   /\ held' = [held EXCEPT ![e] = c]
                   /\ Goto(e, "asking")
                   /\ UNCHANGED <<try, rowId>>
                \/ /\ Op(e) = "put" /\ ~CheckData(e, c)
                   /\ ReturnFrom(e, "ErrInvalidInput")
    /\ UNCHANGED tables

\* Mutant: nobody is asked.
IsAnybody(e) == TRUE

IsManager(e) == asked[e].user \in Managers

\* What SellerService may say about the address and the service of a Create.
PlaceErrors(e) ==
    (IF asked[e].level[1] # Null THEN {"ErrAddressNotFound"} ELSE {})
    \cup (IF asked[e].level[2] # Null THEN {"ErrServiceNotFound", "ErrInternal"} ELSE {})
    \cup (IF Null \notin {asked[e].level[1], asked[e].level[2]}
          THEN {"ErrInvalidInput"} ELSE {})

AskCompany(e) ==
    /\ editPc[e] = "asking"
    /\ \/ /\ IsManager(e)
          /\ Goto(e, IF Op(e) = "create" THEN "checking" ELSE "writing")
          /\ UNCHANGED <<try, rowId, held>>
       \/ ~IsManager(e) /\ ReturnFrom(e, "ErrAccessDenied")
       \/ /\ EditsMayFail
          /\ \E err \in {"ErrCompanyNotFound", "ErrInternal"} : ReturnFrom(e, err)
       \/ /\ EditsMayFail /\ IsManager(e) /\ Op(e) = "create"
          /\ \E err \in PlaceErrors(e) : ReturnFrom(e, err)
    /\ UNCHANGED tables

\* Create looks for a row at its own level only.
CheckExisting(e) ==
    /\ editPc[e] = "checking"
    /\ \/ /\ ids[asked[e].level] # 0
          /\ ReturnFrom(e, "ErrConfigAlreadyExists")
       \/ /\ ids[asked[e].level] = 0
          /\ Goto(e, "writing")
          /\ UNCHANGED <<try, rowId, held>>
    /\ UNCHANGED tables

\* Mutant: no unique index.
NoIndex(l) == FALSE

\* The unique indexes of migration 000002.
ViolatesIndex(l) == ids[l] # 0

\* The CHECK constraints of the same table: slots of at least five minutes,
\* where validateConfigData lets one minute pass.
ViolatesCheck(c) ==
    c.slotDuration < 5 \/ c.maxConcurrent < 1 \/ c.advanceDays < 0 \/ c.minNotice < 0

InsertRow(e) ==
    LET l == asked[e].level IN
    /\ editPc[e] = "writing" /\ Op(e) = "create"
    /\ \/ /\ ViolatesIndex(l) \/ ViolatesCheck(held[e])
          /\ ReturnFrom(e, "ErrInternal")
          /\ UNCHANGED tables
       \/ /\ ~ViolatesIndex(l) /\ ~ViolatesCheck(held[e])
          /\ configs' = [configs EXCEPT ![l] = held[e]]
          /\ ids' = [ids EXCEPT ![l] = lastId + 1]
          /\ lastId' = lastId + 1
          /\ ReturnFrom(e, "ok")

\* Mutant: the row is looked up again by its level.
TargetByLevel(e) ==
    {l \in Levels : /\ ids[l] # 0
                    /\ \E i \in 1 .. 4 :
                         l = HierarchyFor(asked[e].level[1], asked[e].level[2])[i]}

\* The rows of the WHERE clause of UPDATE.
Target(e) == RowLevels(rowId[e])

\* All four columns, the ones PUT did not name included.
UpdateRow(e) ==
    /\ editPc[e] = "writing" /\ Op(e) = "put"
    /\ \/ /\ Target(e) = {}
          /\ ReturnFrom(e, "ErrConfigNotFound")
          /\ UNCHANGED configs
       \/ /\ Target(e) # {} /\ ViolatesCheck(held[e])
          /\ ReturnFrom(e, "ErrInternal")
          /\ UNCHANGED configs
       \/ /\ ~ViolatesCheck(held[e])
          /\ \E l \in Target(e) : configs' = [configs EXCEPT ![l] = held[e]]
          /\ ReturnFrom(e, "ok")
    /\ UNCHANGED <<ids, lastId>>

DeleteRow(e) ==
    /\ editPc[e] = "writing" /\ Op(e) \in {"delete", "deleteByKey"}
    /\ LET rows == IF Op(e) = "delete" THEN RowLevels(rowId[e])
                   ELSE {asked[e].level} \cap {l \in Levels : ids[l] # 0}
       IN  \/ /\ rows = {}
              /\ ReturnFrom(e, "ErrConfigNotFound")
              /\ UNCHANGED <<configs, ids>>
           \/ \E l \in rows :
                /\ configs' = [configs EXCEPT ![l] = NoConfig]
                /\ ids' = [ids EXCEPT ![l] = 0]
                /\ ReturnFrom(e, "ok")
    /\ UNCHANGED lastId

\* A statement fails without effect.
FailEdit(e) ==
    /\ EditsMayFail
    /\ editPc[e] \in {"finding", "reading", "checking", "writing"}
    /\ ReturnFrom(e, "ErrInternal")
    /\ UNCHANGED tables

EditStep(e) ==
    \/ Begin(e) \/ FindRow(e) \/ ReadRow(e) \/ AskCompany(e) \/ CheckExisting(e)
    \/ InsertRow(e) \/ UpdateRow(e) \/ DeleteRow(e) \/ FailEdit(e)

ConfigNext == \E e \in Edits : EditStep(e) /\ UNCHANGED asked

ConfigSpec == ConfigInit /\ [][ConfigNext]_configVars
-----------------------------------------------------------------------------
(* Properties.                                                             *)

Held == [Fields -> Int]

EditErrors == {"ErrInvalidInput", "ErrConfigNotFound", "ErrConfigAlreadyExists",
               "ErrAccessDenied", "ErrCompanyNotFound", "ErrAddressNotFound",
               "ErrServiceNotFound", "ErrInternal"}

ConfigTypeOK ==
    /\ configs \in [Levels -> Held \cup {NoConfig}]
    /\ lastId \in Nat
    /\ ids \in [Levels -> 0 .. lastId]
    /\ asked \in [Edits -> Asks]
    /\ editPc \in [Edits -> EditPcs]
    /\ try \in [Edits -> 1 .. 4]
    /\ rowId \in [Edits -> Nat]
    /\ held \in [Edits -> Held]
    /\ result \in [Edits -> EditErrors \cup {"none", "ok"}]

(* Every stored configuration keeps the limits of the service and of the   *)
(* schema, although a partial update is validated against what was read    *)
(* and written to what is there by then.                                   *)
ConfigsStayValid ==
    \A l \in Levels : configs[l] # NoConfig =>
        ValidConfig(configs[l]) /\ ~ViolatesCheck(configs[l])

(* Only managers change configurations, also when SellerService cannot be  *)
(* asked who they are.                                                     *)
OnlyManagersConfigure ==
    [][configs' # configs =>
         \E e \in Edits : editPc[e] # editPc'[e] /\ asked[e].user \in Managers]_configVars

Succeeds(e) == result[e] = "none" /\ result'[e] = "ok"

(* A PUT that is told ok changed the row it had found, and no other, also  *)
(* when that row was deleted or its level filled anew in the meantime.     *)
PutHitsTheRowItFound ==
    [][\A e \in Edits : Op(e) = "put" /\ Succeeds(e) =>
         \E l \in Levels :
            /\ ids[l] = rowId[e]
            /\ \A f \in DOMAIN asked[e].patch : configs'[l][f] = asked[e].patch[f]
            /\ \A m \in Levels \ {l} : configs'[m] = configs[m]]_configVars

(* Two Creates of one level never both succeed, unless a row was deleted:  *)
(* the check before the INSERT cannot exclude it, the index does.          *)
OneCreateWins ==
    \A e, g \in Edits :
        /\ e # g /\ Op(e) = "create" /\ Op(g) = "create"
        /\ asked[e].level = asked[g].level
        /\ result[e] = "ok" /\ result[g] = "ok"
        => \E d \in Edits : Op(d) \in {"delete", "deleteByKey"} /\ result[d] = "ok"

(* The comment of Update says that only the given fields are updated.      *)
OnlyNamedFieldsChange ==
    [][\A e \in Edits : Op(e) = "put" /\ Succeeds(e) =>
         \A l \in RowLevels(rowId[e]) : \A f \in Fields \ DOMAIN asked[e].patch :
             configs'[l][f] = configs[l][f]]_configVars
=============================================================================

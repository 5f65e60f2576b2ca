--------------------------- MODULE MCSlotsConfig ---------------------------
(***************************************************************************)
(* One address, one service; manager 9, stranger 5.                        *)
(***************************************************************************)
EXTENDS SlotsConfig, TLC

CONSTANTS e1, e2, e3, wash, depot

Config(duration, boxes, days, notice) ==
    [slotDuration |-> duration, maxConcurrent |-> boxes,
     advanceDays |-> days, minNotice |-> notice]
Default == Config(30, 1, 0, 60)
MCSlotConfig == {Default}
MCManagers == {9}

NoLevel == [l \in Levels |-> NoConfig]
WashHere == <<depot, wash>>
Everything == <<Null, Null>>
\* Nothing, the company, or also one service at one address.
MCConfigs ==
    {NoLevel, [NoLevel EXCEPT ![Everything] = Default],
     [NoLevel EXCEPT ![WashHere] = Default, ![Everything] = Default]}

Put(user, level, patch) == [op |-> "put", user |-> user, level |-> level, patch |-> patch]
Create(user, level, c) == [op |-> "create", user |-> user, level |-> level, patch |-> c]

\* Washing at the depot: a PUT and a Create, good or refused by the service;
\* deletions.  A company-wide PUT that the schema refuses, and a stranger's.
MCAsks ==
    {Put(9, WashHere, [maxConcurrent |-> 2]),
     Put(9, WashHere, [slotDuration |-> 481, minNotice |-> 0]),
     Create(9, WashHere, Config(60, 2, 7, 0)),
     Create(9, WashHere, Config(0, 2, 7, 0)),
     [op |-> "deleteByKey", user |-> 9, level |-> WashHere],
     [op |-> "delete", user |-> 9, id |-> 1],
     Put(9, Everything, [slotDuration |-> 4]),
     Put(5, Everything, [advanceDays |-> 3])}
\* The calls do not differ.
MCSymmetry == Permutations(Edits)

\* Two PUTs that name different fields.
MCPuts == {Put(9, WashHere, [maxConcurrent |-> 2]), Put(9, WashHere, [slotDuration |-> 60])}
MCWashConfigured == {[NoLevel EXCEPT ![WashHere] = Default]}
=============================================================================

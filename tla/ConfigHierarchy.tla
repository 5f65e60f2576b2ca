-------------------------- MODULE ConfigHierarchy --------------------------
(***************************************************************************)
(* Slot configurations of one company (internal/domain/config.go) and the  *)
(* lookup that picks the most specific one                                 *)
(* (internal/infra/storage/config/repository.go).  A configuration belongs *)
(* to a level <<address, service>>; either part may be NULL, written Null, *)
(* and the partial unique indexes of migration 000002 allow one row a      *)
(* level, so a table is a function from levels.                            *)
(***************************************************************************)
EXTENDS Integers

CONSTANTS
    Addresses,       \* address ids of the company
    Services,        \* service ids of the company
    Null,            \* SQL NULL in address_id or service_id
    NoConfig,        \* no row at a level
    SlotConfig,      \* the configurations considered
    DefaultConfig    \* what the use cases fall back to

ASSUME ConfigAssumption ==
    /\ Null \notin Addresses \cup Services
    /\ NoConfig \notin SlotConfig
    /\ DefaultConfig \in SlotConfig
    /\ SlotConfig \subseteq [slotDuration : Nat \ {0}, maxConcurrent : Nat \ {0},
                             advanceDays : Nat, minNotice : Nat]

Levels == (Addresses \cup {Null}) \X (Services \cup {Null})

ConfigTable == [Levels -> SlotConfig \cup {NoConfig}]

\* The levels tried for a request, most specific first.
HierarchyFor(address, service) ==
    << <<address, service>>, <<address, Null>>, <<Null, service>>, <<Null, Null>> >>

\* The first level that has a row; NoConfig (ErrConfigNotFound) if none has.
GetConfigWithHierarchy(table, address, service) ==
    LET try == HierarchyFor(address, service)
        found == {i \in 1 .. 4 : table[try[i]] # NoConfig}
    IN  IF found = {} THEN NoConfig
        ELSE table[try[CHOOSE i \in found : \A j \in found : i <= j]]

\* Both use cases replace a missing configuration by the defaults.
EffectiveConfig(table, address, service) ==
    LET c == GetConfigWithHierarchy(table, address, service)
    IN  IF c = NoConfig THEN DefaultConfig ELSE c
=============================================================================

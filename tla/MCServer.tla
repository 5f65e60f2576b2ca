------------------------------ MODULE MCServer ------------------------------
(***************************************************************************)
(* The file of the repository with one setting changed in every way, under *)
(* an environment with one variable set.  The process that METRICS_ENABLED *)
(* saves from the simple manager is followed to its end: two bookings, a   *)
(* cancellation and a reader beside a small pool.                          *)
(***************************************************************************)
EXTENDS Server, TLC

CONSTANTS post1, post2, cancel1, get1

MCOps == {post1, post2, cancel1, get1}
MCKind == [op \in MCOps |-> CASE op = cancel1 -> "cancelBooking"
                              [] op = get1 -> "availableSlots"
                              [] OTHER -> "createBooking"]

Shipped == [s \in Settings |-> IF s \in Texts THEN "given" ELSE IF s \in Ports THEN 8083
                               ELSE IF s = "max_open_conns" THEN 2
                               ELSE IF s \in Limits THEN 10 ELSE TRUE]
NothingSet == [s \in Settings \ FileOnly |-> Unset]

SomeValues(s) == IF s \in Texts THEN {"", "given"}
                 ELSE IF s \in Numbers THEN {-1, 0, 1, 65535, 65536} ELSE BOOLEAN
SomeVariables(s) == IF s \in Texts THEN {"given"} ELSE {Malformed} \cup SomeValues(s)

WithoutMetrics == [Shipped EXCEPT !["metrics_enabled"] = FALSE]
WithMetrics == [NothingSet EXCEPT !["metrics_enabled"] = TRUE]

MCFilesOf(s) == {[Shipped EXCEPT ![s] = v] : v \in SomeValues(s)}
MCFiles == {NoFile} \cup UNION {MCFilesOf(s) : s \in Settings}
MCEnvironments ==
    {NothingSet} \cup
    UNION {{[NothingSet EXCEPT ![s] = v] : v \in SomeVariables(s)} : s \in DOMAIN NothingSet}
MCFollowed == {<<WithoutMetrics, WithMetrics>>}
=============================================================================

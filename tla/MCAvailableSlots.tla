-------------------------- MODULE MCAvailableSlots --------------------------
(***************************************************************************)
(* Days of eight ticks, one address, one service.                          *)
(***************************************************************************)
EXTENDS AvailableSlots, TLC

CONSTANTS r1, r2, wash, depot

Config(duration, boxes, days, notice) ==
    [slotDuration |-> duration, maxConcurrent |-> boxes,
     advanceDays |-> days, minNotice |-> notice]
Short == Config(1, 1, 0, 0)
Long == Config(2, 2, 1, 2)
MCSlotConfig == {Short, Long}

NoLevel == [l \in Levels |-> NoConfig]
\* Nothing configured, one level, or an address and the company.
MCConfigs ==
    {NoLevel, [NoLevel EXCEPT ![<<Null, wash>>] = Long],
     [NoLevel EXCEPT ![<<depot, Null>>] = Short, ![<<Null, Null>>] = Long]}

MCBody ==
    r1 :> [user |-> 1, address |-> depot, service |-> wash, date |-> 1, start |-> 2]
    @@ r2 :> [user |-> 2, address |-> depot, service |-> wash, date |-> 1, start |-> 3]

AllWell == [company |-> "found", hasAddress |-> TRUE, service |-> "found",
            atAddress |-> TRUE, car |-> "found", open |-> TRUE]
OneBad == {f \in Fetched : Cardinality({x \in DOMAIN AllWell : f[x] # AllWell[x]}) = 1}

Ask(date, day, minute, fetched, times, opens, closes) ==
    [query |-> [address |-> depot, service |-> wash, date |-> date],
     now |-> [day |-> day, minute |-> minute], fetched |-> fetched,
     hours |-> [times |-> times, opens |-> opens, closes |-> closes]]

\* Today, tomorrow, yesterday and too far; hours that leave two ticks to
\* midnight, or one; and each way for an answer to be bad.
MCGivens ==
    {Ask(1, day, minute, AllWell, "given", 1, closes) :
        day \in 0 .. 2, minute \in {0, 2}, closes \in {6, 7}}
    \cup {Ask(3, 1, 0, AllWell, "given", 0, 4)}
    \cup {Ask(1, 1, 0, AllWell, times, 0, 4) : times \in {"missing", "malformed"}}
    \cup {Ask(1, 1, 0, f, "given", 0, 4) : f \in OneBad}

\* Open round the clock, until 23:59.
MCRoundTheClock == {Ask(1, 0, 0, AllWell, "given", 0, 7)}
=============================================================================

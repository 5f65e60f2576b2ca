-------------------------- MODULE MCCreateBooking --------------------------
(***************************************************************************)
(* A small company: one address, two services, days of eight ticks.        *)
(***************************************************************************)
EXTENDS CreateBooking, TLC

CONSTANTS r1, r2, r3, wash, polish, depot

MCServices == {wash, polish}
MCAddresses == {depot}

OneBox == [slotDuration |-> 2, maxConcurrent |-> 1, advanceDays |-> 0, minNotice |-> 0]
TwoBoxes == [slotDuration |-> 2, maxConcurrent |-> 2, advanceDays |-> 0, minNotice |-> 0]
LongSlots == [slotDuration |-> 3, maxConcurrent |-> 2, advanceDays |-> 1, minNotice |-> 3]
MCSlotConfig == {OneBox, TwoBoxes}
MCOneSlotConfig == {OneBox}
MCRulesSlotConfig == {OneBox, LongSlots}

NoLevel == [l \in Levels |-> NoConfig]
\* A company default, alone or with one box for polishing.
MCInitialConfigs ==
    {[NoLevel EXCEPT ![<<Null, Null>>] = TwoBoxes],
     [NoLevel EXCEPT ![<<Null, Null>>] = TwoBoxes, ![<<depot, polish>>] = OneBox]}
MCOneBoxConfigs == {[NoLevel EXCEPT ![<<Null, Null>>] = OneBox]}
\* Nothing configured, or one level each.
MCRulesConfigs ==
    {NoLevel} \cup {[NoLevel EXCEPT ![l] = LongSlots] : l \in Levels}

Ask(user, service, date, start) ==
    [user |-> user, address |-> depot, service |-> service, date |-> date, start |-> start]

\* r2 and r3 want the same two minutes, r1 shares one of them.
MCBody == r1 :> Ask(1, wash, 1, 1) @@ r2 :> Ask(2, polish, 1, 2) @@ r3 :> Ask(3, wash, 1, 2)
\* Two requests for one slot, in the morning or running into midnight.
MCPairBody == r1 :> Ask(1, wash, 1, 1) @@ r2 :> Ask(2, wash, 1, 1)
MCNightBody == r1 :> Ask(1, wash, 1, 7) @@ r2 :> Ask(2, wash, 1, 7)
\* Two days, early and late.
MCRulesBody == r1 :> Ask(1, wash, 1, 1) @@ r2 :> Ask(2, polish, 2, 4)

AllWell == [company |-> "found", hasAddress |-> TRUE, service |-> "found",
            atAddress |-> TRUE, car |-> "found", open |-> TRUE]
MCFetchedBy == [r \in Requests |-> {AllWell}]
\* Each way for one of the answers to be bad.
MCOneBadFetchedBy ==
    [r \in Requests |-> {f \in Fetched :
        Cardinality({x \in DOMAIN AllWell : f[x] # AllWell[x]}) <= 1}]

MCNows == {[day |-> 1, minute |-> 0]}
\* Three days, at midnight and late enough for a notice to pass midnight.
MCSomeNows == {[day |-> d, minute |-> m] : d \in 0 .. 2, m \in {0, 5}}
=============================================================================

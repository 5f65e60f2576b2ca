-------------------------- MODULE MCBookingClients --------------------------
(***************************************************************************)
(* Two boxes, and clients a and b who want them one after the other; a     *)
(* tries three times, his last try may meet a failing UserService or a     *)
(* closed company, and b may cancel.                                       *)
(***************************************************************************)
EXTENDS BookingClients

CONSTANTS a1, a2, a3, b1, b1Cancelled, wash, depot

TwoBoxes == [slotDuration |-> 2, maxConcurrent |-> 2, advanceDays |-> 0, minNotice |-> 0]
MCSlotConfig == {TwoBoxes}

NoLevel == [l \in Levels |-> NoConfig]
MCInitialConfigs == {[NoLevel EXCEPT ![<<Null, Null>>] = TwoBoxes]}

Wish(user, start) ==
    [user |-> user, address |-> depot, service |-> wash, date |-> 1, start |-> start]
MCBody == [r \in {a1, a2, a3, b1} |-> IF r = b1 THEN Wish(2, 4) ELSE Wish(1, 2)]
MCTries == << <<a1, a2, a3>>, <<b1>> >>

AllWell == [company |-> "found", hasAddress |-> TRUE, service |-> "found",
            atAddress |-> TRUE, car |-> "found", open |-> TRUE]
NoAnswer == [AllWell EXCEPT !.car = "failed"]
Closed == [AllWell EXCEPT !.open = FALSE]
MCFetchedBy == [r \in Requests |-> IF r = a3 THEN {AllWell, NoAnswer, Closed} ELSE {AllWell}]

MCCallBody == [c \in {b1Cancelled} |->
    [op |-> "cancel", id |-> b1, user |-> 2, status |-> "pending"]]
MCManagers == {9}
MCNows == {[day |-> 1, minute |-> 0]}
=============================================================================

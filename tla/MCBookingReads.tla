--------------------------- MODULE MCBookingReads ---------------------------
(***************************************************************************)
(* Two requests for the same box and a booking of another day that is      *)
(* there from the start; owners 1 and 2, a manager 9, a stranger 5.        *)
(***************************************************************************)
EXTENDS BookingReads, TLC

CONSTANTS r1, r2, r3, c1, c2, c3, c4, wash, depot

MCSlotConfig ==
    {[slotDuration |-> 2, maxConcurrent |-> 1, advanceDays |-> 0, minNotice |-> 0]}
MCDefaultConfig == CHOOSE c \in MCSlotConfig : TRUE

MCBodyOf(user, date, start) ==
    [user |-> user, address |-> depot, service |-> wash, date |-> date, start |-> start]
MCBody == r1 :> MCBodyOf(1, 1, 2) @@ r2 :> MCBodyOf(2, 1, 3) @@ r3 :> MCBodyOf(1, 2, 2)

MCInitialBookings ==
    {[r \in Requests |-> IF r = r3 THEN [duration |-> 1, status |-> "no_show"] ELSE NoBooking]}

Call(op, id, user, status) == [op |-> op, id |-> id, user |-> user, status |-> status]
MCManagers == {9}

\* Owner, manager and stranger cancel r1, the manager completes r3.
MCCalls == c1 :> Call("cancel", r1, 1, "pending") @@ c2 :> Call("cancel", r1, 9, "pending")
           @@ c3 :> Call("cancel", r1, 5, "pending") @@ c4 :> Call("update", r3, 9, "completed")

Plain == [kind |-> "company", header |-> "given", reader |-> 9, params |-> "good", id |-> r1,
          of |-> 1, address |-> Null, date |-> Null, from |-> Null, to |-> Null,
          status |-> Null, includeInactive |-> FALSE]
One == {[Plain EXCEPT !.kind = "booking", !.reader = u] : u \in {1, 5, 9}}
History == {[Plain EXCEPT !.kind = "user", !.reader = 1, !.status = "unknown status"],
            [Plain EXCEPT !.kind = "user", !.reader = 5]}
Lists ==
    {Plain, [Plain EXCEPT !.status = "unknown status"],
     [Plain EXCEPT !.status = "cancelled_by_user"],
     [Plain EXCEPT !.address = depot, !.date = 1, !.includeInactive = TRUE]}
Bad == {[Plain EXCEPT !.header = h] : h \in {"missing", "malformed"}}
       \cup {[Plain EXCEPT !.kind = k, !.params = "bad"] : k \in {"booking", "user", "company"}}
MCAsks == One \cup History \cup Lists \cup Bad
=============================================================================

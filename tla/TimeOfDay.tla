----------------------------- MODULE TimeOfDay -----------------------------
(***************************************************************************)
(* pkg/types/timeString.go.  A TimeString is HH:MM, a minute of one day    *)
(* with no date attached.  Every operation parses it into the same day, so *)
(* adding minutes wraps at midnight and comparisons never look at a date.  *)
(***************************************************************************)
EXTENDS Integers

CONSTANT MinutesPerDay    \* 1440 in the program, a few ticks in a TLC run

ASSUME MinutesPerDayAssumption == MinutesPerDay \in Nat \ {0}

TimeString == 0 .. MinutesPerDay - 1

AddMinutes(t, minutes) == (t + minutes) % MinutesPerDay

IsBefore(t, u) == t < u

IsAfter(t, u) == t > u

\* The test both use cases apply to a slot and a stored booking: strict on
\* both sides, so intervals that only touch do not overlap.
SlotOverlaps(slotStart, slotDuration, start, duration) ==
    /\ IsBefore(start, AddMinutes(slotStart, slotDuration))
    /\ IsAfter(AddMinutes(start, duration), slotStart)

-----------------------------------------------------------------------------
(* What the overlap test is meant to decide, for intervals of one day.      *)

Minutes(start, duration) == start .. start + duration - 1

\* 24:00 is already 00:00 for AddMinutes, hence the strict inequality.
EndsSameDay(start, duration) == start + duration < MinutesPerDay

ShareMinute(s, d, t, e) == Minutes(s, d) \cap Minutes(t, e) # {}
=============================================================================

-------------------------- MODULE MCBookingService --------------------------
(***************************************************************************)
(* The small company of MCCreateBooking, with cancellations of r1's row.   *)
(***************************************************************************)
EXTENDS BookingService, MCCreateBooking

CONSTANT c1

CancelOf(r, user) == [op |-> "cancel", id |-> r, user |-> user, status |-> "pending"]
\* The manager cancels r1, or nobody cancels.
MCCallBody == c1 :> CancelOf(r1, 9)
MCNoCallBody == <<>>
MCManagers == {9}
=============================================================================

-------------------------- MODULE MCConnectionPool --------------------------
(***************************************************************************)
(* Two bookings, a cancellation and a reader beside a small pool.          *)
(***************************************************************************)
EXTENDS ConnectionPool, TLC

CONSTANTS post1, post2, cancel1, get1

MCKind == post1 :> "createBooking" @@ post2 :> "createBooking" @@
          cancel1 :> "cancelBooking" @@ get1 :> "availableSlots"
MCOps == DOMAIN MCKind
MCPostKind == post1 :> "createBooking" @@ post2 :> "createBooking"
MCPosts == DOMAIN MCPostKind
=============================================================================

--------------------------- MODULE BookingStatus ---------------------------
(***************************************************************************)
(* internal/domain/booking.go and constants.go: the status of a booking    *)
(* and the predicates the services ask of it.                              *)
(***************************************************************************)

InactiveStatuses == {"cancelled_by_user", "cancelled_by_company", "no_show"}

ActiveStatuses == {"pending", "confirmed", "in_progress", "completed"}

BookingStatus == ActiveStatuses \cup InactiveStatuses

\* Mutant: a status missing from the list.
IsActiveForgetful(status) == status \notin {"cancelled_by_user", "no_show"}

IsActive(status) == status \notin InactiveStatuses

CanBeCancelled(status) == status \in {"pending", "confirmed"}

IsCancelled(status) == status \in {"cancelled_by_user", "cancelled_by_company"}
=============================================================================

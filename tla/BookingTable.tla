---------------------------- MODULE BookingTable ----------------------------
(***************************************************************************)
(* The bookings table (migrations/000001) and the statements of            *)
(* internal/infra/storage/booking/repository.go on it.  A POST /bookings   *)
(* call inserts at most one row, so the row carries the call's name and    *)
(* its immutable columns are the call's body.  One company is modelled:    *)
(* an address id stands for the pair (company_id, address_id).             *)
(***************************************************************************)
EXTENDS TimeOfDay, BookingStatus, ConfigHierarchy, FiniteSets

CONSTANTS
    Requests,        \* the POST /bookings calls
    Body,            \* Body[r] is what call r asks for
    NoBooking        \* no row for this call

\* Dates are day numbers; the body has passed JSON decoding and validateRequest.
RequestBody == [user : Nat, address : Addresses, service : Services,
                date : Nat, start : TimeString]

Row == [duration : Nat \ {0}, status : BookingStatus]

ASSUME RequestsAssumption ==
    /\ IsFiniteSet(Requests)
    /\ Body \in [Requests -> RequestBody]
    /\ NoBooking \notin Row

VARIABLE bookings    \* the committed contents of the table

BookingsTypeOK == bookings \in [Requests -> Row \cup {NoBooking}]

Stored(table) == {i \in Requests : table[i] # NoBooking}

Active(table) == {i \in Stored(table) : IsActive(table[i].status)}

\* The SELECT both use cases run: one address, one date, active rows only.
GetByCompanyWithFilter(table, address, date) ==
    {i \in Active(table) : Body[i].address = address /\ Body[i].date = date}

\* Mutant: a status the table's CHECK does not know.
CreateBooked(table, r, duration) ==
    [table EXCEPT ![r] = [duration |-> duration, status |-> "booked"]]

\* INSERT of a confirmed booking whose duration comes from the configuration.
Create(table, r, duration) ==
    [table EXCEPT ![r] = [duration |-> duration, status |-> "confirmed"]]

\* Mutant: the UPDATE leaves the status out.
SetStatusNot(table, i, status) == table

\* Mutant: only a booking that can still be cancelled gets the new status.
SetStatusOnce(table, i, status) ==
    IF CanBeCancelled(table[i].status) THEN [table EXCEPT ![i].status = status] ELSE table

\* UPDATE ... SET status WHERE id: no condition on the current status.
SetStatus(table, i, status) == [table EXCEPT ![i].status = status]

\* The counting loop skips inactive rows once more.
Overlapping(table, rows, start, duration) ==
    {i \in rows : /\ IsActive(table[i].status)
                  /\ SlotOverlaps(start, duration, Body[i].start, table[i].duration)}

CountOverlappingBookings(table, rows, start, duration) ==
    Cardinality(Overlapping(table, rows, start, duration))
=============================================================================

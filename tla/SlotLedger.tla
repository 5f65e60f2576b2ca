----------------------------- MODULE SlotLedger -----------------------------
(***************************************************************************)
(* What POST /bookings and PATCH /bookings/{id}/cancel promise together:   *)
(* a ledger of bookings in which admitting one is a single step that looks *)
(* at the ledger as it is, never over the limit, and in which a refusal is *)
(* given only by a full ledger.  No transactions, locks or failures here.  *)
(***************************************************************************)
EXTENDS BookingTable

VARIABLES
    terms,           \* the configuration quoted to each request
    refused          \* requests told that the slot is not available

ledgerVars == <<bookings, terms, refused>>

LedgerInit ==
    /\ bookings = [r \in Requests |-> NoBooking]
    /\ terms \in [Requests -> SlotConfig]
    /\ refused = {}

Open(r) == bookings[r] = NoBooking /\ r \notin refused

InTheWay(r) ==
    CountOverlappingBookings(bookings,
        GetByCompanyWithFilter(bookings, Body[r].address, Body[r].date),
        Body[r].start, terms[r].slotDuration)

Quote(r) ==
    /\ Open(r)
    /\ \E c \in SlotConfig : terms' = [terms EXCEPT ![r] = c]
    /\ UNCHANGED <<bookings, refused>>

Book(r) ==
    /\ Open(r)
    /\ InTheWay(r) < terms[r].maxConcurrent
    /\ bookings' = Create(bookings, r, terms[r].slotDuration)
    /\ UNCHANGED <<terms, refused>>

Refuse(r) ==
    /\ Open(r)
    /\ InTheWay(r) >= terms[r].maxConcurrent
    /\ refused' = refused \cup {r}
    /\ UNCHANGED <<bookings, terms>>

Release(r) ==
    /\ r \in Stored(bookings)
    /\ \E status \in {"cancelled_by_user", "cancelled_by_company"} :
         bookings' = SetStatus(bookings, r, status)
    /\ UNCHANGED <<terms, refused>>

LedgerNext == \E r \in Requests : Quote(r) \/ Book(r) \/ Refuse(r) \/ Release(r)

LedgerSpec == LedgerInit /\ [][LedgerNext]_ledgerVars
=============================================================================

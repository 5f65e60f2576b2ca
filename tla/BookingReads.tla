---------------------------- MODULE BookingReads ----------------------------
(***************************************************************************)
(* The readers of bookings: GET /bookings/{id}, GET /users/{id}/bookings   *)
(* and GET /companies/{id}/bookings, from the middleware Auth down to the  *)
(* statements.  One read, since reads write nothing that others see,       *)
(* beside a SlotLedger that admits bookings and the calls of               *)
(* BookingLifecycle.  The order within a list is left out.                 *)
(***************************************************************************)
EXTENDS SlotLedger, BookingLifecycle

CONSTANTS
    Asks,            \* what a read may ask for
    InitialBookings  \* the tables to start from

\* from and to are the query parameters startDate and endDate.
Ask == [kind : {"booking", "user", "company"}, header : {"given", "missing", "malformed"},
        reader : Nat, params : {"good", "bad"}, id : Requests, of : Nat,
        address : Addresses \cup {Null}, date : Nat \cup {Null},
        from : Nat \cup {Null}, to : Nat \cup {Null},
        status : BookingStatus \cup {Null, "unknown status"}, includeInactive : BOOLEAN]

ASSUME ReadsAssumption ==
    /\ Asks \subseteq Ask
    /\ InitialBookings \subseteq [Requests -> Row \cup {NoBooking}]

VARIABLES
    ask,             \* what the read asks for
    readAt,          \* where it is
    page,            \* the bookings it has read, with what it knows of each
    readError,       \* the error its service returned, "none" before that
    answer           \* the HTTP status, 0 before one

(* Auxiliary: the contents of the table from the read's arrival to its end.*)
VARIABLE moments

readVars == <<ask, readAt, page, readError, answer>>
readsVars == <<ledgerVars, callVars, readVars, moments>>

\* Columns that change: status, and reason and time of the cancellation.
Columns(table, reasons, i) == [status |-> table[i].status, reason |-> reasons[i]]

Contents == [rows |-> bookings, reasons |-> cancellation]

ReadsInit ==
    /\ bookings \in InitialBookings
    /\ terms \in [Requests -> SlotConfig]
    /\ refused = {}
    /\ CallsInit
    /\ ask \in Asks
    /\ readAt = "coming"
    /\ page = <<>>
    /\ readError = "none"
    /\ answer = 0
    /\ moments = {}
-----------------------------------------------------------------------------
\* Mutant: an error of another service is passed on with its own status.
ReadHttpStatusForwarded(err) ==
    CASE err = "ok" -> 200
      [] ask.kind = "booking" /\ err = "ErrBookingNotFound" -> 404
      [] err = "ErrAccessDenied" -> 403
      [] err = "ErrInternal" -> 502
      [] OTHER -> 500

\* Only GET /bookings/{id} has a case for a missing booking, and GET
\* /users/{id}/bookings has none at all.
ReadHttpStatus(err) ==
    CASE err = "ok" -> 200
      [] ask.kind = "booking" /\ err = "ErrBookingNotFound" -> 404
      [] ask.kind # "user" /\ err = "ErrAccessDenied" -> 403
      [] OTHER -> 500

Respond(err, list) ==
    /\ readAt' = "answered"
    /\ page' = list
    /\ readError' = err
    /\ answer' = ReadHttpStatus(err)
    /\ UNCHANGED ask

Continue(where) ==
    /\ readAt' = where
    /\ UNCHANGED <<ask, page, readError, answer>>

Reject(code) ==
    /\ readAt' = "answered"
    /\ answer' = code
    /\ UNCHANGED <<ask, page, readError>>

KnownFilter == ask.status \in BookingStatus \cup {Null}

Auth ==
    \/ ask.header = "missing" /\ Reject(401)
    \/ ask.header = "malformed" /\ Reject(400)

BadParams == ask.params = "bad" /\ Reject(400)
GoodParams == ask.params = "good"

GetBooking ==
    /\ ask.kind = "booking"
    /\ \/ BadParams
       \/ GoodParams /\ Continue("reading")

\* GetUserBookings looks at the status before it reads, and never at who
\* the reader is.
GetUserBookings ==
    /\ ask.kind = "user"
    /\ \/ BadParams
       \/ GoodParams /\ KnownFilter /\ Continue("reading")
       \/ GoodParams /\ ~KnownFilter /\ Respond("ErrInvalidInput", <<>>)

\* GetCompanyBookings first asks who the reader is.
GetCompanyBookings ==
    /\ ask.kind = "company"
    /\ \/ BadParams
       \/ GoodParams /\ Continue("asking")

ReadArrives ==
    /\ readAt = "coming"
    /\ \/ Auth
       \/ ask.header = "given" /\ (GetBooking \/ GetUserBookings \/ GetCompanyBookings)
    /\ moments' = {Contents}

\* GetByID; checkUserAccess lets the owner pass without asking anybody.
ReadOne ==
    /\ readAt = "reading" /\ ask.kind = "booking"
    /\ LET row == bookings[ask.id]
           read == [i \in {ask.id} |-> Columns(bookings, cancellation, i)]
       IN  \/ row = NoBooking /\ Respond("ErrBookingNotFound", <<>>)
           \/ row # NoBooking /\ Body[ask.id].user = ask.reader /\ Respond("ok", read)
           \/ /\ row # NoBooking /\ Body[ask.id].user # ask.reader
              /\ readAt' = "asking"
              /\ page' = read
              /\ UNCHANGED <<ask, readError, answer>>

\* Mutant: an unreachable SellerService does not stop a reader.
RefusedOpen(err) ==
    IF err = "ErrInternal" THEN Respond("ok", page) ELSE Respond(err, <<>>)

\* checkUserAccess hides every error of checkManagerAccess, the lists do not.
Refused(err) ==
    Respond(IF ask.kind = "booking" THEN "ErrAccessDenied" ELSE err, <<>>)

AskManagers ==
    /\ readAt = "asking"
    /\ \/ /\ ask.reader \in Managers
          /\ \/ ask.kind = "booking" /\ Respond("ok", page)
             \/ ask.kind = "company" /\ KnownFilter /\ Continue("reading")
             \/ ask.kind = "company" /\ ~KnownFilter /\ Respond("ErrInvalidInput", <<>>)
       \/ ask.reader \notin Managers /\ Refused("ErrAccessDenied")
       \/ CallsMayFail /\ \E err \in {"ErrCompanyNotFound", "ErrInternal"} : Refused(err)

\* Mutant: a status asked for does not lift the exclusion of the inactive.
StatusWantedActive(status) ==
    /\ ask.status = Null \/ status = ask.status
    /\ ask.includeInactive \/ IsActive(status)

\* Mutant: the default list keeps what is not cancelled.
StatusWantedLoosely(status) ==
    IF ask.status # Null THEN status = ask.status
    ELSE ask.includeInactive \/ status # "cancelled_by_user"

\* A status asked for counts more than includeInactive.
StatusWanted(status) ==
    IF ask.status # Null THEN status = ask.status
    ELSE ask.includeInactive \/ IsActive(status)

\* WHERE of GetByUserID and GetByCompanyWithFilter.  ToServiceRequest reads
\* the parameter date only; startDate and endDate stay unread.
Selected(i) ==
    IF ask.kind = "user"
    THEN /\ Body[i].user = ask.of
         /\ ask.status = Null \/ bookings[i].status = ask.status
    ELSE /\ ask.address = Null \/ Body[i].address = ask.address
         /\ ask.date = Null \/ Body[i].date = ask.date
         /\ StatusWanted(bookings[i].status)

ReadList ==
    /\ readAt = "reading" /\ ask.kind # "booking"
    /\ Respond("ok", [i \in {j \in Stored(bookings) : Selected(j)} |->
                        Columns(bookings, cancellation, i)])

FailRead ==
    /\ CallsMayFail
    /\ readAt = "reading"
    /\ Respond("ErrInternal", <<>>)

ReadStep ==
    /\ \/ ReadArrives
       \/ (ReadOne \/ AskManagers \/ ReadList \/ FailRead) /\ UNCHANGED moments
    /\ UNCHANGED <<ledgerVars, callVars>>

\* Bound: the table is not followed beyond the answer.  Nothing is lost, as
\* the read may come, and be answered, at any time or never.
ReadPending == readAt # "answered"

\* While the read is under way the table's contents are recorded.
Record ==
    moments' = IF readAt \in {"asking", "reading"}
               THEN moments \cup {Contents'} ELSE moments

\* POST as the ledger admits it, and a call of BookingLifecycle.
BookingMade(r) ==
    /\ ReadPending
    /\ Book(r)
    /\ UNCHANGED <<callVars, readVars>>
    /\ Record

BookingChanged(c) ==
    /\ ReadPending
    /\ CallStep(c)
    /\ Record
    /\ UNCHANGED <<terms, refused, readVars>>

ReadsNext ==
    \/ ReadStep
    \/ \E r \in Requests : BookingMade(r)
    \/ \E c \in Calls : BookingChanged(c)

ReadsSpec == ReadsInit /\ [][ReadsNext]_readsVars
-----------------------------------------------------------------------------
(* Properties.                                                             *)

ReadsTypeOK ==
    /\ LifecycleTypeOK
    /\ terms \in [Requests -> SlotConfig]
    /\ ask \in Ask
    /\ readAt \in {"coming", "asking", "reading", "answered"}
    /\ DOMAIN page \subseteq Requests
    /\ \A i \in DOMAIN page : page[i] \in [status : BookingStatus, reason : Calls \cup {Nobody}]
    /\ readError \in Outcomes
    /\ answer \in {0, 200, 400, 401, 403, 404, 500}
    /\ answer # 0 <=> readAt = "answered"

\* What a reader expects to see: his history in full, the company's bookings
\* without the inactive ones unless he asks for those or for a status.
Expected ==
    IF ask.status # Null THEN {ask.status}
    ELSE IF ask.kind = "user" \/ ask.includeInactive THEN BookingStatus
    ELSE ActiveStatuses

Concerns(i) ==
    CASE ask.kind = "booking" -> i = ask.id
      [] ask.kind = "user" -> Body[i].user = ask.of
      [] ask.kind = "company" -> /\ ask.address \in {Null, Body[i].address}
                                 /\ ask.date \in {Null, Body[i].date}

Shows(moment) ==
    /\ DOMAIN page = {i \in Stored(moment.rows) :
                        /\ Concerns(i)
                        /\ ask.kind = "booking" \/ moment.rows[i].status \in Expected}
    /\ \A i \in DOMAIN page : page[i] = Columns(moment.rows, moment.reasons, i)

(* Whatever is booked and cancelled while SellerService is asked, an       *)
(* answer tells what the table held at one and the same moment since the   *)
(* read arrived: it never misses what was confirmed before, never lists    *)
(* what was cancelled before, and no row has the status of one             *)
(* cancellation and the reason of another.                                 *)
AnswersWereTrue ==
    /\ answer = 200 => \E moment \in moments : Shows(moment)
    /\ answer = 404 => \E moment \in moments : moment.rows[ask.id] = NoBooking

(* Whoever is neither manager nor owner sees a booking in one way only, in *)
(* the history of its owner, which GET /users/{id}/bookings shows to       *)
(* anybody.  By its number and in the company's list it stays hidden from  *)
(* him, also when SellerService cannot say who the managers are.           *)
StrangersSeeHistoriesOnly ==
    answer # 0 => \A i \in DOMAIN page :
        \/ ask.reader \in Managers
        \/ ask.reader = Body[i].user
        \/ ask.kind = "user" /\ ask.of = Body[i].user

\* Bookings that end on their day and that UpdateStatus, which counts no
\* cars, is not called for.
DayBookings ==
    {i \in OnlyCancelled : EndsSameDay(Body[i].start, bookings[i].duration)}

\* Those whose cars are at the address of i when the wash of i begins.
CarsWith(i, ids) ==
    {j \in ids : /\ Body[j].address = Body[i].address /\ Body[j].date = Body[i].date
                 /\ Body[i].start \in Minutes(Body[j].start, bookings[j].duration)}

WithinBoxes(ids) ==
    \A i \in ids : \E c \in SlotConfig : Cardinality(CarsWith(i, ids)) <= c.maxConcurrent

(* A manager who looks at the day's list, as it comes by default, never    *)
(* sees more cars than boxes, although places are freed and taken while    *)
(* the list is made.  The most cars are there when one of them comes.      *)
(* Bookings that run into midnight are left out as in CapacityRespected.   *)
ListedWithinBoxes ==
    ask.kind = "company" /\ ask.status = Null /\ ~ask.includeInactive
        => WithinBoxes(DOMAIN page \cap DayBookings)
=============================================================================

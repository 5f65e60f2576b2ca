---------------------------- MODULE BookingRules ----------------------------
(***************************************************************************)
(* internal/usecase/create_booking/validation.go and the checks of         *)
(* Execute that precede the query for bookings.  A moment is a day number  *)
(* and a minute of that day, in the server's time zone.  A booking's date  *)
(* is parsed in UTC, and time.Time values are compared as instants.        *)
(***************************************************************************)
EXTENDS TimeOfDay, Sequences

CONSTANT ZoneOffset    \* minutes by which the server's zone is ahead of UTC

ASSUME ZoneOffsetAssumption ==
    ZoneOffset \in Int /\ -MinutesPerDay < ZoneOffset /\ ZoneOffset < MinutesPerDay

Moment == [day : Nat, minute : TimeString]

\* The first check that does not pass names the error, "ok" if all pass:
\* the chain of early returns of a handler.
FirstError(checks) ==
    LET failing == {i \in DOMAIN checks : ~checks[i].pass}
    IN  IF failing = {} THEN "ok"
        ELSE checks[CHOOSE i \in failing : \A j \in failing : i <= j].err

Check(pass, err) == [pass |-> pass, err |-> err]

IsSameDay(date, now) == date = now.day

\* Midnight of a day, in UTC and in the server's zone, as minutes of UTC.
MidnightUTC(day) == day * MinutesPerDay
MidnightLocal(day) == day * MinutesPerDay - ZoneOffset

IsDateInPast(date, now) == MidnightUTC(date) < MidnightLocal(now.day)

\* Mutant: the last day is refused.
DateTooFarByOne(date, now, advanceDays) ==
    advanceDays # 0 /\ MidnightUTC(date) >= MidnightLocal(now.day + advanceDays)

\* advanceDays = 0 means no limit.
DateTooFar(date, now, advanceDays) ==
    advanceDays # 0 /\ MidnightUTC(date) > MidnightLocal(now.day + advanceDays)

\* Mutant: the notice is not added.
TooLateWithoutNotice(date, start, now, minNotice) ==
    IsSameDay(date, now) /\ IsBefore(start, now.minute)

\* The notice is only looked at for a booking of today, and the earliest
\* allowed time wraps at midnight like every TimeString.
TooLateToBook(date, start, now, minNotice) ==
    IsSameDay(date, now) /\ IsBefore(start, AddMinutes(now.minute, minNotice))

\* What the calls to SellerService and UserService may have answered; "open"
\* is IsOpen of the weekday's schedule.
Fetched ==
    [company : {"found", "missing", "failed"}, hasAddress : BOOLEAN,
     service : {"found", "missing", "failed"}, atAddress : BOOLEAN,
     car : {"found", "missing", "failed"}, open : BOOLEAN]

\* Execute before the transaction, in the order of its early returns.
FetchError(f) == FirstError(<<
    Check(f.company # "missing", "ErrCompanyNotFound"),
    Check(f.company = "found",   "ErrInternal"),
    Check(f.hasAddress,          "ErrAddressNotFound"),
    Check(f.service # "missing", "ErrServiceNotFound"),
    Check(f.service = "found",   "ErrInternal"),
    Check(f.atAddress,           "ErrServiceNotAvailableAtAddress"),
    Check(f.car # "missing",     "ErrCarNotFound"),
    Check(f.car = "found",       "ErrInternal") >>)

\* Execute inside the transaction, between the two queries.  The opening and
\* closing times and the slot grid are not looked at.
RuleError(body, open, now, config) == FirstError(<<
    Check(~IsDateInPast(body.date, now),                       "ErrInvalidDate"),
    Check(~DateTooFar(body.date, now, config.advanceDays),     "ErrDateTooFarInFuture"),
    Check(open,                                                "ErrCompanyClosed"),
    Check(~TooLateToBook(body.date, body.start, now, config.minNotice), "ErrTooLateToBook") >>)

\* Mutants: the cases of what is refused are missing, or a full slot is
\* answered 423 Locked.
HttpStatusMissingOnly(err) ==
    IF err \in {"ErrCompanyNotFound", "ErrServiceNotFound",
                "ErrAddressNotFound", "ErrCarNotFound"} THEN 404
    ELSE 500
HttpStatusLocked(err) == IF err = "ErrSlotNotAvailable" THEN 423 ELSE 500

\* The switch of the handler on the error of the use case.
HttpStatus(err) ==
    IF err = "ErrSlotNotAvailable" THEN 409
    ELSE IF err \in {"ErrCompanyNotFound", "ErrServiceNotFound",
                     "ErrAddressNotFound", "ErrCarNotFound"} THEN 404
    ELSE IF err \in {"ErrCompanyClosed", "ErrInvalidDate", "ErrDateTooFarInFuture",
                     "ErrInvalidTimeSlot", "ErrTooLateToBook",
                     "ErrServiceNotAvailableAtAddress"} THEN 400
    ELSE 500
=============================================================================

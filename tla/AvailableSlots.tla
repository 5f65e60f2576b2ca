--------------------------- MODULE AvailableSlots ---------------------------
(***************************************************************************)
(* GET .../available-slots: internal/usecase/get_available_slots.  One     *)
(* call, since calls write nothing that others read, beside a SlotLedger   *)
(* (what POST and cancel do to the table, see BookingService) and updates  *)
(* of configurations.  The statements run on the pool, in no transaction.  *)
(***************************************************************************)
EXTENDS SlotLedger, BookingRules

CONSTANTS
    Givens,          \* what a call may be asked and told, see Given
    InitialConfigs,  \* the configuration tables to start from
    SlotFaults       \* may statements fail?

Query == [address : Addresses, service : Services, date : Nat]

\* DaySchedule of the weekday; its two times may be absent or malformed.
DaySchedule ==
    [times : {"given", "missing", "malformed"}, opens : TimeString, closes : TimeString]

Given == [query : Query, now : Moment, fetched : Fetched, hours : DaySchedule]

ASSUME SlotsAssumption ==
    /\ Givens \subseteq Given
    /\ InitialConfigs \subseteq ConfigTable
    /\ SlotFaults \in BOOLEAN

VARIABLES
    configs,         \* the table company_slots_config
    given,           \* what this call was asked and told
    at,              \* where the call is
    level,           \* the level of the hierarchy it tries next
    config,          \* the configuration it works with
    current,         \* currentSlot of the loop
    slots,           \* allSlots, then availableSlots
    spots,           \* availableSpots of each slot of the response
    status           \* the HTTP status, 0 before one

callVars == <<given, at, level, config, current, slots, spots, status>>

(* Auxiliary: the configurations in force since the lookup began.          *)
VARIABLE inForce

slotsVars == <<ledgerVars, configs, callVars, inForce>>

query == given.query
now == given.now
hours == given.hours

Effective(table) == EffectiveConfig(table, query.address, query.service)

SlotsInit ==
    /\ LedgerInit
    /\ configs \in InitialConfigs
    /\ given \in Givens
    /\ at = "received"
    /\ level = 1
    /\ config = DefaultConfig
    /\ current = 0
    /\ slots = {}
    /\ spots = <<>>
    /\ status = 0
    /\ inForce = {}
-----------------------------------------------------------------------------
\* Mutant: an address without the service is a conflict.
SlotsHttpStatusConflict(err) ==
    IF err \in {"ErrCompanyNotFound", "ErrAddressNotFound", "ErrServiceNotFound"} THEN 404
    ELSE IF err = "ErrServiceNotAvailableAtAddress" THEN 409
    ELSE 500

\* The errors of validateDate and of the database have no case of their own.
SlotsHttpStatus(err) ==
    IF err \in {"ErrCompanyNotFound", "ErrAddressNotFound", "ErrServiceNotFound"} THEN 404
    ELSE IF err = "ErrServiceNotAvailableAtAddress" THEN 400
    ELSE 500

Respond(code, list) ==
    /\ at' = "done"
    /\ status' = code
    /\ spots' = list
    /\ slots' = {}
    /\ current' = 0
    /\ UNCHANGED <<given, level, ledgerVars, configs>>

RespondError(err) == Respond(SlotsHttpStatus(err), <<>>)

\* The checks of POST without the user's car.
Validate ==
    /\ at = "received"
    /\ LET err == FetchError([given.fetched EXCEPT !.car = "found"])
       IN  \/ /\ err = "ok"
              /\ at' = "looking"
              /\ inForce' = {Effective(configs)}
              /\ UNCHANGED <<given, level, config, current, slots, spots, status,
                             ledgerVars, configs>>
           \/ /\ err # "ok"
              /\ RespondError(err)
              /\ UNCHANGED <<config, inForce>>

DateError(c) == FirstError(<<
    Check(~IsDateInPast(query.date, now),              "ErrInvalidDate"),
    Check(~DateTooFar(query.date, now, c.advanceDays), "ErrDateTooFarInFuture") >>)

\* The checks after the lookup, up to the head of the loop.
Prepare(c) ==
    LET err == DateError(c) IN
    /\ config' = c
    /\ \/ /\ err # "ok"
          /\ RespondError(err)
       \/ /\ err = "ok" /\ ~given.fetched.open
          /\ Respond(200, <<>>)
       \/ /\ err = "ok" /\ given.fetched.open /\ hours.times = "malformed"
          /\ RespondError("ErrInternal")
       \/ /\ err = "ok" /\ given.fetched.open /\ hours.times = "missing"
          /\ at' = "counting"
          /\ UNCHANGED <<given, level, current, slots, spots, status, ledgerVars, configs>>
       \/ /\ err = "ok" /\ given.fetched.open /\ hours.times = "given"
          /\ at' = "generating"
          /\ current' = hours.opens
          /\ UNCHANGED <<given, level, slots, spots, status, ledgerVars, configs>>

\* Mutant: the third level is skipped.
NextLevelSkipping(l) == IF l = 2 THEN 4 ELSE l + 1

NextLevel(l) == l + 1

(* One SELECT for each level, until one returns a row.                     *)
LookUp ==
    /\ at = "looking"
    /\ LET row == configs[HierarchyFor(query.address, query.service)[level]]
       IN  \/ row # NoConfig /\ Prepare(row)
           \/ row = NoConfig /\ level = 4 /\ Prepare(DefaultConfig)
           \/ /\ row = NoConfig /\ level < 4
              /\ level' = NextLevel(level)
              /\ UNCHANGED <<given, at, config, current, slots, spots, status,
                             ledgerVars, configs>>
    /\ UNCHANGED inForce

\* Mutant: a slot that ends at closing time is left out.
FitsStrictly == /\ IsBefore(current, hours.closes)
                /\ IsBefore(AddMinutes(current, config.slotDuration), hours.closes)

\* The condition of the loop and that of the break inside it.
Fits == /\ IsBefore(current, hours.closes)
        /\ ~IsAfter(AddMinutes(current, config.slotDuration), hours.closes)

\* Mutant: the loop does not advance.
AppendSlotOnly ==
    /\ at = "generating"
    /\ Fits
    /\ slots' = slots \cup {current}
    /\ UNCHANGED <<given, at, level, config, current, spots, status, ledgerVars, configs, inForce>>

(* One round of the loop.  The set forgets that a time may come twice.     *)
AppendSlot ==
    /\ at = "generating"
    /\ Fits
    /\ slots' = slots \cup {current}
    /\ current' = AddMinutes(current, config.slotDuration)
    /\ UNCHANGED <<given, at, level, config, spots, status, ledgerVars, configs, inForce>>

\* Mutant: slots of today are not filtered.
AnyTime(s) == TRUE

\* Slots of today start at the earliest allowed time or later.
InTime(s) ==
    IsSameDay(query.date, now) => ~IsBefore(s, AddMinutes(now.minute, config.minNotice))

EndLoop ==
    /\ at = "generating"
    /\ ~Fits
    /\ slots' = {s \in slots : InTime(s)}
    /\ at' = "counting"
    /\ UNCHANGED <<given, level, config, current, spots, status, ledgerVars, configs, inForce>>

\* Mutant: inactive bookings count.
CountAll(s) ==
    Cardinality({i \in Stored(bookings) : Body[i].address = query.address
                   /\ Body[i].date = query.date
                   /\ SlotOverlaps(s, config.slotDuration, Body[i].start, bookings[i].duration)})

OverlappingCount(s) ==
    CountOverlappingBookings(bookings,
        GetByCompanyWithFilter(bookings, query.address, query.date), s, config.slotDuration)

AvailableSpots(s) ==
    IF OverlappingCount(s) > config.maxConcurrent THEN 0
    ELSE config.maxConcurrent - OverlappingCount(s)

CountBookings ==
    /\ at = "counting"
    /\ Respond(200, [s \in slots |-> AvailableSpots(s)])
    /\ UNCHANGED <<config, inForce>>

FailQuery ==
    /\ SlotFaults
    /\ at \in {"looking", "counting"}
    /\ RespondError("ErrInternal")
    /\ UNCHANGED <<config, inForce>>

\* The call as far as no statement fails.
CallProgress == Validate \/ LookUp \/ AppendSlot \/ EndLoop \/ CountBookings

CallStep == CallProgress \/ FailQuery
-----------------------------------------------------------------------------
(* Meanwhile.                                                              *)

BookingsChange ==
    /\ LedgerNext
    /\ UNCHANGED <<configs, callVars, inForce>>

UpdateConfig(l, c) ==
    /\ configs[l] # NoConfig
    /\ configs' = [configs EXCEPT ![l] = c]
    /\ inForce' = IF at = "looking" THEN inForce \cup {Effective(configs')} ELSE inForce
    /\ UNCHANGED <<ledgerVars, callVars>>

SlotsNext ==
    \/ CallStep
    \/ BookingsChange
    \/ \E l \in Levels, c \in SlotConfig : UpdateConfig(l, c)

SlotsSpec == SlotsInit /\ [][SlotsNext]_slotsVars /\ WF_slotsVars(CallProgress)
-----------------------------------------------------------------------------
(* Properties.                                                             *)

SlotsTypeOK ==
    /\ BookingsTypeOK
    /\ configs \in ConfigTable
    /\ given \in Given
    /\ at \in {"received", "looking", "generating", "counting", "done"}
    /\ level \in 1 .. 4
    /\ config \in SlotConfig
    /\ current \in TimeString
    /\ slots \in SUBSET TimeString
    /\ DOMAIN spots \subseteq TimeString
    /\ status \in {0, 200, 400, 404, 500}
    /\ inForce \in SUBSET SlotConfig

\* A slot that starts before closing time ends before midnight.
ClosesInTime == hours.closes + config.slotDuration <= MinutesPerDay

\* The slots one would draw up by hand: full slots from the opening on, and
\* today none that starts before the notice is over.
Grid ==
    {s \in TimeString :
        /\ \E k \in 0 .. MinutesPerDay : s = hours.opens + k * config.slotDuration
        /\ s + config.slotDuration <= hours.closes
        /\ query.date = now.day => s >= now.minute + config.minNotice}

(* The loop yields exactly the slots that fit between opening and closing, *)
(* whatever the hours, as long as they leave a slot's length to midnight.  *)
SlotsAreTheGrid ==
    at = "counting" /\ hours.times = "given" /\ ClosesInTime
        /\ now.minute + config.minNotice < MinutesPerDay
    => slots = Grid

\* The bookings of the day that share a minute with a slot.
Sharing(s) ==
    {i \in Active(bookings) :
        /\ Body[i].address = query.address /\ Body[i].date = query.date
        /\ ShareMinute(s, config.slotDuration, Body[i].start, bookings[i].duration)}

AllEndSameDay ==
    /\ ClosesInTime
    /\ \A i \in Active(bookings) : EndsSameDay(Body[i].start, bookings[i].duration)

(* The places shown are those left at the moment the response is made, no  *)
(* matter what was booked, cancelled or reconfigured since the call came.  *)
SpotsAreLeft ==
    [][at = "counting" /\ status' = 200 /\ AllEndSameDay =>
         \A s \in DOMAIN spots' :
             spots'[s] = LET left == config.maxConcurrent - Cardinality(Sharing(s))
                         IN  IF left > 0 THEN left ELSE 0]_slotsVars

(* Who books at once what is offered with a free place gets it: GET and    *)
(* POST decide by code of their own, yet agree on dates, opening days,     *)
(* notice and places.                                                      *)
OffersAreBookable ==
    [][at = "counting" /\ status' = 200 =>
         \A s \in DOMAIN spots' : spots'[s] > 0 =>
             /\ RuleError([date |-> query.date, start |-> s], given.fetched.open, now, config) = "ok"
             /\ CountOverlappingBookings(bookings,
                    GetByCompanyWithFilter(bookings, query.address, query.date),
                    s, config.slotDuration) < config.maxConcurrent]_slotsVars

(* The lookup asks level by level with updates in between, and still ends  *)
(* with a configuration that was in force at some moment of it.            *)
ConfigWasInForce == at \in {"generating", "counting"} => config \in inForce

(* The loop ends, and with it the call, for hours that leave a slot's      *)
(* length to midnight.                                                     *)
SafeHoursAnswered == at = "generating" /\ ClosesInTime ~> at = "done"

(* The comment in the loop says that a slot may not go past the closing    *)
(* time: then it ends, and every call with it, whatever the hours.         *)
EveryCallAnswered == at = "received" ~> at = "done"
=============================================================================

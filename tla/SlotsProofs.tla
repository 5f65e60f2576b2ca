---------------------------- MODULE SlotsProofs ----------------------------
(***************************************************************************)
(* GET .../available-slots for any configurations, opening hours, bookings *)
(* and changes of them during a call.                                      *)
(***************************************************************************)
EXTENDS AvailableSlots, RulesProofs, FiniteSetTheorems

-----------------------------------------------------------------------------
(* The inductive invariant.                                                *)

\* Before the loop there are no slots, before the end there is no answer.
FreshInv ==
    /\ at = "received" => level = 1
    /\ at \in {"received", "looking"} => slots = {}
    /\ at # "done" => status = 0

\* The levels already tried have no row: an UPDATE never makes one.
LookupInv ==
    at = "looking" =>
        /\ Effective(configs) \in inForce
        /\ \A i \in 1 .. level - 1 :
             configs[HierarchyFor(query.address, query.service)[i]] = NoConfig

\* Past the lookup the date is right and the company open.
DateInv ==
    at \in {"generating", "counting"} =>
        /\ DateError(config) = "ok" /\ given.fetched.open
        /\ at = "generating" => hours.times = "given"
        /\ at = "counting" /\ hours.times # "given" => slots = {}

\* The slots after n rounds of the loop.
Rounds(n) == {hours.opens + k * config.slotDuration : k \in 0 .. n - 1}

\* How far the loop has come.
LoopInv ==
    at = "generating" /\ ClosesInTime =>
        \E n \in Nat : /\ current = hours.opens + n * config.slotDuration
                       /\ n > 0 => current <= hours.closes
                       /\ slots = Rounds(n)

\* What the filter leaves.
FilterInv ==
    at = "counting" =>
        \A s \in slots : InTime(s) /\ (ClosesInTime => s + config.slotDuration <= hours.closes)

SlotsInv ==
    /\ SlotsTypeOK /\ terms \in [Requests -> SlotConfig]
    /\ FreshInv /\ LookupInv /\ ConfigWasInForce /\ DateInv
    /\ LoopInv /\ FilterInv /\ SlotsAreTheGrid

-----------------------------------------------------------------------------
(* Types.                                                                  *)

LEMMA GivenTyped ==
    ASSUME given \in Given
    PROVE  /\ query.address \in Addresses /\ query.service \in Services /\ query.date \in Nat
           /\ now \in Moment /\ now.day \in Nat /\ now.minute \in TimeString
           /\ hours.opens \in TimeString /\ hours.closes \in TimeString
           /\ hours.times \in {"given", "missing", "malformed"}
           /\ given.fetched.open \in BOOLEAN
BY DEF Given, Query, Moment, DaySchedule, Fetched, query, now, hours

LEMMA ConfigTyped ==
    ASSUME NEW c \in SlotConfig
    PROVE  /\ c.slotDuration \in Nat \ {0} /\ c.maxConcurrent \in Nat \ {0}
           /\ c.advanceDays \in Nat /\ c.minNotice \in Nat
BY ConfigAssumption

LEMMA TimeTyped ==
    ASSUME NEW t \in TimeString, NEW n \in Nat
    PROVE  AddMinutes(t, n) \in TimeString
BY MinutesPerDayAssumption DEF AddMinutes, TimeString

LEMMA LevelsTried ==
    ASSUME given \in Given, NEW i \in 1 .. 4
    PROVE  HierarchyFor(query.address, query.service)[i] \in Levels
BY GivenTyped DEF HierarchyFor, Levels

LEMMA EffectiveTyped ==
    ASSUME given \in Given, NEW table \in ConfigTable
    PROVE  Effective(table) \in SlotConfig
BY GivenTyped, EffectiveConfigType DEF Effective

-----------------------------------------------------------------------------
(* Initial states and the steps around the call.                           *)

LEMMA SlotsBegin == SlotsInit => SlotsInv
<1>. SUFFICES ASSUME SlotsInit
              PROVE  SlotsInv
  OBVIOUS
<1>. USE DEF SlotsInit, LedgerInit
<1>1. BookingsTypeOK /\ terms \in [Requests -> SlotConfig]
  BY DEF BookingsTypeOK
<1>2. DOMAIN spots = {}
  OBVIOUS
<1>3. 0 \in TimeString
  BY MinutesPerDayAssumption DEF TimeString
<1>4. given \in Given /\ configs \in ConfigTable /\ config \in SlotConfig
  BY SlotsAssumption, ConfigAssumption
<1>5. SlotsTypeOK
  BY <1>1, <1>2, <1>3, <1>4 DEF SlotsTypeOK
<1>. QED
  BY <1>1, <1>5 DEF SlotsInv, FreshInv, LookupInv, ConfigWasInForce, DateInv, LoopInv,
                    FilterInv, SlotsAreTheGrid

\* The invariant without the tables of bookings and terms.
CallInv ==
    /\ FreshInv /\ LookupInv /\ ConfigWasInForce /\ DateInv
    /\ LoopInv /\ FilterInv /\ SlotsAreTheGrid

\* None of it speaks of bookings.
LEMMA CallKept ==
    ASSUME CallInv, UNCHANGED <<callVars, inForce, configs>>
    PROVE  CallInv'
<1>1. UNCHANGED <<given, at, level, config, current, slots, spots, status, inForce, configs>>
  BY DEF callVars
<1>2. UNCHANGED <<query, now, hours>>
  BY <1>1 DEF query, now, hours
<1>3. FreshInv' /\ ConfigWasInForce'
  BY <1>1 DEF CallInv, FreshInv, ConfigWasInForce
<1>4. LookupInv'
  BY <1>1, <1>2 DEF CallInv, LookupInv, Effective
<1>5. DateInv'
  BY <1>1, <1>2 DEF CallInv, DateInv, DateError
<1>6. LoopInv' /\ FilterInv'
  BY <1>1, <1>2 DEF CallInv, LoopInv, FilterInv, ClosesInTime, Rounds, InTime
<1>7. SlotsAreTheGrid'
  BY <1>1, <1>2 DEF CallInv, SlotsAreTheGrid, ClosesInTime, Grid
<1>. QED BY <1>3, <1>4, <1>5, <1>6, <1>7 DEF CallInv

LEMMA BookingsTyped ==
    ASSUME BookingsTypeOK, terms \in [Requests -> SlotConfig], LedgerNext
    PROVE  BookingsTypeOK' /\ terms' \in [Requests -> SlotConfig]
<1>1. PICK r \in Requests : Quote(r) \/ Book(r) \/ Refuse(r) \/ Release(r)
  BY DEF LedgerNext
<1>2. CASE Quote(r)
  BY <1>2 DEF Quote, BookingsTypeOK
<1>3. CASE Book(r)
  <2>1. [duration |-> terms[r].slotDuration, status |-> "confirmed"] \in Row
    BY ConfigTyped DEF Row, BookingStatus, ActiveStatuses
  <2>. QED BY <1>3, <2>1 DEF Book, Create, BookingsTypeOK
<1>4. CASE Refuse(r)
  BY <1>4 DEF Refuse, BookingsTypeOK
<1>5. CASE Release(r)
  <2>1. PICK s \in {"cancelled_by_user", "cancelled_by_company"} :
             bookings' = SetStatus(bookings, r, s)
    BY <1>5 DEF Release
  <2>2. bookings[r] \in Row
    BY <1>5 DEF Release, Stored, BookingsTypeOK
  <2>3. [bookings[r] EXCEPT !.status = s] \in Row
    BY <2>2 DEF Row, BookingStatus, InactiveStatuses
  <2>. QED BY <1>5, <2>1, <2>3 DEF Release, SetStatus, BookingsTypeOK
<1>. QED BY <1>1, <1>2, <1>3, <1>4, <1>5

LEMMA BookingsKeep ==
    ASSUME SlotsInv, BookingsChange
    PROVE  SlotsInv'
<1>1. UNCHANGED <<callVars, inForce, configs>>
  BY DEF BookingsChange
<1>2. BookingsTypeOK' /\ terms' \in [Requests -> SlotConfig]
  BY BookingsTyped DEF BookingsChange, SlotsInv, SlotsTypeOK
<1>3. SlotsTypeOK'
  BY <1>1, <1>2 DEF SlotsInv, SlotsTypeOK, callVars
<1>4. CallInv'
  BY <1>1, CallKept DEF SlotsInv, CallInv
<1>. QED BY <1>2, <1>3, <1>4 DEF SlotsInv, CallInv

\* An UPDATE changes what is in force, not which levels have a row.
LEMMA UpdateKeeps ==
    ASSUME SlotsInv, NEW l \in Levels, NEW c \in SlotConfig, UpdateConfig(l, c)
    PROVE  SlotsInv'
<1>1. /\ UNCHANGED <<bookings, terms, given, at, level, config, current, slots, spots, status>>
      /\ configs' = [configs EXCEPT ![l] = c] /\ configs[l] # NoConfig
  BY DEF UpdateConfig, ledgerVars, callVars
<1>2. UNCHANGED <<query, now, hours>>
  BY <1>1 DEF query, now, hours
<1>3. configs \in ConfigTable /\ given \in Given /\ level \in 1 .. 4 /\ inForce \in SUBSET SlotConfig
  BY DEF SlotsInv, SlotsTypeOK
<1>4. configs' \in ConfigTable
  BY <1>1, <1>3 DEF ConfigTable
<1>5. Effective(configs') \in SlotConfig
  BY <1>3, <1>4, EffectiveTyped
<1>6. inForce' \in SUBSET SlotConfig /\ inForce \subseteq inForce'
  BY <1>3, <1>5 DEF UpdateConfig
<1>7. SlotsTypeOK' /\ terms' \in [Requests -> SlotConfig]
  BY <1>1, <1>4, <1>6 DEF SlotsInv, SlotsTypeOK, BookingsTypeOK
<1>8. FreshInv' /\ ConfigWasInForce'
  BY <1>1, <1>6 DEF SlotsInv, FreshInv, ConfigWasInForce
<1>9. LookupInv'
  <2>. SUFFICES ASSUME at = "looking"
                PROVE  /\ Effective(configs)' \in inForce'
                       /\ \A i \in 1 .. level - 1 :
                            configs'[HierarchyFor(query.address, query.service)[i]] = NoConfig
    BY <1>1, <1>2 DEF LookupInv
  <2>1. Effective(configs)' = Effective(configs')
    BY <1>2 DEF Effective
  <2>2. inForce' = inForce \cup {Effective(configs')}
    BY DEF UpdateConfig
  <2>3. ASSUME NEW i \in 1 .. level - 1
        PROVE  configs'[HierarchyFor(query.address, query.service)[i]] = NoConfig
    <3>1. i \in 1 .. 4
      BY <1>3
    <3>2. HierarchyFor(query.address, query.service)[i] \in Levels
      BY <1>3, <3>1, LevelsTried
    <3>3. configs[HierarchyFor(query.address, query.service)[i]] = NoConfig
      BY DEF SlotsInv, LookupInv
    <3>. QED BY <1>1, <1>3, <3>2, <3>3 DEF ConfigTable
  <2>. QED BY <2>1, <2>2, <2>3
<1>10. DateInv'
  BY <1>1, <1>2 DEF SlotsInv, DateInv, DateError
<1>11. LoopInv' /\ FilterInv'
  BY <1>1, <1>2 DEF SlotsInv, LoopInv, FilterInv, ClosesInTime, Rounds, InTime
<1>12. SlotsAreTheGrid'
  BY <1>1, <1>2 DEF SlotsInv, SlotsAreTheGrid, ClosesInTime, Grid
<1>. QED BY <1>7, <1>8, <1>9, <1>10, <1>11, <1>12 DEF SlotsInv

-----------------------------------------------------------------------------
(* The steps of the call.                                                  *)

\* An answer ends the call and all that is to be said of its memory.
LEMMA AnswerKeeps ==
    ASSUME SlotsInv, NEW code \in {200, 400, 404, 500}, NEW list, DOMAIN list \subseteq TimeString,
           Respond(code, list), config' \in SlotConfig, UNCHANGED inForce
    PROVE  SlotsInv'
<1>1. /\ at' = "done" /\ status' = code /\ spots' = list /\ slots' = {} /\ current' = 0
      /\ UNCHANGED <<given, level, bookings, terms, configs, inForce>>
  BY DEF Respond, ledgerVars
<1>2. 0 \in TimeString
  BY MinutesPerDayAssumption DEF TimeString
<1>3. SlotsTypeOK' /\ terms' \in [Requests -> SlotConfig]
  BY <1>1, <1>2 DEF SlotsInv, SlotsTypeOK, BookingsTypeOK
<1>4. /\ FreshInv' /\ LookupInv' /\ ConfigWasInForce' /\ DateInv' /\ LoopInv' /\ FilterInv'
      /\ SlotsAreTheGrid'
  BY <1>1 DEF FreshInv, LookupInv, ConfigWasInForce, DateInv, LoopInv, FilterInv, SlotsAreTheGrid
<1>. QED BY <1>3, <1>4 DEF SlotsInv

LEMMA ErrorKeeps ==
    ASSUME SlotsInv, NEW err, RespondError(err), config' \in SlotConfig, UNCHANGED inForce
    PROVE  SlotsInv'
<1>1. SlotsHttpStatus(err) \in {200, 400, 404, 500}
  BY DEF SlotsHttpStatus
<1>2. DOMAIN <<>> \subseteq TimeString
  OBVIOUS
<1>. QED BY <1>1, <1>2, AnswerKeeps DEF RespondError

LEMMA ValidateKeeps ==
    ASSUME SlotsInv, Validate
    PROVE  SlotsInv'
<1>1. config \in SlotConfig /\ given \in Given /\ configs \in ConfigTable /\ at = "received"
  BY DEF SlotsInv, SlotsTypeOK, Validate
<1>2. CASE \E err : RespondError(err) /\ UNCHANGED <<config, inForce>>
  BY <1>1, <1>2, ErrorKeeps
<1>3. CASE /\ at' = "looking" /\ inForce' = {Effective(configs)}
           /\ UNCHANGED <<given, level, config, current, slots, spots, status, ledgerVars, configs>>
  <2>1. UNCHANGED <<bookings, terms, query, now, hours>>
    BY <1>3 DEF ledgerVars, query, now, hours
  <2>2. SlotsTypeOK' /\ terms' \in [Requests -> SlotConfig]
    BY <1>1, <1>3, <2>1, EffectiveTyped DEF SlotsInv, SlotsTypeOK, BookingsTypeOK
  <2>3. FreshInv'
    BY <1>1, <1>3 DEF SlotsInv, FreshInv
  <2>4. LookupInv'
    <3>1. level' = 1 /\ 1 .. level' - 1 = {}
      BY <1>1, <1>3 DEF SlotsInv, FreshInv
    <3>2. Effective(configs)' = Effective(configs)
      BY <1>3, <2>1 DEF Effective
    <3>. QED BY <1>3, <3>1, <3>2 DEF LookupInv
  <2>5. ConfigWasInForce' /\ DateInv' /\ LoopInv' /\ FilterInv' /\ SlotsAreTheGrid'
    BY <1>3 DEF ConfigWasInForce, DateInv, LoopInv, FilterInv, SlotsAreTheGrid
  <2>. QED BY <2>2, <2>3, <2>4, <2>5 DEF SlotsInv
<1>. QED BY <1>2, <1>3 DEF Validate

\* What the lookup has found was in force, and if it is usable the loop or
\* the count begins.
LEMMA PrepareKeeps ==
    ASSUME SlotsInv, at = "looking", NEW c \in SlotConfig, c \in inForce, Prepare(c),
           UNCHANGED inForce
    PROVE  SlotsInv'
<1>1. given \in Given /\ config' = c
  BY DEF SlotsInv, SlotsTypeOK, Prepare
<1>2. CASE \E err : RespondError(err)
  BY <1>1, <1>2, ErrorKeeps
<1>3. CASE Respond(200, <<>>)
  <2>1. DOMAIN <<>> \subseteq TimeString
    OBVIOUS
  <2>. QED BY <1>1, <1>3, <2>1, AnswerKeeps
<1>4. CASE /\ DateError(c) = "ok" /\ given.fetched.open
           /\ \/ at' = "counting" /\ hours.times = "missing" /\ current' = current
              \/ at' = "generating" /\ hours.times = "given" /\ current' = hours.opens
           /\ UNCHANGED <<given, level, slots, spots, status, ledgerVars, configs>>
  <2>1. UNCHANGED <<bookings, terms, query, now, hours>>
    BY <1>4 DEF ledgerVars, query, now, hours
  <2>2. SlotsTypeOK' /\ terms' \in [Requests -> SlotConfig]
    BY <1>1, <1>4, <2>1, GivenTyped DEF SlotsInv, SlotsTypeOK, BookingsTypeOK
  <2>3. slots' = {} /\ status' = 0
    BY <1>4 DEF SlotsInv, FreshInv
  <2>4. FreshInv' /\ LookupInv' /\ ConfigWasInForce'
    BY <1>1, <1>4, <2>3 DEF FreshInv, LookupInv, ConfigWasInForce
  <2>5. DateInv'
    BY <1>1, <1>4, <2>1, <2>3 DEF DateInv, DateError
  <2>6. LoopInv'
    <3>. SUFFICES ASSUME at' = "generating"
                  PROVE  \E n \in Nat : /\ current' = hours'.opens + n * config'.slotDuration
                                        /\ n > 0 => current' <= hours'.closes
                                        /\ slots' = Rounds(n)'
      BY DEF LoopInv
    <3>1. current' = hours'.opens + 0 * config'.slotDuration
      <4>1. current' = hours.opens /\ hours' = hours
        BY <1>4, <2>1
      <4>2. hours.opens \in Int /\ c.slotDuration \in Int
        BY <1>1, GivenTyped, ConfigTyped DEF TimeString
      <4>. QED BY <1>1, <4>1, <4>2
    <3>2. Rounds(0)' = {}
      BY DEF Rounds
    <3>. QED BY <2>3, <3>1, <3>2
  <2>7. FilterInv' /\ SlotsAreTheGrid'
    BY <1>4, <2>1, <2>3 DEF FilterInv, SlotsAreTheGrid
  <2>. QED BY <2>2, <2>4, <2>5, <2>6, <2>7 DEF SlotsInv
<1>. QED BY <1>2, <1>3, <1>4 DEF Prepare

LEMMA LookUpKeeps ==
    ASSUME SlotsInv, LookUp
    PROVE  SlotsInv'
<1> DEFINE try == HierarchyFor(query.address, query.service)
           row == configs[try[level]]
<1>1. /\ at = "looking" /\ UNCHANGED inForce
      /\ given \in Given /\ configs \in ConfigTable /\ level \in 1 .. 4
  BY DEF SlotsInv, SlotsTypeOK, LookUp
<1>2. /\ Effective(configs) \in inForce
      /\ \A i \in 1 .. level - 1 : configs[try[i]] = NoConfig
  BY <1>1 DEF SlotsInv, LookupInv
<1>3. CASE row # NoConfig /\ Prepare(row)
  <2>1. row \in SlotConfig
    BY <1>1, <1>3, LevelsTried DEF ConfigTable
  <2>2. Effective(configs) = row
    BY <1>1, <1>2, <1>3, MostSpecific DEF Effective
  <2>. QED BY <1>1, <1>2, <1>3, <2>1, <2>2, PrepareKeeps
<1>4. CASE row = NoConfig /\ level = 4 /\ Prepare(DefaultConfig)
  <2>1. \A i \in 1 .. 4 : configs[try[i]] = NoConfig
    <3>1. \A i \in 1 .. 4 : i = level \/ i \in 1 .. level - 1
      BY <1>4
    <3>. QED BY <1>2, <1>4, <3>1
  <2>2. Effective(configs) = DefaultConfig
    BY <1>1, <2>1, NothingConfigured DEF Effective
  <2>. QED BY <1>1, <1>2, <1>4, <2>2, PrepareKeeps, ConfigAssumption
<1>5. CASE /\ row = NoConfig /\ level < 4 /\ level' = NextLevel(level)
           /\ UNCHANGED <<given, at, config, current, slots, spots, status, ledgerVars, configs>>
  <2>1. UNCHANGED <<bookings, terms, query, now, hours>>
    BY <1>5 DEF ledgerVars, query, now, hours
  <2>2. level' = level + 1 /\ level' \in 1 .. 4
    BY <1>1, <1>5 DEF NextLevel
  <2>3. SlotsTypeOK' /\ terms' \in [Requests -> SlotConfig]
    BY <1>1, <1>5, <2>1, <2>2 DEF SlotsInv, SlotsTypeOK, BookingsTypeOK
  <2>4. FreshInv' /\ ConfigWasInForce' /\ DateInv' /\ LoopInv' /\ FilterInv' /\ SlotsAreTheGrid'
    BY <1>1, <1>5, <2>1 DEF SlotsInv, FreshInv, ConfigWasInForce, DateInv, LoopInv, FilterInv,
                            SlotsAreTheGrid
  <2>5. LookupInv'
    <3>1. \A i \in 1 .. level' - 1 : i = level \/ i \in 1 .. level - 1
      BY <1>1, <2>2
    <3>2. \A i \in 1 .. level' - 1 : configs[try[i]] = NoConfig
      BY <1>2, <1>5, <3>1
    <3>3. Effective(configs)' = Effective(configs)
      BY <1>5, <2>1 DEF Effective
    <3>. QED BY <1>1, <1>2, <1>5, <2>1, <3>2, <3>3 DEF LookupInv
  <2>. QED BY <2>3, <2>4, <2>5 DEF SlotsInv
<1>. QED BY <1>3, <1>4, <1>5 DEF LookUp

\* As long as a slot that starts before closing time ends before midnight,
\* the condition of the loop does not wrap.
LEMMA FitsPlainly ==
    ASSUME given \in Given, config \in SlotConfig, current \in TimeString, ClosesInTime
    PROVE  /\ Fits <=> current + config.slotDuration <= hours.closes
           /\ Fits => AddMinutes(current, config.slotDuration) = current + config.slotDuration
<1>1. /\ config.slotDuration \in Nat \ {0} /\ hours.closes \in TimeString
      /\ MinutesPerDay \in Nat \ {0}
  BY ConfigTyped, GivenTyped, MinutesPerDayAssumption
<1>2. ASSUME current < hours.closes
      PROVE  AddMinutes(current, config.slotDuration) = current + config.slotDuration
  <2>1. current + config.slotDuration \in 0 .. MinutesPerDay - 1
    BY <1>1, <1>2 DEF ClosesInTime, TimeString
  <2>. QED BY <1>1, <2>1 DEF AddMinutes
<1>. QED BY <1>1, <1>2 DEF Fits, IsBefore, IsAfter, TimeString

\* Later slots start later, by whole durations.
LEMMA SlotsApart ==
    ASSUME NEW d \in Nat \ {0}, NEW k \in Nat, NEW n \in Nat, k < n
    PROVE  k * d + d <= n * d
<1>1. PICK j \in Nat : n = k + 1 + j
  <2>1. n - (k + 1) \in Nat /\ n = k + 1 + (n - (k + 1))
    OBVIOUS
  <2>. QED BY <2>1
<1>2. j * d \in Nat /\ k * d \in Nat
  OBVIOUS
<1>3. n * d = k * d + d + j * d
  BY <1>1
<1>. QED BY <1>2, <1>3

LEMMA Multiples ==
    ASSUME NEW d \in Nat \ {0}, NEW n \in Nat
    PROVE  n * d \in Nat /\ n <= n * d /\ (n + 1) * d = n * d + d
<1>1. PICK e \in Nat : d = e + 1
  <2>1. d - 1 \in Nat /\ d = (d - 1) + 1
    OBVIOUS
  <2>. QED BY <2>1
<1>2. n * e \in Nat
  OBVIOUS
<1>3. n * d = n * e + n
  BY <1>1
<1>4. (n + 1) * d = n * d + d
  OBVIOUS
<1>. QED BY <1>2, <1>3, <1>4

LEMMA AppendKeeps ==
    ASSUME SlotsInv, AppendSlot
    PROVE  SlotsInv'
<1> DEFINE d == config.slotDuration
<1>1. /\ at = "generating" /\ Fits /\ slots' = slots \cup {current}
      /\ current' = AddMinutes(current, d)
      /\ UNCHANGED <<given, at, level, config, spots, status, configs, inForce, bookings, terms>>
  BY DEF AppendSlot, ledgerVars
<1>2. UNCHANGED <<query, now, hours>>
  BY <1>1 DEF query, now, hours
<1>3. /\ given \in Given /\ config \in SlotConfig /\ current \in TimeString
      /\ d \in Nat \ {0} /\ hours.opens \in TimeString /\ hours.closes \in TimeString
  BY ConfigTyped, GivenTyped DEF SlotsInv, SlotsTypeOK
<1>4. SlotsTypeOK' /\ terms' \in [Requests -> SlotConfig]
  <2>1. current' \in TimeString
    BY <1>1, <1>3, TimeTyped
  <2>. QED BY <1>1, <1>3, <2>1 DEF SlotsInv, SlotsTypeOK, BookingsTypeOK
<1>5. FreshInv' /\ LookupInv' /\ ConfigWasInForce' /\ FilterInv' /\ SlotsAreTheGrid'
  BY <1>1 DEF SlotsInv, FreshInv, LookupInv, ConfigWasInForce, FilterInv, SlotsAreTheGrid
<1>6. DateInv'
  BY <1>1, <1>2 DEF SlotsInv, DateInv, DateError
<1>7. LoopInv'
  <2>. SUFFICES ASSUME ClosesInTime
                PROVE  \E n \in Nat : /\ current' = hours.opens + n * d
                                      /\ n > 0 => current' <= hours.closes
                                      /\ slots' = Rounds(n)
    BY <1>1, <1>2 DEF LoopInv, ClosesInTime, Rounds
  <2>1. PICK n \in Nat : current = hours.opens + n * d /\ slots = Rounds(n)
    BY <1>1 DEF SlotsInv, LoopInv
  <2>2. current' = current + d /\ current' <= hours.closes
    BY <1>1, <1>3, FitsPlainly
  <2>3. n * d \in Nat /\ (n + 1) * d = n * d + d
    BY <1>3, Multiples
  <2>4. current' = hours.opens + (n + 1) * d
    BY <1>3, <2>1, <2>2, <2>3 DEF TimeString
  <2>5. 0 .. (n + 1) - 1 = (0 .. n - 1) \cup {n}
    OBVIOUS
  <2>6. Rounds(n + 1) = Rounds(n) \cup {current}
    BY <2>1, <2>5 DEF Rounds
  <2>7. slots' = Rounds(n + 1)
    BY <1>1, <2>1, <2>6
  <2>. QED BY <2>2, <2>4, <2>7
<1>. QED BY <1>4, <1>5, <1>6, <1>7 DEF SlotsInv

\* What the rounds have collected when the loop ends are the slots that fit.
LEMMA RoundsFit ==
    ASSUME SlotsInv, at = "generating", ~Fits, ClosesInTime, NEW s
    PROVE  /\ s \in slots => s \in TimeString /\ s + config.slotDuration <= hours.closes
           /\ s \in slots <=> /\ s \in TimeString
                              /\ \E k \in 0 .. MinutesPerDay :
                                    s = hours.opens + k * config.slotDuration
                              /\ s + config.slotDuration <= hours.closes
<1> DEFINE d == config.slotDuration
<1>1. /\ given \in Given /\ config \in SlotConfig /\ current \in TimeString
      /\ d \in Nat \ {0} /\ hours.opens \in Nat /\ hours.closes \in Nat
      /\ hours.closes < MinutesPerDay /\ MinutesPerDay \in Nat
  BY ConfigTyped, GivenTyped, MinutesPerDayAssumption DEF SlotsInv, SlotsTypeOK, TimeString
<1>2. PICK n \in Nat : /\ current = hours.opens + n * d
                       /\ n > 0 => current <= hours.closes
                       /\ slots = Rounds(n)
  BY DEF SlotsInv, LoopInv
<1>3. current + d > hours.closes
  BY <1>1, FitsPlainly DEF TimeString
<1> HIDE DEF d
<1>4. ASSUME NEW k \in 0 .. n - 1, s = hours.opens + k * d
      PROVE  s \in TimeString /\ s + d <= hours.closes /\ k \in 0 .. MinutesPerDay
  <2>1. k \in Nat /\ k < n /\ k * d \in Nat /\ n * d \in Nat /\ k <= k * d /\ k * d + d <= n * d
    BY <1>1, Multiples, SlotsApart
  <2>2. s + d <= current /\ current <= hours.closes
    BY <1>1, <1>2, <1>4, <2>1
  <2>. QED BY <1>1, <1>4, <2>1, <2>2 DEF TimeString
<1>5. ASSUME NEW k \in 0 .. MinutesPerDay, s = hours.opens + k * d, s + d <= hours.closes
      PROVE  k \in 0 .. n - 1
  <2>1. k \in Nat /\ k * d \in Nat /\ n * d \in Nat
    BY <1>1, Multiples
  <2>2. n < k => n * d + d <= k * d
    BY <1>1, <2>1, SlotsApart
  <2>3. k * d + d < n * d + d
    BY <1>1, <1>2, <1>3, <1>5, <2>1
  <2>4. k # n /\ ~(n < k)
    BY <1>1, <2>1, <2>2, <2>3
  <2>. QED BY <2>1, <2>4
<1>6. s \in slots <=> \E k \in 0 .. n - 1 : s = hours.opens + k * d
  BY <1>2 DEF Rounds, d
<1>. QED BY <1>4, <1>5, <1>6 DEF d

LEMMA EndLoopKeeps ==
    ASSUME SlotsInv, EndLoop
    PROVE  SlotsInv'
<1>1. /\ at = "generating" /\ at' = "counting" /\ ~Fits /\ slots' = {s \in slots : InTime(s)}
      /\ UNCHANGED <<given, level, config, current, spots, status, configs, inForce, bookings, terms>>
  BY DEF EndLoop, ledgerVars
<1>2. UNCHANGED <<query, now, hours>>
  BY <1>1 DEF query, now, hours
<1>3. SlotsTypeOK' /\ terms' \in [Requests -> SlotConfig]
  BY <1>1 DEF SlotsInv, SlotsTypeOK, BookingsTypeOK
<1>4. FreshInv' /\ LookupInv' /\ ConfigWasInForce' /\ LoopInv'
  BY <1>1 DEF SlotsInv, FreshInv, LookupInv, ConfigWasInForce, LoopInv
<1>5. DateInv'
  BY <1>1, <1>2 DEF SlotsInv, DateInv, DateError
<1>6. FilterInv'
  <2>. SUFFICES ASSUME NEW s \in slots'
                PROVE  InTime(s) /\ (ClosesInTime => s + config.slotDuration <= hours.closes)
    BY <1>1, <1>2 DEF FilterInv, InTime, ClosesInTime
  <2>. QED BY <1>1, RoundsFit
<1>7. SlotsAreTheGrid'
  <2>. SUFFICES ASSUME ClosesInTime, now.minute + config.minNotice < MinutesPerDay
                PROVE  slots' = Grid
    BY <1>1, <1>2 DEF SlotsAreTheGrid, ClosesInTime, Grid
  <2>1. /\ now.minute \in Nat /\ config.minNotice \in Nat /\ MinutesPerDay \in Nat \ {0}
    BY ConfigTyped, GivenTyped, MinutesPerDayAssumption DEF SlotsInv, SlotsTypeOK, TimeString
  <2>2. AddMinutes(now.minute, config.minNotice) = now.minute + config.minNotice
    BY <2>1 DEF AddMinutes
  <2>3. \A s \in TimeString : InTime(s) <=> (query.date = now.day => s >= now.minute + config.minNotice)
    BY <2>1, <2>2 DEF InTime, IsSameDay, IsBefore, TimeString
  <2>4. \A s : s \in slots' <=> s \in Grid
    BY <1>1, <2>3, RoundsFit DEF Grid
  <2>. QED BY <2>4 DEF Grid
<1>. QED BY <1>3, <1>4, <1>5, <1>6, <1>7 DEF SlotsInv

LEMMA CountKeeps ==
    ASSUME SlotsInv, CountBookings \/ FailQuery
    PROVE  SlotsInv'
<1>1. config \in SlotConfig /\ slots \in SUBSET TimeString
  BY DEF SlotsInv, SlotsTypeOK
<1>2. CASE CountBookings
  <2>1. DOMAIN [s \in slots |-> AvailableSpots(s)] \subseteq TimeString
    BY <1>1
  <2>. QED BY <1>1, <1>2, <2>1, AnswerKeeps DEF CountBookings
<1>3. CASE FailQuery
  BY <1>1, <1>3, ErrorKeeps DEF FailQuery
<1>. QED BY <1>2, <1>3

LEMMA SlotsGoOn == SlotsInv /\ [SlotsNext]_slotsVars => SlotsInv'
<1>. SUFFICES ASSUME SlotsInv, [SlotsNext]_slotsVars
              PROVE  SlotsInv'
  OBVIOUS
<1>1. CASE UNCHANGED slotsVars
  <2>1. UNCHANGED <<callVars, inForce, configs, bookings, terms>>
    BY <1>1 DEF slotsVars, ledgerVars
  <2>2. CallInv'
    BY <2>1, CallKept DEF SlotsInv, CallInv
  <2>3. SlotsTypeOK' /\ terms' \in [Requests -> SlotConfig]
    BY <2>1 DEF SlotsInv, SlotsTypeOK, BookingsTypeOK, callVars
  <2>. QED BY <2>2, <2>3 DEF SlotsInv, CallInv
<1>2. CASE CallStep
  BY <1>2, ValidateKeeps, LookUpKeeps, AppendKeeps, EndLoopKeeps, CountKeeps
     DEF CallStep, CallProgress
<1>. QED BY <1>1, <1>2, BookingsKeep, UpdateKeeps DEF SlotsNext

(* The inductive invariant holds throughout.                               *)
THEOREM SlotsAlways == SlotsSpec => []SlotsInv
BY SlotsBegin, SlotsGoOn, PTL DEF SlotsSpec

(* Types of a call and of what happens meanwhile.                          *)
THEOREM SlotsTyped == SlotsSpec => []SlotsTypeOK
BY SlotsAlways, PTL DEF SlotsInv

(* The loop yields the slots one would draw up by hand, whatever the hours *)
(* and durations, if they leave a slot's length to midnight.               *)
THEOREM GridAlways == SlotsSpec => []SlotsAreTheGrid
BY SlotsAlways, PTL DEF SlotsInv

(* A lookup level by level, with updates in between, ends with a           *)
(* configuration that was in force at some moment of it.                   *)
THEOREM InForceAlways == SlotsSpec => []ConfigWasInForce
BY SlotsAlways, PTL DEF SlotsInv

-----------------------------------------------------------------------------
(* What is answered.                                                       *)

\* 200 comes from the counting step, once the call is past the loop.
LEMMA AnsweredByCount ==
    ASSUME SlotsInv, [SlotsNext]_slotsVars, at = "counting", status' = 200
    PROVE  /\ spots' = [s \in slots |-> AvailableSpots(s)]
           /\ UNCHANGED <<bookings, given, config>>
<1>1. status = 0
  BY DEF SlotsInv, FreshInv
<1>2. ~BookingsChange /\ ~UNCHANGED slotsVars
  BY <1>1 DEF BookingsChange, callVars, slotsVars
<1>3. ASSUME NEW l \in Levels, NEW c \in SlotConfig, UpdateConfig(l, c)
      PROVE  FALSE
  BY <1>1, <1>3 DEF UpdateConfig, callVars
<1>4. ~Validate /\ ~LookUp /\ ~AppendSlot /\ ~EndLoop
  BY DEF Validate, LookUp, AppendSlot, EndLoop
<1>5. ~FailQuery
  BY DEF FailQuery, RespondError, Respond, SlotsHttpStatus
<1>6. CountBookings
  BY <1>2, <1>3, <1>4, <1>5 DEF SlotsNext, CallStep, CallProgress
<1>. QED BY <1>6 DEF CountBookings, Respond, ledgerVars

\* The two checks of a date.
LEMMA DatesPassed ==
    ASSUME NEW c, DateError(c) = "ok"
    PROVE  ~IsDateInPast(query.date, now) /\ ~DateTooFar(query.date, now, c.advanceDays)
<1> DEFINE checks == <<
    Check(~IsDateInPast(query.date, now),              "ErrInvalidDate"),
    Check(~DateTooFar(query.date, now, c.advanceDays), "ErrDateTooFarInFuture") >>
<1>1. DOMAIN checks = 1 .. 2 /\ DOMAIN checks \subseteq 1 .. 8
  OBVIOUS
<1>2. \A i \in DOMAIN checks : checks[i].err # "ok"
  BY DEF Check
<1>3. /\ checks[1].pass <=> ~IsDateInPast(query.date, now)
      /\ checks[2].pass <=> ~DateTooFar(query.date, now, c.advanceDays)
  BY DEF Check
<1>4. FirstError(checks) = "ok"
  BY DEF DateError
<1> HIDE DEF checks
<1>5. checks[1].pass /\ checks[2].pass
  BY <1>1, <1>2, <1>4, AllPass
<1>. QED BY <1>3, <1>5

\* The bookings that the count for a slot looks at.
InTheWayOf(s) ==
    Overlapping(bookings, GetByCompanyWithFilter(bookings, query.address, query.date),
                s, config.slotDuration)

LEMMA CountTyped ==
    ASSUME NEW s
    PROVE  /\ OverlappingCount(s) = Cardinality(InTheWayOf(s))
           /\ OverlappingCount(s) \in Nat
<1>1. OverlappingCount(s) = Cardinality(InTheWayOf(s))
  BY DEF OverlappingCount, CountOverlappingBookings, InTheWayOf
<1>2. InTheWayOf(s) \subseteq Requests
  BY DEF InTheWayOf, Overlapping, GetByCompanyWithFilter, Active, Stored
<1>. QED BY <1>1, <1>2, RequestsAssumption, FS_Subset, FS_CardinalityType

\* Within the day the test on wrapped times counts the bookings that share a
\* minute with the slot.
LEMMA CountsSharing ==
    ASSUME SlotsInv, NEW s \in TimeString, AllEndSameDay,
           s + config.slotDuration <= hours.closes
    PROVE  InTheWayOf(s) = Sharing(s)
<1>1. /\ config.slotDuration \in Nat \ {0} /\ hours.closes \in TimeString
      /\ MinutesPerDay \in Nat
  BY ConfigTyped, GivenTyped, MinutesPerDayAssumption DEF SlotsInv, SlotsTypeOK
<1>2. EndsSameDay(s, config.slotDuration)
  BY <1>1 DEF EndsSameDay, TimeString
<1>3. ASSUME NEW i \in Active(bookings)
      PROVE  SlotOverlaps(s, config.slotDuration, Body[i].start, bookings[i].duration)
             <=> ShareMinute(s, config.slotDuration, Body[i].start, bookings[i].duration)
  <2>1. Body[i].start \in TimeString /\ bookings[i].duration \in Nat \ {0}
    BY RequestsAssumption DEF SlotsInv, SlotsTypeOK, BookingsTypeOK, Active, Stored, Row, RequestBody
  <2>2. EndsSameDay(Body[i].start, bookings[i].duration)
    BY DEF AllEndSameDay
  <2>3. ShareMinute(Body[i].start, bookings[i].duration, s, config.slotDuration) <=>
        ShareMinute(s, config.slotDuration, Body[i].start, bookings[i].duration)
    BY DEF ShareMinute
  <2>. QED BY <1>1, <1>2, <2>1, <2>2, <2>3, OverlapSeen, OverlapTrue
<1>. QED BY <1>3 DEF InTheWayOf, Overlapping, GetByCompanyWithFilter, Sharing, Active

(* The places shown are those left in the table at the moment of the       *)
(* answer, whatever was booked, cancelled or reconfigured during the call. *)
THEOREM SpotsAlways == SlotsSpec => SpotsAreLeft
<1>1. ASSUME SlotsInv, [SlotsNext]_slotsVars, at = "counting", status' = 200, AllEndSameDay,
             NEW s \in DOMAIN spots'
      PROVE  spots'[s] = LET left == config.maxConcurrent - Cardinality(Sharing(s))
                         IN  IF left > 0 THEN left ELSE 0
  <2>1. spots' = [t \in slots |-> AvailableSpots(t)]
    BY <1>1, AnsweredByCount
  <2>2. s \in slots /\ s \in TimeString
    BY <1>1, <2>1 DEF SlotsInv, SlotsTypeOK
  <2>3. s + config.slotDuration <= hours.closes
    BY <1>1, <2>2 DEF SlotsInv, FilterInv, AllEndSameDay
  <2>4. OverlappingCount(s) = Cardinality(Sharing(s)) /\ Cardinality(Sharing(s)) \in Nat
    BY <1>1, <2>2, <2>3, CountTyped, CountsSharing
  <2>5. config.maxConcurrent \in Nat
    BY <1>1, ConfigTyped DEF SlotsInv, SlotsTypeOK
  <2>. QED BY <2>1, <2>2, <2>4, <2>5 DEF AvailableSpots
<1>2. SlotsInv /\ [SlotsNext]_slotsVars =>
        [at = "counting" /\ status' = 200 /\ AllEndSameDay =>
           \A s \in DOMAIN spots' :
             spots'[s] = LET left == config.maxConcurrent - Cardinality(Sharing(s))
                         IN  IF left > 0 THEN left ELSE 0]_slotsVars
  BY <1>1
<1>. QED BY <1>2, SlotsAlways, PTL DEF SlotsSpec, SpotsAreLeft

(* Whoever books at once what is offered passes every rule of POST and     *)
(* finds room: the two use cases agree though each has code of its own.    *)
THEOREM OffersHold == SlotsSpec => OffersAreBookable
<1>1. ASSUME SlotsInv, [SlotsNext]_slotsVars, at = "counting", status' = 200,
             NEW s \in DOMAIN spots', spots'[s] > 0
      PROVE  /\ RuleError([date |-> query.date, start |-> s], given.fetched.open, now, config) = "ok"
             /\ CountOverlappingBookings(bookings,
                    GetByCompanyWithFilter(bookings, query.address, query.date),
                    s, config.slotDuration) < config.maxConcurrent
  <2>1. spots' = [t \in slots |-> AvailableSpots(t)]
    BY <1>1, AnsweredByCount
  <2>2. s \in slots
    BY <1>1, <2>1
  <2>3. OverlappingCount(s) < config.maxConcurrent
    <3>1. AvailableSpots(s) > 0
      BY <1>1, <2>1, <2>2
    <3>2. OverlappingCount(s) \in Nat /\ config.maxConcurrent \in Nat
      BY <1>1, CountTyped, ConfigTyped DEF SlotsInv, SlotsTypeOK
    <3>. QED BY <3>1, <3>2 DEF AvailableSpots
  <2>4. ~IsDateInPast(query.date, now) /\ ~DateTooFar(query.date, now, config.advanceDays)
    <3>1. DateError(config) = "ok"
      BY <1>1 DEF SlotsInv, DateInv
    <3>. QED BY <3>1, DatesPassed
  <2>5. given.fetched.open
    BY <1>1 DEF SlotsInv, DateInv
  <2>6. ~TooLateToBook(query.date, s, now, config.minNotice)
    BY <1>1, <2>2 DEF SlotsInv, FilterInv, InTime, TooLateToBook
  <2> DEFINE body == [date |-> query.date, start |-> s]
  <2>7. RuleError(body, given.fetched.open, now, config) = "ok" <=>
             /\ ~IsDateInPast(body.date, now)
             /\ ~DateTooFar(body.date, now, config.advanceDays)
             /\ given.fetched.open
             /\ ~TooLateToBook(body.date, body.start, now, config.minNotice)
    BY RulesPassed
  <2>8. body.date = query.date /\ body.start = s
    OBVIOUS
  <2> HIDE DEF body
  <2>9. RuleError(body, given.fetched.open, now, config) = "ok"
    BY <2>4, <2>5, <2>6, <2>7, <2>8, Zenon
  <2>. QED BY <2>3, <2>9 DEF body, OverlappingCount
<1>2. SlotsInv /\ [SlotsNext]_slotsVars =>
        [at = "counting" /\ status' = 200 =>
           \A s \in DOMAIN spots' : spots'[s] > 0 =>
             /\ RuleError([date |-> query.date, start |-> s], given.fetched.open, now, config) = "ok"
             /\ CountOverlappingBookings(bookings,
                    GetByCompanyWithFilter(bookings, query.address, query.date),
                    s, config.slotDuration) < config.maxConcurrent]_slotsVars
  BY <1>1
<1>. QED BY <1>2, SlotsAlways, PTL DEF SlotsSpec, OffersAreBookable
=============================================================================

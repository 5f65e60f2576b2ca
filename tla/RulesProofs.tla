---------------------------- MODULE RulesProofs ----------------------------
(***************************************************************************)
(* What the operators both use cases are built from establish: the first   *)
(* error of a chain of early returns, the window of dates and times behind *)
(* comparisons of HH:MM strings and of midnights in two zones, the overlap *)
(* test, and the lookup of the most specific configuration.                *)
(***************************************************************************)
EXTENDS BookingRules, ConfigHierarchy, TLAPS

-----------------------------------------------------------------------------
(* Chains of early returns.                                                *)

(* Of the checks that do not pass there is a first one.                    *)
LEMMA FirstOfEight ==
    ASSUME NEW S \in SUBSET (1 .. 8), S # {}
    PROVE  \E i \in S : \A j \in S : i <= j
<1> SUFFICES ASSUME \A i \in S : \E j \in S : ~(i <= j)
             PROVE  FALSE
  OBVIOUS
<1>1. \A i \in S : i \in 1 .. 8 /\ \E j \in S : j \in 1 .. 8 /\ j < i
  OBVIOUS
<1>2. 1 \notin S
  BY <1>1
<1>3. 2 \notin S
  BY <1>1, <1>2
<1>4. 3 \notin S
  BY <1>1, <1>2, <1>3
<1>5. 4 \notin S
  BY <1>1, <1>2, <1>3, <1>4
<1>6. 5 \notin S
  BY <1>1, <1>2, <1>3, <1>4, <1>5
<1>7. 6 \notin S
  BY <1>1, <1>2, <1>3, <1>4, <1>5, <1>6
<1>8. 7 \notin S
  BY <1>1, <1>2, <1>3, <1>4, <1>5, <1>6, <1>7
<1>9. 8 \notin S
  BY <1>1, <1>2, <1>3, <1>4, <1>5, <1>6, <1>7, <1>8
<1>10. PICK i \in S : TRUE
  OBVIOUS
<1>11. i \in {1, 2, 3, 4, 5, 6, 7, 8}
  BY <1>1
<1> QED
  BY <1>2, <1>3, <1>4, <1>5, <1>6, <1>7, <1>8, <1>9, <1>10, <1>11

\* The checks of a chain that do not pass.
Failing(checks) == {i \in DOMAIN checks : ~checks[i].pass}

(* A chain with a check that does not pass ends in the error of one.       *)
LEMMA SomeError ==
    ASSUME NEW checks, DOMAIN checks \subseteq 1 .. 8, Failing(checks) # {}
    PROVE  \E i \in Failing(checks) : FirstError(checks) = checks[i].err
<1>1. Failing(checks) \subseteq 1 .. 8
  BY DEF Failing
<1>2. \E i \in Failing(checks) : \A j \in Failing(checks) : i <= j
  BY <1>1, FirstOfEight
<1> DEFINE first == CHOOSE i \in Failing(checks) : \A j \in Failing(checks) : i <= j
<1>3. first \in Failing(checks)
  BY <1>2
<1>4. FirstError(checks) = checks[first].err
  BY DEF FirstError, Failing
<1> QED
  BY <1>3, <1>4

(* A chain of early returns ends in "ok" or in the error of one of them.   *)
LEMMA OneOfTheErrors ==
    ASSUME NEW checks, DOMAIN checks \subseteq 1 .. 8, NEW bad, bad # "ok",
           \A i \in DOMAIN checks : checks[i].err # bad
    PROVE  FirstError(checks) # bad
<1>1. CASE Failing(checks) = {}
  BY <1>1 DEF FirstError, Failing
<1>2. CASE Failing(checks) # {}
  BY <1>2, SomeError DEF Failing
<1> QED
  BY <1>1, <1>2

(* It ends in "ok" exactly when every check passes.                        *)
LEMMA AllPass ==
    ASSUME NEW checks, DOMAIN checks \subseteq 1 .. 8,
           \A i \in DOMAIN checks : checks[i].err # "ok"
    PROVE  FirstError(checks) = "ok" <=> \A i \in DOMAIN checks : checks[i].pass
<1>1. CASE Failing(checks) = {}
  BY <1>1 DEF FirstError, Failing
<1>2. CASE Failing(checks) # {}
  BY <1>2, SomeError DEF Failing
<1> QED
  BY <1>1, <1>2

(* The checks of Execute between its two queries.                          *)
LEMMA RulesPassed ==
    ASSUME NEW body, NEW open, NEW now, NEW c
    PROVE  RuleError(body, open, now, c) = "ok" <=>
             /\ ~IsDateInPast(body.date, now)
             /\ ~DateTooFar(body.date, now, c.advanceDays)
             /\ open
             /\ ~TooLateToBook(body.date, body.start, now, c.minNotice)
<1> DEFINE checks == <<
    Check(~IsDateInPast(body.date, now),                       "ErrInvalidDate"),
    Check(~DateTooFar(body.date, now, c.advanceDays),     "ErrDateTooFarInFuture"),
    Check(open,                                                "ErrCompanyClosed"),
    Check(~TooLateToBook(body.date, body.start, now, c.minNotice), "ErrTooLateToBook") >>
<1>1. DOMAIN checks = 1 .. 4
  OBVIOUS
<1>2. \A i \in DOMAIN checks : checks[i].err # "ok"
  BY DEF Check
<1>3. (\A i \in DOMAIN checks : checks[i].pass) <=>
         checks[1].pass /\ checks[2].pass /\ checks[3].pass /\ checks[4].pass
  BY <1>1
<1>4. /\ checks[1].pass <=> ~IsDateInPast(body.date, now)
      /\ checks[2].pass <=> ~DateTooFar(body.date, now, c.advanceDays)
      /\ checks[3].pass <=> open
      /\ checks[4].pass <=> ~TooLateToBook(body.date, body.start, now, c.minNotice)
  BY DEF Check
<1>5. RuleError(body, open, now, c) = FirstError(checks)
  BY DEF RuleError
<1> HIDE DEF checks
<1>6. DOMAIN checks \subseteq 1 .. 8
  BY <1>1
<1> QED
  BY <1>2, <1>3, <1>4, <1>5, <1>6, AllPass

-----------------------------------------------------------------------------
(* Midnights.                                                              *)

(* Whole days are apart by at least one day.                               *)
LEMMA DaysApart ==
    ASSUME NEW a \in Int, NEW b \in Int, a < b
    PROVE  a * MinutesPerDay + MinutesPerDay <= b * MinutesPerDay
<1>1. PICK d \in Nat : b = a + 1 + d
  <2>1. b - (a + 1) \in Nat /\ b = a + 1 + (b - (a + 1))
    OBVIOUS
  <2> QED
    BY <2>1
<1>2. MinutesPerDay \in Nat
  BY MinutesPerDayAssumption
<1>3. d * MinutesPerDay \in Nat
  BY <1>2
<1>4. b * MinutesPerDay = a * MinutesPerDay + MinutesPerDay + d * MinutesPerDay
  BY <1>1, <1>2
<1> QED
  BY <1>2, <1>3, <1>4

(* A date that validateDate lets through is today or later, in any zone,   *)
(* and no more days ahead than may be booked.                              *)
LEMMA DatesLetThrough ==
    ASSUME NEW date \in Nat, NEW now \in Moment, NEW advanceDays \in Nat
    PROVE  /\ ~IsDateInPast(date, now) => date >= now.day
           /\ ~DateTooFar(date, now, advanceDays) =>
                advanceDays = 0 \/ date - now.day <= advanceDays
<1>1. now.day \in Nat /\ MinutesPerDay \in Nat
  BY MinutesPerDayAssumption DEF Moment
<1>2. ASSUME ~(date >= now.day)
      PROVE  IsDateInPast(date, now)
  <2>1. date * MinutesPerDay + MinutesPerDay <= now.day * MinutesPerDay
    BY <1>1, <1>2, DaysApart
  <2>2. date * MinutesPerDay \in Nat /\ now.day * MinutesPerDay \in Nat
    BY <1>1
  <2> QED
    BY <1>1, <2>1, <2>2, ZoneOffsetAssumption DEF IsDateInPast, MidnightUTC, MidnightLocal
<1>3. ASSUME advanceDays # 0, ~(date - now.day <= advanceDays)
      PROVE  DateTooFar(date, now, advanceDays)
  <2>1. (now.day + advanceDays) * MinutesPerDay + MinutesPerDay <= date * MinutesPerDay
    BY <1>1, <1>3, DaysApart
  <2>2. date * MinutesPerDay \in Nat /\ (now.day + advanceDays) * MinutesPerDay \in Nat
    BY <1>1
  <2> QED
    BY <1>1, <1>3, <2>1, <2>2, ZoneOffsetAssumption DEF DateTooFar, MidnightUTC, MidnightLocal
<1> QED
  BY <1>2, <1>3

(* In UTC a date that is refused has passed, or is too many days ahead.    *)
LEMMA DatesRefused ==
    ASSUME NEW date \in Nat, NEW now \in Moment, NEW advanceDays \in Nat, ZoneOffset = 0
    PROVE  /\ IsDateInPast(date, now) => date < now.day
           /\ DateTooFar(date, now, advanceDays) =>
                advanceDays # 0 /\ date > now.day + advanceDays
<1>1. now.day \in Nat /\ MinutesPerDay \in Nat \ {0}
  BY MinutesPerDayAssumption DEF Moment
<1>2. \A a, b \in Nat : a * MinutesPerDay < b * MinutesPerDay => a < b
  <2> SUFFICES ASSUME NEW a \in Nat, NEW b \in Nat, ~(a < b)
               PROVE  ~(a * MinutesPerDay < b * MinutesPerDay)
    OBVIOUS
  <2>1. a = b \/ b < a
    OBVIOUS
  <2>2. a * MinutesPerDay \in Nat /\ b * MinutesPerDay \in Nat
    BY <1>1
  <2>3. b < a => b * MinutesPerDay + MinutesPerDay <= a * MinutesPerDay
    BY DaysApart
  <2> QED
    BY <1>1, <2>1, <2>2, <2>3
<1>3. IsDateInPast(date, now) => date < now.day
  <2>1. now.day * MinutesPerDay - ZoneOffset = now.day * MinutesPerDay
    BY <1>1
  <2> QED
    BY <1>1, <1>2, <2>1 DEF IsDateInPast, MidnightUTC, MidnightLocal
<1>4. DateTooFar(date, now, advanceDays) => advanceDays # 0 /\ date > now.day + advanceDays
  <2>1. (now.day + advanceDays) * MinutesPerDay - ZoneOffset = (now.day + advanceDays) * MinutesPerDay
    BY <1>1
  <2>2. now.day + advanceDays \in Nat
    BY <1>1
  <2> QED
    BY <1>1, <1>2, <2>1, <2>2 DEF DateTooFar, MidnightUTC, MidnightLocal
<1> QED
  BY <1>3, <1>4

(* What passes the rules starts no earlier than the notice after now, when *)
(* the notice ends before midnight.                                        *)
LEMMA NoticeKept ==
    ASSUME NEW date \in Nat, NEW start \in TimeString, NEW now \in Moment,
           NEW minNotice \in Nat, now.minute + minNotice < MinutesPerDay,
           date >= now.day, ~TooLateToBook(date, start, now, minNotice)
    PROVE  date * MinutesPerDay + start >= now.day * MinutesPerDay + now.minute + minNotice
<1>1. /\ now.day \in Nat /\ MinutesPerDay \in Nat \ {0} /\ now.minute \in Nat /\ start \in Nat
  BY MinutesPerDayAssumption DEF Moment, TimeString
<1> DEFINE midnight == date * MinutesPerDay
           today == now.day * MinutesPerDay
<1>2. midnight \in Nat /\ today \in Nat
  BY <1>1
<1>3. CASE date = now.day
  <2>1. AddMinutes(now.minute, minNotice) = now.minute + minNotice
    BY <1>1 DEF AddMinutes
  <2>2. start >= now.minute + minNotice
    BY <1>1, <1>3, <2>1 DEF TooLateToBook, IsSameDay, IsBefore
  <2>3. midnight = today
    BY <1>3
  <2> HIDE DEF midnight, today
  <2>4. midnight + start >= today + now.minute + minNotice
    BY <1>1, <1>2, <2>2, <2>3
  <2> QED
    BY <2>4 DEF midnight, today
<1>4. CASE date > now.day
  <2>1. now.day * MinutesPerDay + MinutesPerDay <= date * MinutesPerDay
    BY <1>1, <1>4, DaysApart
  <2> HIDE DEF midnight, today
  <2>2. midnight + start >= today + now.minute + minNotice
    BY <1>1, <1>2, <2>1 DEF midnight, today
  <2> QED
    BY <2>2 DEF midnight, today
<1>5. date = now.day \/ date > now.day
  BY <1>1
<1> QED
  BY <1>3, <1>4, <1>5

-----------------------------------------------------------------------------
(* The overlap test.                                                       *)

(* For intervals that end before midnight the test on wrapped times of day *)
(* sees every shared minute.                                               *)
LEMMA OverlapSeen ==
    ASSUME NEW s \in TimeString, NEW d \in Nat \ {0},
           NEW t \in TimeString, NEW e \in Nat \ {0},
           EndsSameDay(s, d), EndsSameDay(t, e), ShareMinute(s, d, t, e)
    PROVE  SlotOverlaps(s, d, t, e)
<1>1. PICK m \in Int : s <= m /\ m <= s + d - 1 /\ t <= m /\ m <= t + e - 1
  BY DEF ShareMinute, Minutes, TimeString
<1>2. (s + d) % MinutesPerDay = s + d /\ (t + e) % MinutesPerDay = t + e
  BY MinutesPerDayAssumption DEF EndsSameDay, TimeString
<1> QED
  BY <1>1, <1>2 DEF SlotOverlaps, IsBefore, IsAfter, AddMinutes, TimeString

(* Whatever wraps, intervals that the test takes to overlap do share a     *)
(* minute: nobody is refused for a booking that is not in the way.         *)
LEMMA OverlapTrue ==
    ASSUME NEW s \in TimeString, NEW d \in Nat \ {0},
           NEW t \in TimeString, NEW e \in Nat \ {0},
           SlotOverlaps(s, d, t, e)
    PROVE  ShareMinute(t, e, s, d)
<1>1. (s + d) % MinutesPerDay <= s + d /\ (t + e) % MinutesPerDay <= t + e
  <2> DEFINE x == s + d
             y == t + e
  <2>1. x \in Nat /\ y \in Nat
    BY DEF TimeString
  <2> HIDE DEF x, y
  <2>2. x % MinutesPerDay <= x /\ y % MinutesPerDay <= y
    BY <2>1, MinutesPerDayAssumption
  <2> QED
    BY <2>2 DEF x, y
<1>2. t < s + d /\ s < t + e
  <2>1. (s + d) % MinutesPerDay \in Int /\ (t + e) % MinutesPerDay \in Int
    BY MinutesPerDayAssumption DEF TimeString
  <2> QED
    BY <1>1, <2>1 DEF SlotOverlaps, IsBefore, IsAfter, AddMinutes, TimeString
<1>3. CASE s <= t
  <2>1. t \in Minutes(t, e) /\ t \in Minutes(s, d)
    BY <1>2, <1>3 DEF Minutes, TimeString
  <2> QED
    BY <2>1 DEF ShareMinute
<1>4. CASE t < s
  <2>1. s \in Minutes(t, e) /\ s \in Minutes(s, d)
    BY <1>2, <1>4 DEF Minutes, TimeString
  <2> QED
    BY <2>1 DEF ShareMinute
<1> QED
  BY <1>3, <1>4 DEF TimeString

-----------------------------------------------------------------------------
(* The lookup of a configuration.                                          *)

(* The hierarchy of levels always ends in a usable configuration: what the *)
(* lookup finds, or the default that Execute puts in its place.            *)
LEMMA EffectiveConfigType ==
    ASSUME NEW table \in ConfigTable, NEW a \in Addresses, NEW s \in Services
    PROVE  EffectiveConfig(table, a, s) \in SlotConfig
<1> DEFINE try == HierarchyFor(a, s)
           found == {i \in 1 .. 4 : table[try[i]] # NoConfig}
<1>1. \A i \in 1 .. 4 : try[i] \in Levels
  BY DEF HierarchyFor, Levels
<1>2. CASE found = {}
  BY <1>2, ConfigAssumption DEF EffectiveConfig, GetConfigWithHierarchy
<1>3. CASE found # {}
  <2>1. \E i \in found : \A j \in found : i <= j
    BY <1>3
  <2> DEFINE best == CHOOSE i \in found : \A j \in found : i <= j
  <2>2. best \in found
    BY <2>1
  <2>3. table[try[best]] \in SlotConfig
    BY <1>1, <2>2 DEF ConfigTable
  <2>4. GetConfigWithHierarchy(table, a, s) = table[try[best]]
    BY <1>3 DEF GetConfigWithHierarchy
  <2> QED
    BY <2>3, <2>4, ConfigAssumption DEF EffectiveConfig
<1> QED
  BY <1>2, <1>3

(* The first level that has a row decides.                                 *)
LEMMA MostSpecific ==
    ASSUME NEW table \in ConfigTable, NEW a, NEW s, NEW n \in 1 .. 4,
           table[HierarchyFor(a, s)[n]] # NoConfig,
           \A i \in 1 .. n - 1 : table[HierarchyFor(a, s)[i]] = NoConfig
    PROVE  EffectiveConfig(table, a, s) = table[HierarchyFor(a, s)[n]]
<1> DEFINE try == HierarchyFor(a, s)
           found == {i \in 1 .. 4 : table[try[i]] # NoConfig}
           best == CHOOSE i \in found : \A j \in found : i <= j
<1>1. n \in found /\ \A j \in found : n <= j
  OBVIOUS
<1>2. best = n
  <2>1. best \in found /\ \A j \in found : best <= j
    BY <1>1
  <2> QED
    BY <1>1, <2>1
<1>3. GetConfigWithHierarchy(table, a, s) = table[try[best]]
  BY <1>1 DEF GetConfigWithHierarchy
<1> QED
  BY <1>2, <1>3 DEF EffectiveConfig

(* Without any row the defaults apply.                                     *)
LEMMA NothingConfigured ==
    ASSUME NEW table \in ConfigTable, NEW a, NEW s,
           \A i \in 1 .. 4 : table[HierarchyFor(a, s)[i]] = NoConfig
    PROVE  EffectiveConfig(table, a, s) = DefaultConfig
BY DEF EffectiveConfig, GetConfigWithHierarchy
=============================================================================

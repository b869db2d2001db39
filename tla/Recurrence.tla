----------------------------- MODULE Recurrence ------------------------------
(***************************************************************************)
(* When a series comes back (backend/src/tasks/recurrence.ts, copied byte  *)
(* for byte in frontend core/recurrence.ts): the occurrence after the one  *)
(* that was settled, or skipped.                                           *)
(*                                                                         *)
(* A date is the number of days since the first of January of FirstYear, a *)
(* month its rank since that January.  The calendar is the real one.       *)
(***************************************************************************)
EXTENDS Integers, FiniteSets

CONSTANTS
    FirstYear,      \* first year of the calendar, a leap year for the instances
    FirstWeekday,   \* weekday of its first of January, Monday = 1
    HORIZON_DAYS,   \* 366 * 5 in the code
    Never           \* no date

ASSUME RecurrenceAssumption ==
    /\ FirstYear \in Nat
    /\ FirstWeekday \in 1..7
    /\ HORIZON_DAYS \in Nat
    /\ Never \notin Int

Day == Nat
year(k) == FirstYear + (k \div 12)
leap(y) == y % 4 = 0 /\ (y % 100 # 0 \/ y % 400 = 0)
leapYears(y) == (y \div 4) - (y \div 100) + (y \div 400)   \* those of 1..y

daysInMonth(k) ==
    LET m == (k % 12) + 1
    IN  CASE m = 2 -> IF leap(year(k)) THEN 29 ELSE 28
          [] m \in {4, 6, 9, 11} -> 30
          [] OTHER -> 31

\* the first day of a month: whole years, then the months since January
firstDay(k) ==
    365 * (k \div 12) + leapYears(year(k) - 1) - leapYears(FirstYear - 1)
      + <<0, 31, 59, 90, 120, 151, 181, 212, 243, 273, 304, 334>>[(k % 12) + 1]
      + IF k % 12 > 1 /\ leap(year(k)) THEN 1 ELSE 0

month(d) == CHOOSE k \in (d \div 31)..(d \div 28) : d \in firstDay(k)..(firstDay(k + 1) - 1)
dom(d) == d - firstDay(month(d)) + 1
weekdayOf(d) == ((d + FirstWeekday - 1) % 7) + 1
mondayOf(d) == d + 1 - weekdayOf(d)
lesser(a, b) == IF a <= b THEN a ELSE b
later(a, b) == IF a >= b THEN a ELSE b

\* same day n months later, or the last of that month
addMonthsClamped(d, n) ==
    LET k == month(d) + n
    IN  firstDay(k) + lesser(dom(d), daysInMonth(k)) - 1

\* A season is a pair of MM-DD, written 100 * MM + DD; <<>> when there is none.
monthDay(d) == 100 * ((month(d) % 12) + 1) + dom(d)
seasonHolds(season, md) ==
    IF season[1] <= season[2] THEN md \in season[1]..season[2]
    ELSE md >= season[1] \/ md <= season[2]
inSeason(season, d) == season = <<>> \/ seasonHolds(season, monthDay(d))

\* d itself when it is in season, otherwise the next start of the season
seasonStart(season, d) ==
    IF inSeason(season, d) THEN d
    ELSE LET at(y) == LET k == 12 * y + (season[1] \div 100) - 1
                      IN  firstDay(k) + lesser(season[1] % 100, daysInMonth(k)) - 1
             here == at(month(d) \div 12)
         IN  IF here > d THEN here ELSE at((month(d) \div 12) + 1)

(***************************************************************************)
(* A rule is [freq, every, days, base, until, season]: `days` the weekdays *)
(* of a weekly rule, `until` the last day of the series or Never.          *)
(***************************************************************************)
DayOfYear ==     \* those of a leap year
    {x \in 101..1231 : x % 100 \in 1..(IF x \div 100 = 2 THEN 29
                                       ELSE IF x \div 100 \in {4, 6, 9, 11} THEN 30 ELSE 31)}
RuleOK(rec) ==
    rec \in [freq : {"daily", "weekly", "monthly", "yearly"}, every : Nat \ {0},
             days : SUBSET (1..7), base : {"due", "done"}, until : Day \union {Never},
             season : {<<>>} \union (DayOfYear \X DayOfYear)]

\* does the rule fall on `day`, the series being anchored on `origin`?
matches(rec, origin, day) ==
    CASE rec.freq = "daily" -> (day - origin) % rec.every = 0
      [] rec.freq = "weekly" ->
            /\ weekdayOf(day) \in IF rec.days = {} THEN {weekdayOf(origin)} ELSE rec.days
            /\ ((mondayOf(day) - mondayOf(origin)) \div 7) % rec.every = 0
      [] OTHER ->
            LET step == IF rec.freq = "yearly" THEN 12 * rec.every ELSE rec.every
            IN  /\ (month(day) - month(origin)) % step = 0
                /\ dom(day) = lesser(dom(origin), daysInMonth(month(day)))

earliest(days) ==
    IF days = {} THEN Never ELSE CHOOSE d \in days : \A e \in days : d <= e

\* Mutant: the day itself is looked at
firstMatchFrom(rec, origin, after) ==
    earliest({d \in after..(after + HORIZON_DAYS) :
                 inSeason(rec.season, d) /\ matches(rec, origin, d)})

\* the first day of the rule strictly after `after`
firstMatchAfter(rec, origin, after) ==
    earliest({d \in (after + 1)..(after + HORIZON_DAYS) :
                 inSeason(rec.season, d) /\ matches(rec, origin, d)})

\* one step of the rhythm from d
stepFrom(d, rec) ==
    CASE rec.freq = "daily" -> d + rec.every
      [] rec.freq = "weekly" -> d + 7 * rec.every
      [] rec.freq = "monthly" -> addMonthsClamped(d, rec.every)
      [] OTHER -> addMonthsClamped(d, 12 * rec.every)

\* the series ends with its last day
noLaterThan(until, d) == IF until # Never /\ d # Never /\ d > until THEN Never ELSE d

\* the due date after the occurrence `due`, settled on the day `doneOn`
nextOccurrence(rec, due, doneOn) ==
    noLaterThan(rec.until,
                IF rec.base = "done" THEN seasonStart(rec.season, stepFrom(doneOn, rec))
                ELSE firstMatchAfter(rec, due, later(due, doneOn)))

\* the due date moved by one occurrence, not done
skipOccurrence(rec, due, today) ==
    nextOccurrence(rec, due, IF rec.base = "done" THEN later(due, today) ELSE due)
=============================================================================

-------------------------- MODULE TaskSeries_proofs --------------------------
(***************************************************************************)
(* TaskSeries, for any rules, any devices, any days and any bounds.        *)
(***************************************************************************)
EXTENDS TaskSeries, SequenceTheorems, WellFoundedInduction, TLAPS

-----------------------------------------------------------------------------
(***************************************************************************)
(* Induction, stated on sets of naturals.                                  *)
(***************************************************************************)

\* A nonempty set of naturals has a least element.
LEMMA Least ==
  ASSUME NEW T, T \subseteq Nat, T # {}
  PROVE  \E n \in T : \A k \in T : n <= k
<1> DEFINE R == OpToRel(<, Nat)
<1>1. IsWellFoundedOn(R, Nat)
  BY NatLessThanWellFounded
<1>2. \A i, j \in Nat : i < j => <<i, j>> \in R
  BY DEF OpToRel
<1> HIDE DEF R
<1>3. PICK n \in T : \A k \in T : <<k, n>> \notin R
  BY <1>1, WFMin
<1>4. ASSUME NEW k \in T PROVE n <= k
  <2>1. k \in Nat /\ n \in Nat
    OBVIOUS
  <2>2. ~(k < n)
    BY <1>2, <1>3, <2>1
  <2>3. QED
    BY <2>1, <2>2
<1>5. QED
  BY <1>4

\* What holds of 0, and of n + 1 when it holds of n, holds of every natural.
LEMMA Ups ==
  ASSUME NEW T, 0 \in T, \A n \in Nat : n \in T => n + 1 \in T
  PROVE  Nat \subseteq T
<1> SUFFICES ASSUME NEW m \in Nat, m \notin T PROVE FALSE
  OBVIOUS
<1> DEFINE Out == {k \in Nat : k \notin T}
<1>1. Out \subseteq Nat /\ Out # {}
  OBVIOUS
<1> HIDE DEF Out
<1>2. PICK n \in Out : \A k \in Out : n <= k
  BY <1>1, Least
<1> USE DEF Out
<1>3. n # 0 /\ n - 1 \in Nat
  BY <1>2
<1>4. n - 1 \in T
  BY <1>2, <1>3
<1>5. QED
  BY <1>2, <1>3, <1>4

-----------------------------------------------------------------------------
(***************************************************************************)
(* The calendar.                                                           *)
(***************************************************************************)

\* One leap year more, or not.
LEMMA LeapStep ==
  ASSUME NEW y \in Int
  PROVE  /\ leapYears(y) \in Int
         /\ leapYears(y) = leapYears(y - 1) + IF leap(y) THEN 1 ELSE 0
<1> DEFINE a == y \div 4          b == y \div 100          c == y \div 400
           p == (y - 1) \div 4    q == (y - 1) \div 100    r == (y - 1) \div 400
<1>1. a \in Int /\ b \in Int /\ c \in Int /\ p \in Int /\ q \in Int /\ r \in Int
  OBVIOUS
<1>2. /\ a - p = IF y % 4 = 0 THEN 1 ELSE 0
      /\ b - q = IF y % 100 = 0 THEN 1 ELSE 0
      /\ c - r = IF y % 400 = 0 THEN 1 ELSE 0
  OBVIOUS
<1>3. (y % 100 = 0 => y % 4 = 0) /\ (y % 400 = 0 => y % 100 = 0)
  OBVIOUS
<1>4. leapYears(y) = a - b + c /\ leapYears(y - 1) = p - q + r
  BY DEF leapYears
<1> HIDE DEF a, b, c, p, q, r
<1>5. QED
  BY <1>1, <1>2, <1>3, <1>4 DEF leap

\* Years and months of the next month.
LEMMA MonthStep ==
  ASSUME NEW k \in Nat
  PROVE  /\ k \div 12 \in Nat /\ k % 12 \in 0..11 /\ k = 12 * (k \div 12) + (k % 12)
         /\ k % 12 = 11 => (k + 1) \div 12 = (k \div 12) + 1 /\ (k + 1) % 12 = 0
         /\ k % 12 # 11 => (k + 1) \div 12 = (k \div 12) /\ (k + 1) % 12 = (k % 12) + 1
  OBVIOUS

\* The first days of the months are as far apart as the months are long.
LEMMA MonthsFollow ==
  ASSUME NEW k \in Nat
  PROVE  /\ firstDay(k) \in Int
         /\ daysInMonth(k) \in 28..31
         /\ firstDay(k + 1) = firstDay(k) + daysInMonth(k)
<1> USE RecurrenceAssumption
<1> DEFINE n == k \div 12    j == k % 12    y == FirstYear + n    b == leapYears(FirstYear - 1)
           Before(i) == <<0, 31, 59, 90, 120, 151, 181, 212, 243, 273, 304, 334>>[i + 1]
           days(i, l) == CASE i + 1 = 2 -> IF l THEN 29 ELSE 28
                           [] i + 1 \in {4, 6, 9, 11} -> 30
                           [] OTHER -> 31
<1>1. n \in Nat /\ j \in 0..11 /\ y \in Nat /\ b \in Int
  BY MonthStep, LeapStep
<1>2. leapYears(y) \in Int /\ leapYears(y - 1) \in Int
      /\ leapYears(y) = leapYears(y - 1) + IF leap(y) THEN 1 ELSE 0
  BY <1>1, LeapStep
<1>3. firstDay(k) = 365 * n + leapYears(y - 1) - b + Before(j)
                      + IF j > 1 /\ leap(y) THEN 1 ELSE 0
  BY DEF firstDay, year
<1>4. daysInMonth(k) = days(j, leap(y))
  BY DEF daysInMonth, year
<1>5. j = 11 => firstDay(k + 1) = 365 * (n + 1) + leapYears(y) - b
  <2> SUFFICES ASSUME j = 11 PROVE firstDay(k + 1) = 365 * (n + 1) + leapYears(y) - b
    OBVIOUS
  <2>1. (k + 1) \div 12 = n + 1 /\ (k + 1) % 12 = 0
    BY MonthStep
  <2>2. FirstYear + (n + 1) - 1 = y
    BY <1>1
  <2>3. QED
    BY <1>1, <1>2, <2>1, <2>2 DEF firstDay, year
<1>6. j # 11 => firstDay(k + 1) = 365 * n + leapYears(y - 1) - b + Before(j + 1)
                                    + IF j + 1 > 1 /\ leap(y) THEN 1 ELSE 0
  BY MonthStep DEF firstDay, year
<1>7. Before(0) = 0 /\ Before(1) = 31 /\ Before(2) = 59 /\ Before(3) = 90
      /\ Before(4) = 120 /\ Before(5) = 151 /\ Before(6) = 181 /\ Before(7) = 212
      /\ Before(8) = 243 /\ Before(9) = 273 /\ Before(10) = 304 /\ Before(11) = 334
  OBVIOUS
<1> HIDE DEF n, j, y, b, Before
<1>8. Before(j) \in Int /\ days(j, leap(y)) \in 28..31
  BY <1>1, <1>7
<1>9. firstDay(k) \in Int
  BY <1>1, <1>2, <1>3, <1>8
<1>10. firstDay(k + 1) = firstDay(k) + daysInMonth(k)
  <2>1. CASE j = 11
    BY <1>1, <1>2, <1>3, <1>4, <1>5, <1>7, <2>1
  <2>2. CASE j # 11
    BY <1>1, <1>2, <1>3, <1>4, <1>6, <1>7, <2>2
  <2>3. QED
    BY <2>1, <2>2
<1>11. QED
  BY <1>4, <1>8, <1>9, <1>10

\* The first month starts on day 0; a month is between 28 and 31 days long.
LEMMA MonthBounds ==
  ASSUME NEW k \in Nat
  PROVE  28 * k <= firstDay(k) /\ firstDay(k) <= 31 * k
<1> DEFINE N == {n \in Nat : 28 * n <= firstDay(n) /\ firstDay(n) <= 31 * n}
<1>1. 0 \in N
  <2>1. 0 \div 12 = 0 /\ 0 % 12 = 0 /\ FirstYear + 0 = FirstYear
    BY RecurrenceAssumption
  <2>2. leapYears(FirstYear - 1) \in Int
    BY LeapStep, RecurrenceAssumption
  <2>3. firstDay(0) = 0
    BY <2>1, <2>2 DEF firstDay, year
  <2>4. QED
    BY <2>3
<1>2. ASSUME NEW n \in Nat, n \in N PROVE n + 1 \in N
  <2>1. /\ firstDay(n) \in Int /\ daysInMonth(n) \in 28..31
        /\ firstDay(n + 1) = firstDay(n) + daysInMonth(n)
    BY MonthsFollow
  <2>2. QED
    BY <1>2, <2>1
<1> HIDE DEF N
<1>3. k \in N
  BY <1>1, <1>2, Ups
<1>4. QED
  BY <1>3 DEF N

\* Months follow one another.
LEMMA LaterMonth ==
  ASSUME NEW k \in Nat, NEW n \in Nat
  PROVE  firstDay(k + n) >= firstDay(k)
<1> DEFINE N == {i \in Nat : firstDay(k + i) >= firstDay(k)}
<1>1. 0 \in N
  BY MonthsFollow
<1>2. ASSUME NEW i \in Nat, i \in N PROVE i + 1 \in N
  <2>1. /\ k + i \in Nat /\ k + (i + 1) = (k + i) + 1
    OBVIOUS
  <2>2. /\ firstDay(k) \in Int /\ firstDay(k + i) \in Int /\ daysInMonth(k + i) \in 28..31
        /\ firstDay(k + (i + 1)) = firstDay(k + i) + daysInMonth(k + i)
    BY <2>1, MonthsFollow
  <2>3. QED
    BY <1>2, <2>2
<1> HIDE DEF N
<1>3. n \in N
  BY <1>1, <1>2, Ups
<1>4. QED
  BY <1>3 DEF N

\* Every day is in a month, and only in one.
LEMMA MonthOf ==
  ASSUME NEW d \in Day
  PROVE  /\ month(d) \in Nat
         /\ firstDay(month(d)) <= d /\ d < firstDay(month(d) + 1)
         /\ dom(d) \in 1..daysInMonth(month(d))
         /\ d = firstDay(month(d)) + dom(d) - 1
<1> DEFINE In(k) == k \in (d \div 31)..(d \div 28) /\ d \in firstDay(k)..(firstDay(k + 1) - 1)
           After == {k \in Nat : d < firstDay(k + 1)}
<1>1. d \in After
  <2>1. d \in Nat /\ d + 1 \in Nat /\ 28 * (d + 1) > d
    BY DEF Day
  <2>2. firstDay(d + 1) \in Int /\ 28 * (d + 1) <= firstDay(d + 1)
    BY <2>1, MonthsFollow, MonthBounds
  <2>3. QED
    BY <2>1, <2>2
<1>2. PICK k \in After : \A j \in After : k <= j
  <2>1. After \subseteq Nat /\ After # {}
    BY <1>1
  <2> HIDE DEF After
  <2>2. QED
    BY <2>1, Least
<1>3. k \in Nat /\ d \in Nat /\ firstDay(k) \in Int /\ firstDay(k + 1) \in Int
  BY <1>2, MonthsFollow DEF Day
<1>4. firstDay(k) <= d
  <2>1. CASE k = 0
    BY <1>3, <2>1, MonthBounds
  <2>2. CASE k # 0
    <3>1. k - 1 \in Nat /\ ~(k <= k - 1) /\ (k - 1) + 1 = k
      BY <1>3, <2>2
    <3>2. k - 1 \notin After
      BY <1>2, <3>1
    <3>3. QED
      BY <1>3, <3>1, <3>2
  <2>3. QED
    BY <2>1, <2>2
<1>5. d < firstDay(k + 1)
  BY <1>2
<1>6. 28 * k <= d /\ d < 31 * (k + 1)
  <2>1. 28 * k <= firstDay(k) /\ firstDay(k + 1) <= 31 * (k + 1)
    BY <1>3, MonthBounds
  <2>2. QED
    BY <1>3, <1>4, <1>5, <2>1
<1>7. k \in (d \div 31)..(d \div 28)
  BY <1>3, <1>6
<1>8. In(k)
  BY <1>3, <1>4, <1>5, <1>7
<1>9. In(month(d))
  BY <1>8 DEF month
<1> HIDE DEF After
<1>10. month(d) \in Nat
  BY <1>3, <1>9
<1>11. /\ firstDay(month(d)) \in Int /\ daysInMonth(month(d)) \in 28..31
       /\ firstDay(month(d) + 1) = firstDay(month(d)) + daysInMonth(month(d))
  BY <1>10, MonthsFollow
<1>12. QED
  BY <1>3, <1>9, <1>10, <1>11 DEF dom

\* The same day of a later month, or its last day, is later.
LEMMA MonthsAdded ==
  ASSUME NEW d \in Day, NEW n \in Nat
  PROVE  /\ addMonthsClamped(d, n) \in Day
         /\ n > 0 => addMonthsClamped(d, n) > d
<1> DEFINE m == month(d)    k == month(d) + n
<1>1. m \in Nat /\ k \in Nat /\ m + 1 \in Nat
  BY MonthOf
<1>2. /\ firstDay(m) \in Int /\ firstDay(k) \in Int /\ daysInMonth(k) \in 28..31
      /\ daysInMonth(m) \in 28..31 /\ firstDay(m + 1) \in Int
  BY <1>1, MonthsFollow
<1>3. dom(d) \in 1..31 /\ d < firstDay(m + 1) /\ d \in Nat
  <2>1. dom(d) \in 1..daysInMonth(m) /\ d < firstDay(m + 1)
    BY MonthOf
  <2> HIDE DEF m, k
  <2>2. QED
    BY <1>2, <2>1 DEF Day
<1>4. 28 * k <= firstDay(k)
  BY <1>1, MonthBounds
<1>5. n > 0 => firstDay(k) >= firstDay(m + 1)
  <2> SUFFICES ASSUME n > 0 PROVE firstDay(k) >= firstDay(m + 1)
    OBVIOUS
  <2>1. n - 1 \in Nat /\ (m + 1) + (n - 1) = k
    BY <1>1
  <2>2. QED
    BY <1>1, <2>1, LaterMonth
<1>6. addMonthsClamped(d, n) = firstDay(k) + lesser(dom(d), daysInMonth(k)) - 1
  BY DEF addMonthsClamped
<1> HIDE DEF m, k
<1>7. lesser(dom(d), daysInMonth(k)) \in 1..31
  BY <1>2, <1>3 DEF lesser
<1>8. QED
  BY <1>1, <1>2, <1>3, <1>4, <1>5, <1>6, <1>7 DEF Day

\* One step of the rhythm goes forward.
LEMMA StepLater ==
  ASSUME NEW r, RuleOK(r), NEW d \in Day
  PROVE  stepFrom(d, r) \in Day /\ stepFrom(d, r) > d
<1>1. r.every \in Nat \ {0} /\ r.freq \in {"daily", "weekly", "monthly", "yearly"}
  BY DEF RuleOK
<1>2. 12 * r.every \in Nat /\ 12 * r.every > 0 /\ r.every \in Nat /\ r.every > 0
  BY <1>1
<1>3. CASE r.freq \in {"daily", "weekly"}
  BY <1>1, <1>3 DEF stepFrom, Day
<1>4. CASE r.freq \in {"monthly", "yearly"}
  <2>1. addMonthsClamped(d, r.every) \in Day /\ addMonthsClamped(d, r.every) > d
    BY <1>2, MonthsAdded
  <2>2. addMonthsClamped(d, 12 * r.every) \in Day /\ addMonthsClamped(d, 12 * r.every) > d
    BY <1>2, MonthsAdded
  <2>3. QED
    BY <1>4, <2>1, <2>2 DEF stepFrom
<1>5. QED
  BY <1>1, <1>3, <1>4

\* The next start of a season is not before the day it is looked for from.
LEMMA SeasonLater ==
  ASSUME NEW r, RuleOK(r), NEW d \in Day
  PROVE  seasonStart(r.season, d) \in Day /\ seasonStart(r.season, d) >= d
<1> DEFINE md == r.season[1]
           mm == (md \div 100) - 1
           y == month(d) \div 12
           at(i) == firstDay(12 * i + (md \div 100) - 1)
                      + lesser(md % 100, daysInMonth(12 * i + (md \div 100) - 1)) - 1
<1>1. CASE inSeason(r.season, d)
  BY <1>1 DEF seasonStart, Day
<1>2. CASE ~inSeason(r.season, d)
  <2>1. r.season \in DayOfYear \X DayOfYear
    BY <1>2 DEF inSeason, RuleOK
  <2>2. md \in 101..1231 /\ md % 100 \in 1..31
    BY <2>1 DEF DayOfYear
  <2>3. mm \in 0..11 /\ (md \div 100) \in Int
    BY <2>2
  <2>4. month(d) \in Nat /\ d \in Nat /\ d < firstDay(month(d) + 1)
    BY MonthOf DEF Day
  <2>5. y \in Nat /\ month(d) < 12 * (y + 1)
    BY <2>4
  <2> DEFINE f == md % 100
  <2> HIDE DEF mm, y, f
  <2>6. ASSUME NEW i \in Nat
        PROVE  at(i) \in Nat /\ at(i) >= firstDay(12 * i + mm)
    <3>1. 12 * i + mm \in Nat /\ 12 * i + (md \div 100) - 1 = 12 * i + mm
      BY <2>3 DEF mm
    <3>2. firstDay(12 * i + mm) \in Nat /\ daysInMonth(12 * i + mm) \in 28..31
      <4>1. /\ firstDay(12 * i + mm) \in Int /\ daysInMonth(12 * i + mm) \in 28..31
            /\ 28 * (12 * i + mm) <= firstDay(12 * i + mm)
        BY <3>1, MonthsFollow, MonthBounds
      <4>2. QED
        BY <3>1, <4>1
    <3>3. lesser(md % 100, daysInMonth(12 * i + mm)) \in 1..31
      BY <2>2, <3>2 DEF lesser
    <3>4. at(i) = firstDay(12 * i + mm) + lesser(md % 100, daysInMonth(12 * i + mm)) - 1
      BY <3>1
    <3> HIDE DEF at
    <3>5. QED
      BY <3>2, <3>3, <3>4
  <2>7. seasonStart(r.season, d) = IF at(y) > d THEN at(y) ELSE at(y + 1)
    BY <1>2 DEF seasonStart, y
  <2> HIDE DEF at
  <2>8. at(y + 1) >= d
    <3>1. /\ 12 * (y + 1) + mm \in Nat /\ month(d) + 1 \in Nat
          /\ 12 * (y + 1) + mm - (month(d) + 1) \in Nat
          /\ (month(d) + 1) + (12 * (y + 1) + mm - (month(d) + 1)) = 12 * (y + 1) + mm
      BY <2>3, <2>4, <2>5
    <3>2. firstDay(12 * (y + 1) + mm) >= firstDay(month(d) + 1)
      BY <3>1, LaterMonth
    <3>3. firstDay(12 * (y + 1) + mm) \in Int /\ firstDay(month(d) + 1) \in Int
      BY <3>1, MonthsFollow
    <3>4. at(y + 1) \in Nat /\ at(y + 1) >= firstDay(12 * (y + 1) + mm)
      BY <2>5, <2>6
    <3>5. QED
      BY <2>4, <3>2, <3>3, <3>4
  <2>9. at(y) \in Nat /\ at(y + 1) \in Nat
    BY <2>5, <2>6
  <2>10. QED
    BY <2>4, <2>7, <2>8, <2>9 DEF Day
<1>3. QED
  BY <1>1, <1>2

\* The earliest of some days is one of them.
LEMMA EarliestOf ==
  ASSUME NEW T, T \subseteq Day
  PROVE  earliest(T) = Never \/ (earliest(T) \in T /\ \A k \in T : earliest(T) <= k)
<1>1. CASE T = {}
  BY <1>1 DEF earliest
<1>2. CASE T # {}
  <2>1. \E n \in T : \A k \in T : n <= k
    BY <1>2, Least DEF Day
  <2>2. QED
    BY <1>2, <2>1 DEF earliest
<1>3. QED
  BY <1>1, <1>2

\* The date that follows is a date, later than the day the occurrence was
\* settled, and at a fixed date later than the occurrence.
THEOREM NextIsLater ==
  ASSUME NEW r, RuleOK(r), NEW due \in Day, NEW doneOn \in Day
  PROVE  LET next == nextOccurrence(r, due, doneOn)
         IN  \/ next = Never
             \/ next \in Day /\ next > doneOn /\ (r.base = "due" => next > due)
<1> DEFINE from == later(due, doneOn)
           days == {x \in (from + 1)..(from + HORIZON_DAYS) :
                       inSeason(r.season, x) /\ matches(r, due, x)}
           n == IF r.base = "done" THEN seasonStart(r.season, stepFrom(doneOn, r))
                ELSE firstMatchAfter(r, due, from)
<1>1. due \in Nat /\ doneOn \in Nat /\ from \in Nat /\ from >= due /\ from >= doneOn
  BY DEF Day, later
<1>2. n = Never \/ (n \in Day /\ n > doneOn /\ (r.base = "due" => n > due))
  <2>1. CASE r.base = "done"
    <3>1. stepFrom(doneOn, r) \in Day /\ stepFrom(doneOn, r) > doneOn
      BY StepLater
    <3>2. /\ seasonStart(r.season, stepFrom(doneOn, r)) \in Day
          /\ seasonStart(r.season, stepFrom(doneOn, r)) >= stepFrom(doneOn, r)
      BY <3>1, SeasonLater
    <3>3. QED
      BY <1>1, <2>1, <3>1, <3>2 DEF Day
  <2>2. CASE r.base # "done"
    <3> HIDE DEF from
    <3>1. days \subseteq Day /\ \A x \in days : x > from
      BY <1>1, RecurrenceAssumption DEF Day
    <3>2. n = earliest(days)
      BY <2>2 DEF firstMatchAfter
    <3> HIDE DEF days, n
    <3>3. n = Never \/ n \in days
      BY <3>1, <3>2, EarliestOf
    <3>4. ASSUME n \in days  PROVE n \in Day /\ n > doneOn /\ n > due
      <4>1. n \in Nat /\ n > from
        BY <3>1, <3>4 DEF Day
      <4>2. QED
        BY <1>1, <4>1 DEF Day
    <3>5. QED
      BY <3>3, <3>4
  <2>3. QED
    BY <2>1, <2>2
<1>3. nextOccurrence(r, due, doneOn) = noLaterThan(r.until, n)
  BY DEF nextOccurrence
<1> HIDE DEF n
<1>4. QED
  BY <1>2, <1>3 DEF noLaterThan

\* A day is in the month it is counted from.
LEMMA MonthIs ==
  ASSUME NEW k \in Nat, NEW m \in 1..daysInMonth(k)
  PROVE  /\ firstDay(k) + m - 1 \in Day
         /\ month(firstDay(k) + m - 1) = k /\ dom(firstDay(k) + m - 1) = m
<1> DEFINE d == firstDay(k) + m - 1
           l == month(d)
<1>1. /\ firstDay(k) \in Int /\ daysInMonth(k) \in 28..31 /\ 28 * k <= firstDay(k)
      /\ firstDay(k + 1) = firstDay(k) + daysInMonth(k)
  BY MonthsFollow, MonthBounds
<1>2. d \in Nat /\ firstDay(k) <= d /\ d < firstDay(k + 1)
  BY <1>1
<1>3. d \in Day
  BY <1>2 DEF Day
<1> HIDE DEF d
<1>4. /\ l \in Nat /\ firstDay(l) <= d /\ d < firstDay(l + 1)
      /\ d = firstDay(l) + dom(d) - 1 /\ dom(d) \in 1..daysInMonth(l)
  BY <1>3, MonthOf
<1> HIDE DEF l
<1>5. /\ firstDay(l) \in Int /\ firstDay(l + 1) \in Int /\ firstDay(k + 1) \in Int
      /\ daysInMonth(l) \in 28..31
  BY <1>4, MonthsFollow
<1>6. CASE l < k
  <2>1. k - (l + 1) \in Nat /\ (l + 1) + (k - (l + 1)) = k /\ l + 1 \in Nat
    BY <1>4, <1>6
  <2>2. firstDay(k) >= firstDay(l + 1)
    BY <2>1, LaterMonth
  <2>3. QED
    BY <1>1, <1>2, <1>4, <1>5, <2>2
<1>7. CASE k < l
  <2>1. l - (k + 1) \in Nat /\ (k + 1) + (l - (k + 1)) = l /\ k + 1 \in Nat
    BY <1>4, <1>7
  <2>2. firstDay(l) >= firstDay(k + 1)
    BY <2>1, LaterMonth
  <2>3. QED
    BY <1>1, <1>2, <1>4, <1>5, <2>2
<1>8. CASE l = k
  <2>1. dom(d) = m
    BY <1>1, <1>4, <1>5, <1>8 DEF d
  <2>2. QED
    BY <1>3, <1>8, <2>1 DEF d, l
<1>9. QED
  BY <1>4, <1>6, <1>7, <1>8

\* Later days are in the same month or in later ones.
LEMMA MonthsRise ==
  ASSUME NEW d \in Day, NEW e \in Day, d <= e
  PROVE  month(d) <= month(e)
<1> DEFINE k == month(d)    l == month(e)
<1>1. /\ k \in Nat /\ l \in Nat /\ d \in Nat /\ e \in Nat
      /\ firstDay(k) <= d /\ e < firstDay(l + 1)
  BY MonthOf DEF Day
<1> HIDE DEF k, l
<1>2. CASE l < k
  <2>1. k - (l + 1) \in Nat /\ (l + 1) + (k - (l + 1)) = k /\ l + 1 \in Nat
    BY <1>1, <1>2
  <2>2. firstDay(k) >= firstDay(l + 1) /\ firstDay(k) \in Int /\ firstDay(l + 1) \in Int
    BY <1>1, <2>1, LaterMonth, MonthsFollow
  <2>3. QED
    BY <1>1, <2>2
<1>3. QED
  BY <1>1, <1>2 DEF k, l

\* Multiples, as remainders: n goes into x, and no more often than x.
LEMMA Multiple ==
  ASSUME NEW x \in Nat, NEW n \in Nat \ {0}
  PROVE  x % n = 0 <=> \E i \in 0..x : x = i * n
<1>1. ASSUME x % n = 0 PROVE \E i \in 0..x : x = i * n
  <2> DEFINE q == x \div n
  <2>1. x = n * q + (x % n) /\ q \in Int
    OBVIOUS
  <2> HIDE DEF q
  <2>2. x = q * n
    BY <1>1, <2>1
  <2>3. q >= 0
    BY <2>1, <2>2
  <2>4. q <= q * n
    BY <2>1, <2>3
  <2>5. QED
    BY <2>1, <2>2, <2>3, <2>4
<1>2. ASSUME NEW i \in 0..x, x = i * n PROVE x % n = 0
  <2>1. (n * i) % n = 0
    OBVIOUS
  <2>2. n * i = i * n
    OBVIOUS
  <2>3. QED
    BY <1>2, <2>1, <2>2
<1>3. QED
  BY <1>1, <1>2

\* i steps of the rhythm at once.
LEMMA StepsFromDue ==
  ASSUME NEW r, RuleOK(r), NEW due, NEW i
  PROVE  steps(r, due, i) =
           CASE r.freq = "daily" -> due + i * r.every
             [] r.freq = "weekly" -> due + 7 * (i * r.every)
             [] r.freq = "monthly" -> addMonthsClamped(due, i * r.every)
             [] OTHER -> addMonthsClamped(due, 12 * (i * r.every))
BY DEF steps, stepFrom, RuleOK

\* A rule of days falls on the days it is unrolled to.
LEMMA DailyUnrolled ==
  ASSUME NEW r, RuleOK(r), r.freq = "daily", NEW due \in Day, NEW to \in Day,
         NEW d \in Day, due < d, d <= to
  PROVE  matches(r, due, d) <=> d \in RuleDays(r, due, to)
<1> DEFINE x == d - due
<1>0. \A i : steps(r, due, i) = due + i * r.every
  BY StepsFromDue
<1>1. r.every \in Nat \ {0} /\ due \in Nat /\ d \in Nat /\ to \in Nat /\ x \in Nat
  BY DEF RuleOK, Day
<1>2. matches(r, due, d) <=> x % r.every = 0
  BY DEF matches
<1>3. RuleDays(r, due, to) = {due + i * r.every : i \in 0..(to - due)}
  BY <1>0 DEF RuleDays
<1>4. \A i \in Int : d = due + i * r.every <=> x = i * r.every
  BY <1>1
<1>5. ASSUME NEW i \in Int, x = i * r.every PROVE i \in 0..x
  BY <1>1, <1>5
<1>6. 0..x \subseteq 0..(to - due) /\ 0..(to - due) \subseteq Int
  BY <1>1
<1>7. x % r.every = 0 <=> \E i \in 0..x : x = i * r.every
  BY <1>1, Multiple
<1> HIDE DEF x
<1>8. QED
  BY <1>2, <1>3, <1>4, <1>5, <1>6, <1>7

\* Days of the week.
LEMMA Weeks ==
  ASSUME NEW a \in Int, NEW b \in Int
  PROVE  /\ weekdayOf(a) \in 1..7
         /\ mondayOf(b) - mondayOf(a) = 7 * ((mondayOf(b) - mondayOf(a)) \div 7)
         /\ weekdayOf(a) = weekdayOf(b) => mondayOf(b) - mondayOf(a) = b - a
         /\ \A j \in Int : b = a + 7 * j => weekdayOf(b) = weekdayOf(a)
         /\ b = mondayOf(b) + weekdayOf(b) - 1
         /\ a < b => mondayOf(a) <= mondayOf(b)
         /\ mondayOf(b) <= b /\ mondayOf(a) >= a - 6
<1>1. FirstWeekday \in 1..7
  BY RecurrenceAssumption
<1>2. QED
  BY <1>1 DEF weekdayOf, mondayOf

\* A weekday of a week.
LEMMA DayOfWeek ==
  ASSUME NEW a \in Int, NEW j \in Int, NEW wd \in 1..7,
         NEW b, b = mondayOf(a) + 7 * j + wd - 1
  PROVE  weekdayOf(b) = wd /\ mondayOf(b) = mondayOf(a) + 7 * j
<1>1. FirstWeekday \in 1..7
  BY RecurrenceAssumption
<1>2. QED
  BY <1>1 DEF weekdayOf, mondayOf

\* A rule of weeks falls on the days it is unrolled to.
LEMMA WeeklyUnrolled ==
  ASSUME NEW r, RuleOK(r), r.freq = "weekly", NEW due \in Day, NEW to \in Day,
         NEW d \in Day, due < d, d <= to
  PROVE  matches(r, due, d) <=> d \in RuleDays(r, due, to)
<1> DEFINE x == (mondayOf(d) - mondayOf(due)) \div 7
<1>1. /\ r.every \in Nat \ {0} /\ r.days \subseteq 1..7
      /\ due \in Int /\ d \in Int /\ to \in Int
  BY DEF RuleOK, Day
<1>2. mondayOf(d) - mondayOf(due) = 7 * x
  BY <1>1, Weeks
<1>3. /\ mondayOf(due) \in Int /\ mondayOf(due) >= due - 6
      /\ mondayOf(d) \in Int /\ mondayOf(d) <= d /\ mondayOf(due) <= mondayOf(d)
      /\ d = mondayOf(d) + weekdayOf(d) - 1 /\ weekdayOf(d) \in 1..7
      /\ weekdayOf(due) \in 1..7
  <2>1. mondayOf(due) \in Int /\ mondayOf(d) \in Int
    <3>1. weekdayOf(due) \in 1..7 /\ weekdayOf(d) \in 1..7
      BY <1>1, Weeks
    <3>2. QED
      BY <1>1, <3>1 DEF mondayOf
  <2>2. QED
    BY <1>1, <2>1, Weeks
<1>4. matches(r, due, d) <=> /\ weekdayOf(d) \in IF r.days = {} THEN {weekdayOf(due)} ELSE r.days
                             /\ x % r.every = 0
  BY DEF matches
<1> HIDE DEF x
<1>5. x \in Int
  <2>1. (mondayOf(d) - mondayOf(due)) \div 7 \in Int
    BY <1>3
  <2>2. QED
    BY <2>1 DEF x
<1>6. x \in Nat /\ x <= to - due
  BY <1>1, <1>2, <1>3, <1>5
<1>7. x % r.every = 0 <=> \E i \in 0..x : x = i * r.every
  BY <1>1, <1>6, Multiple
<1>8. ASSUME NEW i \in Int, x = i * r.every PROVE i \in 0..x
  BY <1>1, <1>6, <1>8
<1>9. 0..x \subseteq 0..(to - due) /\ 0..(to - due) \subseteq Int
  BY <1>1, <1>6
<1>10. x % r.every = 0 <=> \E i \in 0..(to - due) : x = i * r.every
  BY <1>7, <1>8, <1>9
<1>11. \A i \in Int : i * r.every \in Int
  BY <1>1
<1>12. CASE r.days = {}
  <2>1. \A i : steps(r, due, i) = due + 7 * (i * r.every)
    BY StepsFromDue
  <2>2. RuleDays(r, due, to) = {due + 7 * (i * r.every) : i \in 0..(to - due)}
    BY <1>12, <2>1 DEF RuleDays
  <2>3. ASSUME NEW i \in Int
        PROVE  d = due + 7 * (i * r.every) <=> weekdayOf(d) = weekdayOf(due) /\ x = i * r.every
    <3> DEFINE j == i * r.every
    <3>1. j \in Int
      BY <1>11
    <3> HIDE DEF j
    <3>2. d = due + 7 * j => weekdayOf(d) = weekdayOf(due)
      BY <1>1, <3>1, Weeks
    <3>3. weekdayOf(d) = weekdayOf(due) => 7 * x = d - due
      BY <1>1, <1>2, Weeks
    <3>4. d = due + 7 * j <=> weekdayOf(d) = weekdayOf(due) /\ x = j
      BY <1>1, <1>5, <3>1, <3>2, <3>3
    <3>5. QED
      BY <3>4 DEF j
  <2>4. QED
    BY <1>4, <1>9, <1>10, <1>12, <2>2, <2>3
<1>13. CASE r.days # {}
  <2>1. RuleDays(r, due, to)
          = {mondayOf(due) + 7 * (i * r.every) + wd - 1 : i \in 0..(to - due), wd \in r.days}
    BY <1>13 DEF RuleDays
  <2>2. ASSUME NEW i \in Int, NEW wd \in r.days
        PROVE  d = mondayOf(due) + 7 * (i * r.every) + wd - 1
                 <=> weekdayOf(d) = wd /\ x = i * r.every
    <3> DEFINE j == i * r.every
    <3>1. j \in Int /\ wd \in 1..7
      BY <1>1, <1>11
    <3> HIDE DEF j
    <3>2. d = mondayOf(due) + 7 * j + wd - 1 =>
            weekdayOf(d) = wd /\ mondayOf(d) = mondayOf(due) + 7 * j
      BY <1>1, <3>1, DayOfWeek
    <3>3. d = mondayOf(due) + 7 * j + wd - 1 <=> weekdayOf(d) = wd /\ x = j
      BY <1>2, <1>3, <1>5, <3>1, <3>2
    <3>4. QED
      BY <3>3 DEF j
  <2>3. d \in RuleDays(r, due, to)
          <=> \E i \in 0..(to - due), wd \in r.days : weekdayOf(d) = wd /\ x = i * r.every
    BY <1>9, <2>1, <2>2
  <2>4. QED
    BY <1>4, <1>10, <1>13, <2>3
<1>14. QED
  BY <1>12, <1>13

\* A day that follows by months is the one of its month the anchor falls on.
LEMMA MonthsUnrolled ==
  ASSUME NEW due \in Day, NEW d \in Day, NEW n \in Nat
  PROVE  d = addMonthsClamped(due, n)
           <=> month(d) - month(due) = n /\ dom(d) = lesser(dom(due), daysInMonth(month(d)))
<1> DEFINE k == month(due) + n
           m == lesser(dom(due), daysInMonth(k))
<1>1. month(due) \in Nat /\ dom(due) \in 1..daysInMonth(month(due)) /\ month(d) \in Nat
      /\ d = firstDay(month(d)) + dom(d) - 1
  BY MonthOf
<1>2. k \in Nat
  BY <1>1
<1>3. daysInMonth(k) \in 28..31 /\ daysInMonth(month(due)) \in 28..31
  BY <1>1, <1>2, MonthsFollow
<1>4. m \in 1..daysInMonth(k)
  BY <1>1, <1>3 DEF lesser
<1>5. addMonthsClamped(due, n) = firstDay(k) + m - 1
  BY DEF addMonthsClamped
<1> HIDE DEF m
<1>6. month(firstDay(k) + m - 1) = k /\ dom(firstDay(k) + m - 1) = m
  BY <1>2, <1>4, MonthIs
<1>7. month(d) - month(due) = n <=> month(d) = k
  BY <1>1
<1> HIDE DEF k
<1>8. d = firstDay(k) + m - 1 <=> month(d) = k /\ dom(d) = m
  BY <1>1, <1>6
<1>9. QED
  BY <1>5, <1>7, <1>8 DEF m

\* A rule of months or years falls on the days it is unrolled to.
LEMMA MonthlyUnrolled ==
  ASSUME NEW r, RuleOK(r), r.freq \in {"monthly", "yearly"}, NEW due \in Day, NEW to \in Day,
         NEW d \in Day, due < d, d <= to
  PROVE  matches(r, due, d) <=> d \in RuleDays(r, due, to)
<1> DEFINE step == IF r.freq = "yearly" THEN 12 * r.every ELSE r.every
           x == month(d) - month(due)
           n == month(to) - month(due)
           clamped == dom(d) = lesser(dom(due), daysInMonth(month(d)))
<1>1. r.every \in Nat \ {0} /\ due \in Nat /\ d \in Nat /\ to \in Nat /\ due <= d
  BY DEF RuleOK, Day
<1>2. step \in Nat \ {0}
  BY <1>1
<1>3. x \in Nat /\ x <= n /\ n \in Nat
  BY <1>1, MonthOf, MonthsRise
<1>4. matches(r, due, d) <=> x % step = 0 /\ clamped
  BY DEF matches
<1>5. \A i \in Nat : steps(r, due, i) = addMonthsClamped(due, i * step)
  <2>1. \A i \in Nat : 12 * (i * r.every) = i * (12 * r.every)
    BY <1>1
  <2>2. QED
    BY <2>1, StepsFromDue
<1>6. RuleDays(r, due, to) = {addMonthsClamped(due, i * step) : i \in 0..n}
  <2>1. RuleDays(r, due, to) = {steps(r, due, i) : i \in 0..n}
    BY DEF RuleDays
  <2>2. 0..n \subseteq Nat
    BY <1>3
  <2> HIDE DEF n, step
  <2>3. QED
    BY <1>5, <2>1, <2>2
<1> HIDE DEF step
<1>7. \A i \in Nat : i * step \in Nat
  BY <1>2
<1>8. \A i \in Nat : d = addMonthsClamped(due, i * step) <=> x = i * step /\ clamped
  BY <1>7, MonthsUnrolled
<1> HIDE DEF x, n, clamped
<1>9. x % step = 0 <=> \E i \in 0..x : x = i * step
  BY <1>2, <1>3, Multiple
<1>10. ASSUME NEW i \in Nat, x = i * step PROVE i \in 0..x
  BY <1>2, <1>3, <1>10
<1>11. 0..x \subseteq 0..n /\ 0..n \subseteq Nat
  BY <1>3
<1>12. QED
  BY <1>4, <1>6, <1>8, <1>9, <1>10, <1>11

\* The days of a rule, found one by one or unrolled from its anchor, are the
\* same ones: for every rule, every anchor and every day after it.
THEOREM RuleUnrolled ==
  ASSUME NEW r, RuleOK(r), NEW due \in Day, NEW to \in Day, NEW d \in Day, due < d, d <= to
  PROVE  matches(r, due, d) <=> d \in RuleDays(r, due, to)
<1>1. r.freq \in {"daily", "weekly", "monthly", "yearly"}
  BY DEF RuleOK
<1>2. QED
  BY <1>1, DailyUnrolled, WeeklyUnrolled, MonthlyUnrolled

\* The start of a season is in it, but on the 28th of February of a season that
\* starts on the 29th.
LEMMA SeasonOpens ==
  ASSUME NEW r, RuleOK(r), NEW d \in Day
  PROVE  LET e == seasonStart(r.season, d)
         IN  inSeason(r.season, e) \/ OpensShort(r.season, e)
<1> DEFINE md == r.season[1]
           mm == (md \div 100) - 1
           y == month(d) \div 12
           at(i) == firstDay(12 * i + (md \div 100) - 1)
                      + lesser(md % 100, daysInMonth(12 * i + (md \div 100) - 1)) - 1
<1>1. CASE inSeason(r.season, d)
  BY <1>1 DEF seasonStart
<1>2. CASE ~inSeason(r.season, d)
  <2>0. r.season # <<>>
    BY <1>2 DEF inSeason
  <2>1. r.season \in DayOfYear \X DayOfYear
    BY <2>0 DEF RuleOK
  <2>2. md \in 101..1231 /\ md % 100 \in 1..31
    BY <2>1 DEF DayOfYear
  <2>3. mm \in 0..11 /\ (md \div 100) \in Int /\ md = 100 * (mm + 1) + (md % 100)
    BY <2>2
  <2>4. y \in Nat
    BY MonthOf
  <2>5. seasonStart(r.season, d) = IF at(y) > d THEN at(y) ELSE at(y + 1)
    BY <1>2 DEF seasonStart, y
  <2> DEFINE f == md % 100
  <2> HIDE DEF mm, y, f
  <2>6. ASSUME NEW i \in Nat
        PROVE  inSeason(r.season, at(i)) \/ OpensShort(r.season, at(i))
    <3> DEFINE k == 12 * i + mm
               m == lesser(f, daysInMonth(k))
               e == firstDay(k) + m - 1
    <3>1. k \in Nat /\ k % 12 = mm /\ 12 * i + (md \div 100) - 1 = k
      BY <2>3 DEF mm
    <3>2. at(i) = e
      BY <3>1 DEF f
    <3>3. daysInMonth(k) \in 28..31
      BY <3>1, MonthsFollow
    <3>4. f \in 1..31
      BY <2>2 DEF f
    <3>5. m \in 1..daysInMonth(k) /\ (m = f \/ (m = daysInMonth(k) /\ m < f))
      BY <3>3, <3>4 DEF lesser
    <3> HIDE DEF k, m
    <3>6. month(e) = k /\ dom(e) = m
      BY <3>1, <3>5, MonthIs
    <3> HIDE DEF e
    <3>7. CASE m = f
      <4>1. monthDay(e) = md
        BY <2>3, <3>1, <3>6, <3>7 DEF monthDay, f
      <4>2. r.season[2] \in 101..1231
        BY <2>1 DEF DayOfYear
      <4>3. seasonHolds(r.season, md)
        BY <2>2, <4>2 DEF seasonHolds
      <4>4. inSeason(r.season, e)
        BY <4>1, <4>3 DEF inSeason
      <4>5. QED
        BY <3>2, <4>4
    <3>8. CASE m = daysInMonth(k) /\ m < f
      <4>1. (month(e) % 12) + 1 = md \div 100
        BY <2>3, <3>1, <3>6 DEF mm
      <4>2. OpensShort(r.season, e)
        BY <2>0, <3>6, <3>8, <4>1 DEF OpensShort, f
      <4>3. QED
        BY <3>2, <4>2
    <3>9. QED
      BY <3>5, <3>7, <3>8
  <2> HIDE DEF at
  <2>7. y + 1 \in Nat
    BY <2>4
  <2>8. QED
    BY <2>4, <2>5, <2>6, <2>7
<1>3. QED
  BY <1>1, <1>2

-----------------------------------------------------------------------------
(***************************************************************************)
(* Folds.  FoldLeft is a function of the set of the places it has gone     *)
(* through: Table(g, b, q, F) says that g is that function, for a step     *)
(* given by F.                                                             *)
(***************************************************************************)
Table(g, b, q, F) ==
    g = [s \in SUBSET DOMAIN q |-> IF s = {} THEN b ELSE F[<<g[s \ {Max(s)}], q[Max(s)]>>]]

\* ... and that its steps are all taken from S, on operations of T.
StepsFrom(g, q, S, T) ==
    \A s \in SUBSET DOMAIN q : s # {} => g[s \ {Max(s)}] \in S /\ q[Max(s)] \in T

\* The last place of those up to n is n.
LEMMA MaxUpTo ==
  ASSUME NEW n \in Nat, NEW s, s \subseteq 1..n, n \in s
  PROVE  Max(s) = n
<1>1. \A y \in s : n >= y
  OBVIOUS
<1>2. \A x \in s : (\A y \in s : x >= y) => x = n
  OBVIOUS
<1>3. QED
  BY <1>1, <1>2 DEF Max

\* Any nonempty set of places has a last one.
LEMMA MaxIn ==
  ASSUME NEW n \in Nat, NEW s, s \subseteq 1..n, s # {}
  PROVE  Max(s) \in s
<1> DEFINE T == {n - x : x \in s}
<1>0. \A x \in s : x \in Int /\ x <= n
  OBVIOUS
<1>1. T \subseteq Nat /\ T # {}
  <2>1. \A x \in s : n - x \in Nat
    BY <1>0
  <2>2. T \subseteq Nat
    BY <2>1
  <2>3. T # {}
    BY Zenon
  <2>4. QED
    BY <2>2, <2>3
<1> HIDE DEF T
<1>2. PICK m \in T : \A k \in T : m <= k
  BY <1>1, Least
<1> USE DEF T
<1>3. PICK x \in s : m = n - x
  BY <1>2
<1>4. \A y \in s : x >= y
  <2>1. ASSUME NEW y \in s PROVE x >= y
    <3>1. m <= n - y
      BY <1>2
    <3> HIDE DEF T
    <3>2. x \in Int /\ y \in Int
      BY <1>0
    <3>3. QED
      BY <1>3, <3>1, <3>2
  <2>2. QED
    BY <2>1
<1>5. QED
  BY <1>4 DEF Max

\* A fold is defined: its table exists, whatever the step from S to S, and the
\* step is only taken from S.
LEMMA TableExists ==
  ASSUME NEW S, NEW T, NEW F \in [S \X T -> S], NEW q \in Seq(T), NEW b \in S
  PROVE  \E g : Table(g, b, q, F) /\ StepsFrom(g, q, S, T)
<1> DEFINE Upto(n, g) ==
      /\ g \in [SUBSET (1..n) -> S]
      /\ \A s \in SUBSET (1..n) :
            g[s] = IF s = {} THEN b ELSE F[<<g[s \ {Max(s)}], q[Max(s)]>>]
           N == {n \in Nat : n <= Len(q) => \E g : Upto(n, g)}
<1>0. Len(q) \in Nat
  OBVIOUS
<1>1. 0 \in N
  <2>1. SUBSET (1..0) = {{}}
    OBVIOUS
  <2>2. Upto(0, [s \in SUBSET (1..0) |-> b])
    BY <2>1
  <2> HIDE DEF Upto
  <2>3. \E g : Upto(0, g)
    BY <2>2
  <2>4. QED
    BY <2>3
<1>2. ASSUME NEW n \in Nat, n \in N PROVE n + 1 \in N
  <2> HIDE DEF Upto
  <2> SUFFICES ASSUME n + 1 <= Len(q) PROVE \E g : Upto(n + 1, g)
    OBVIOUS
  <2>0. n <= Len(q)
    BY <1>0
  <2>1. PICK g : Upto(n, g)
    BY <1>2, <2>0
  <2> USE DEF Upto
  <2> DEFINE m == n + 1
             h == [s \in SUBSET (1..m) |->
                     IF m \in s THEN F[<<g[s \ {m}], q[m]>>] ELSE g[s]]
  <2>2. q[m] \in T /\ m \in Nat
    OBVIOUS
  <2>3. \A s \in SUBSET (1..m) : s \ {m} \in SUBSET (1..n) /\ (m \notin s => s \in SUBSET (1..n))
    OBVIOUS
  <2>4. \A s \in SUBSET (1..n) : m \notin s /\ s \in SUBSET (1..m)
    OBVIOUS
  <2>5. \A s \in SUBSET (1..n) : h[s] = g[s] /\ g[s] \in S
    BY <2>1, <2>4
  <2>6. ASSUME NEW s \in SUBSET (1..m)
        PROVE  /\ h[s] \in S
               /\ h[s] = IF s = {} THEN b ELSE F[<<h[s \ {Max(s)}], q[Max(s)]>>]
    <3>1. CASE m \in s
      <4>1. Max(s) = m
        <5> HIDE DEF m
        <5>1. s \subseteq 1..m
          OBVIOUS
        <5>2. QED
          BY <2>2, <3>1, <5>1, MaxUpTo
      <4>2. h[s] = F[<<g[s \ {m}], q[m]>>] /\ s # {}
        BY <3>1
      <4>3. g[s \ {m}] \in S /\ h[s \ {m}] = g[s \ {m}]
        BY <2>3, <2>5
      <4> HIDE DEF h
      <4>4. QED
        BY <2>2, <4>1, <4>2, <4>3
    <3>2. CASE m \notin s
      <4>1. s \in SUBSET (1..n) /\ h[s] = g[s] /\ h[s] \in S
        BY <2>3, <2>5, <3>2
      <4>2. s # {} => h[s \ {Max(s)}] = g[s \ {Max(s)}]
        <5>1. s \ {Max(s)} \in SUBSET (1..n)
          BY <4>1
        <5>2. QED
          BY <5>1, <2>5
      <4> HIDE DEF h
      <4>3. QED
        BY <2>1, <4>1, <4>2
    <3>3. QED
      BY <3>1, <3>2
  <2>7. h \in [SUBSET (1..m) -> S]
    <3>1. h = [s \in SUBSET (1..m) |-> h[s]]
      OBVIOUS
    <3> HIDE DEF h
    <3>2. QED
      BY <2>6, <3>1
  <2> HIDE DEF h
  <2>8. QED
    BY <2>6, <2>7
<1> HIDE DEF N
<1>3. Len(q) \in N
  BY <1>1, <1>2, Ups
<1> USE DEF N
<1>4. PICK g : Upto(Len(q), g)
  <2> HIDE DEF Upto
  <2>1. QED
    BY <1>3
<1>5. DOMAIN q = 1..Len(q)
  OBVIOUS
<1>6. Table(g, b, q, F)
  BY <1>4, <1>5 DEF Table
<1>7. ASSUME NEW s \in SUBSET DOMAIN q, s # {}
      PROVE  g[s \ {Max(s)}] \in S /\ q[Max(s)] \in T
  <2>1. s \ {Max(s)} \in SUBSET (1..Len(q)) /\ s \subseteq 1..Len(q)
    BY <1>5
  <2>2. Max(s) \in 1..Len(q)
    BY <1>0, <1>7, <2>1, MaxIn
  <2>3. g[s \ {Max(s)}] \in S
    BY <1>4, <2>1
  <2>4. QED
    BY <2>2, <2>3
<1>8. QED
  BY <1>6, <1>7 DEF StepsFrom

\* The places up to i + 1, less the last one.
LEMMA Places ==
  ASSUME NEW n \in Nat, NEW i \in Nat, i < n
  PROVE  /\ 1..(i + 1) \in SUBSET (1..n) /\ 1..(i + 1) # {}
         /\ Max(1..(i + 1)) = i + 1
         /\ (1..(i + 1)) \ {i + 1} = 1..i
<1>1. i + 1 \in Nat /\ i + 1 \in 1..(i + 1)
  OBVIOUS
<1>2. Max(1..(i + 1)) = i + 1
  BY <1>1, MaxUpTo
<1>3. QED
  BY <1>2

\* What holds of the start, and of each value when it holds of the one before,
\* holds of the value of the fold.
LEMMA Chain ==
  ASSUME NEW T, NEW q \in Seq(T), NEW J, NEW g,
         g[{}] \in J,
         \A i \in Nat : i < Len(q) /\ g[1..i] \in J => g[1..(i + 1)] \in J
  PROVE  g[DOMAIN q] \in J
<1> DEFINE N == {i \in Nat : i <= Len(q) => g[1..i] \in J}
<1>1. Len(q) \in Nat /\ DOMAIN q = 1..Len(q)
  OBVIOUS
<1>2. 0 \in N
  <2>1. 1..0 = {}
    OBVIOUS
  <2>2. QED
    BY <2>1
<1>3. ASSUME NEW i \in Nat, i \in N PROVE i + 1 \in N
  <2> SUFFICES ASSUME i + 1 <= Len(q) PROVE g[1..(i + 1)] \in J
    OBVIOUS
  <2>1. i < Len(q) /\ i <= Len(q)
    BY <1>1
  <2>2. g[1..i] \in J
    BY <1>3, <2>1
  <2>3. QED
    BY <2>1, <2>2
<1> HIDE DEF N
<1>4. Len(q) \in N
  BY <1>1, <1>2, <1>3, Ups
<1>5. QED
  BY <1>1, <1>4 DEF N

\* The operations of a queue on a task, one after the other.
ApplySteps(g, b, q) ==
    /\ g[{}] = b
    /\ \A i \in Nat : i < Len(q) => g[1..(i + 1)] = apply(g[1..i], q[i + 1])

\* Each step of such a fold is the operation of its place.
LEMMA ApplyTable ==
  ASSUME NEW J, NEW T, \A t \in J, o \in T : apply(t, o) \in J,
         NEW b \in J, NEW q \in Seq(T)
  PROVE  \E g : ApplySteps(g, b, q) /\ applyAll(b, q) = g[DOMAIN q]
<1> DEFINE F == [p \in J \X T |-> apply(p[1], p[2])]
           Eq(g) == g = [s \in SUBSET DOMAIN q |->
                           IF s = {} THEN b ELSE apply(g[s \ {Max(s)}], q[Max(s)])]
           c == CHOOSE g : Eq(g)
<1>1. F \in [J \X T -> J]
  OBVIOUS
<1>2. \A t \in J, o \in T : F[<<t, o>>] = apply(t, o)
  OBVIOUS
<1> HIDE DEF F, Eq, c
<1>3. \E g : Eq(g)
  <2>1. PICK g : Table(g, b, q, F) /\ StepsFrom(g, q, J, T)
    BY <1>1, TableExists
  <2>2. \A s \in SUBSET DOMAIN q : s # {} =>
           F[<<g[s \ {Max(s)}], q[Max(s)]>>] = apply(g[s \ {Max(s)}], q[Max(s)])
    BY <1>2, <2>1 DEF StepsFrom
  <2>3. Eq(g)
    BY <2>1, <2>2 DEF Table, Eq
  <2>4. QED
    BY <2>3
<1>4. applyAll(b, q) = c[DOMAIN q]
  BY DEF applyAll, FoldLeft, MapThenFoldSet, c, Eq
<1>5. Eq(c)
  BY <1>3 DEF c
<1> USE DEF Eq
<1>6. c[{}] = b
  BY <1>5
<1>7. ASSUME NEW i \in Nat, i < Len(q) PROVE c[1..(i + 1)] = apply(c[1..i], q[i + 1])
  <2>1. Len(q) \in Nat /\ DOMAIN q = 1..Len(q)
    OBVIOUS
  <2>2. /\ 1..(i + 1) \in SUBSET (1..Len(q)) /\ 1..(i + 1) # {}
        /\ Max(1..(i + 1)) = i + 1 /\ (1..(i + 1)) \ {i + 1} = 1..i
    BY <1>7, <2>1, Places
  <2>3. QED
    BY <1>5, <2>1, <2>2
<1> HIDE DEF Eq, c
<1>8. ApplySteps(c, b, q)
  BY <1>6, <1>7 DEF ApplySteps
<1>9. QED
  BY <1>4, <1>8

\* A property of a task that every operation of T keeps is kept by any sequence
\* of them.
LEMMA ApplyAllKeeps ==
  ASSUME NEW J, NEW T, \A t \in J, o \in T : apply(t, o) \in J,
         NEW b \in J, NEW q \in Seq(T)
  PROVE  applyAll(b, q) \in J
<1>1. PICK g : ApplySteps(g, b, q) /\ applyAll(b, q) = g[DOMAIN q]
  BY ApplyTable
<1>2. g[{}] \in J
  BY <1>1 DEF ApplySteps
<1>3. ASSUME NEW i \in Nat, i < Len(q), g[1..i] \in J PROVE g[1..(i + 1)] \in J
  <2>1. q[i + 1] \in T
    BY <1>3
  <2>2. QED
    BY <1>1, <1>3, <2>1 DEF ApplySteps
<1>4. g[DOMAIN q] \in J
  BY <1>2, <1>3, Chain
<1>5. QED
  BY <1>1, <1>4

\* The same operations on the server, and on what is kept of them.
ServedSteps(g, b, q) ==
    /\ g[{}] = b
    /\ \A i \in Nat : i < Len(q) => g[1..(i + 1)] = served(g[1..i], q[i + 1])

\* Each step of this fold too.
LEMMA ServedTable ==
  ASSUME NEW J, NEW T, \A t \in J, o \in T : served(t, o) \in J,
         NEW b \in J, NEW q \in Seq(T)
  PROVE  \E g : ServedSteps(g, b, q) /\ FoldLeft(served, b, q) = g[DOMAIN q]
<1> DEFINE F == [p \in J \X T |-> served(p[1], p[2])]
           Eq(g) == g = [s \in SUBSET DOMAIN q |->
                           IF s = {} THEN b ELSE served(g[s \ {Max(s)}], q[Max(s)])]
           c == CHOOSE g : Eq(g)
<1>1. F \in [J \X T -> J]
  OBVIOUS
<1>2. \A t \in J, o \in T : F[<<t, o>>] = served(t, o)
  OBVIOUS
<1> HIDE DEF F, Eq, c
<1>3. \E g : Eq(g)
  <2>1. PICK g : Table(g, b, q, F) /\ StepsFrom(g, q, J, T)
    BY <1>1, TableExists
  <2>2. \A s \in SUBSET DOMAIN q : s # {} =>
           F[<<g[s \ {Max(s)}], q[Max(s)]>>] = served(g[s \ {Max(s)}], q[Max(s)])
    BY <1>2, <2>1 DEF StepsFrom
  <2>3. Eq(g)
    BY <2>1, <2>2 DEF Table, Eq
  <2>4. QED
    BY <2>3
<1>4. FoldLeft(served, b, q) = c[DOMAIN q]
  BY DEF FoldLeft, MapThenFoldSet, c, Eq
<1>5. Eq(c)
  BY <1>3 DEF c
<1> USE DEF Eq
<1>6. c[{}] = b
  BY <1>5
<1>7. ASSUME NEW i \in Nat, i < Len(q) PROVE c[1..(i + 1)] = served(c[1..i], q[i + 1])
  <2>1. Len(q) \in Nat /\ DOMAIN q = 1..Len(q)
    OBVIOUS
  <2>2. /\ 1..(i + 1) \in SUBSET (1..Len(q)) /\ 1..(i + 1) # {}
        /\ Max(1..(i + 1)) = i + 1 /\ (1..(i + 1)) \ {i + 1} = 1..i
    BY <1>7, <2>1, Places
  <2>3. QED
    BY <1>5, <2>1, <2>2
<1> HIDE DEF Eq, c
<1>8. ServedSteps(c, b, q)
  BY <1>6, <1>7 DEF ServedSteps
<1>9. QED
  BY <1>4, <1>8

\* The same, for what is kept of the server.
LEMMA ServedAllKeeps ==
  ASSUME NEW J, NEW T, \A t \in J, o \in T : served(t, o) \in J,
         NEW b \in J, NEW q \in Seq(T)
  PROVE  FoldLeft(served, b, q) \in J
<1>1. PICK g : ServedSteps(g, b, q) /\ FoldLeft(served, b, q) = g[DOMAIN q]
  BY ServedTable
<1>2. g[{}] \in J
  BY <1>1 DEF ServedSteps
<1>3. ASSUME NEW i \in Nat, i < Len(q), g[1..i] \in J PROVE g[1..(i + 1)] \in J
  <2>1. q[i + 1] \in T
    BY <1>3
  <2>2. QED
    BY <1>1, <1>3, <2>1 DEF ServedSteps
<1>4. g[DOMAIN q] \in J
  BY <1>2, <1>3, Chain
<1>5. QED
  BY <1>1, <1>4

\* What the lines of a history took, added up.
TakenSteps(g, b, q) ==
    /\ g[{}] = b
    /\ \A i \in Nat : i < Len(q) => g[1..(i + 1)] = plusUsed(g[1..i], q[i + 1])

\* Each step of the sum adds a line.
LEMMA TakenTable ==
  ASSUME NEW J, NEW T, \A t \in J, o \in T : plusUsed(t, o) \in J,
         NEW b \in J, NEW q \in Seq(T)
  PROVE  \E g : TakenSteps(g, b, q) /\ FoldLeft(plusUsed, b, q) = g[DOMAIN q]
<1> DEFINE F == [p \in J \X T |-> plusUsed(p[1], p[2])]
           Eq(g) == g = [s \in SUBSET DOMAIN q |->
                           IF s = {} THEN b ELSE plusUsed(g[s \ {Max(s)}], q[Max(s)])]
           c == CHOOSE g : Eq(g)
<1>1. F \in [J \X T -> J]
  OBVIOUS
<1>2. \A t \in J, o \in T : F[<<t, o>>] = plusUsed(t, o)
  OBVIOUS
<1> HIDE DEF F, Eq, c
<1>3. \E g : Eq(g)
  <2>1. PICK g : Table(g, b, q, F) /\ StepsFrom(g, q, J, T)
    BY <1>1, TableExists
  <2>2. \A s \in SUBSET DOMAIN q : s # {} =>
           F[<<g[s \ {Max(s)}], q[Max(s)]>>] = plusUsed(g[s \ {Max(s)}], q[Max(s)])
    BY <1>2, <2>1 DEF StepsFrom
  <2>3. Eq(g)
    BY <2>1, <2>2 DEF Table, Eq
  <2>4. QED
    BY <2>3
<1>4. FoldLeft(plusUsed, b, q) = c[DOMAIN q]
  BY DEF FoldLeft, MapThenFoldSet, c, Eq
<1>5. Eq(c)
  BY <1>3 DEF c
<1> USE DEF Eq
<1>6. c[{}] = b
  BY <1>5
<1>7. ASSUME NEW i \in Nat, i < Len(q) PROVE c[1..(i + 1)] = plusUsed(c[1..i], q[i + 1])
  <2>1. Len(q) \in Nat /\ DOMAIN q = 1..Len(q)
    OBVIOUS
  <2>2. /\ 1..(i + 1) \in SUBSET (1..Len(q)) /\ 1..(i + 1) # {}
        /\ Max(1..(i + 1)) = i + 1 /\ (1..(i + 1)) \ {i + 1} = 1..i
    BY <1>7, <2>1, Places
  <2>3. QED
    BY <1>5, <2>1, <2>2
<1> HIDE DEF Eq, c
<1>8. TakenSteps(c, b, q)
  BY <1>6, <1>7 DEF TakenSteps
<1>9. QED
  BY <1>4, <1>8

\* No operation, and one operation.
LEMMA ApplyFew ==
  ASSUME NEW T, \A t \in Task, o \in T : apply(t, o) \in Task, NEW b \in Task
  PROVE  /\ applyAll(b, <<>>) = b
         /\ \A o \in T : applyAll(b, <<o>>) = apply(b, o)
<1>1. applyAll(b, <<>>) = b
  <2>1. <<>> \in Seq(T) /\ DOMAIN <<>> = {}
    OBVIOUS
  <2>2. PICK g : ApplySteps(g, b, <<>>) /\ applyAll(b, <<>>) = g[DOMAIN <<>>]
    BY <2>1, ApplyTable
  <2>3. QED
    BY <2>1, <2>2 DEF ApplySteps
<1>2. ASSUME NEW o \in T PROVE applyAll(b, <<o>>) = apply(b, o)
  <2> DEFINE q == <<o>>
  <2>0. q \in Seq(T)
    OBVIOUS
  <2>1. DOMAIN q = 1..1 /\ Len(q) = 1 /\ q[0 + 1] = o /\ 1..0 = {}
    OBVIOUS
  <2> HIDE DEF q
  <2>2. PICK g : ApplySteps(g, b, q) /\ applyAll(b, q) = g[DOMAIN q]
    BY <2>0, ApplyTable
  <2>3. 0 \in Nat /\ 0 < Len(q) /\ 0 + 1 = 1
    BY <2>1
  <2>4. g[1..(0 + 1)] = apply(g[1..0], q[0 + 1]) /\ g[{}] = b
    BY <2>2, <2>3 DEF ApplySteps
  <2>5. g[1..1] = apply(b, o)
    BY <2>1, <2>3, <2>4
  <2>6. QED
    BY <2>1, <2>2, <2>5 DEF q
<1>3. QED
  BY <1>1, <1>2

\* A line more adds what it took.
LEMMA TakenAppend ==
  ASSUME NEW h \in Seq(Done), NEW x \in Done
  PROVE  taken(h) \in Int /\ taken(Append(h, x)) = taken(h) + x.used
<1> DEFINE k == Append(h, x)
<1>0. k \in Seq(Done)
  OBVIOUS
<1>1. /\ Len(h) \in Nat /\ Len(k) = Len(h) + 1
      /\ DOMAIN h = 1..Len(h) /\ DOMAIN k = 1..(Len(h) + 1)
      /\ k[Len(h) + 1] = x
  OBVIOUS
<1>2. \A i \in Nat : i < Len(h) => k[i + 1] = h[i + 1]
  OBVIOUS
<1>3. \A n \in Int, e \in Done : plusUsed(n, e) \in Int
  BY DEF plusUsed, Done
<1>sum. \A n, e : plusUsed(n, e) = n + e.used
  BY DEF plusUsed
<1>zero. 0 \in Int
  OBVIOUS
<1> HIDE DEF k
<1>4. PICK g : TakenSteps(g, 0, h) /\ FoldLeft(plusUsed, 0, h) = g[DOMAIN h]
  BY <1>3, <1>zero, TakenTable
<1>5. PICK f : TakenSteps(f, 0, k) /\ FoldLeft(plusUsed, 0, k) = f[DOMAIN k]
  BY <1>0, <1>3, <1>zero, TakenTable
<1> DEFINE N == {i \in Nat : i <= Len(h) => g[1..i] \in Int /\ f[1..i] = g[1..i]}
<1>6. 0 \in N
  <2>1. 1..0 = {}
    OBVIOUS
  <2>2. QED
    BY <1>4, <1>5, <2>1 DEF TakenSteps
<1>7. ASSUME NEW i \in Nat, i \in N PROVE i + 1 \in N
  <2> SUFFICES ASSUME i + 1 <= Len(h)
               PROVE  g[1..(i + 1)] \in Int /\ f[1..(i + 1)] = g[1..(i + 1)]
    OBVIOUS
  <2>1. i < Len(h) /\ i < Len(k) /\ i <= Len(h)
    BY <1>1
  <2>2. g[1..i] \in Int /\ f[1..i] = g[1..i]
    BY <1>7, <2>1
  <2>3. h[i + 1] \in Done /\ k[i + 1] = h[i + 1]
    BY <1>2, <2>1
  <2>4. g[1..(i + 1)] = plusUsed(g[1..i], h[i + 1])
    BY <1>4, <2>1 DEF TakenSteps
  <2>5. f[1..(i + 1)] = plusUsed(f[1..i], k[i + 1])
    BY <1>5, <2>1 DEF TakenSteps
  <2>6. QED
    BY <1>3, <2>2, <2>3, <2>4, <2>5
<1> HIDE DEF N
<1>8. Len(h) \in N
  BY <1>1, <1>6, <1>7, Ups
<1>9. g[1..Len(h)] \in Int /\ f[1..Len(h)] = g[1..Len(h)]
  BY <1>1, <1>8 DEF N
<1>10. f[1..(Len(h) + 1)] = plusUsed(f[1..Len(h)], k[Len(h) + 1])
  BY <1>1, <1>5 DEF TakenSteps
<1>11. taken(h) = g[1..Len(h)] /\ taken(k) = f[1..(Len(h) + 1)]
  BY <1>1, <1>4, <1>5 DEF taken
<1>12. QED
  BY <1>1, <1>sum, <1>9, <1>10, <1>11 DEF k

\* The sum is a number.
LEMMA TakenInt ==
  ASSUME NEW h \in Seq(Done)
  PROVE  taken(h) \in Int
<1>1. [day |-> 0, due |-> Never, used |-> 0] \in Done
  BY DEF Done, Day, Dated
<1>2. QED
  BY <1>1, TakenAppend

\* Nothing was taken by no gesture.
LEMMA TakenNothing == taken(<<>>) = 0
<1>1. \A n \in Int, e \in Done : plusUsed(n, e) \in Int
  BY DEF plusUsed, Done
<1>2. DOMAIN <<>> = {}
  OBVIOUS
<1>sum. <<>> \in Seq(Done)
  OBVIOUS
<1>zero. 0 \in Int
  OBVIOUS
<1>3. PICK g : TakenSteps(g, 0, <<>>) /\ FoldLeft(plusUsed, 0, <<>>) = g[DOMAIN <<>>]
  BY <1>1, <1>sum, <1>zero, TakenTable
<1>4. QED
  BY <1>2, <1>3 DEF TakenSteps, taken

\* A history, its last line apart.
LEMMA FrontOf ==
  ASSUME NEW h \in Seq(Done), h # <<>>
  PROVE  /\ Front(h) \in Seq(Done) /\ Len(Front(h)) = Len(h) - 1
         /\ Len(h) - 1 \in Nat /\ Len(h) \in DOMAIN h /\ h[Len(h)] \in Done
         /\ \A i \in 1..(Len(h) - 1) : Front(h)[i] = h[i]
         /\ h = Append(Front(h), h[Len(h)])
<1>0. 1 \in Int /\ Len(h) - 1 \in Int /\ \A i \in 1..(Len(h) - 1) : h[i] \in Done
  OBVIOUS
<1>1. Len(h) \in Nat \ {0}
  OBVIOUS
<1>sub. /\ SubSeq(h, 1, Len(h) - 1) \in Seq(Done)
        /\ Len(SubSeq(h, 1, Len(h) - 1)) = IF 1 <= Len(h) - 1 THEN (Len(h) - 1) - 1 + 1 ELSE 0
        /\ \A i \in 1..((Len(h) - 1) - 1 + 1) : SubSeq(h, 1, Len(h) - 1)[i] = h[1 + i - 1]
  BY <1>0, SubSeqProperties
<1>2. /\ Front(h) \in Seq(Done) /\ Len(Front(h)) = Len(h) - 1
      /\ \A i \in 1..(Len(h) - 1) : Front(h)[i] = h[i]
  <2> DEFINE n == Len(h)
             f == SubSeq(h, 1, n - 1)
  <2>1. n \in Nat \ {0} /\ f = Front(h)
    BY <1>1 DEF Front
  <2>2. /\ f \in Seq(Done) /\ Len(f) = IF 1 <= n - 1 THEN (n - 1) - 1 + 1 ELSE 0
        /\ \A i \in 1..((n - 1) - 1 + 1) : f[i] = h[1 + i - 1]
    BY <1>sub
  <2> HIDE DEF f, n
  <2>3. Len(f) = n - 1
    BY <2>1, <2>2
  <2>4. ASSUME NEW i \in 1..(n - 1) PROVE f[i] = h[i]
    <3>1. i \in 1..((n - 1) - 1 + 1) /\ 1 + i - 1 = i
      BY <2>1
    <3>2. QED
      BY <2>2, <3>1
  <2>5. QED
    BY <2>1, <2>2, <2>3, <2>4 DEF n
<1> DEFINE k == Append(Front(h), h[Len(h)])
<1>3. h[Len(h)] \in Done
  BY <1>1
<1>4. k \in Seq(Done) /\ Len(k) = Len(h)
  BY <1>1, <1>2, <1>3
<1>5. \A i \in 1..Len(h) : k[i] = h[i]
  BY <1>1, <1>2, <1>3
<1> HIDE DEF k
<1>6. k = h
  BY <1>4, <1>5
<1>7. QED
  BY <1>1, <1>2, <1>3, <1>6 DEF k

-----------------------------------------------------------------------------
(***************************************************************************)
(* One operation on a task.                                                *)
(***************************************************************************)

\* The line a gesture leaves.
Line(t, day, used) == [day |-> day, due |-> t.due, used |-> used]

\* The history after a gesture: the last lines of the one before, as many as
\* fit, and the line of the gesture.
KeepsTheLast(t, day, used, h) ==
    /\ remember(t, day, used) = [t EXCEPT !.history = h]
    /\ h \in Seq(Done) /\ Line(t, day, used) \in Done
    /\ Len(h) \in Nat \ {0} /\ Len(t.history) + 1 - Len(h) \in Nat
    /\ Len(h) <= HISTORY_MAX
    /\ h[Len(h)] = Line(t, day, used)
    /\ \A i \in 1..(Len(h) - 1) :
          /\ i + (Len(t.history) + 1 - Len(h)) \in DOMAIN t.history
          /\ h[i] = t.history[i + (Len(t.history) + 1 - Len(h))]
    /\ Len(t.history) < HISTORY_MAX => h = Append(t.history, Line(t, day, used))

\* Such is the history `remember` leaves.
LEMMA Remembered ==
  ASSUME NEW t \in Task, NEW day \in Day, NEW used \in Nat,
         NEW h, h = remember(t, day, used).history
  PROVE  KeepsTheLast(t, day, used, h)
<1> DEFINE line == Line(t, day, used)
           old == t.history
           all == Append(old, line)
           n == Len(old)
           from == later(1, (n + 1) - HISTORY_MAX + 1)
<1>1. t \in [due : Dated, done : BOOLEAN, history : Seq(Done), paused : Dated,
             qty : Nat, threshold : Nat, alerted : BOOLEAN]
  BY DEF Task
<1>2. old \in Seq(Done) /\ line \in Done
  BY <1>1 DEF Done, Line
<1> HIDE DEF line
<1>3. /\ n \in Nat /\ all \in Seq(Done) /\ Len(all) = n + 1 /\ all[n + 1] = line
      /\ \A i \in 1..n : all[i] = old[i]
      /\ DOMAIN old = 1..n
  BY <1>2
<1>4. remember(t, day, used) = [t EXCEPT !.history = SubSeq(all, from, n + 1)]
  <2>1. later(1, Len(all) - HISTORY_MAX + 1) = from /\ Len(all) = n + 1
    BY <1>3
  <2> HIDE DEF from, n
  <2>2. remember(t, day, used)
          = [t EXCEPT !.history = SubSeq(all, later(1, Len(all) - HISTORY_MAX + 1), Len(all))]
    BY DEF remember, line, Line
  <2> HIDE DEF all
  <2>3. QED
    BY <2>1, <2>2
<1> HIDE DEF all
<1>5. h = SubSeq(all, from, n + 1)
  <2> HIDE DEF n, from
  <2>1. QED
    BY <1>1, <1>4
<1>6. /\ from \in 1..(n + 1)
      /\ n < HISTORY_MAX => from = 1
      /\ from >= (n + 1) - HISTORY_MAX + 1
  BY <1>3, TaskSeriesAssumption DEF later
<1> HIDE DEF from, n
<1>7. from \in Int /\ n + 1 \in Int /\ \A i \in from..(n + 1) : all[i] \in Done
  BY <1>3, <1>6
<1>8. /\ h \in Seq(Done)
      /\ Len(h) = IF from <= n + 1 THEN (n + 1) - from + 1 ELSE 0
      /\ \A i \in 1..((n + 1) - from + 1) : h[i] = all[from + i - 1]
  <2>1. /\ SubSeq(all, from, n + 1) \in Seq(Done)
        /\ Len(SubSeq(all, from, n + 1)) = IF from <= n + 1 THEN (n + 1) - from + 1 ELSE 0
        /\ \A i \in 1..((n + 1) - from + 1) : SubSeq(all, from, n + 1)[i] = all[from + i - 1]
    BY <1>7, SubSeqProperties
  <2>2. QED
    BY <1>5, <2>1
<1>9. /\ Len(h) = n + 2 - from /\ Len(h) \in Nat \ {0} /\ n + 1 - Len(h) = from - 1
      /\ Len(h) <= HISTORY_MAX
  BY <1>3, <1>6, <1>8, TaskSeriesAssumption
<1>10. h[Len(h)] = line
  <2>1. Len(h) \in 1..((n + 1) - from + 1) /\ from + Len(h) - 1 = n + 1
    BY <1>3, <1>6, <1>9
  <2>2. QED
    BY <1>3, <1>8, <2>1
<1>11. ASSUME NEW i \in 1..(Len(h) - 1)
       PROVE  i + (n + 1 - Len(h)) \in 1..n /\ h[i] = old[i + (n + 1 - Len(h))]
  <2>1. /\ i \in 1..((n + 1) - from + 1) /\ from + i - 1 \in 1..n
        /\ i + (n + 1 - Len(h)) = from + i - 1
    BY <1>3, <1>6, <1>9
  <2>2. QED
    BY <1>3, <1>8, <2>1
<1>12. n < HISTORY_MAX => h = all
  <2> SUFFICES ASSUME n < HISTORY_MAX PROVE h = all
    OBVIOUS
  <2>1. from = 1 /\ SubSeq(all, 1, Len(all)) = all
    BY <1>3, <1>6, SubSeqFull
  <2>2. QED
    BY <1>3, <1>5, <2>1
<1>13. n + 1 - Len(h) \in Nat
  BY <1>3, <1>6, <1>9
<1>14. remember(t, day, used) = [t EXCEPT !.history = h]
  BY <1>4, <1>5
<1>15. QED
  BY <1>2, <1>3, <1>8, <1>9, <1>10, <1>11, <1>12, <1>13, <1>14 DEF all, n, line, KeepsTheLast

\* A line of a later day, or of a later due date, keeps the history in order.
LEMMA RememberedRises ==
  ASSUME NEW t \in Task, NEW day \in Day, NEW used \in Nat,
         NEW h, h = remember(t, day, used).history
  PROVE  /\ DaysRise(t.history) /\ lastDoneDay(t) < day => DaysRise(h)
         /\ /\ DuesRise(t.history) /\ t.due # Never
            /\ \A i \in DOMAIN t.history : t.history[i].due # Never
            /\ t.history # <<>> => lastDone(t).due < t.due
            => DuesRise(h) /\ \A i \in DOMAIN h : h[i].due # Never
<1> DEFINE line == Line(t, day, used)
           old == t.history
           n == Len(h)
           k == Len(old) + 1 - n
<1>1. /\ h \in Seq(Done) /\ line \in Done
      /\ n \in Nat \ {0} /\ k \in Nat /\ h[n] = line
      /\ \A i \in 1..(n - 1) : i + k \in DOMAIN old /\ h[i] = old[i + k]
  <2>1. KeepsTheLast(t, day, used, h)
    BY Remembered
  <2>2. QED
    BY <2>1 DEF KeepsTheLast
<1>2. /\ old \in Seq(Done) /\ Len(old) \in Nat /\ DOMAIN old = 1..Len(old)
      /\ t.due \in Dated
  BY DEF Task
<1>len. Len(old) \in Nat
  BY <1>2
<1>3. DOMAIN h = 1..n
  BY <1>1
<1>4. line.day = day /\ line.due = t.due /\ day \in Int
  BY DEF Day, Line
<1>5. \A x \in Done : x.day \in Int /\ (x.due # Never => x.due \in Int)
  BY DEF Done, Dated, Day
<1>6. \A i \in 1..Len(old) : old[i] \in Done
  BY <1>2
<1> HIDE DEF line, n, k, old
<1>7. \A i, j \in 1..n : i < j => i \in 1..(n - 1) /\ (j = n \/ j \in 1..(n - 1))
  BY <1>1
<1>8. \A i, j \in 1..(n - 1) : i < j => i + k < j + k
  BY <1>1
<1>9. ASSUME DaysRise(old), lastDoneDay(t) < day PROVE DaysRise(h)
  <2>1. \A i \in 1..Len(old) : old[i].day < day
    <3> SUFFICES ASSUME NEW i \in 1..Len(old) PROVE old[i].day < day
      OBVIOUS
    <3>1. Len(old) \in 1..Len(old) /\ old # <<>>
      BY <1>2
    <3>2. old[Len(old)].day < day
      BY <1>9, <3>1 DEF lastDoneDay, lastDone, old
    <3>3. i = Len(old) \/ i < Len(old)
      BY <1>len
    <3>4. i < Len(old) => old[i].day < old[Len(old)].day
      BY <1>2, <1>9, <3>1 DEF DaysRise
    <3>5. old[i].day \in Int /\ old[Len(old)].day \in Int
      BY <1>5, <1>6, <3>1
    <3>6. QED
      BY <1>4, <3>2, <3>3, <3>4, <3>5
  <2>2. ASSUME NEW i \in 1..n, NEW j \in 1..n, i < j PROVE h[i].day < h[j].day
    <3>1. i \in 1..(n - 1) /\ i + k \in 1..Len(old) /\ h[i] = old[i + k]
      BY <1>1, <1>2, <1>7, <2>2
    <3>2. CASE j = n
      BY <1>1, <1>4, <2>1, <3>1, <3>2
    <3>3. CASE j \in 1..(n - 1)
      <4>1. i + k < j + k /\ j + k \in 1..Len(old) /\ h[j] = old[j + k]
        BY <1>1, <1>2, <1>8, <2>2, <3>1, <3>3
      <4>2. QED
        BY <1>2, <1>9, <3>1, <4>1 DEF DaysRise
    <3>4. QED
      BY <1>7, <2>2, <3>2, <3>3
  <2>3. QED
    BY <1>3, <2>2 DEF DaysRise
<1>10. ASSUME DuesRise(old), t.due # Never,
              \A i \in DOMAIN old : old[i].due # Never,
              old # <<>> => lastDone(t).due < t.due
       PROVE  DuesRise(h) /\ \A i \in DOMAIN h : h[i].due # Never
  <2>1. \A i \in 1..Len(old) : old[i].due < t.due
    <3> SUFFICES ASSUME NEW i \in 1..Len(old) PROVE old[i].due < t.due
      OBVIOUS
    <3>1. Len(old) \in 1..Len(old) /\ old # <<>>
      BY <1>2
    <3>2. old[Len(old)].due < t.due
      BY <1>10, <3>1 DEF lastDone, old
    <3>3. i = Len(old) \/ i < Len(old)
      BY <1>len
    <3>4. i < Len(old) => old[i].due < old[Len(old)].due
      BY <1>2, <1>10, <3>1 DEF DuesRise
    <3>5. old[i].due \in Int /\ old[Len(old)].due \in Int /\ t.due \in Int
      BY <1>2, <1>5, <1>6, <1>10, <3>1 DEF Dated, Day
    <3>6. QED
      BY <3>2, <3>3, <3>4, <3>5
  <2>2. ASSUME NEW i \in 1..n, NEW j \in 1..n, i < j PROVE h[i].due < h[j].due
    <3>1. i \in 1..(n - 1) /\ i + k \in 1..Len(old) /\ h[i] = old[i + k]
      BY <1>1, <1>2, <1>7, <2>2
    <3>2. CASE j = n
      BY <1>1, <1>4, <2>1, <3>1, <3>2
    <3>3. CASE j \in 1..(n - 1)
      <4>1. i + k < j + k /\ j + k \in 1..Len(old) /\ h[j] = old[j + k]
        BY <1>1, <1>2, <1>8, <2>2, <3>1, <3>3
      <4>2. QED
        BY <1>2, <1>10, <3>1, <4>1 DEF DuesRise
    <3>4. QED
      BY <1>7, <2>2, <3>2, <3>3
  <2>3. ASSUME NEW i \in 1..n PROVE h[i].due # Never
    <3>1. i = n \/ (i \in 1..(n - 1) /\ i + k \in DOMAIN old /\ h[i] = old[i + k])
      BY <1>1
    <3>2. QED
      BY <1>1, <1>4, <1>10, <3>1
  <2>4. QED
    BY <1>3, <2>2, <2>3 DEF DuesRise
<1>11. QED
  BY <1>9, <1>10 DEF old

\* A history without its last line stays in order, behind that line.
LEMMA FrontRises ==
  ASSUME NEW h \in Seq(Done), h # <<>>
  PROVE  /\ DaysRise(h) => DaysRise(Front(h))
         /\ DuesRise(h) => /\ DuesRise(Front(h))
                           /\ \A i \in DOMAIN Front(h) : Front(h)[i].due < h[Len(h)].due
         /\ \A i \in DOMAIN Front(h) : i \in DOMAIN h /\ Front(h)[i] = h[i]
<1> DEFINE f == Front(h)
           n == Len(h)
<1>1. f \in Seq(Done) /\ Len(f) = n - 1 /\ \A i \in 1..(n - 1) : f[i] = h[i]
  BY FrontOf
<1>2. n \in Nat \ {0} /\ DOMAIN h = 1..n
  OBVIOUS
<1> HIDE DEF f, n
<1>3. DOMAIN f = 1..(n - 1)
  BY <1>1
<1>4. \A i \in 1..(n - 1) : i \in 1..n /\ i < n
  BY <1>2
<1>5. n \in 1..n
  BY <1>2
<1>6. DaysRise(h) => DaysRise(f)
  BY <1>1, <1>2, <1>3, <1>4 DEF DaysRise
<1>7. DuesRise(h) => DuesRise(f)
  BY <1>1, <1>2, <1>3, <1>4 DEF DuesRise
<1>8. DuesRise(h) => \A i \in DOMAIN f : f[i].due < h[n].due
  BY <1>1, <1>2, <1>3, <1>4, <1>5 DEF DuesRise
<1>9. QED
  BY <1>1, <1>2, <1>3, <1>4, <1>6, <1>7, <1>8 DEF f, n

\* The last line of a history, when there is one.
LEMMA LastLine ==
  ASSUME NEW t \in Task
  PROVE  /\ lastDoneDay(t) \in Int
         /\ t.history # <<>> => lastDone(t) \in Done /\ lastDone(t) = t.history[Len(t.history)]
<1>1. t.history \in Seq(Done)
  BY DEF Task
<1>2. t.history # <<>> => t.history[Len(t.history)] \in Done
  BY <1>1
<1>3. t.history # <<>> => lastDone(t).day \in Int
  BY <1>2 DEF lastDone, Done, Day
<1>4. QED
  BY <1>2, <1>3 DEF lastDone, lastDoneDay

\* What going on to `next` writes, and what it leaves alone.
GoesOn(t, u, next) ==
    /\ u \in Task
    /\ u.history = t.history /\ u.qty = t.qty
    /\ u.threshold = t.threshold /\ u.alerted = t.alerted
    /\ next = Never => u.done = TRUE /\ u.due = t.due
    /\ next # Never => u.done = t.done /\ u.due = next

\* Such is `advance`.
LEMMA Advanced ==
  ASSUME NEW t \in Task, NEW next \in Dated
  PROVE  GoesOn(t, advance(t, next), next)
<1>1. CASE next = Never
  BY <1>1 DEF advance, GoesOn, Task
<1>2. CASE next # Never
  BY <1>2 DEF advance, GoesOn, Task
<1>3. QED
  BY <1>1, <1>2

\* What a tick writes: a line, what it took from the stock, the next date.
Ticked(t, u, day, used, next) ==
    /\ u \in Task
    /\ u.history = remember(t, day, used).history
    /\ used \in Nat /\ used <= t.qty /\ u.qty = t.qty - used
    /\ u.threshold = t.threshold /\ u.alerted = t.alerted
    /\ next \in Dated
    /\ next = Never => u.done = TRUE /\ u.due = t.due
    /\ next # Never => u.done = t.done /\ u.due = next

\* A line in the history leaves the rest of the task alone.
LEMMA LineOnly ==
  ASSUME NEW t \in Task, NEW day \in Day, NEW used \in Nat
  PROVE  LET u == remember(t, day, used)
         IN  /\ u \in Task /\ u.due = t.due /\ u.done = t.done /\ u.qty = t.qty
             /\ u.threshold = t.threshold /\ u.alerted = t.alerted
<1> DEFINE h == remember(t, day, used).history
<1>1. KeepsTheLast(t, day, used, h)
  BY Remembered
<1>2. remember(t, day, used) = [t EXCEPT !.history = h] /\ h \in Seq(Done)
  BY <1>1 DEF KeepsTheLast
<1> HIDE DEF h
<1>3. [t EXCEPT !.history = h] \in Task
  BY <1>2 DEF Task
<1>4. QED
  BY <1>2, <1>3 DEF Task

\* A tick of the maintenance list.
LEMMA Maintained ==
  ASSUME RuleOK(rec), NEW t \in Task, NEW op \in Operation, maintain(t, op) # t
  PROVE  /\ op.occ = t.due /\ lastDoneDay(t) < op.day
         /\ \E used, next : Ticked(t, maintain(t, op), op.day, used, next)
<1> DEFINE used == lesser(Use, t.qty)
           due == IF t.due = Never THEN op.day ELSE t.due
           next == nextOccurrence(rec, due, op.day)
           r == remember(t, op.day, used)
           s == [r EXCEPT !.paused = Never, !.qty = @ - used]
<1>1. op.day \in Day /\ t.due \in Dated /\ t.qty \in Nat /\ lastDoneDay(t) \in Int
  BY LastLine DEF Operation, Task
<1>2. used \in Nat /\ used <= t.qty
  BY <1>1, TaskSeriesAssumption DEF lesser
<1>3. due \in Day
  BY <1>1 DEF Dated
<1> HIDE DEF due, used
<1>4. next \in Dated
  BY <1>1, <1>3, NextIsLater DEF Dated
<1> HIDE DEF next
<1>5. /\ r \in Task /\ r.due = t.due /\ r.done = t.done /\ r.qty = t.qty
      /\ r.threshold = t.threshold /\ r.alerted = t.alerted
  BY <1>1, <1>2, LineOnly
<1> HIDE DEF r
<1>6. s = [r EXCEPT !.paused = Never, !.qty = t.qty - used]
  BY <1>5 DEF Task
<1> HIDE DEF s
<1>7. t.qty - used \in Nat /\ Never \in Dated
  BY <1>1, <1>2 DEF Dated
<1>8. /\ s \in Task /\ s.due = t.due /\ s.done = t.done /\ s.qty = t.qty - used
      /\ s.threshold = t.threshold /\ s.alerted = t.alerted /\ s.history = r.history
  BY <1>5, <1>6, <1>7 DEF Task
<1>9. GoesOn(s, advance(s, next), next)
  BY <1>4, <1>8, Advanced
<1>10. op.occ = t.due /\ lastDoneDay(t) < op.day /\ maintain(t, op) = advance(s, next)
  <2>1. maintain(t, op) = IF op.occ # t.due \/ lastDoneDay(t) >= op.day THEN t
                          ELSE advance(s, next)
    BY DEF maintain, s, r, used, next, due
  <2>2. op.occ = t.due /\ ~(lastDoneDay(t) >= op.day) /\ maintain(t, op) = advance(s, next)
    BY <2>1
  <2>3. QED
    BY <1>1, <2>2 DEF Day
<1>11. Ticked(t, maintain(t, op), op.day, used, next)
  BY <1>2, <1>4, <1>8, <1>9, <1>10 DEF Ticked, GoesOn, r
<1>12. QED
  BY <1>10, <1>11

\* A tick, wherever the task is.
LEMMA TickedOff ==
  ASSUME RuleOK(rec), NEW t \in Task, NEW op \in Operation, applyDone(t, op) # t
  PROVE  /\ ~t.done /\ op.occ = t.due
         /\ entretien => lastDoneDay(t) < op.day
         /\ \E used, next : /\ Ticked(t, applyDone(t, op), op.day, used, next)
                            /\ ~entretien => next = op.next
<1>1. ~t.done
  BY DEF applyDone
<1>2. CASE entretien
  BY <1>1, <1>2, Maintained DEF applyDone
<1>3. CASE ~entretien
  <2> DEFINE r == remember(t, op.day, 0)
  <2>1. op.occ = t.due /\ applyDone(t, op) = advance(r, op.next)
    BY <1>1, <1>3 DEF applyDone
  <2>2. op.day \in Day /\ op.next \in Dated /\ 0 \in Nat /\ t.qty \in Nat
    BY DEF Operation, Task
  <2>3. /\ r \in Task /\ r.due = t.due /\ r.done = t.done /\ r.qty = t.qty
        /\ r.threshold = t.threshold /\ r.alerted = t.alerted
    BY <2>2, LineOnly
  <2>4. GoesOn(r, advance(r, op.next), op.next)
    BY <2>2, <2>3, Advanced
  <2>5. Ticked(t, applyDone(t, op), op.day, 0, op.next)
    <3> HIDE DEF r
    <3>1. 0 <= t.qty /\ t.qty = t.qty - 0
      BY <2>2
    <3>2. QED
      BY <2>1, <2>2, <2>3, <2>4, <3>1 DEF Ticked, GoesOn, r
  <2>6. QED
    BY <1>1, <1>3, <2>1, <2>5
<1>4. QED
  BY <1>2, <1>3

\* What an undone tick writes: the line gone, what it took given back; no line
\* of that occurrence, and the task only opens.
Reopened(t, u, occ) ==
    /\ u \in Task /\ u.done = FALSE
    /\ u.threshold = t.threshold /\ u.alerted = t.alerted
    /\ \/ /\ t.history # <<>> /\ lastDone(t).due = occ
          /\ u.due = lastDone(t).due /\ u.history = Front(t.history)
          /\ u.qty = lesser(STOCK_MAX, t.qty + lastDone(t).used)
       \/ /\ ~(t.history # <<>> /\ lastDone(t).due = occ)
          /\ u.due = t.due /\ u.history = t.history /\ u.qty = t.qty

\* Such is `applyReopen`.
LEMMA OpenedAgain ==
  ASSUME NEW t \in Task, NEW op
  PROVE  Reopened(t, applyReopen(t, op), op.occ)
<1>1. CASE t.history # <<>> /\ lastDone(t).due = op.occ
  <2> DEFINE l == lastDone(t)
             f == Front(t.history)
             q == lesser(STOCK_MAX, t.qty + l.used)
             u == [t EXCEPT !.done = FALSE, !.due = l.due, !.history = f, !.qty = q]
  <2>1. l \in Done /\ l.due \in Dated /\ l.used \in Nat
    BY <1>1, LastLine DEF Done
  <2>2. f \in Seq(Done)
    BY <1>1, FrontOf DEF Task
  <2>3. q \in Nat
    BY <2>1, TaskSeriesAssumption DEF Task, lesser
  <2>4. applyReopen(t, op) = [t EXCEPT !.done = FALSE, !.due = l.due, !.history = f,
                                       !.qty = lesser(STOCK_MAX, @ + l.used)]
    BY <1>1 DEF applyReopen
  <2> HIDE DEF l, f
  <2>5. applyReopen(t, op) = u
    BY <2>4 DEF Task
  <2> HIDE DEF q
  <2>6. /\ u \in Task /\ u.done = FALSE /\ u.threshold = t.threshold
        /\ u.alerted = t.alerted /\ u.due = l.due /\ u.history = f /\ u.qty = q
    BY <2>1, <2>2, <2>3 DEF Task
  <2> HIDE DEF u
  <2>7. QED
    BY <1>1, <2>5, <2>6 DEF Reopened, l, f, q
<1>2. CASE ~(t.history # <<>> /\ lastDone(t).due = op.occ)
  <2>1. applyReopen(t, op) = [t EXCEPT !.done = FALSE]
    BY <1>2 DEF applyReopen
  <2>2. LET u == [t EXCEPT !.done = FALSE]
        IN  /\ u \in Task /\ u.done = FALSE /\ u.threshold = t.threshold
            /\ u.alerted = t.alerted /\ u.due = t.due /\ u.history = t.history
            /\ u.qty = t.qty
    BY DEF Task
  <2>3. QED
    BY <1>2, <2>1, <2>2 DEF Reopened
<1>3. QED
  BY <1>1, <1>2

\* The form: dates and threshold, those it names.
LEMMA Edited ==
  ASSUME NEW t \in Task, NEW op \in Operation
  PROVE  LET u == applyEdit(t, op)
         IN  /\ u \in Task /\ u.done = t.done /\ u.history = t.history
             /\ u.qty = t.qty /\ u.alerted = t.alerted
             /\ u.due = IF op.due = Kept THEN t.due ELSE op.due
             /\ u.threshold = IF op.threshold = Kept THEN t.threshold ELSE op.threshold
<1> DEFINE due == IF op.due = Kept THEN t.due ELSE op.due
           paused == IF op.paused = Kept THEN t.paused ELSE op.paused
           threshold == IF op.threshold = Kept THEN t.threshold ELSE op.threshold
           u == [t EXCEPT !.due = due, !.paused = paused, !.threshold = threshold]
<1>1. due \in Dated /\ paused \in Dated /\ threshold \in Nat
  BY DEF Operation, Task
<1>2. applyEdit(t, op) = u
  BY DEF applyEdit, Task
<1> HIDE DEF due, paused, threshold
<1>3. /\ u \in Task /\ u.done = t.done /\ u.history = t.history
      /\ u.qty = t.qty /\ u.alerted = t.alerted
      /\ u.due = due /\ u.threshold = threshold
  BY <1>1 DEF Task
<1> HIDE DEF u
<1>4. QED
  BY <1>2, <1>3 DEF due, threshold

\* A skip goes on to the date the device gave, or does nothing.
LEMMA Skipped ==
  ASSUME NEW t \in Task, NEW op \in Operation, applySkip(t, op) # t
  PROVE  ~t.done /\ op.occ = t.due /\ GoesOn(t, applySkip(t, op), op.next)
<1>1. ~t.done /\ op.occ = t.due /\ applySkip(t, op) = advance(t, op.next)
  BY DEF applySkip
<1>2. op.next \in Dated
  BY DEF Operation
<1>3. QED
  BY <1>1, <1>2, Advanced

\* The stock only.
Counted(t, u) ==
    /\ u \in Task /\ u.done = t.done /\ u.due = t.due /\ u.history = t.history
    /\ u.threshold = t.threshold /\ u.alerted = t.alerted

\* What is bought or counted stays within the cap, and touches nothing else.
LEMMA Restocked ==
  ASSUME NEW t \in Task, NEW op \in Operation
  PROVE  /\ op.op = "add" => /\ Counted(t, apply(t, op))
                             /\ apply(t, op).qty = lesser(STOCK_MAX, t.qty + op.qty)
         /\ op.op = "set" => Counted(t, apply(t, op)) /\ apply(t, op).qty = op.qty
<1> DEFINE q == lesser(STOCK_MAX, t.qty + op.qty)
<1>1. q \in Nat /\ op.qty \in Nat
  BY TaskSeriesAssumption DEF Task, Operation, lesser
<1>2. ASSUME op.op = "add" PROVE Counted(t, apply(t, op)) /\ apply(t, op).qty = q
  <2>1. apply(t, op) = [t EXCEPT !.qty = q]
    BY <1>2 DEF apply, Task
  <2> HIDE DEF q
  <2>2. QED
    BY <1>1, <2>1 DEF Counted, Task
<1>3. ASSUME op.op = "set" PROVE Counted(t, apply(t, op)) /\ apply(t, op).qty = op.qty
  <2>1. apply(t, op) = [t EXCEPT !.qty = op.qty]
    BY <1>3 DEF apply
  <2>2. QED
    BY <1>1, <2>1 DEF Counted, Task
<1>4. QED
  BY <1>2, <1>3

\* Which handler an operation goes to.
LEMMA Handled ==
  ASSUME NEW t, NEW op \in Operation
  PROVE  /\ op.op \in {"done", "skip", "reopen", "edit", "add", "set"}
         /\ op.op = "done" => apply(t, op) = applyDone(t, op)
         /\ op.op = "skip" => apply(t, op) = applySkip(t, op)
         /\ op.op = "reopen" => apply(t, op) = applyReopen(t, op)
         /\ op.op = "edit" => apply(t, op) = applyEdit(t, op)
  BY DEF apply, Operation

\* A task stays a task.
LEMMA ApplyTask ==
  ASSUME RuleOK(rec), NEW t \in Task, NEW op \in Operation
  PROVE  apply(t, op) \in Task
<1>1. CASE op.op = "done"
  <2>1. applyDone(t, op) = t \/ \E used, next : Ticked(t, applyDone(t, op), op.day, used, next)
    BY TickedOff
  <2>2. QED
    BY <1>1, <2>1, Handled DEF Ticked
<1>2. CASE op.op = "skip"
  <2>1. applySkip(t, op) = t \/ GoesOn(t, applySkip(t, op), op.next)
    BY Skipped
  <2>2. QED
    BY <1>2, <2>1, Handled DEF GoesOn
<1>3. CASE op.op = "reopen"
  <2>1. Reopened(t, applyReopen(t, op), op.occ)
    BY OpenedAgain
  <2>2. QED
    BY <1>3, <2>1, Handled DEF Reopened
<1>4. CASE op.op = "edit"
  BY <1>4, Edited, Handled
<1>5. CASE op.op \in {"add", "set"}
  BY <1>5, Restocked DEF Counted
<1>6. QED
  BY <1>1, <1>2, <1>3, <1>4, <1>5, Handled

\* What the two sets say of their elements.
LEMMA SoundTaskIs ==
  ASSUME NEW t \in SoundTask
  PROVE  /\ t \in Task /\ t.qty <= STOCK_MAX /\ Len(t.history) <= HISTORY_MAX
         /\ ~entretien => AlwaysDated(t)
  BY DEF SoundTask

\* The same of an operation.
LEMMA SoundOperationIs ==
  ASSUME NEW op \in SoundOperation
  PROVE  /\ op \in Operation
         /\ op.op = "set" => op.qty <= STOCK_MAX
         /\ ~entretien => op.due # Never
         /\ ~entretien /\ rec.base = "due" /\ op.op \in {"done", "skip"} =>
               op.next = Never \/ (op.occ # Never /\ op.next > op.occ)
  BY DEF SoundOperation

\* A task stays within the caps, and dated outside the maintenance list.
LEMMA ApplySound ==
  ASSUME RuleOK(rec), NEW t \in SoundTask, NEW op \in SoundOperation
  PROVE  apply(t, op) \in SoundTask
<1> DEFINE u == apply(t, op)
<1>1. /\ t \in Task /\ op \in Operation /\ t.qty <= STOCK_MAX /\ t.qty \in Nat
      /\ Len(t.history) <= HISTORY_MAX
  BY SoundTaskIs, SoundOperationIs DEF Task
<1>2. u \in Task /\ t.history \in Seq(Done)
  BY <1>1, ApplyTask DEF Task
<1>3. ~entretien => AlwaysDated(t) /\ op.due # Never
  BY SoundTaskIs, SoundOperationIs
<1>4. SoundTask = {x \in Task : /\ x.qty <= STOCK_MAX /\ Len(x.history) <= HISTORY_MAX
                                /\ ~entretien => AlwaysDated(x)}
  BY DEF SoundTask
<1>5. CASE op.op = "done"
  <2>1. u = applyDone(t, op)
    BY <1>1, <1>5, Handled
  <2> SUFFICES ASSUME u # t PROVE u \in SoundTask
    OBVIOUS
  <2> HIDE DEF u
  <2>2. PICK used, next : Ticked(t, u, op.day, used, next) /\ (~entretien => next = op.next)
    BY <1>1, <2>1, TickedOff
  <2>3. op.day \in Day /\ used \in Nat /\ used <= t.qty /\ u.qty = t.qty - used
        /\ u.history = remember(t, op.day, used).history
    BY <1>1, <2>2 DEF Ticked, Operation
  <2>4. u.qty <= STOCK_MAX
    BY <1>1, <2>3, TaskSeriesAssumption
  <2>5. u.due = t.due \/ u.due # Never
    BY <2>2 DEF Ticked
  <2>kept. KeepsTheLast(t, op.day, used, u.history)
    BY <1>1, <2>3, Remembered
  <2>fits. Len(u.history) <= HISTORY_MAX
    BY <2>kept DEF KeepsTheLast
  <2>6. ASSUME ~entretien PROVE AlwaysDated(u)
    <3>2. ASSUME NEW i \in DOMAIN u.history PROVE u.history[i].due # Never
      <4>1. /\ u.history \in Seq(Done) /\ Len(u.history) \in Nat \ {0}
            /\ u.history[Len(u.history)] = Line(t, op.day, used)
            /\ \A j \in 1..(Len(u.history) - 1) : \E k \in DOMAIN t.history :
                  u.history[j] = t.history[k]
        BY <2>kept DEF KeepsTheLast
      <4>2. i = Len(u.history) \/ i \in 1..(Len(u.history) - 1)
        BY <4>1
      <4>3. Line(t, op.day, used).due = t.due
        BY DEF Line
      <4>4. QED
        BY <1>3, <2>6, <4>1, <4>2, <4>3 DEF AlwaysDated
    <3>3. QED
      BY <1>3, <2>5, <2>6, <3>2 DEF AlwaysDated
  <2>7. QED
    BY <1>2, <1>4, <2>4, <2>6, <2>fits DEF u
<1>6. CASE op.op = "skip"
  <2>1. u = applySkip(t, op)
    BY <1>1, <1>6, Handled
  <2> SUFFICES ASSUME u # t PROVE u \in SoundTask
    OBVIOUS
  <2> HIDE DEF u
  <2>2. GoesOn(t, u, op.next)
    BY <1>1, <2>1, Skipped
  <2>3. u.history = t.history /\ u.qty = t.qty /\ (u.due = t.due \/ u.due # Never)
    BY <2>2 DEF GoesOn
  <2>4. QED
    BY <1>1, <1>2, <1>3, <1>4, <2>3 DEF AlwaysDated, u
<1>7. CASE op.op = "reopen"
  <2>1. u = applyReopen(t, op)
    BY <1>1, <1>7, Handled
  <2> HIDE DEF u
  <2>2. Reopened(t, u, op.occ)
    BY <1>1, <2>1, OpenedAgain
  <2>3. CASE t.history # <<>> /\ lastDone(t).due = op.occ
    <3>1. /\ u.due = lastDone(t).due /\ u.history = Front(t.history)
          /\ u.qty = lesser(STOCK_MAX, t.qty + lastDone(t).used)
      BY <2>2, <2>3 DEF Reopened
    <3>2. lastDone(t) \in Done /\ lastDone(t) = t.history[Len(t.history)]
      BY <1>1, <2>3, LastLine
    <3>3. u.qty <= STOCK_MAX
      BY <1>1, <3>1, <3>2, TaskSeriesAssumption DEF lesser, Done
    <3>4. Len(t.history) \in DOMAIN t.history
      BY <1>2, <2>3, FrontOf
    <3>5. \A i \in DOMAIN u.history : i \in DOMAIN t.history /\ u.history[i] = t.history[i]
      BY <1>2, <2>3, <3>1, FrontRises
    <3>fits. Len(u.history) <= HISTORY_MAX
      <4>1. Len(u.history) = Len(t.history) - 1 /\ Len(t.history) - 1 \in Nat
        BY <1>2, <2>3, <3>1, FrontOf
      <4>2. Len(t.history) \in Nat
        BY <1>2
      <4>3. QED
        BY <1>1, <4>1, <4>2, TaskSeriesAssumption
    <3>6. ~entretien => AlwaysDated(u)
      BY <1>3, <3>1, <3>2, <3>4, <3>5 DEF AlwaysDated
    <3>7. QED
      BY <1>2, <1>4, <3>3, <3>6, <3>fits DEF u
  <2>4. CASE ~(t.history # <<>> /\ lastDone(t).due = op.occ)
    <3>1. u.due = t.due /\ u.history = t.history /\ u.qty = t.qty
      BY <2>2, <2>4 DEF Reopened
    <3>2. QED
      BY <1>1, <1>2, <1>3, <1>4, <3>1 DEF AlwaysDated, u
  <2>5. QED
    BY <2>3, <2>4
<1>8. CASE op.op = "edit"
  <2>1. u = applyEdit(t, op)
    BY <1>1, <1>8, Handled
  <2> HIDE DEF u
  <2>2. /\ u.history = t.history /\ u.qty = t.qty
        /\ u.due = IF op.due = Kept THEN t.due ELSE op.due
    BY <1>1, <2>1, Edited
  <2>3. QED
    BY <1>1, <1>2, <1>3, <1>4, <2>2 DEF AlwaysDated, u
<1>9. CASE op.op \in {"add", "set"}
  <2>1. Counted(t, u) /\ u.qty <= STOCK_MAX
    <3>1. CASE op.op = "add"
      <4>1. Counted(t, u) /\ u.qty = lesser(STOCK_MAX, t.qty + op.qty) /\ op.qty \in Nat
        BY <1>1, <3>1, Restocked DEF Operation
      <4> HIDE DEF u
      <4>2. QED
        BY <1>1, <4>1, TaskSeriesAssumption DEF lesser
    <3>2. CASE op.op = "set"
      BY <1>1, <3>2, Restocked DEF SoundOperation
    <3>3. QED
      BY <1>9, <3>1, <3>2
  <2> HIDE DEF u
  <2>2. QED
    BY <1>2, <1>3, <1>4, <2>1 DEF AlwaysDated, Counted, u
<1>10. QED
  BY <1>1, <1>5, <1>6, <1>7, <1>8, <1>9, Handled

\* In the maintenance list, the days of the history go forward.
LEMMA DaysKept ==
  ASSUME RuleOK(rec), entretien, NEW t \in Task, NEW op \in Operation, DaysRise(t.history)
  PROVE  DaysRise(apply(t, op).history)
<1> DEFINE u == apply(t, op)
<1>1. t.history \in Seq(Done)
  BY DEF Task
<1>2. CASE op.op = "done"
  <2>1. u = applyDone(t, op)
    BY <1>2, Handled
  <2> SUFFICES ASSUME u # t PROVE DaysRise(u.history)
    OBVIOUS
  <2> HIDE DEF u
  <2>2. PICK used, next : Ticked(t, u, op.day, used, next) /\ lastDoneDay(t) < op.day
    BY <2>1, TickedOff
  <2>3. op.day \in Day /\ used \in Nat /\ u.history = remember(t, op.day, used).history
    BY <2>2 DEF Ticked, Operation
  <2>4. QED
    BY <2>2, <2>3, RememberedRises
<1>3. CASE op.op = "skip"
  <2>1. u = applySkip(t, op)
    BY <1>3, Handled
  <2>2. u = t \/ u.history = t.history
    BY <2>1, Skipped DEF GoesOn
  <2>3. QED
    BY <2>2
<1>4. CASE op.op = "reopen"
  <2>1. Reopened(t, u, op.occ)
    BY <1>4, Handled, OpenedAgain
  <2>2. u.history = t.history \/ (t.history # <<>> /\ u.history = Front(t.history))
    BY <2>1 DEF Reopened
  <2> HIDE DEF u
  <2>3. DaysRise(u.history)
    BY <1>1, <2>2, FrontRises
  <2>4. QED
    BY <2>3 DEF u
<1>5. CASE op.op = "edit"
  BY <1>5, Handled, Edited
<1>6. CASE op.op \in {"add", "set"}
  BY <1>6, Restocked DEF Counted
<1>7. QED
  BY <1>2, <1>3, <1>4, <1>5, <1>6, Handled

\* At a fixed date, unless the due date is moved by hand or a finished series
\* opened by the undo of an older tick, the series goes forward.
LEMMA ForwardKept ==
  ASSUME RuleOK(rec), ~entretien, rec.base = "due",
         NEW t \in SoundTask, NEW op \in SoundOperation, Forward(t),
         ~(op.op = "edit" /\ op.due # Kept),
         ~(op.op = "reopen" /\ t.done /\ op.occ # t.due)
  PROVE  Forward(apply(t, op))
<1> DEFINE u == apply(t, op)
<1>1. t \in Task /\ op \in Operation /\ t.due \in Dated /\ t.history \in Seq(Done)
  BY SoundTaskIs, SoundOperationIs DEF Task
<1>2. t.due \in Int /\ \A i \in DOMAIN t.history : t.history[i].due # Never
  BY <1>1, SoundTaskIs DEF AlwaysDated, Dated, Day
<1>3. /\ DuesRise(t.history)
      /\ t.history # <<>> => IF t.done THEN lastDone(t).due <= t.due
                                       ELSE lastDone(t).due < t.due
  BY DEF Forward
<1>4. CASE op.op = "done"
  <2>1. u = applyDone(t, op)
    BY <1>1, <1>4, Handled
  <2> SUFFICES ASSUME u # t PROVE Forward(u)
    OBVIOUS
  <2> HIDE DEF u
  <2>2. ~t.done /\ op.occ = t.due
    BY <1>1, <2>1, TickedOff
  <2>3. PICK used, next : Ticked(t, u, op.day, used, next) /\ next = op.next
    BY <1>1, <2>1, TickedOff
  <2>4. op.day \in Day /\ used \in Nat /\ u.history = remember(t, op.day, used).history
    BY <1>1, <2>3 DEF Ticked, Operation
  <2>5. t.due # Never /\ (t.history # <<>> => lastDone(t).due < t.due)
    BY <1>2, <1>3, <2>2, RecurrenceAssumption
  <2>6. DuesRise(u.history)
    BY <1>1, <1>2, <1>3, <2>4, <2>5, RememberedRises
  <2>7. KeepsTheLast(t, op.day, used, u.history)
    BY <1>1, <2>4, Remembered
  <2>8. lastDone(u).due = t.due
    BY <2>7 DEF KeepsTheLast, Line, lastDone
  <2>9. CASE op.next = Never
    <3>1. u.done = TRUE /\ u.due = t.due
      BY <2>3, <2>9 DEF Ticked
    <3>2. lastDone(u).due <= u.due
      BY <1>2, <2>8, <3>1
    <3>3. QED
      BY <2>6, <3>1, <3>2 DEF Forward
  <2>10. CASE op.next # Never
    <3>1. u.due = op.next /\ op.next > op.occ
      BY <1>4, <2>3, <2>10 DEF Ticked, SoundOperation
    <3>2. op.next \in Int
      BY <1>1, <2>10 DEF Operation, Dated, Day
    <3>3. lastDone(u).due < u.due /\ lastDone(u).due <= u.due
      BY <1>2, <2>2, <2>8, <3>1, <3>2
    <3>4. QED
      BY <2>6, <3>3 DEF Forward
  <2>11. QED
    BY <2>9, <2>10
<1>5. CASE op.op = "skip"
  <2>1. u = applySkip(t, op)
    BY <1>1, <1>5, Handled
  <2> SUFFICES ASSUME u # t PROVE Forward(u)
    OBVIOUS
  <2> HIDE DEF u
  <2>2. ~t.done /\ op.occ = t.due /\ GoesOn(t, u, op.next)
    BY <1>1, <2>1, Skipped
  <2>3. u.history = t.history /\ lastDone(u) = lastDone(t)
    BY <2>2 DEF GoesOn, lastDone
  <2>4. t.history # <<>> => lastDone(t).due \in Int
    <3>1. t.history # <<>> => Len(t.history) \in DOMAIN t.history
      BY <1>1, FrontOf
    <3>2. QED
      BY <1>1, <1>2, <3>1, LastLine DEF Done, Dated, Day
  <2>5. t.history # <<>> => lastDone(t).due < t.due
    BY <1>3, <2>2
  <2>6. CASE op.next = Never
    <3>1. u.done = TRUE /\ u.due = t.due
      BY <2>2, <2>6 DEF GoesOn
    <3>2. t.history # <<>> => lastDone(t).due <= t.due
      BY <1>2, <2>4, <2>5
    <3>3. QED
      BY <1>3, <2>3, <3>1, <3>2 DEF Forward
  <2>7. CASE op.next # Never
    <3>1. u.due = op.next /\ op.next > op.occ
      BY <1>5, <2>2, <2>7 DEF GoesOn, SoundOperation
    <3>2. op.next \in Int
      BY <1>1, <2>7 DEF Operation, Dated, Day
    <3>3. t.history # <<>> => lastDone(t).due < u.due /\ lastDone(t).due <= u.due
      BY <1>2, <2>2, <2>4, <2>5, <3>1, <3>2
    <3>4. QED
      BY <1>3, <2>3, <3>3 DEF Forward
  <2>8. QED
    BY <2>6, <2>7
<1>6. CASE op.op = "reopen"
  <2>1. Reopened(t, u, op.occ)
    BY <1>1, <1>6, Handled, OpenedAgain
  <2> HIDE DEF u
  <2>2. CASE t.history # <<>> /\ lastDone(t).due = op.occ
    <3>1. u.done = FALSE /\ u.due = lastDone(t).due /\ u.history = Front(t.history)
      BY <2>1, <2>2 DEF Reopened
    <3>2. lastDone(t) = t.history[Len(t.history)]
      BY <1>1, <2>2, LastLine
    <3>3. DuesRise(u.history) /\ \A i \in DOMAIN u.history : u.history[i].due < u.due
      BY <1>1, <1>3, <2>2, <3>1, <3>2, FrontRises
    <3>4. u.history \in Seq(Done)
      BY <1>1, <2>2, <3>1, FrontOf
    <3>5. u.history # <<>> => Len(u.history) \in DOMAIN u.history
      BY <3>4, FrontOf
    <3>6. u.history # <<>> => lastDone(u).due < u.due
      BY <3>3, <3>5 DEF lastDone
    <3>7. QED
      BY <3>1, <3>3, <3>6 DEF Forward, u
  <2>3. CASE ~(t.history # <<>> /\ lastDone(t).due = op.occ)
    <3>1. u.done = FALSE /\ u.due = t.due /\ u.history = t.history
      BY <2>1, <2>3 DEF Reopened
    <3>2. lastDone(u) = lastDone(t)
      BY <3>1 DEF lastDone
    <3>3. t.history # <<>> => lastDone(t).due < t.due
      <4>1. CASE ~t.done
        BY <1>3, <4>1
      <4>2. CASE t.done /\ t.history # <<>>
        <5>1. op.occ = t.due /\ lastDone(t).due # t.due /\ lastDone(t).due <= t.due
          BY <1>3, <1>6, <2>3, <4>2
        <5>2. Len(t.history) \in DOMAIN t.history
          BY <1>1, <4>2, FrontOf
        <5>3. lastDone(t).due \in Int
          BY <1>1, <1>2, <4>2, <5>2, LastLine DEF Done, Dated, Day
        <5>4. QED
          BY <1>2, <5>1, <5>3
      <4>3. QED
        BY <4>1, <4>2
    <3>4. QED
      BY <1>3, <3>1, <3>2, <3>3 DEF Forward, u
  <2>4. QED
    BY <2>2, <2>3
<1>7. CASE op.op = "edit"
  <2>1. u.done = t.done /\ u.due = t.due /\ u.history = t.history
    BY <1>1, <1>7, Handled, Edited
  <2> HIDE DEF u
  <2>2. Forward(u)
    BY <1>3, <2>1 DEF Forward, lastDone
  <2>3. QED
    BY <2>2 DEF u
<1>8. CASE op.op \in {"add", "set"}
  <2>1. u.done = t.done /\ u.due = t.due /\ u.history = t.history
    BY <1>1, <1>8, Restocked DEF Counted
  <2> HIDE DEF u
  <2>2. Forward(u)
    BY <1>3, <2>1 DEF Forward, lastDone
  <2>3. QED
    BY <2>2 DEF u
<1>9. QED
  BY <1>1, <1>4, <1>5, <1>6, <1>7, <1>8, Handled

\* Short of the two caps, an operation other than a purchase or a count leaves
\* the stock and what the history took with the same sum.
LEMMA SumKept ==
  ASSUME RuleOK(rec), NEW t \in Task, NEW op \in Operation,
         op.op \notin {"add", "set"},
         op.op = "done" => Len(t.history) # HISTORY_MAX,
         op.op = "reopen" /\ t.history # <<>> => t.qty + lastDone(t).used <= STOCK_MAX,
         Len(t.history) <= HISTORY_MAX
  PROVE  apply(t, op).qty + taken(apply(t, op).history) = t.qty + taken(t.history)
<1> DEFINE u == apply(t, op)
<1>1. /\ t.history \in Seq(Done) /\ t.qty \in Nat /\ Len(t.history) \in Nat
      /\ HISTORY_MAX \in Nat /\ STOCK_MAX \in Nat
  BY TaskSeriesAssumption DEF Task
<1>2. CASE op.op = "done"
  <2>1. u = applyDone(t, op)
    BY <1>2, Handled
  <2> SUFFICES ASSUME u # t PROVE u.qty + taken(u.history) = t.qty + taken(t.history)
    OBVIOUS
  <2> HIDE DEF u
  <2>2. PICK used, next : Ticked(t, u, op.day, used, next)
    BY <2>1, TickedOff
  <2>3. op.day \in Day /\ used \in Nat /\ u.history = remember(t, op.day, used).history
        /\ u.qty = t.qty - used
    BY <2>2 DEF Ticked, Operation
  <2> DEFINE line == Line(t, op.day, used)
  <2>4. KeepsTheLast(t, op.day, used, u.history)
    BY <2>3, Remembered
  <2>5. line \in Done /\ line.used = used
    BY <2>4 DEF KeepsTheLast, Line
  <2>6. Len(t.history) < HISTORY_MAX
    BY <1>1, <1>2
  <2>7. u.history = Append(t.history, line)
    BY <2>4, <2>6 DEF KeepsTheLast
  <2> HIDE DEF line
  <2>8. taken(t.history) \in Int /\ taken(u.history) = taken(t.history) + line.used
    BY <1>1, <2>5, <2>7, TakenAppend
  <2>9. QED
    BY <1>1, <2>3, <2>5, <2>8
<1>3. CASE op.op = "skip"
  <2>1. u = applySkip(t, op)
    BY <1>3, Handled
  <2>2. u = t \/ (u.history = t.history /\ u.qty = t.qty)
    BY <2>1, Skipped DEF GoesOn
  <2>3. QED
    BY <2>2
<1>4. CASE op.op = "reopen"
  <2>1. Reopened(t, u, op.occ)
    BY <1>4, Handled, OpenedAgain
  <2> HIDE DEF u
  <2>2. CASE t.history # <<>> /\ lastDone(t).due = op.occ
    <3> DEFINE l == lastDone(t)
               f == Front(t.history)
    <3>1. u.history = f /\ u.qty = lesser(STOCK_MAX, t.qty + l.used)
      BY <2>1, <2>2 DEF Reopened
    <3>2. l \in Done /\ l = t.history[Len(t.history)]
      BY <2>2, LastLine
    <3>3. f \in Seq(Done) /\ t.history = Append(f, l)
      BY <1>1, <2>2, <3>2, FrontOf
    <3>4. t.qty + l.used <= STOCK_MAX
      BY <1>4, <2>2
    <3> HIDE DEF l, f
    <3>5. l.used \in Nat
      BY <3>2 DEF Done
    <3>6. u.qty = t.qty + l.used
      BY <1>1, <3>1, <3>4, <3>5 DEF lesser
    <3>7. taken(f) \in Int /\ taken(t.history) = taken(f) + l.used
      BY <3>2, <3>3, TakenAppend
    <3>8. u.qty + taken(u.history) = t.qty + taken(t.history)
      BY <1>1, <3>1, <3>5, <3>6, <3>7
    <3>9. QED
      BY <3>8 DEF u
  <2>3. CASE ~(t.history # <<>> /\ lastDone(t).due = op.occ)
    BY <2>1, <2>3 DEF Reopened, u
  <2>4. QED
    BY <2>2, <2>3
<1>5. CASE op.op = "edit"
  BY <1>5, Handled, Edited
<1>6. QED
  BY <1>2, <1>3, <1>4, <1>5, Handled

\* What is kept of the server stays true to the operations it applied.
LEMMA ServedHonest ==
  ASSUME RuleOK(rec), NEW m \in HonestMemory, NEW op \in SoundOperation
  PROVE  served(m, op) \in HonestMemory
<1> DEFINE t == m.task
           u == apply(t, op)
           bought == IF op.op \in {"add", "set"} THEN m.bought + u.qty - t.qty ELSE m.bought
           rewound == \/ m.rewound
                      \/ op.op = "edit" /\ op.due # Kept
                      \/ op.op = "reopen" /\ t.done /\ op.occ # t.due
           cut == \/ m.cut
                  \/ op.op = "done" /\ Len(t.history) = HISTORY_MAX
                  \/ /\ op.op = "reopen" /\ t.history # <<>>
                     /\ t.qty + lastDone(t).used > STOCK_MAX
           w == [task |-> u, bought |-> bought, rewound |-> rewound, cut |-> cut]
<1>1. served(m, op) = w
  BY DEF served
<1>2. /\ m \in Memory /\ t \in SoundTask
      /\ entretien => DaysRise(t.history)
      /\ rec.base = "due" /\ ~entretien /\ ~m.rewound => Forward(t)
      /\ ~m.cut => t.qty + taken(t.history) = m.bought
  BY DEF HonestMemory
<1>3. /\ t \in Task /\ op \in Operation /\ t.history \in Seq(Done) /\ t.qty \in Nat
      /\ m.bought \in Int /\ Len(t.history) <= HISTORY_MAX
  BY <1>2, SoundTaskIs, SoundOperationIs DEF Memory, Task
<1> HIDE DEF t
<1>4. u \in SoundTask /\ u \in Task /\ u.qty \in Nat
  BY <1>2, ApplySound DEF SoundTask, Task
<1>5. entretien => DaysRise(u.history)
  BY <1>2, <1>3, DaysKept
<1>6. rec.base = "due" /\ ~entretien /\ ~rewound => Forward(u)
  <2> SUFFICES ASSUME rec.base = "due", ~entretien, ~rewound PROVE Forward(u)
    OBVIOUS
  <2>1. /\ ~m.rewound /\ ~(op.op = "edit" /\ op.due # Kept)
        /\ ~(op.op = "reopen" /\ t.done /\ op.occ # t.due)
    OBVIOUS
  <2>2. Forward(t)
    BY <1>2, <2>1
  <2>3. QED
    BY <1>2, <2>1, <2>2, ForwardKept
<1>7. ~cut => u.qty + taken(u.history) = bought
  <2> SUFFICES ASSUME ~cut PROVE u.qty + taken(u.history) = bought
    OBVIOUS
  <2>1. t.qty + taken(t.history) = m.bought
    BY <1>2
  <2>2. CASE op.op \in {"add", "set"}
    <3>1. u.history = t.history
      BY <1>3, <2>2, Restocked DEF Counted
    <3>2. bought = m.bought + u.qty - t.qty
      BY <2>2
    <3>3. taken(t.history) \in Int
      BY <1>3, TakenInt
    <3> HIDE DEF u, bought
    <3>4. QED
      BY <1>3, <1>4, <2>1, <3>1, <3>2, <3>3 DEF bought
  <2>3. CASE op.op \notin {"add", "set"}
    <3>1. op.op = "done" => Len(t.history) # HISTORY_MAX
      OBVIOUS
    <3>2. op.op = "reopen" /\ t.history # <<>> => ~(t.qty + lastDone(t).used > STOCK_MAX)
      OBVIOUS
    <3>3. op.op = "reopen" /\ t.history # <<>> => t.qty + lastDone(t).used <= STOCK_MAX
      <4>1. t.history # <<>> => lastDone(t).used \in Nat
        BY <1>3, LastLine DEF Done
      <4>2. QED
        BY <1>3, <3>2, <4>1, TaskSeriesAssumption
    <3>4. u.qty + taken(u.history) = t.qty + taken(t.history)
      BY <1>3, <2>3, <3>1, <3>3, SumKept
    <3>5. QED
      BY <2>1, <2>3, <3>4
  <2>4. QED
    BY <2>2, <2>3
<1>8. bought \in Int
  BY <1>3, <1>4
<1>9. rewound \in BOOLEAN /\ cut \in BOOLEAN
  BY <1>2 DEF Memory
<1> HIDE DEF u, bought, rewound, cut
<1>10. w \in Memory
  BY <1>4, <1>8, <1>9 DEF Memory
<1>11. w.task = u /\ w.bought = bought /\ w.rewound = rewound /\ w.cut = cut
  OBVIOUS
<1> HIDE DEF w
<1>12. QED
  BY <1>1, <1>4, <1>5, <1>6, <1>7, <1>10, <1>11 DEF HonestMemory

\* No operation touches the mark of the shopping list.
LEMMA AlertKept ==
  ASSUME RuleOK(rec), NEW t \in Task, NEW op \in Operation
  PROVE  apply(t, op).alerted = t.alerted
<1>1. CASE op.op = "done"
  <2>1. applyDone(t, op) = t \/ \E used, next : Ticked(t, applyDone(t, op), op.day, used, next)
    BY TickedOff
  <2>2. QED
    BY <1>1, <2>1, Handled DEF Ticked
<1>2. CASE op.op = "skip"
  <2>1. applySkip(t, op) = t \/ GoesOn(t, applySkip(t, op), op.next)
    BY Skipped
  <2>2. QED
    BY <1>2, <2>1, Handled DEF GoesOn
<1>3. CASE op.op = "reopen"
  <2>1. Reopened(t, applyReopen(t, op), op.occ)
    BY OpenedAgain
  <2>2. QED
    BY <1>3, <2>1, Handled DEF Reopened
<1>4. CASE op.op = "edit"
  BY <1>4, Handled, Edited
<1>5. CASE op.op \in {"add", "set"}
  BY <1>5, Restocked DEF Counted
<1>6. QED
  BY <1>1, <1>2, <1>3, <1>4, <1>5, Handled

-----------------------------------------------------------------------------
(***************************************************************************)
(* The gestures of a device.                                               *)
(***************************************************************************)

\* An operation that says nothing yet.
LEMMA BareOperation ==
  ASSUME today \in Day, NEW o \in {"done", "skip", "reopen", "edit", "add", "set"}
  PROVE  /\ Bare(o) \in Operation /\ Bare(o).op = o
         /\ Bare(o).due = Kept /\ Bare(o).next = Never /\ Kept # Never
  BY TaskSeriesAssumption DEF Bare, Operation, Dated

\* What a device can ask is sound, whatever its kind.
LEMMA EditIsSound ==
  ASSUME today \in Day, NEW due \in Dated \union {Kept}, NEW paused \in Dated \union {Kept},
         NEW threshold \in Nat \union {Kept}, ~entretien => due # Never
  PROVE  [Bare("edit") EXCEPT !.due = due, !.paused = paused, !.threshold = threshold]
            \in SoundOperation
<1> DEFINE b == Bare("edit")
           e == [b EXCEPT !.due = due, !.paused = paused, !.threshold = threshold]
<1>1. b \in Operation /\ b.op = "edit"
  BY BareOperation
<1> HIDE DEF b
<1>2. e \in Operation /\ e.op = "edit" /\ e.due = due
  BY <1>1 DEF Operation
<1> HIDE DEF e
<1>3. e \in SoundOperation
  BY <1>2 DEF SoundOperation
<1>4. QED
  BY <1>3 DEF e, b

\* The one that names an occurrence, and the date that follows.
LEMMA OccurrenceIsSound ==
  ASSUME today \in Day, NEW o \in {"done", "skip", "reopen"}, NEW occ \in Dated,
         NEW next \in Dated, NEW day \in Day,
         ~entretien /\ rec.base = "due" => next = Never \/ (occ # Never /\ next > occ)
  PROVE  [Bare(o) EXCEPT !.occ = occ, !.next = next, !.day = day] \in SoundOperation
<1> DEFINE b == Bare(o)
           e == [b EXCEPT !.occ = occ, !.next = next, !.day = day]
<1>1. b \in Operation /\ b.op = o /\ b.due # Never
  BY BareOperation
<1> HIDE DEF b
<1>2. /\ e \in Operation /\ e.op = o /\ e.due # Never
      /\ e.occ = occ /\ e.next = next
  BY <1>1 DEF Operation
<1> HIDE DEF e
<1>3. e \in SoundOperation
  BY <1>2 DEF SoundOperation
<1>4. QED
  BY <1>3 DEF e, b

\* The one that counts.
LEMMA CountIsSound ==
  ASSUME today \in Day, NEW o \in {"add", "set"}, NEW qty \in Nat, qty <= STOCK_MAX
  PROVE  [Bare(o) EXCEPT !.qty = qty] \in SoundOperation
<1> DEFINE b == Bare(o)
           e == [b EXCEPT !.qty = qty]
<1>1. b \in Operation /\ b.op = o /\ b.due # Never
  BY BareOperation
<1> HIDE DEF b
<1>2. e \in Operation /\ e.op = o /\ e.due # Never /\ e.qty = qty
  BY <1>1 DEF Operation
<1> HIDE DEF e
<1>3. e \in SoundOperation
  BY <1>2 DEF SoundOperation
<1>4. QED
  BY <1>3 DEF e, b

\* The operation that undoes another is one a device can ask.
LEMMA InverseIsSound ==
  ASSUME today \in Day, NEW t \in SoundTask, NEW op \in SoundOperation
  PROVE  inverseOf(op, t) \in Seq(SoundOperation)
<1>1. /\ t \in Task /\ t.qty <= STOCK_MAX /\ t.due \in Dated /\ t.paused \in Dated
      /\ t.threshold \in Nat /\ t.qty \in Nat /\ (~entretien => t.due # Never)
  BY SoundTaskIs DEF AlwaysDated, Task
<1>2. op \in Operation
  BY SoundOperationIs
<1>3. /\ <<>> \in Seq(SoundOperation)
      /\ \A o \in SoundOperation : <<o>> \in Seq(SoundOperation)
  OBVIOUS
<1>4. Kept # Never /\ Kept \in Dated \union {Kept} /\ Kept \in Nat \union {Kept} /\ Never \in Dated
  BY TaskSeriesAssumption DEF Dated
<1>5. \A o \in {"done", "reopen"} : [Bare(o) EXCEPT !.occ = t.due] \in SoundOperation
  <2> SUFFICES ASSUME NEW o \in {"done", "reopen"}
               PROVE  [Bare(o) EXCEPT !.occ = t.due] \in SoundOperation
    OBVIOUS
  <2> DEFINE b == Bare(o)
             e == [b EXCEPT !.occ = t.due]
  <2>1. b \in Operation /\ b.op = o /\ b.next = Never /\ b.due # Never
    BY BareOperation
  <2> HIDE DEF b
  <2>2. e \in Operation /\ e.op = o /\ e.next = Never /\ e.due # Never
    BY <1>1, <2>1 DEF Operation
  <2> HIDE DEF e
  <2>3. e \in SoundOperation
    BY <2>2 DEF SoundOperation
  <2>4. QED
    BY <2>3 DEF e, b
<1>6. CASE op.op = "done"
  <2>1. inverseOf(op, t) = IF t.done THEN <<>> ELSE <<[Bare("reopen") EXCEPT !.occ = t.due]>>
    BY <1>6 DEF inverseOf
  <2>2. QED
    BY <1>3, <1>5, <2>1
<1>7. CASE op.op = "reopen"
  <2>1. inverseOf(op, t) = IF t.done THEN <<[Bare("done") EXCEPT !.occ = t.due]>> ELSE <<>>
    BY <1>7 DEF inverseOf
  <2>2. QED
    BY <1>3, <1>5, <2>1
<1>8. CASE op.op = "skip"
  <2>1. inverseOf(op, t) = IF t.done THEN <<>> ELSE <<[Bare("edit") EXCEPT !.due = t.due]>>
    BY <1>8 DEF inverseOf
  <2>2. [Bare("edit") EXCEPT !.due = t.due] \in SoundOperation
    <3> DEFINE b == Bare("edit")
               e == [b EXCEPT !.due = t.due]
    <3>1. b \in Operation /\ b.op = "edit"
      BY BareOperation
    <3> HIDE DEF b
    <3>2. e \in Operation /\ e.op = "edit" /\ e.due = t.due
      BY <1>1, <3>1 DEF Operation
    <3> HIDE DEF e
    <3>3. e \in SoundOperation
      BY <1>1, <3>2 DEF SoundOperation
    <3>4. QED
      BY <3>3 DEF e, b
  <2>3. QED
    BY <1>3, <2>1, <2>2
<1>9. CASE op.op \in {"add", "set"}
  <2>1. inverseOf(op, t) = <<[Bare("set") EXCEPT !.qty = t.qty]>>
    BY <1>9 DEF inverseOf
  <2>2. [Bare("set") EXCEPT !.qty = t.qty] \in SoundOperation
    BY <1>1, CountIsSound
  <2>3. QED
    BY <1>3, <2>1, <2>2
<1>10. CASE op.op = "edit"
  <2> DEFINE due == IF op.due = Kept THEN Kept ELSE t.due
             paused == IF op.paused = Kept THEN Kept ELSE t.paused
             threshold == IF op.threshold = Kept THEN Kept ELSE t.threshold
             e == [Bare("edit") EXCEPT !.due = due, !.paused = paused,
                                       !.threshold = threshold]
  <2>1. inverseOf(op, t) = <<e>>
    BY <1>10 DEF inverseOf
  <2>2. /\ due \in Dated \union {Kept} /\ paused \in Dated \union {Kept}
        /\ threshold \in Nat \union {Kept} /\ (~entretien => due # Never)
    BY <1>1, <1>4
  <2> HIDE DEF due, paused, threshold
  <2>3. e \in SoundOperation
    BY <2>2, EditIsSound
  <2> HIDE DEF e
  <2>4. QED
    BY <1>3, <2>1, <2>3
<1>11. QED
  BY <1>2, <1>6, <1>7, <1>8, <1>9, <1>10, Handled

-----------------------------------------------------------------------------
(***************************************************************************)
(* The invariant.                                                          *)
(***************************************************************************)

\* The rule and the list of the task do not change, nor what depends on them.
LEMMA SetsKept ==
  ASSUME rec' = rec, entretien' = entretien
  PROVE  /\ SoundTask' = SoundTask /\ SoundOperation' = SoundOperation
         /\ HonestMemory' = HonestMemory
<1>1. SoundTask' = SoundTask /\ SoundOperation' = SoundOperation
  BY DEF SoundTask, SoundOperation
<1>2. QED
  BY <1>1 DEF HonestMemory

\* Sound screens and queues are screens and queues.
LEMMA SoundIsTyped ==
  ASSUME NEW f
  PROVE  /\ f \in [Device -> SoundTask] => f \in [Device -> Task]
         /\ f \in [Device -> Seq(SoundOperation)] => f \in [Device -> Seq(Operation)]
<1>1. SoundTask \subseteq Task
  BY SoundTaskIs
<1>2. SoundOperation \subseteq Operation
  BY SoundOperationIs
<1>3. Seq(SoundOperation) \subseteq Seq(Operation)
  BY <1>2
<1>4. QED
  BY <1>1, <1>3

\* What the invariant says of the rule and the day.
LEMMA InvIs ==
  ASSUME SeriesInv
  PROVE  /\ RuleOK(rec) /\ rec \in Rules /\ entretien \in BOOLEAN /\ today \in Day
         /\ server \in HonestMemory /\ gestures \in 0..MaxGestures[rec]
         /\ today \in Moments \union {Start} /\ MaxGestures[rec] \in Nat
         /\ shown \in [Device -> SoundTask]
         /\ queue \in [Device -> Seq(SoundOperation)]
         /\ toast \in [Device -> Seq(SoundOperation)]
         /\ AlertedWhenLow
<1>1. rec \in Rules /\ today \in Moments \union {Start}
  BY DEF SeriesInv, SeriesTypeOK
<1>2. RuleOK(rec) /\ today \in Day
  BY <1>1, TaskSeriesAssumption
<1>3. MaxGestures[rec] \in Nat
  BY <1>1, TaskSeriesAssumption
<1>4. QED
  BY <1>1, <1>2, <1>3 DEF SeriesInv, SeriesTypeOK

\* The invariant after a step that leaves the rule alone.
LEMMA InvFrom ==
  ASSUME SeriesInv, rec' = rec, entretien' = entretien, today' \in Moments \union {Start},
         server' \in HonestMemory, AlertedWhenLow', gestures' \in 0..MaxGestures[rec],
         shown' \in [Device -> SoundTask],
         queue' \in [Device -> Seq(SoundOperation)],
         toast' \in [Device -> Seq(SoundOperation)]
  PROVE  SeriesInv'
<1>1. server' \in Memory
  BY DEF HonestMemory
<1>2. /\ shown' \in [Device -> Task] /\ queue' \in [Device -> Seq(Operation)]
      /\ toast' \in [Device -> Seq(Operation)]
  BY SoundIsTyped
<1>3. rec' \in Rules /\ entretien' \in BOOLEAN /\ gestures' \in 0..MaxGestures[rec']
  BY InvIs
<1>4. SeriesTypeOK'
  BY <1>1, <1>2, <1>3 DEF SeriesTypeOK
<1>5. /\ server' \in HonestMemory' /\ shown' \in [Device -> SoundTask']
      /\ queue' \in [Device -> Seq(SoundOperation')]
      /\ toast' \in [Device -> Seq(SoundOperation')]
  BY SetsKept
<1>6. QED
  BY <1>4, <1>5 DEF SeriesInv

\* A gesture: a sound operation on a screen and in its queue.
LEMMA PushKeeps ==
  ASSUME SeriesInv, NEW d \in Device, NEW op \in SoundOperation,
         NEW back \in Seq(SoundOperation), pushTaskOps(d, op, back)
  PROVE  SeriesInv'
<1>1. /\ gestures < MaxGestures[rec] /\ gestures' = gestures + 1
      /\ shown' = [shown EXCEPT ![d] = apply(@, op)]
      /\ queue' = [queue EXCEPT ![d] = Append(@, op)]
      /\ toast' = [toast EXCEPT ![d] = back]
      /\ rec' = rec /\ entretien' = entretien /\ today' = today /\ server' = server
  BY DEF pushTaskOps
<1>2. shown' \in [Device -> SoundTask]
  <2>1. shown[d] \in SoundTask
    BY InvIs
  <2>2. apply(shown[d], op) \in SoundTask
    BY <2>1, InvIs, ApplySound
  <2>3. QED
    BY <1>1, <2>2, InvIs
<1>3. queue' \in [Device -> Seq(SoundOperation)]
  <2>1. queue[d] \in Seq(SoundOperation)
    BY InvIs
  <2>2. Append(queue[d], op) \in Seq(SoundOperation)
    BY <2>1
  <2>3. QED
    BY <1>1, <2>2, InvIs
<1>4. toast' \in [Device -> Seq(SoundOperation)]
  BY <1>1, InvIs
<1>5. gestures' \in 0..MaxGestures[rec]
  BY <1>1, InvIs
<1>6. AlertedWhenLow'
  BY <1>1, InvIs DEF AlertedWhenLow
<1>7. server' \in HonestMemory /\ today' \in Moments \union {Start}
  BY <1>1, InvIs
<1>8. QED
  BY <1>1, <1>2, <1>3, <1>4, <1>5, <1>6, <1>7, InvFrom

\* ... with the button that undoes it.
LEMMA PushWithUndoKeeps ==
  ASSUME SeriesInv, NEW d \in Device, NEW op \in SoundOperation, taskOpWithUndo(d, op)
  PROVE  SeriesInv'
<1>1. shown[d] \in SoundTask /\ today \in Day
  BY InvIs
<1>2. inverseOf(op, shown[d]) \in Seq(SoundOperation)
  BY <1>1, InverseIsSound
<1>3. pushTaskOps(d, op, inverseOf(op, shown[d]))
  BY DEF taskOpWithUndo
<1>4. QED
  BY <1>2, <1>3, PushKeeps

\* The tick a device can make is sound.
LEMMA TickIsSound ==
  ASSUME RuleOK(rec), today \in Day, NEW t \in SoundTask, NEW day \in Day
  PROVE  doneOp(t, day) \in SoundOperation
<1> DEFINE due == IF t.due = Never THEN day ELSE t.due
           next == nextOccurrence(rec, due, day)
           b == Bare("done")
           e == [b EXCEPT !.occ = t.due, !.day = day, !.next = next]
<1>1. t.due \in Dated /\ (~entretien => t.due # Never)
  BY SoundTaskIs DEF Task, AlwaysDated
<1>2. due \in Day /\ (~entretien => due = t.due)
  BY <1>1 DEF Dated
<1> HIDE DEF due
<1>3. next = Never \/ (next \in Day /\ (rec.base = "due" => next > due))
  BY <1>2, NextIsLater
<1>4. next \in Dated
  BY <1>3 DEF Dated
<1>5. doneOp(t, day) = e
  BY DEF doneOp, next, due
<1> HIDE DEF next
<1>6. b \in Operation /\ b.op = "done" /\ b.due # Never
  BY BareOperation
<1> HIDE DEF b
<1>7. /\ e \in Operation /\ e.op = "done" /\ e.due # Never
      /\ e.occ = t.due /\ e.next = next
  BY <1>1, <1>4, <1>6 DEF Operation
<1> HIDE DEF e
<1>8. ~entretien /\ rec.base = "due" => next = Never \/ (t.due # Never /\ next > t.due)
  BY <1>1, <1>2, <1>3
<1>9. e \in SoundOperation
  BY <1>7, <1>8 DEF SoundOperation
<1>10. QED
  BY <1>5, <1>9

\* So is the skip.
LEMMA SkipIsSound ==
  ASSUME RuleOK(rec), today \in Day, NEW t \in SoundTask, t.due # Never
  PROVE  skipOp(t) \in SoundOperation
<1> DEFINE on == IF rec.base = "done" THEN later(t.due, today) ELSE t.due
           next == nextOccurrence(rec, t.due, on)
           b == Bare("skip")
           e == [b EXCEPT !.occ = t.due, !.next = next]
<1>1. t.due \in Day
  BY SoundTaskIs DEF Task, Dated
<1>2. on \in Day
  BY <1>1 DEF later
<1> HIDE DEF on
<1>3. next = Never \/ (next \in Day /\ (rec.base = "due" => next > t.due))
  BY <1>1, <1>2, NextIsLater
<1>4. next \in Dated /\ t.due \in Dated
  BY <1>1, <1>3 DEF Dated
<1>5. skipOp(t) = e
  BY DEF skipOp, skipOccurrence, next, on
<1> HIDE DEF next
<1>6. b \in Operation /\ b.op = "skip" /\ b.due # Never
  BY BareOperation
<1> HIDE DEF b
<1>7. /\ e \in Operation /\ e.op = "skip" /\ e.due # Never
      /\ e.occ = t.due /\ e.next = next
  BY <1>4, <1>6 DEF Operation
<1> HIDE DEF e
<1>8. e \in SoundOperation
  BY <1>3, <1>7 DEF SoundOperation
<1>9. QED
  BY <1>5, <1>8

\* The task as it is created.
LEMMA FreshIsSound ==
  ASSUME NEW due \in Dated, entretien \/ due # Never
  PROVE  LET t == Fresh(due, 3 * Use)
         IN  /\ t \in SoundTask /\ t.history = <<>> /\ t.qty = 3 * Use
             /\ t.threshold = Use /\ t.alerted = FALSE
<1> DEFINE t == Fresh(due, 3 * Use)
<1>1. Use \in Nat /\ 3 * Use \in Nat /\ 3 * Use <= STOCK_MAX /\ Never \in Dated
  BY TaskSeriesAssumption DEF Dated
<1>2. /\ t \in Task /\ t.history = <<>> /\ t.qty = 3 * Use /\ t.due = due
      /\ t.threshold = Use /\ t.alerted = FALSE
  BY <1>1 DEF Fresh, Task
<1>3. Len(<<>>) = 0 /\ DOMAIN <<>> = {}
  OBVIOUS
<1> HIDE DEF t
<1>4. ~entretien => AlwaysDated(t)
  BY <1>2, <1>3 DEF AlwaysDated
<1>5. t.qty <= STOCK_MAX /\ Len(t.history) <= HISTORY_MAX
  BY <1>1, <1>2, <1>3, TaskSeriesAssumption
<1>6. t \in SoundTask
  BY <1>2, <1>4, <1>5 DEF SoundTask
<1>7. QED
  BY <1>2, <1>6 DEF t

\* It holds at the start.
LEMMA InitInv ==
  Init => SeriesInv
<1> SUFFICES ASSUME Init PROVE SeriesInv
  OBVIOUS
<1>1. /\ rec \in Rules /\ entretien \in BOOLEAN /\ today = Start /\ gestures = 0
      /\ shown = [d \in Device |-> server.task]
      /\ queue = [d \in Device |-> <<>>] /\ toast = [d \in Device |-> <<>>]
  BY DEF Init
<1>2. PICK due \in IF entretien THEN {Start, Never} ELSE {Start} :
         server = [task |-> Fresh(due, 3 * Use), bought |-> 3 * Use,
                   rewound |-> FALSE, cut |-> FALSE]
  BY DEF Init
<1>3. due \in Dated /\ (entretien \/ due # Never)
  BY <1>2, RecurrenceAssumption, TaskSeriesAssumption DEF Dated, Day
<1> DEFINE t == Fresh(due, 3 * Use)
<1>4. /\ t \in SoundTask /\ t.history = <<>> /\ t.qty = 3 * Use
      /\ t.threshold = Use /\ t.alerted = FALSE
  BY <1>3, FreshIsSound
<1>5. t \in Task
  BY <1>4, SoundTaskIs
<1> HIDE DEF t
<1>6. /\ server.task = t /\ server.bought = 3 * Use
      /\ server.rewound = FALSE /\ server.cut = FALSE
  BY <1>2 DEF t
<1>7. server \in Memory
  BY <1>2, <1>5, TaskSeriesAssumption DEF Memory, t
<1>8. DaysRise(<<>>) /\ DuesRise(<<>>)
  BY DEF DaysRise, DuesRise
<1>9. Forward(t)
  BY <1>4, <1>8 DEF Forward
<1>10. t.qty + taken(t.history) = 3 * Use
  BY <1>4, TakenNothing, TaskSeriesAssumption
<1>11. server \in HonestMemory
  BY <1>4, <1>6, <1>7, <1>8, <1>9, <1>10 DEF HonestMemory
<1>12. AlertedWhenLow
  <2>1. ~(3 * Use <= Use)
    BY TaskSeriesAssumption
  <2>2. QED
    BY <1>4, <1>6, <2>1 DEF AlertedWhenLow
<1>13. shown \in [Device -> SoundTask] /\ queue \in [Device -> Seq(SoundOperation)]
       /\ toast \in [Device -> Seq(SoundOperation)]
  BY <1>1, <1>4, <1>6
<1>14. /\ shown \in [Device -> Task] /\ queue \in [Device -> Seq(Operation)]
       /\ toast \in [Device -> Seq(Operation)]
  BY <1>13, SoundIsTyped
<1>15. gestures \in 0..MaxGestures[rec]
  BY <1>1, TaskSeriesAssumption
<1>16. SeriesTypeOK
  BY <1>1, <1>7, <1>14, <1>15 DEF SeriesTypeOK
<1>17. QED
  BY <1>11, <1>12, <1>13, <1>16 DEF SeriesInv

\* A queue reaches the server.
LEMMA FlushKeeps ==
  ASSUME SeriesInv, NEW d \in Device, flushTaskQueue(d)
  PROVE  SeriesInv'
<1> DEFINE q == queue[d]
           after == FoldLeft(served, server, q)
           Alike == {m \in HonestMemory : m.task.alerted = server.task.alerted}
           t == after.task
           u == noteAlert(server.task, t)
<1>1. /\ server' = [after EXCEPT !.task = noteAlert(server.task, @)]
      /\ shown' = [shown EXCEPT ![d] = server'.task]
      /\ queue' = [queue EXCEPT ![d] = <<>>]
      /\ rec' = rec /\ entretien' = entretien /\ today' = today
      /\ toast' = toast /\ gestures' = gestures
  BY DEF flushTaskQueue
<1>2. q \in Seq(SoundOperation) /\ server \in Alike /\ RuleOK(rec)
  BY InvIs
<1>3. \A m \in Alike, op \in SoundOperation : served(m, op) \in Alike
  <2> SUFFICES ASSUME NEW m \in Alike, NEW op \in SoundOperation
               PROVE  served(m, op) \in Alike
    OBVIOUS
  <2>1. m \in HonestMemory /\ m.task.alerted = server.task.alerted
    OBVIOUS
  <2>2. m.task \in Task /\ op \in Operation
    BY <2>1, SoundOperationIs DEF HonestMemory, Memory
  <2>3. served(m, op).task = apply(m.task, op)
    BY DEF served
  <2>4. served(m, op) \in HonestMemory
    BY <1>2, <2>1, ServedHonest
  <2>5. served(m, op).task.alerted = server.task.alerted
    BY <1>2, <2>1, <2>2, <2>3, AlertKept
  <2>6. QED
    BY <2>4, <2>5
<1> HIDE DEF q, Alike
<1>4. after \in Alike
  BY <1>2, <1>3, ServedAllKeeps
<1> USE DEF Alike
<1>5. after \in HonestMemory /\ t.alerted = server.task.alerted
  BY <1>4
<1> HIDE DEF Alike, after
<1>6. after \in Memory /\ t \in Task /\ t \in SoundTask /\ entretien \in BOOLEAN
  BY <1>5, InvIs DEF HonestMemory, Memory
<1>7. server' = [after EXCEPT !.task = u]
  BY <1>1, <1>6 DEF Memory
<1>8. /\ u \in Task /\ u.history = t.history /\ u.qty = t.qty /\ u.threshold = t.threshold
      /\ u.due = t.due /\ u.done = t.done
  <2>1. (t.qty <= t.threshold) \in BOOLEAN
    OBVIOUS
  <2>2. u = t \/ u = [t EXCEPT !.alerted = t.qty <= t.threshold]
    BY DEF noteAlert
  <2> HIDE DEF u, t
  <2>3. QED
    BY <1>6, <2>1, <2>2 DEF Task
<1>9. entretien => (u.alerted <=> u.qty <= u.threshold)
  <2> SUFFICES ASSUME entretien PROVE u.alerted <=> u.qty <= u.threshold
    OBVIOUS
  <2>1. CASE t.qty = server.task.qty /\ t.threshold = server.task.threshold
    <3>1. u = t
      BY <2>1 DEF noteAlert
    <3>2. server.task.alerted <=> server.task.qty <= server.task.threshold
      BY InvIs DEF AlertedWhenLow
    <3> HIDE DEF u, t
    <3>3. QED
      BY <1>5, <2>1, <3>1, <3>2
  <2>2. CASE ~(t.qty = server.task.qty /\ t.threshold = server.task.threshold)
    <3>1. u = [t EXCEPT !.alerted = t.qty <= t.threshold]
      BY <2>2 DEF noteAlert
    <3> HIDE DEF u, t
    <3>2. u.alerted = (t.qty <= t.threshold)
      BY <1>6, <3>1 DEF Task
    <3>3. QED
      BY <1>8, <3>2
  <2>3. QED
    BY <2>1, <2>2
<1>10. u \in SoundTask
  <2> HIDE DEF u, t
  <2>1. /\ t.qty <= STOCK_MAX /\ Len(t.history) <= HISTORY_MAX
        /\ ~entretien => AlwaysDated(t)
    BY <1>6, SoundTaskIs
  <2>2. ~entretien => AlwaysDated(u)
    BY <1>8, <2>1 DEF AlwaysDated
  <2>3. QED
    BY <1>8, <2>1, <2>2 DEF SoundTask
<1> HIDE DEF u
<1>11. /\ server' \in Memory /\ server'.task = u /\ server'.bought = after.bought
       /\ server'.rewound = after.rewound /\ server'.cut = after.cut
  BY <1>6, <1>7, <1>8 DEF Memory
<1>12. /\ entretien => DaysRise(t.history)
       /\ rec.base = "due" /\ ~entretien /\ ~after.rewound => Forward(t)
       /\ ~after.cut => t.qty + taken(t.history) = after.bought
  BY <1>5 DEF HonestMemory
<1> HIDE DEF t
<1>13. Forward(t) => Forward(u)
  BY <1>8 DEF Forward, lastDone
<1>14. server' \in HonestMemory
  BY <1>8, <1>10, <1>11, <1>12, <1>13 DEF HonestMemory
<1>15. AlertedWhenLow'
  BY <1>1, <1>9, <1>11 DEF AlertedWhenLow
<1>16. shown' \in [Device -> SoundTask]
  BY <1>1, <1>10, <1>11, InvIs
<1>17. queue' \in [Device -> Seq(SoundOperation)]
  <2>1. <<>> \in Seq(SoundOperation)
    OBVIOUS
  <2>2. QED
    BY <1>1, <2>1, InvIs
<1>18. /\ toast' \in [Device -> Seq(SoundOperation)] /\ gestures' \in 0..MaxGestures[rec]
       /\ today' \in Moments \union {Start}
  BY <1>1, InvIs
<1>19. QED
  BY <1>1, <1>14, <1>15, <1>16, <1>17, <1>18, InvFrom

\* The screen takes what the server has, its own queue over it.
LEMMA AdoptKeeps ==
  ASSUME SeriesInv, NEW d \in Device, adoptTasks(d)
  PROVE  SeriesInv'
<1>1. /\ shown' = [shown EXCEPT ![d] = applyAll(server.task, queue[d])]
      /\ rec' = rec /\ entretien' = entretien /\ today' = today /\ server' = server
      /\ queue' = queue /\ toast' = toast /\ gestures' = gestures
  BY DEF adoptTasks
<1>2. server.task \in SoundTask /\ queue[d] \in Seq(SoundOperation) /\ RuleOK(rec)
  BY InvIs DEF HonestMemory
<1>3. \A t \in SoundTask, op \in SoundOperation : apply(t, op) \in SoundTask
  BY <1>2, ApplySound
<1>4. applyAll(server.task, queue[d]) \in SoundTask
  BY <1>2, <1>3, ApplyAllKeeps
<1>5. shown' \in [Device -> SoundTask]
  BY <1>1, <1>4, InvIs
<1>6. AlertedWhenLow'
  BY <1>1, InvIs DEF AlertedWhenLow
<1>7. /\ server' \in HonestMemory /\ gestures' \in 0..MaxGestures[rec]
      /\ queue' \in [Device -> Seq(SoundOperation)]
      /\ toast' \in [Device -> Seq(SoundOperation)]
      /\ today' \in Moments \union {Start}
  BY <1>1, InvIs
<1>8. QED
  BY <1>1, <1>5, <1>6, <1>7, InvFrom

\* A day passes.
LEMMA DayKeeps ==
  ASSUME SeriesInv, NextDay
  PROVE  SeriesInv'
<1>1. /\ today' \in Moments /\ toast' = [d \in Device |-> <<>>]
      /\ rec' = rec /\ entretien' = entretien /\ server' = server
      /\ shown' = shown /\ queue' = queue /\ gestures' = gestures
  BY DEF NextDay
<1>2. AlertedWhenLow'
  BY <1>1, InvIs DEF AlertedWhenLow
<1>3. toast' \in [Device -> Seq(SoundOperation)]
  <2>1. <<>> \in Seq(SoundOperation)
    OBVIOUS
  <2>2. QED
    BY <1>1, <2>1
<1>4. /\ server' \in HonestMemory /\ gestures' \in 0..MaxGestures[rec]
      /\ shown' \in [Device -> SoundTask] /\ queue' \in [Device -> Seq(SoundOperation)]
      /\ today' \in Moments \union {Start}
  BY <1>1, InvIs
<1>5. QED
  BY <1>1, <1>2, <1>3, <1>4, InvFrom

\* Every gesture keeps it.
LEMMA GestureKeeps ==
  ASSUME SeriesInv, NEW d \in Device,
         \/ toggleTask(d) \/ skipTask(d) \/ undoLast(d)
         \/ \E day \in Moments : postponeTask(d, day)
         \/ \E day \in Moments : day <= today /\ gesteFaitLe(d, day)
         \/ \E until \in Moments \union {Never} : pauseGeste(d, until)
         \/ \E mode \in {"add", "set"}, qty \in Counts : restockGeste(d, mode, qty)
         \/ \E threshold \in Counts : saveGeste(d, threshold)
  PROVE  SeriesInv'
<1> DEFINE t == shown[d]
<1>1. t \in SoundTask /\ today \in Day /\ RuleOK(rec) /\ t.due \in Dated
  BY InvIs, SoundTaskIs DEF Task
<1>2. /\ \A day \in Moments : day \in Dated /\ day # Never
      /\ Moments \subseteq Day /\ Never \in Dated /\ Kept # Never
  BY TaskSeriesAssumption, RecurrenceAssumption DEF Dated, Day
<1>3. ASSUME toggleTask(d) PROVE SeriesInv'
  <2>1. CASE t.done
    <3> DEFINE b == Bare("reopen")
               e == [b EXCEPT !.occ = t.due]
    <3>1. taskOpWithUndo(d, e)
      BY <1>3, <2>1 DEF toggleTask
    <3>2. b \in Operation /\ b.op = "reopen" /\ b.due # Never
      BY <1>1, BareOperation
    <3> HIDE DEF b
    <3>3. e \in Operation /\ e.op = "reopen" /\ e.due # Never
      BY <1>1, <3>2 DEF Operation
    <3> HIDE DEF e
    <3>4. e \in SoundOperation
      BY <3>3 DEF SoundOperation
    <3>5. QED
      BY <3>1, <3>4, PushWithUndoKeeps
  <2>2. CASE ~t.done
    <3>1. taskOpWithUndo(d, doneOp(t, today))
      BY <1>3, <2>2 DEF toggleTask
    <3>2. doneOp(t, today) \in SoundOperation
      BY <1>1, TickIsSound
    <3>3. QED
      BY <3>1, <3>2, PushWithUndoKeeps
  <2>3. QED
    BY <2>1, <2>2
<1>4. ASSUME skipTask(d) PROVE SeriesInv'
  <2>1. t.due # Never /\ taskOpWithUndo(d, skipOp(t))
    BY <1>4 DEF skipTask
  <2>2. skipOp(t) \in SoundOperation
    BY <1>1, <2>1, SkipIsSound
  <2>3. QED
    BY <2>1, <2>2, PushWithUndoKeeps
<1>5. ASSUME undoLast(d) PROVE SeriesInv'
  <2> DEFINE o == toast[d][1]
             e == [o EXCEPT !.day = today]
  <2>1. toast[d] # <<>> /\ pushTaskOps(d, e, <<>>)
    BY <1>5 DEF undoLast
  <2>2. o \in SoundOperation
    <3>1. toast[d] \in Seq(SoundOperation)
      BY InvIs
    <3>2. QED
      BY <2>1, <3>1
  <2> HIDE DEF o
  <2>3. /\ o \in Operation
        /\ o.op = "set" => o.qty <= STOCK_MAX
        /\ ~entretien => o.due # Never
        /\ ~entretien /\ rec.base = "due" /\ o.op \in {"done", "skip"} =>
              o.next = Never \/ (o.occ # Never /\ o.next > o.occ)
    BY <2>2, SoundOperationIs
  <2>4. /\ e \in Operation /\ e.op = o.op /\ e.qty = o.qty /\ e.due = o.due
        /\ e.next = o.next /\ e.occ = o.occ
    BY <1>1, <2>3 DEF Operation
  <2> HIDE DEF e
  <2>5. e \in SoundOperation
    BY <2>3, <2>4 DEF SoundOperation
  <2>6. <<>> \in Seq(SoundOperation)
    OBVIOUS
  <2>7. QED
    BY <2>1, <2>5, <2>6, PushKeeps
<1>6. ASSUME NEW day \in Moments, postponeTask(d, day) PROVE SeriesInv'
  <2> DEFINE b == Bare("edit")
             e == [b EXCEPT !.due = day]
  <2>1. taskOpWithUndo(d, e)
    BY <1>6 DEF postponeTask
  <2>2. b \in Operation /\ b.op = "edit"
    BY <1>1, BareOperation
  <2> HIDE DEF b
  <2>3. e \in Operation /\ e.op = "edit" /\ e.due = day
    BY <1>2, <2>2 DEF Operation
  <2> HIDE DEF e
  <2>4. e \in SoundOperation
    BY <1>2, <2>3 DEF SoundOperation
  <2>5. QED
    BY <2>1, <2>4, PushWithUndoKeeps
<1>7. ASSUME NEW day \in Moments, gesteFaitLe(d, day) PROVE SeriesInv'
  <2>1. taskOpWithUndo(d, doneOp(t, day))
    BY <1>7 DEF gesteFaitLe
  <2>2. doneOp(t, day) \in SoundOperation
    BY <1>1, <1>2, TickIsSound
  <2>3. QED
    BY <2>1, <2>2, PushWithUndoKeeps
<1>8. ASSUME NEW until \in Moments \union {Never}, pauseGeste(d, until) PROVE SeriesInv'
  <2> DEFINE b == Bare("edit")
             due == IF until = Never THEN today ELSE until
             e == [b EXCEPT !.due = due, !.paused = until]
  <2>1. entretien /\ taskOpWithUndo(d, e)
    BY <1>8 DEF pauseGeste
  <2>2. b \in Operation /\ b.op = "edit"
    BY <1>1, BareOperation
  <2>3. due \in Dated /\ until \in Dated
    BY <1>1, <1>2 DEF Dated
  <2> HIDE DEF b, due
  <2>4. e \in Operation /\ e.op = "edit"
    BY <2>2, <2>3 DEF Operation
  <2> HIDE DEF e
  <2>5. e \in SoundOperation
    BY <2>1, <2>4 DEF SoundOperation
  <2>6. QED
    BY <2>1, <2>5, PushWithUndoKeeps
<1>9. ASSUME NEW mode \in {"add", "set"}, NEW qty \in Counts, restockGeste(d, mode, qty)
      PROVE  SeriesInv'
  <2>1. taskOpWithUndo(d, [Bare(mode) EXCEPT !.qty = qty])
    BY <1>9 DEF restockGeste
  <2>2. qty \in Nat /\ qty <= STOCK_MAX
    BY TaskSeriesAssumption
  <2>3. [Bare(mode) EXCEPT !.qty = qty] \in SoundOperation
    BY <1>1, <2>2, CountIsSound
  <2>4. QED
    BY <2>1, <2>3, PushWithUndoKeeps
<1>10. ASSUME NEW threshold \in Counts, saveGeste(d, threshold) PROVE SeriesInv'
  <2> DEFINE b == Bare("edit")
             e == [b EXCEPT !.threshold = threshold]
  <2>1. taskOpWithUndo(d, e)
    BY <1>10 DEF saveGeste
  <2>2. b \in Operation /\ b.op = "edit" /\ b.due # Never
    BY <1>1, BareOperation
  <2>3. threshold \in Nat
    BY TaskSeriesAssumption
  <2> HIDE DEF b
  <2>4. e \in Operation /\ e.op = "edit" /\ e.due # Never
    BY <2>2, <2>3 DEF Operation
  <2> HIDE DEF e
  <2>5. e \in SoundOperation
    BY <2>4 DEF SoundOperation
  <2>6. QED
    BY <2>1, <2>5, PushWithUndoKeeps
<1>11. QED
  BY <1>3, <1>4, <1>5, <1>6, <1>7, <1>8, <1>9, <1>10

\* Every step keeps it.
LEMMA NextInv ==
  SeriesInv /\ [Next]_vars => SeriesInv'
<1> SUFFICES ASSUME SeriesInv, [Next]_vars PROVE SeriesInv'
  OBVIOUS
<1>1. CASE Next
  <2>1. \/ NextDay
        \/ \E d \in Device : flushTaskQueue(d)
        \/ \E d \in Device : adoptTasks(d)
        \/ \E d \in Device :
             \/ toggleTask(d) \/ skipTask(d) \/ undoLast(d)
             \/ \E day \in Moments : postponeTask(d, day)
             \/ \E day \in Moments : day <= today /\ gesteFaitLe(d, day)
             \/ \E until \in Moments \union {Never} : pauseGeste(d, until)
             \/ \E mode \in {"add", "set"}, qty \in Counts : restockGeste(d, mode, qty)
             \/ \E threshold \in Counts : saveGeste(d, threshold)
    BY <1>1, Zenon DEF Next
  <2>2. QED
    BY <2>1, DayKeeps, FlushKeeps, AdoptKeeps, GestureKeeps
<1>2. CASE UNCHANGED vars
  <2>1. /\ rec' = rec /\ entretien' = entretien /\ today' = today /\ server' = server
        /\ shown' = shown /\ queue' = queue /\ toast' = toast /\ gestures' = gestures
    BY <1>2 DEF vars
  <2>2. AlertedWhenLow'
    BY <2>1, InvIs DEF AlertedWhenLow
  <2>3. QED
    BY <2>1, <2>2, InvIs, InvFrom
<1>3. QED
  BY <1>1, <1>2

\* The inductive invariant of the series.
THEOREM SeriesInvHolds == Spec => []SeriesInv
<1>1. QED
  BY InitInv, NextInv, PTL DEF Spec

\* Whatever the rules, the devices, the days and the bounds, tasks, histories,
\* queues and toasts are what the code says they are (SeriesTypeOK): a stock is
\* never negative, and the date a rule gives is a date, or none.
THEOREM SeriesTypeCorrect == Spec => []SeriesTypeOK
<1>1. SeriesInv => SeriesTypeOK
  BY DEF SeriesInv
<1>2. QED
  BY <1>1, SeriesInvHolds, PTL

\* At a fixed date, no occurrence is settled twice and the due date goes
\* forward, as long as nobody moves it by hand or opens a finished series again
\* by undoing an older tick (SeriesGoesForward).
THEOREM SeriesMovesOn == Spec => []SeriesGoesForward
<1>1. SeriesInv => SeriesGoesForward
  <2> SUFFICES ASSUME SeriesInv, rec.base = "due", ~entretien, ~server.rewound
               PROVE  /\ DuesRise(server.task.history)
                      /\ ~server.task.done => \A i \in DOMAIN server.task.history :
                            server.task.history[i].due < server.task.due
    BY DEF SeriesGoesForward
  <2> DEFINE t == server.task
             h == t.history
  <2>1. t \in SoundTask /\ Forward(t)
    BY InvIs DEF HonestMemory
  <2>2. t \in Task /\ AlwaysDated(t) /\ h \in Seq(Done) /\ t.due \in Dated
    BY <2>1, SoundTaskIs DEF Task
  <2> HIDE DEF t
  <2>3. DuesRise(h)
    BY <2>1 DEF Forward
  <2>4. ASSUME ~t.done, NEW i \in DOMAIN h PROVE h[i].due < t.due
    <3>1. Len(h) \in Nat /\ DOMAIN h = 1..Len(h)
      BY <2>2
    <3>2. h # <<>>
      BY <3>1
    <3>3. h[Len(h)].due < t.due
      BY <2>1, <2>4, <3>2 DEF Forward, lastDone
    <3>4. i = Len(h) \/ i < Len(h)
      BY <3>1
    <3>5. Len(h) \in DOMAIN h
      BY <3>1
    <3>6. i < Len(h) => h[i].due < h[Len(h)].due
      BY <2>3, <3>5 DEF DuesRise
    <3>7. h[i].due \in Int /\ h[Len(h)].due \in Int /\ t.due \in Int
      <4>1. h[i] \in Done /\ h[Len(h)] \in Done
        BY <2>2, <3>5
      <4>2. h[i].due # Never /\ h[Len(h)].due # Never /\ t.due # Never
        BY <2>2, <3>5 DEF AlwaysDated
      <4>3. QED
        BY <2>2, <4>1, <4>2 DEF Done, Dated, Day
    <3>8. QED
      BY <3>3, <3>4, <3>6, <3>7
  <2>5. QED
    BY <2>3, <2>4 DEF t
<1>2. QED
  BY <1>1, SeriesInvHolds, PTL

\* A gesture of the maintenance list is noted once a day, in the order of the
\* days (OnceADay).
THEOREM GesturesOnceADay == Spec => []OnceADay
<1>1. SeriesInv => OnceADay
  BY InvIs DEF OnceADay, HonestMemory
<1>2. QED
  BY <1>1, SeriesInvHolds, PTL

\* Stock and gestures add up to what was bought or counted, short of the caps
\* (StockAddsUp).
THEOREM StockIsKept == Spec => []StockAddsUp
<1>1. SeriesInv => StockAddsUp
  BY InvIs DEF StockAddsUp, HonestMemory
<1>2. QED
  BY <1>1, SeriesInvHolds, PTL

\* The mark of the shopping list says that the stock is low (AlertedWhenLow).
THEOREM LowStockIsMarked == Spec => []AlertedWhenLow
<1>1. SeriesInv => AlertedWhenLow
  BY InvIs
<1>2. QED
  BY <1>1, SeriesInvHolds, PTL

-----------------------------------------------------------------------------
(***************************************************************************)
(* « Annuler ».                                                            *)
(***************************************************************************)

\* A history and a line, the line taken off.
LEMMA FrontAppend ==
  ASSUME NEW h \in Seq(Done), NEW x \in Done
  PROVE  LET k == Append(h, x)
         IN  k # <<>> /\ k[Len(k)] = x /\ Front(k) = h
<1> DEFINE k == Append(h, x)
           f == Front(k)
<1>1. /\ k \in Seq(Done) /\ k # <<>> /\ Len(k) = Len(h) + 1 /\ k[Len(k)] = x
      /\ Len(h) \in Nat /\ \A i \in 1..Len(h) : k[i] = h[i]
  OBVIOUS
<1> HIDE DEF k
<1>2. f \in Seq(Done) /\ Len(f) = Len(k) - 1 /\ \A i \in 1..(Len(k) - 1) : f[i] = k[i]
  BY <1>1, FrontOf
<1> HIDE DEF f
<1>3. Len(f) = Len(h) /\ \A i \in 1..Len(h) : f[i] = h[i]
  BY <1>1, <1>2
<1>4. f = h
  BY <1>2, <1>3
<1>5. QED
  BY <1>1, <1>4 DEF f, k

\* The undo of a gesture is one operation, applied by its handler.
LEMMA UndoneBy ==
  ASSUME RuleOK(rec), NEW u \in Task, NEW e \in Operation
  PROVE  applyAll(u, <<e>>) = apply(u, e)
<1>1. \A t \in Task, o \in Operation : apply(t, o) \in Task
  BY ApplyTask
<1>2. QED
  BY <1>1, ApplyFew

\* Whatever the operation, but the skip of the last occurrence and the undo of
\* a tick: made on an open task whose history has room, it is undone entirely.
LEMMA UndoneBack ==
  ASSUME RuleOK(rec), today \in Day, NEW t \in Task, ~t.done, t.qty <= STOCK_MAX,
         Len(t.history) < HISTORY_MAX,
         NEW op \in Operation, apply(t, op) # t, op.op # "reopen",
         op.op = "skip" => op.next # Never
  PROVE  Undone(t, op)
<1> DEFINE u == apply(t, op)
<1>1. /\ t.due \in Dated /\ t.qty \in Nat /\ t.history \in Seq(Done) /\ t.threshold \in Nat
      /\ t.paused \in Dated /\ t.done = FALSE /\ STOCK_MAX \in Nat
  BY TaskSeriesAssumption DEF Task
<1>2. u \in Task
  BY ApplyTask
<1>3. Kept # Never /\ Kept \notin Dated /\ Kept \notin Nat /\ t.due # Kept
  BY <1>1, TaskSeriesAssumption DEF Dated, Day
<1>4. CASE op.op = "done"
  <2> DEFINE b == Bare("reopen")
             e == [b EXCEPT !.occ = t.due]
             v == apply(u, e)
  <2>1. inverseOf(op, t) = <<e>>
    BY <1>4 DEF inverseOf
  <2>2. u = applyDone(t, op)
    BY <1>4, Handled
  <2>3. b \in Operation /\ b.op = "reopen"
    BY BareOperation
  <2> HIDE DEF b, u
  <2>4. e \in Operation /\ e.op = "reopen" /\ e.occ = t.due
    BY <1>1, <2>3 DEF Operation
  <2> HIDE DEF e
  <2>5. PICK used, next : Ticked(t, u, op.day, used, next)
    BY <2>2, TickedOff DEF u
  <2>6. /\ op.day \in Day /\ used \in Nat /\ used <= t.qty /\ u.qty = t.qty - used
        /\ u.history = remember(t, op.day, used).history /\ u.threshold = t.threshold
    BY <2>5 DEF Ticked, Operation
  <2>7. KeepsTheLast(t, op.day, used, u.history)
    BY <2>6, Remembered
  <2> DEFINE x == Line(t, op.day, used)
  <2>8. x \in Done /\ u.history = Append(t.history, x) /\ x.due = t.due /\ x.used = used
    BY <2>7 DEF KeepsTheLast, Line
  <2> HIDE DEF x
  <2>9. u.history # <<>> /\ u.history[Len(u.history)] = x /\ Front(u.history) = t.history
    BY <1>1, <2>8, FrontAppend
  <2>10. lastDone(u) = x
    BY <2>9 DEF lastDone
  <2>11. v = applyReopen(u, e)
    BY <2>4, Handled
  <2>12. Reopened(u, v, t.due)
    BY <1>2, <2>4, <2>11, OpenedAgain
  <2>13. /\ v.done = FALSE /\ v.threshold = u.threshold /\ v.due = t.due
         /\ v.history = t.history /\ v.qty = lesser(STOCK_MAX, u.qty + used)
    BY <2>8, <2>9, <2>10, <2>12 DEF Reopened
  <2>14. v.qty = t.qty
    <3>1. u.qty + used = t.qty
      BY <1>1, <2>6
    <3>2. lesser(STOCK_MAX, t.qty) = t.qty
      BY <1>1 DEF lesser
    <3>3. QED
      BY <2>13, <3>1, <3>2
  <2> HIDE DEF v
  <2>15. Same(v, t)
    BY <1>1, <2>6, <2>13, <2>14 DEF Same
  <2>16. applyAll(u, <<e>>) = v
    BY <1>2, <2>4, UndoneBy DEF v
  <2>17. QED
    BY <2>1, <2>15, <2>16 DEF Undone, u
<1>5. CASE op.op = "skip"
  <2> DEFINE b == Bare("edit")
             e == [b EXCEPT !.due = t.due]
             v == apply(u, e)
  <2>1. inverseOf(op, t) = <<e>>
    BY <1>5 DEF inverseOf
  <2>2. u = applySkip(t, op)
    BY <1>5, Handled
  <2>3. b \in Operation /\ b.op = "edit" /\ b.threshold = Kept
    BY BareOperation DEF Bare
  <2> HIDE DEF b, u
  <2>4. e \in Operation /\ e.op = "edit" /\ e.due = t.due /\ e.threshold = Kept
    BY <1>1, <2>3 DEF Operation
  <2> HIDE DEF e
  <2>5. GoesOn(t, u, op.next)
    BY <2>2, Skipped DEF u
  <2>6. /\ u.history = t.history /\ u.qty = t.qty /\ u.threshold = t.threshold
        /\ u.done = t.done
    BY <1>5, <2>5 DEF GoesOn
  <2>7. v = applyEdit(u, e)
    BY <2>4, Handled
  <2>8. /\ v.done = u.done /\ v.history = u.history /\ v.qty = u.qty
        /\ v.due = IF e.due = Kept THEN u.due ELSE e.due
        /\ v.threshold = IF e.threshold = Kept THEN u.threshold ELSE e.threshold
    BY <1>2, <2>4, <2>7, Edited
  <2> HIDE DEF v
  <2>9. Same(v, t)
    BY <1>3, <2>4, <2>6, <2>8 DEF Same
  <2>10. applyAll(u, <<e>>) = v
    BY <1>2, <2>4, UndoneBy DEF v
  <2>11. QED
    BY <2>1, <2>9, <2>10 DEF Undone, u
<1>6. CASE op.op \in {"add", "set"}
  <2> DEFINE b == Bare("set")
             e == [b EXCEPT !.qty = t.qty]
             v == apply(u, e)
  <2>1. inverseOf(op, t) = <<e>>
    BY <1>6 DEF inverseOf
  <2>2. b \in Operation /\ b.op = "set"
    BY BareOperation
  <2> HIDE DEF b
  <2>3. e \in Operation /\ e.op = "set" /\ e.qty = t.qty
    BY <1>1, <2>2 DEF Operation
  <2> HIDE DEF e
  <2>4. /\ u.done = t.done /\ u.due = t.due /\ u.history = t.history
        /\ u.threshold = t.threshold
    BY <1>6, Restocked DEF Counted
  <2> HIDE DEF u
  <2>5. Counted(u, v) /\ v.qty = t.qty
    BY <1>2, <2>3, Restocked
  <2> HIDE DEF v
  <2>6. Same(v, t)
    BY <2>4, <2>5 DEF Same, Counted
  <2>7. applyAll(u, <<e>>) = v
    BY <1>2, <2>3, UndoneBy DEF v
  <2>8. QED
    BY <2>1, <2>6, <2>7 DEF Undone, u
<1>7. CASE op.op = "edit"
  <2> DEFINE b == Bare("edit")
             due == IF op.due = Kept THEN Kept ELSE t.due
             paused == IF op.paused = Kept THEN Kept ELSE t.paused
             threshold == IF op.threshold = Kept THEN Kept ELSE t.threshold
             e == [b EXCEPT !.due = due, !.paused = paused, !.threshold = threshold]
             v == apply(u, e)
  <2>1. inverseOf(op, t) = <<e>>
    BY <1>7 DEF inverseOf
  <2>2. b \in Operation /\ b.op = "edit"
    BY BareOperation
  <2>3. /\ due \in Dated \union {Kept} /\ paused \in Dated \union {Kept}
        /\ threshold \in Nat \union {Kept}
    BY <1>1
  <2> HIDE DEF b
  <2>4. e \in Operation /\ e.op = "edit" /\ e.due = due /\ e.threshold = threshold
    <3> HIDE DEF due, paused, threshold
    <3>1. QED
      BY <2>2, <2>3 DEF Operation
  <2> HIDE DEF e
  <2>5. u = applyEdit(t, op)
    BY <1>7, Handled
  <2> HIDE DEF u
  <2>6. /\ u.done = t.done /\ u.history = t.history /\ u.qty = t.qty
        /\ u.due = IF op.due = Kept THEN t.due ELSE op.due
        /\ u.threshold = IF op.threshold = Kept THEN t.threshold ELSE op.threshold
    BY <2>5, Edited
  <2>7. v = applyEdit(u, e)
    BY <2>4, Handled
  <2>8. /\ v.done = u.done /\ v.history = u.history /\ v.qty = u.qty
        /\ v.due = IF e.due = Kept THEN u.due ELSE e.due
        /\ v.threshold = IF e.threshold = Kept THEN u.threshold ELSE e.threshold
    BY <1>2, <2>4, <2>7, Edited
  <2> HIDE DEF v
  <2>9. v.due = t.due
    BY <1>3, <2>4, <2>6, <2>8
  <2>10. v.threshold = t.threshold
    BY <1>1, <1>3, <2>4, <2>6, <2>8
  <2>11. Same(v, t)
    BY <2>6, <2>8, <2>9, <2>10 DEF Same
  <2>12. applyAll(u, <<e>>) = v
    BY <1>2, <2>4, UndoneBy DEF v
  <2>13. QED
    BY <2>1, <2>11, <2>12 DEF Undone, u
<1>8. QED
  BY <1>4, <1>5, <1>6, <1>7, Handled

\* « Annuler », pressed at once, gives back the dates, the history and the stock
\* (UndoRestores).
THEOREM UndoGivesItBack == Spec => []UndoRestores
<1>1. SeriesInv => UndoRestores
  <2> SUFFICES ASSUME SeriesInv, NEW d \in Device, ~shown[d].done,
                      Len(shown[d].history) < HISTORY_MAX,
                      NEW op \in {doneOp(shown[d], today), [Bare("edit") EXCEPT !.due = today],
                                  [Bare("set") EXCEPT !.qty = 1],
                                  [Bare("edit") EXCEPT !.threshold = 1]}
                                 \union IF shown[d].due = Never THEN {}
                                        ELSE {skipOp(shown[d])}
                                               \ {[skipOp(shown[d]) EXCEPT !.next = Never]},
                      apply(shown[d], op) # shown[d]
               PROVE  Undone(shown[d], op)
    BY DEF UndoRestores
  <2> DEFINE t == shown[d]
  <2>1. /\ RuleOK(rec) /\ today \in Day /\ t \in SoundTask /\ t \in Task
        /\ t.qty <= STOCK_MAX
    BY InvIs, SoundTaskIs
  <2>2. op \in Operation /\ op.op # "reopen" /\ (op.op = "skip" => op.next # Never)
    <3>1. CASE op = doneOp(t, today)
      <4>1. op \in SoundOperation
        BY <2>1, <3>1, TickIsSound
      <4>2. op.op = "done"
        BY <3>1 DEF doneOp, Bare
      <4>3. QED
        BY <4>1, <4>2, SoundOperationIs
    <3>2. CASE op = [Bare("edit") EXCEPT !.due = today]
      <4> DEFINE b == Bare("edit")
      <4>1. b \in Operation /\ b.op = "edit"
        BY <2>1, BareOperation
      <4>2. today \in Dated
        BY <2>1 DEF Dated
      <4> HIDE DEF b
      <4>3. op = [b EXCEPT !.due = today]
        BY <3>2 DEF b
      <4>4. QED
        BY <4>1, <4>2, <4>3 DEF Operation
    <3>3. CASE op = [Bare("set") EXCEPT !.qty = 1]
      <4> DEFINE b == Bare("set")
      <4>1. b \in Operation /\ b.op = "set"
        BY <2>1, BareOperation
      <4> HIDE DEF b
      <4>2. op = [b EXCEPT !.qty = 1]
        BY <3>3 DEF b
      <4>3. QED
        BY <4>1, <4>2 DEF Operation
    <3>4. CASE op = [Bare("edit") EXCEPT !.threshold = 1]
      <4> DEFINE b == Bare("edit")
      <4>1. b \in Operation /\ b.op = "edit"
        BY <2>1, BareOperation
      <4> HIDE DEF b
      <4>2. op = [b EXCEPT !.threshold = 1]
        BY <3>4 DEF b
      <4>3. QED
        BY <4>1, <4>2 DEF Operation
    <3>5. CASE t.due # Never /\ op = skipOp(t) /\ op # [skipOp(t) EXCEPT !.next = Never]
      <4>1. op \in SoundOperation
        BY <2>1, <3>5, SkipIsSound
      <4>2. op.op = "skip"
        BY <3>5 DEF skipOp, Bare
      <4>3. op.next # Never
        <5>1. op \in Operation
          BY <4>1, SoundOperationIs
        <5>2. op # [op EXCEPT !.next = Never]
          BY <3>5
        <5>3. QED
          BY <5>1, <5>2 DEF Operation
      <4>4. QED
        BY <4>1, <4>2, <4>3, SoundOperationIs
    <3>6. QED
      BY <3>1, <3>2, <3>3, <3>4, <3>5
  <2>3. QED
    BY <2>1, <2>2, UndoneBack
<1>2. QED
  BY <1>1, SeriesInvHolds, PTL

\* The next occurrence is the first day of the rule after the one settled and
\* the day it is settled, within the time looked through and in the season; a
\* series that comes back from the day of the gesture does so in its season; and
\* a skip moves the occurrence on.
THEOREM NextIsRight == Spec => []NextIsTheFirst
<1>1. SeriesInv => NextIsTheFirst
  <2> SUFFICES ASSUME SeriesInv, server.task.due # Never PROVE NextIsTheFirst
    BY DEF NextIsTheFirst
  <2> DEFINE due == server.task.due
             next == nextOccurrence(rec, due, today)
             from == later(due, today)
             window == (from + 1)..(from + HORIZON_DAYS)
             days == {x \in RuleDays(rec, due, from + HORIZON_DAYS) :
                        x \in window /\ inSeason(rec.season, x)}
             found == {x \in window : inSeason(rec.season, x) /\ matches(rec, due, x)}
  <2>1. RuleOK(rec) /\ today \in Day /\ due \in Day /\ HORIZON_DAYS \in Nat /\ Never \notin Int
    <3>1. server.task \in SoundTask
      BY InvIs DEF HonestMemory, Memory
    <3>2. server.task.due \in Dated
      BY <3>1, SoundTaskIs DEF Task
    <3>3. QED
      BY <3>2, InvIs, RecurrenceAssumption DEF Dated
  <2>2. /\ due \in Nat /\ today \in Nat /\ from \in Nat /\ from >= due /\ from >= today
        /\ rec.base \in {"due", "done"} /\ rec.until \in Nat \union {Never}
    BY <2>1 DEF Day, later, RuleOK
  <2> HIDE DEF due, from
  <2>3. next = Never \/ (next \in Nat /\ next > today /\ (rec.base = "due" => next > due))
    BY <2>1, NextIsLater DEF Day
  <2>4. window \subseteq Day /\ from + HORIZON_DAYS \in Day
        /\ \A x \in window : due < x /\ x <= from + HORIZON_DAYS
    BY <2>1, <2>2 DEF Day
  <2>5. days = found
    BY <2>1, <2>4, RuleUnrolled
  <2> DEFINE first == IF rec.base = "done" THEN seasonStart(rec.season, stepFrom(today, rec))
                      ELSE earliest(found)
  <2>6. next = noLaterThan(rec.until, first)
    BY DEF nextOccurrence, firstMatchAfter, from
  <2>7. found \subseteq Day
    BY <2>4
  <2> HIDE DEF next, window, days, found
  <2>8. /\ found = {} => earliest(found) = Never
        /\ found # {} => earliest(found) \in found /\ \A k \in found : earliest(found) <= k
    <3>1. ASSUME found # {} PROVE \E n \in found : \A k \in found : n <= k
      BY <2>7, <3>1, Least DEF Day
    <3>2. QED
      BY <3>1 DEF earliest
  <2>9. next # Never => next = first /\ (rec.until = Never \/ next <= rec.until)
    <3>1. SUFFICES ASSUME next # Never
                   PROVE  next = first /\ (rec.until = Never \/ next <= rec.until)
      OBVIOUS
    <3>2. next = first
      BY <2>6, <3>1 DEF noLaterThan
    <3>3. next \in Nat
      BY <2>3, <3>1
    <3> HIDE DEF first
    <3>4. QED
      BY <2>2, <2>6, <3>1, <3>2, <3>3 DEF noLaterThan
  <2>10. next # Never => inSeason(rec.season, next)
                           \/ (rec.base = "done" /\ OpensShort(rec.season, next))
    <3>1. SUFFICES ASSUME next # Never
                   PROVE  inSeason(rec.season, next)
                            \/ (rec.base = "done" /\ OpensShort(rec.season, next))
      OBVIOUS
    <3>2. CASE rec.base = "done"
      <4>1. stepFrom(today, rec) \in Day
        BY <2>1, StepLater
      <4>2. next = seasonStart(rec.season, stepFrom(today, rec))
        BY <2>9, <3>1, <3>2
      <4>3. QED
        BY <2>1, <3>2, <4>1, <4>2, SeasonOpens
    <3>3. CASE rec.base = "due"
      <4>1. next = earliest(found)
        BY <2>9, <3>1, <3>3
      <4>2. next \in found
        BY <2>8, <3>1, <4>1
      <4>3. QED
        BY <4>2 DEF found
    <3>4. QED
      BY <2>2, <3>2, <3>3
  <2>11. ASSUME rec.base = "due"
         PROVE  IF next = Never THEN \A x \in days : rec.until # Never /\ x > rec.until
                ELSE next \in days /\ \A x \in days : next <= x
    <3>1. first = earliest(found)
      BY <2>11
    <3>2. CASE next # Never
      BY <2>5, <2>8, <2>9, <3>1, <3>2
    <3>3. CASE next = Never
      <4>1. SUFFICES ASSUME NEW x \in found PROVE rec.until # Never /\ x > rec.until
        BY <2>5, <3>3
      <4>2. first \in found /\ first <= x
        BY <2>8, <3>1
      <4> HIDE DEF first
      <4>3. first \in Nat /\ x \in Nat /\ first # Never
        BY <2>1, <2>7, <4>2 DEF Day
      <4>4. rec.until # Never /\ first > rec.until
        BY <2>6, <3>3, <4>3 DEF noLaterThan
      <4>5. QED
        BY <2>2, <4>2, <4>3, <4>4
    <3>4. QED
      BY <3>2, <3>3
  <2>12. skipOccurrence(rec, due, today) \in Dated \ 0..due
    <3> DEFINE day == IF rec.base = "done" THEN from ELSE due
               skip == nextOccurrence(rec, due, day)
    <3>1. day \in Day
      BY <2>1, <2>2 DEF Day
    <3>2. skip = Never \/ (skip \in Day /\ skip > day /\ (rec.base = "due" => skip > due))
      BY <2>1, <3>1, NextIsLater
    <3>3. skipOccurrence(rec, due, today) = skip
      BY DEF skipOccurrence, from
    <3>4. day >= due /\ day \in Nat
      BY <2>2
    <3> HIDE DEF day, skip
    <3>5. QED
      BY <2>1, <2>2, <3>2, <3>3, <3>4 DEF Dated, Day
  <2>13. QED
    BY <2>3, <2>9, <2>10, <2>11, <2>12 DEF NextIsTheFirst, due, from, next, window, days
<1>2. QED
  BY <1>1, SeriesInvHolds, PTL

=============================================================================

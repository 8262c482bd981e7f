--------------------------- MODULE CalendarProofs ---------------------------
(***************************************************************************)
(* The laws of the calendar functions, for every date: module TemporalCalls*)
(* checks them on a dozen dates around the ends of months and years, here  *)
(* a date is any integer.  All rest on DateParts and PartsOfDate: the year,*)
(* month and day of a date are in range and compose that date, and no      *)
(* others do.                                                              *)
(***************************************************************************)
EXTENDS DatetimeFunctions, FiniteSetTheorems, TLAPS

-----------------------------------------------------------------------------
(* Years *)

\* A year has 366 days when it is a leap year and 365 otherwise.
LEMMA YearLength ==
    ASSUME NEW y \in Int
    PROVE  /\ YearStart(y) \in Int
           /\ YearStart(y + 1) = YearStart(y) + (IF Leap(y) THEN 366 ELSE 365)
BY DEF YearStart, Leap

\* Later years start later.
LEMMA YearsInOrder ==
    ASSUME NEW y \in Int, NEW z \in Int, y < z
    PROVE  YearStart(y + 1) <= YearStart(z)
BY DEF YearStart

\* The guess that YearOf starts from is at most one year off.
LEMMA YearGuess ==
    ASSUME NEW day \in Int, NEW g \in Int, g = 1970 + ((400 * day) \div 146097)
    PROVE  /\ YearStart(g - 1) <= day
           /\ day < YearStart(g + 2)
BY DEF YearStart

\* YearOf is the year a day is in.
LEMMA YearOfIsIn ==
    ASSUME NEW day \in Int
    PROVE  /\ YearOf(day) \in Int
           /\ YearStart(YearOf(day)) <= day
           /\ day < YearStart(YearOf(day) + 1)
<1> DEFINE g == 1970 + ((400 * day) \div 146097)
           In(y) == YearStart(y) <= day /\ day < YearStart(y + 1)
<1>1. g \in Int
  OBVIOUS
<1>2. YearStart(g - 1) <= day /\ day < YearStart(g + 2)
  BY <1>1, YearGuess
<1>3. YearOf(day) = CHOOSE y \in (g - 1)..(g + 1) : In(y)
  BY DEF YearOf
<1> HIDE DEF g
<1>4. \E y \in (g - 1)..(g + 1) : In(y)
  <2>1. /\ (g - 1) + 1 = g /\ (g + 1) + 1 = g + 2
        /\ g - 1 \in (g - 1)..(g + 1) /\ g \in (g - 1)..(g + 1) /\ g + 1 \in (g - 1)..(g + 1)
    BY <1>1
  <2>2. YearStart(g) \in Int /\ YearStart(g + 1) \in Int
    BY <1>1, YearLength
  <2>3. CASE day < YearStart(g)
    BY <1>2, <2>1, <2>3
  <2>4. CASE YearStart(g) <= day /\ day < YearStart(g + 1)
    BY <2>1, <2>4
  <2>5. CASE YearStart(g + 1) <= day
    BY <1>2, <2>1, <2>5
  <2>6. QED
    BY <2>2, <2>3, <2>4, <2>5
<1> HIDE DEF In
<1>5. YearOf(day) \in (g - 1)..(g + 1) /\ In(YearOf(day))
  BY Zenon, <1>3, <1>4
<1>6. QED
  BY <1>1, <1>5 DEF In

\* A day is in one year only.
LEMMA OneYear ==
    ASSUME NEW day \in Int, NEW y \in Int, YearStart(y) <= day, day < YearStart(y + 1)
    PROVE  YearOf(day) = y
<1>1. /\ YearOf(day) \in Int
      /\ YearStart(YearOf(day)) <= day
      /\ day < YearStart(YearOf(day) + 1)
  BY YearOfIsIn
<1> DEFINE z == YearOf(day)
<1> HIDE DEF z
<1>2. /\ YearStart(y) \in Int /\ YearStart(z) \in Int
      /\ YearStart(y + 1) \in Int /\ YearStart(z + 1) \in Int
  BY <1>1, YearLength DEF z
<1>3. ~ (y < z)
  BY <1>1, <1>2, YearsInOrder DEF z
<1>4. ~ (z < y)
  BY <1>1, <1>2, YearsInOrder DEF z
<1>5. QED
  BY <1>1, <1>3, <1>4 DEF z

-----------------------------------------------------------------------------
(* Months *)

\* The days before a month, without recursion: counted as if February had
\* thirty days, and corrected after it.
Before(y, m) == ((367 * m - 362) \div 12) - (IF m <= 2 THEN 0 ELSE IF Leap(y) THEN 1 ELSE 2)

\* The recursion over the months adds them up.
LEMMA DaysBeforeMonth ==
    ASSUME NEW y \in Int, NEW m \in 1..12
    PROVE  DaysBefore(y, m) = Before(y, m)
<1> DEFINE R(f) == [k \in 1..12 |-> IF k = 1 THEN 0 ELSE f[k - 1] + MonthDays(y, k - 1)]
           b == [k \in 1..12 |-> Before(y, k)]
           d == CHOOSE f : f = R(f)
<1>1. DaysBefore(y, m) = d[m]
  BY DEF DaysBefore
<1>2. ASSUME NEW k \in 1..12 PROVE Before(y, k) = IF k = 1 THEN 0 ELSE b[k - 1] + MonthDays(y, k - 1)
  BY DEF Before, MonthDays
<1>3. b = R(b)
  BY Zenon, <1>2
<1>4. d = R(d)
  BY Zenon, <1>3
<1> HIDE DEF d
<1>5. d[1] = 0 /\ \A k \in 2..12 : d[k] = d[k - 1] + MonthDays(y, k - 1)
  BY <1>4
<1>6. /\ d[2] = d[1] + MonthDays(y, 1) /\ d[3] = d[2] + MonthDays(y, 2) /\ d[4] = d[3] + MonthDays(y, 3)
      /\ d[5] = d[4] + MonthDays(y, 4) /\ d[6] = d[5] + MonthDays(y, 5) /\ d[7] = d[6] + MonthDays(y, 6)
      /\ d[8] = d[7] + MonthDays(y, 7) /\ d[9] = d[8] + MonthDays(y, 8) /\ d[10] = d[9] + MonthDays(y, 9)
      /\ d[11] = d[10] + MonthDays(y, 10) /\ d[12] = d[11] + MonthDays(y, 11)
  BY <1>5
<1>7. QED
  BY <1>1, <1>5, <1>6 DEF MonthDays, Before

\* Months follow each other: the next begins when one ends, and the last ends
\* with the year.
LEMMA MonthsFill ==
    ASSUME NEW y \in Int, NEW m \in 1..12
    PROVE  /\ Day(y, m, 1) \in Int /\ MonthDays(y, m) \in 28..31
           /\ m = 1 => Day(y, m, 1) = YearStart(y)
           /\ m # 12 => Day(y, m + 1, 1) = Day(y, m, 1) + MonthDays(y, m)
           /\ m = 12 => YearStart(y + 1) = Day(y, m, 1) + MonthDays(y, m)
           /\ Day(y, m, 1) >= YearStart(y)
           /\ Day(y, m, 1) + MonthDays(y, m) <= YearStart(y + 1)
<1>1. DaysBefore(y, m) = Before(y, m) /\ (m # 12 => DaysBefore(y, m + 1) = Before(y, m + 1))
  BY DaysBeforeMonth
<1>2. /\ YearStart(y) \in Int
      /\ YearStart(y + 1) = YearStart(y) + (IF Leap(y) THEN 366 ELSE 365)
  BY YearLength
<1>3. /\ Day(y, m, 1) = YearStart(y) + Before(y, m)
      /\ m # 12 => Day(y, m + 1, 1) = YearStart(y) + Before(y, m + 1)
  BY <1>1, <1>2 DEF Day, Before
<1>4. /\ MonthDays(y, m) \in 28..31 /\ Before(y, m) \in Nat
      /\ m = 1 => Before(y, m) = 0
      /\ m # 12 => Before(y, m + 1) = Before(y, m) + MonthDays(y, m)
      /\ m = 12 => Before(y, m) + MonthDays(y, m) = IF Leap(y) THEN 366 ELSE 365
  <2>1. MonthDays(y, m) \in 28..31
    BY DEF MonthDays
  <2>2. Before(y, m) \in Nat /\ (m = 1 => Before(y, m) = 0)
    BY DEF Before
  <2>3. m # 12 => Before(y, m + 1) = Before(y, m) + MonthDays(y, m)
    BY DEF Before, MonthDays
  <2>4. m = 12 => Before(y, m) + MonthDays(y, m) = IF Leap(y) THEN 366 ELSE 365
    BY DEF Before, MonthDays
  <2>5. QED
    BY Zenon, <2>1, <2>2, <2>3, <2>4
<1>5. Before(y, m) + MonthDays(y, m) <= IF Leap(y) THEN 366 ELSE 365
  BY DEF Before, MonthDays
<1>6. QED
  BY <1>2, <1>3, <1>4, <1>5

\* Later months of a year start later.
LEMMA MonthsInOrder ==
    ASSUME NEW y \in Int, NEW m \in 1..12, NEW n \in 1..12, m < n
    PROVE  Day(y, m, 1) + MonthDays(y, m) <= Day(y, n, 1)
<1>1. DaysBefore(y, m) = Before(y, m) /\ DaysBefore(y, n) = Before(y, n) /\ YearStart(y) \in Int
  BY DaysBeforeMonth, YearLength
<1>2. QED
  BY <1>1 DEF Day, Before, MonthDays

\* MonthOf is the month a day is in.
LEMMA MonthOfIsIn ==
    ASSUME NEW day \in Int
    PROVE  /\ MonthOf(day) \in 1..12
           /\ Day(YearOf(day), MonthOf(day), 1) <= day
           /\ day < Day(YearOf(day), MonthOf(day), 1) + MonthDays(YearOf(day), MonthOf(day))
<1> DEFINE y == YearOf(day)
           In(m) == Day(y, m, 1) <= day /\ day < Day(y, m, 1) + MonthDays(y, m)
<1>1. y \in Int /\ YearStart(y) <= day /\ day < YearStart(y + 1)
  BY YearOfIsIn
<1>2. MonthOf(day) = CHOOSE m \in 1..12 : In(m)
  BY DEF MonthOf
<1> HIDE DEF y
<1>3. \E m \in 1..12 : In(m)
  <2>1. \A m \in 1..12 : DaysBefore(y, m) = Before(y, m)
    BY <1>1, DaysBeforeMonth
  <2>2. /\ YearStart(y) \in Int
        /\ YearStart(y + 1) = YearStart(y) + (IF Leap(y) THEN 366 ELSE 365)
    BY <1>1, YearLength
  <2> DEFINE d == day - YearStart(y)
             leap == IF Leap(y) THEN 1 ELSE 0
  <2>3. d \in 0..(364 + leap)
    BY <1>1, <2>2
  <2>4. ASSUME NEW m \in 1..12, Before(y, m) <= d, d < Before(y, m) + MonthDays(y, m) PROVE In(m)
    BY <2>1, <2>2, <2>4 DEF Day, Before, MonthDays
  <2> HIDE DEF In, d
  <2>5. \E m \in 1..12 : Before(y, m) <= d /\ d < Before(y, m) + MonthDays(y, m)
    <3>1. /\ d < 31 => Before(y, 1) <= d /\ d < Before(y, 1) + MonthDays(y, 1)
          /\ 31 <= d /\ d < 59 + leap => Before(y, 2) <= d /\ d < Before(y, 2) + MonthDays(y, 2)
          /\ 59 + leap <= d /\ d < 90 + leap => Before(y, 3) <= d /\ d < Before(y, 3) + MonthDays(y, 3)
          /\ 90 + leap <= d /\ d < 120 + leap => Before(y, 4) <= d /\ d < Before(y, 4) + MonthDays(y, 4)
          /\ 120 + leap <= d /\ d < 151 + leap => Before(y, 5) <= d /\ d < Before(y, 5) + MonthDays(y, 5)
          /\ 151 + leap <= d /\ d < 181 + leap => Before(y, 6) <= d /\ d < Before(y, 6) + MonthDays(y, 6)
      BY <2>3 DEF Before, MonthDays
    <3>2. /\ 181 + leap <= d /\ d < 212 + leap => Before(y, 7) <= d /\ d < Before(y, 7) + MonthDays(y, 7)
          /\ 212 + leap <= d /\ d < 243 + leap => Before(y, 8) <= d /\ d < Before(y, 8) + MonthDays(y, 8)
          /\ 243 + leap <= d /\ d < 273 + leap => Before(y, 9) <= d /\ d < Before(y, 9) + MonthDays(y, 9)
          /\ 273 + leap <= d /\ d < 304 + leap => Before(y, 10) <= d /\ d < Before(y, 10) + MonthDays(y, 10)
          /\ 304 + leap <= d /\ d < 334 + leap => Before(y, 11) <= d /\ d < Before(y, 11) + MonthDays(y, 11)
          /\ 334 + leap <= d => Before(y, 12) <= d /\ d < Before(y, 12) + MonthDays(y, 12)
      BY <2>3 DEF Before, MonthDays
    <3>3. QED
      BY <2>3, <3>1, <3>2
  <2>6. QED
    BY Zenon, <2>4, <2>5
<1> HIDE DEF In
<1>4. MonthOf(day) \in 1..12 /\ In(MonthOf(day))
  BY Zenon, <1>2, <1>3
<1>5. QED
  BY Zenon, <1>4 DEF In, y

\* The year, the month and the day of the month that a date is made of are
\* those it is taken apart into, and the other way round: there is one calendar.
LEMMA DateParts ==
    ASSUME NEW day \in Int
    PROVE  /\ YearOf(day) \in Int /\ MonthOf(day) \in 1..12
           /\ DayOf(day) \in 1..MonthDays(YearOf(day), MonthOf(day))
           /\ Day(YearOf(day), MonthOf(day), DayOf(day)) = day
<1> DEFINE y == YearOf(day)
           m == MonthOf(day)
<1>1. y \in Int /\ m \in 1..12 /\ Day(y, m, 1) <= day /\ day < Day(y, m, 1) + MonthDays(y, m)
  BY YearOfIsIn, MonthOfIsIn
<1>2. DayOf(day) = day - Day(y, m, 1) + 1
  BY DEF DayOf
<1> HIDE DEF y, m
<1>3. /\ Day(y, m, 1) \in Int /\ MonthDays(y, m) \in 28..31
  BY <1>1, MonthsFill
<1>4. DayOf(day) \in 1..MonthDays(y, m)
  BY <1>1, <1>2, <1>3
<1>5. YearStart(y) \in Int /\ DaysBefore(y, m) \in Int
  BY <1>1, YearLength, DaysBeforeMonth DEF Before
<1>6. Day(y, m, DayOf(day)) = day
  BY <1>2, <1>4, <1>5 DEF Day
<1>7. QED
  BY <1>1, <1>4, <1>6 DEF y, m

\* A day of a month of a year is in that year and that month.
LEMMA PartsOfDate ==
    ASSUME NEW y \in Int, NEW m \in 1..12, NEW d \in 1..MonthDays(y, m)
    PROVE  /\ Day(y, m, d) \in Int
           /\ YearOf(Day(y, m, d)) = y /\ MonthOf(Day(y, m, d)) = m /\ DayOf(Day(y, m, d)) = d
<1> DEFINE day == Day(y, m, d)
<1>1. /\ Day(y, m, 1) \in Int /\ MonthDays(y, m) \in 28..31
      /\ Day(y, m, 1) >= YearStart(y)
      /\ Day(y, m, 1) + MonthDays(y, m) <= YearStart(y + 1)
  BY MonthsFill
<1>2. YearStart(y) \in Int /\ YearStart(y + 1) \in Int /\ DaysBefore(y, m) \in Int
  BY YearLength, DaysBeforeMonth DEF Before
<1>3. day \in Int /\ day = Day(y, m, 1) + d - 1
  BY <1>1, <1>2 DEF Day
<1> HIDE DEF day
<1>4. YearOf(day) = y
  <2>1. YearStart(y) <= day /\ day < YearStart(y + 1)
    BY <1>1, <1>2, <1>3
  <2>2. QED
    BY <1>3, <2>1, OneYear
<1>5. MonthOf(day) = m
  <2> DEFINE n == MonthOf(day)
  <2>1. n \in 1..12 /\ Day(y, n, 1) <= day /\ day < Day(y, n, 1) + MonthDays(y, n)
    BY <1>3, <1>4, MonthOfIsIn
  <2> HIDE DEF n
  <2>2. Day(y, n, 1) \in Int /\ MonthDays(y, n) \in 28..31
    BY <2>1, MonthsFill
  <2>3. ~ (m < n)
    BY <1>1, <1>3, <2>1, <2>2, MonthsInOrder
  <2>4. ~ (n < m)
    BY <1>1, <1>3, <2>1, <2>2, MonthsInOrder
  <2>5. QED
    BY <2>1, <2>3, <2>4 DEF n
<1>6. DayOf(day) = d
  <2>1. DayOf(day) = day - Day(y, m, 1) + 1
    BY Zenon, <1>4, <1>5 DEF DayOf
  <2>2. QED
    BY <1>1, <1>3, <2>1
<1>7. QED
  BY Zenon, <1>3, <1>4, <1>5, <1>6 DEF day
-----------------------------------------------------------------------------
(* Adding months *)

\* Adding months to a date lands in the month that many months on, on the same
\* day of the month or on its last.
LEMMA PlusMonthsLands ==
    ASSUME NEW day \in Int, NEW n \in Int, NEW y \in Int, NEW m \in 1..12,
           12 * y + m = 12 * YearOf(day) + MonthOf(day) + n
    PROVE  /\ PlusMonths(day, n) =
                 Day(y, m, IF DayOf(day) <= MonthDays(y, m) THEN DayOf(day) ELSE MonthDays(y, m))
           /\ (IF DayOf(day) <= MonthDays(y, m) THEN DayOf(day) ELSE MonthDays(y, m)) \in 1..MonthDays(y, m)
<1> DEFINE Y == YearOf(day)
           M == MonthOf(day)
           total == 12 * Y + M - 1 + n
<1>1. Y \in Int /\ M \in 1..12 /\ DayOf(day) \in 1..MonthDays(Y, M) /\ MonthDays(Y, M) \in 28..31
  BY DateParts, MonthsFill
<1>2. MonthDays(y, m) \in 28..31
  BY MonthsFill
<1>3. total \div 12 = y /\ (total % 12) + 1 = m
  <2> HIDE DEF Y, M
  <2>1. 12 * y + m = 12 * Y + M + n
    BY DEF Y, M
  <2>2. QED
    BY <1>1, <2>1
<1>4. QED
  <2>1. DayOf(day) \in Int /\ DayOf(day) >= 1
    BY <1>1
  <2>2. (IF DayOf(day) <= MonthDays(y, m) THEN DayOf(day) ELSE MonthDays(y, m)) \in 1..MonthDays(y, m)
    BY <1>2, <2>1
  <2>3. PlusMonths(day, n) =
          Day(total \div 12, (total % 12) + 1,
              IF DayOf(day) <= MonthDays(total \div 12, (total % 12) + 1) THEN DayOf(day)
              ELSE MonthDays(total \div 12, (total % 12) + 1))
    BY DEF PlusMonths
  <2> HIDE DEF total
  <2>4. QED
    BY Zenon, <1>3, <2>2, <2>3

\* The year and the month that are n months after a date's.
LEMMA MonthsOn ==
    ASSUME NEW day \in Int, NEW n \in Int
    PROVE  \E y \in Int, m \in 1..12 : 12 * y + m = 12 * YearOf(day) + MonthOf(day) + n
<1> DEFINE total == 12 * YearOf(day) + MonthOf(day) - 1 + n
<1>1. YearOf(day) \in Int /\ MonthOf(day) \in 1..12
  BY DateParts
<1>2. total \in Int /\ total + 1 = 12 * YearOf(day) + MonthOf(day) + n
  BY <1>1
<1> HIDE DEF total
<1>3. total \div 12 \in Int /\ (total % 12) + 1 \in 1..12 /\ 12 * (total \div 12) + ((total % 12) + 1) = total + 1
  BY <1>2
<1>4. QED
  BY Zenon, <1>2, <1>3

\* The date that is n months on is in the month that is n months on.
LEMMA PlusMonthsDifference ==
    ASSUME NEW day \in Int, NEW n \in Int
    PROVE  /\ PlusMonths(day, n) \in Int
           /\ month_diff(day, PlusMonths(day, n)) = n
           /\ YearOf(PlusMonths(day, 12 * n)) - YearOf(day) = n
<1>1. ASSUME NEW k \in Int
      PROVE  /\ PlusMonths(day, k) \in Int
             /\ month_diff(day, PlusMonths(day, k)) = k
             /\ 12 * YearOf(PlusMonths(day, k)) + MonthOf(PlusMonths(day, k)) = 12 * YearOf(day) + MonthOf(day) + k
  <2>1. PICK y \in Int, m \in 1..12 : 12 * y + m = 12 * YearOf(day) + MonthOf(day) + k
    BY MonthsOn
  <2> DEFINE d == IF DayOf(day) <= MonthDays(y, m) THEN DayOf(day) ELSE MonthDays(y, m)
  <2>2. PlusMonths(day, k) = Day(y, m, d) /\ d \in 1..MonthDays(y, m)
    BY <2>1, PlusMonthsLands
  <2> HIDE DEF d
  <2>3. PlusMonths(day, k) \in Int /\ YearOf(PlusMonths(day, k)) = y /\ MonthOf(PlusMonths(day, k)) = m
    <3>1. Day(y, m, d) \in Int /\ YearOf(Day(y, m, d)) = y /\ MonthOf(Day(y, m, d)) = m
      BY <2>2, PartsOfDate
    <3>2. QED
      BY Zenon, <2>2, <3>1
  <2>4. YearOf(day) \in Int /\ MonthOf(day) \in 1..12
    BY DateParts
  <2>5. QED
    BY <2>1, <2>3, <2>4 DEF month_diff
<1>2. 12 * n \in Int
  OBVIOUS
<1> DEFINE z == PlusMonths(day, 12 * n)
<1>3. z \in Int /\ 12 * YearOf(z) + MonthOf(z) = 12 * YearOf(day) + MonthOf(day) + 12 * n
  BY <1>1, <1>2
<1> HIDE DEF z
<1>4. /\ YearOf(day) \in Int /\ MonthOf(day) \in 1..12
      /\ YearOf(z) \in Int /\ MonthOf(z) \in 1..12
  BY <1>3, DateParts
<1>5. YearOf(z) - YearOf(day) = n
  BY <1>3, <1>4
<1>6. QED
  BY Zenon, <1>1, <1>5 DEF z

\* No months on is the date itself.
LEMMA PlusNoMonths ==
    ASSUME NEW day \in Int
    PROVE  PlusMonths(day, 0) = day
<1> DEFINE y == YearOf(day)
           m == MonthOf(day)
<1>1. /\ y \in Int /\ m \in 1..12 /\ DayOf(day) \in 1..MonthDays(y, m)
      /\ Day(y, m, DayOf(day)) = day /\ MonthDays(y, m) \in 28..31
  BY DateParts, MonthsFill
<1>2. 0 \in Int /\ 12 * y + m = 12 * YearOf(day) + MonthOf(day) + 0
  BY <1>1
<1>3. PlusMonths(day, 0) = Day(y, m, IF DayOf(day) <= MonthDays(y, m) THEN DayOf(day) ELSE MonthDays(y, m))
  <2> HIDE DEF y, m
  <2>1. QED
    BY Zenon, <1>1, <1>2, PlusMonthsLands
<1>4. DayOf(day) <= MonthDays(y, m)
  <2> HIDE DEF y, m
  <2>1. QED
    BY <1>1
<1>5. QED
  BY Zenon, <1>1, <1>3, <1>4

\* A number that fits an i32 is kept by the cast to it.
LEMMA WrapKeeps ==
    ASSUME MaxI32 \in Nat, NEW n \in I32
    PROVE  Wrap32(n) = n
<1> DEFINE a == n + MaxI32 + 1
           b == 2 * MaxI32 + 2
<1>1. a \in Int /\ b \in Int /\ b > 0 /\ 0 <= a /\ a < b
  BY DEF I32
<1> HIDE DEF a, b
<1>2. a % b = a
  BY <1>1
<1>3. n \in Int /\ n = a - MaxI32 - 1
  BY DEF a, I32
<1>4. QED
  BY <1>2, <1>3 DEF Wrap32, a, b

\* DATEADD of a number of months that fits an i32 moves a date by that many
\* months as DATEDIFF counts them, and of years, when their months fit one, by
\* that many years.  A number that does not fit leaves the date as it is
\* (date_add.rs:55, 77): the date is never moved by another number of months.
THEOREM AddedMonthsAreDifference ==
    ASSUME MaxI32 \in Nat, NEW day \in Int, NEW n \in Int
    PROVE  LET after(part) == X(AddTo(Cell("Date32", day), part, n))
           IN  /\ IF n \in I32 THEN month_diff(day, after("month")) = n ELSE after("month") = day
               /\ 12 * n \in I32 => YearOf(after("year")) - YearOf(day) = n
               /\ n \notin I32 => after("year") = day
<1> DEFINE after(part) == X(AddTo(Cell("Date32", day), part, n))
<1>1. ASSUME NEW part \in {"month", "year"}
      PROVE  after(part) = PlusMonths(day, Months(part, n))
  <2>1. part \in DOMAIN MonthParts /\ part \notin DOMAIN DayParts
    BY <1>1 DEF MonthParts, DayParts
  <2> DEFINE c == Cell("Date32", day)
  <2>2. c.ty = "Date32" /\ c.ty # "Time64" /\ X(c) = day
    BY DEF Cell, X
  <2> HIDE DEF c
  <2>3. AddTo(c, part, n) = IF c.ty = "Date32" THEN Cell("Date32", PlusMonths(X(c), Months(part, n)))
                            ELSE Cell(c.ty, (PlusMonths(DayIn(X(c)), Months(part, n)) * Coef.Day) + (X(c) % Coef.Day))
    BY Zenon, <2>1, <2>2 DEF AddTo
  <2>4. X(AddTo(c, part, n)) = PlusMonths(day, Months(part, n))
    BY <2>2, <2>3 DEF Cell, X
  <2>5. QED
    BY Zenon, <2>4 DEF c
<1>2. Months("month", n) = Fitting(n)
  BY DEF Months, MonthParts
<1>3. Months("year", n) = Wrap32(12 * Fitting(n))
  BY DEF Months
<1>4. 0 \in I32
  BY DEF I32
<1>5. IF n \in I32 THEN month_diff(day, after("month")) = n ELSE after("month") = day
  <2>1. CASE n \in I32
    <3>1. after("month") = PlusMonths(day, n)
      BY Zenon, <1>1, <1>2, <2>1 DEF Fitting
    <3>2. month_diff(day, PlusMonths(day, n)) = n
      BY PlusMonthsDifference
    <3>3. QED
      BY Zenon, <2>1, <3>1, <3>2
  <2>2. CASE n \notin I32
    BY Zenon, <1>1, <1>2, <2>2, PlusNoMonths DEF Fitting
  <2>3. QED
    BY Zenon, <2>1, <2>2
<1>6. ASSUME 12 * n \in I32 PROVE YearOf(after("year")) - YearOf(day) = n
  <2>1. n \in I32
    BY <1>6 DEF I32
  <2>2. Months("year", n) = 12 * n
    BY Zenon, <1>3, <1>6, <2>1, WrapKeeps DEF Fitting
  <2>3. QED
    BY Zenon, <1>1, <2>2, PlusMonthsDifference
<1>7. ASSUME n \notin I32 PROVE after("year") = day
  <2>1. Fitting(n) = 0 /\ 12 * 0 = 0
    BY <1>7 DEF Fitting
  <2>2. Months("year", n) = 0
    BY Zenon, <1>3, <1>4, <2>1, WrapKeeps
  <2>3. QED
    BY Zenon, <1>1, <2>2, PlusNoMonths
<1>8. QED
  BY Zenon, <1>5, <1>6, <1>7

\* DATE_FROM_PARTS takes the parts of a date back to the date, and a month
\* beyond the year's into the year it belongs to.
THEOREM PartsMakeDate ==
    ASSUME NEW day \in Int, NEW k \in Int
    PROVE  make_date(YearOf(day) + k, MonthOf(day) - 12 * k, DayOf(day)) = day
<1> DEFINE y == YearOf(day)
           m == MonthOf(day)
           first == Day(y + k, 1, 1)
<1>1. y \in Int /\ m \in 1..12 /\ DayOf(day) \in Int /\ Day(y, m, DayOf(day)) = day
  BY DateParts, MonthsFill
<1>2. y + k \in Int /\ 1 \in 1..MonthDays(y + k, 1) /\ 1 \in 1..12
  <2>1. y + k \in Int /\ 1 \in 1..12
    BY <1>1
  <2> HIDE DEF y
  <2>2. MonthDays(y + k, 1) \in 28..31
    BY <2>1, MonthsFill
  <2>3. QED
    BY <2>1, <2>2
<1> HIDE DEF y, m
<1>3. first \in Int /\ YearOf(first) = y + k /\ MonthOf(first) = 1 /\ DayOf(first) = 1
  BY <1>2, PartsOfDate
<1> HIDE DEF first
<1>4. MonthDays(y, m) \in 28..31
  BY <1>1, MonthsFill
<1>5. 12 * y + m = 12 * YearOf(first) + MonthOf(first) + ((m - 12 * k) - 1)
  BY <1>1, <1>3
<1>6. PlusMonths(first, (m - 12 * k) - 1) = Day(y, m, 1)
  <2>1. (m - 12 * k) - 1 \in Int /\ 1 <= MonthDays(y, m)
    BY <1>1, <1>4
  <2> DEFINE j == (m - 12 * k) - 1
  <2>2. j \in Int /\ 12 * y + m = 12 * YearOf(first) + MonthOf(first) + j
    BY <1>5, <2>1
  <2> HIDE DEF j
  <2>3. PlusMonths(first, j) =
          Day(y, m, IF DayOf(first) <= MonthDays(y, m) THEN DayOf(first) ELSE MonthDays(y, m))
    <3>1. first \in Int /\ y \in Int /\ m \in 1..12
      BY <1>1, <1>3
    <3>2. QED
      BY <2>2, <3>1, PlusMonthsLands
  <2>4. QED
    BY Zenon, <1>3, <2>1, <2>3 DEF j
<1>7. YearStart(y) \in Int /\ DaysBefore(y, m) \in Int
  BY <1>1, YearLength, DaysBeforeMonth DEF Before
<1>8. Day(y, m, 1) + DayOf(day) - 1 = day
  BY <1>1, <1>7 DEF Day
<1>9. make_date(y + k, m - 12 * k, DayOf(day)) = PlusMonths(first, (m - 12 * k) - 1) + DayOf(day) - 1
  BY DEF make_date, first
<1>10. QED
  BY <1>6, <1>8, <1>9 DEF y, m

\* last_day_of_month is the length of the month.
LEMMA LastDayIsLength ==
    ASSUME NEW y \in Int, NEW m \in 1..12
    PROVE  last_day_of_month(y, m) = MonthDays(y, m)
<1> DEFINE next == IF m = 12 THEN Day(y + 1, 1, 1) ELSE Day(y, m + 1, 1)
<1>1. next = Day(y, m, 1) + MonthDays(y, m) /\ MonthDays(y, m) \in 28..31 /\ Day(y, m, 1) \in Int
  <2>1. y + 1 \in Int /\ 1 \in 1..12
    OBVIOUS
  <2>2. m = 12 => Day(y + 1, 1, 1) = YearStart(y + 1)
    BY <2>1, MonthsFill
  <2>3. QED
    BY <2>2, MonthsFill
<1>2. YearStart(y) \in Int /\ DaysBefore(y, m) \in Int
  BY YearLength, DaysBeforeMonth DEF Before
<1>3. last_day_of_month(y, m) = DayOf(next - 1)
  BY DEF last_day_of_month
<1> HIDE DEF next
<1>4. next - 1 = Day(y, m, MonthDays(y, m))
  BY <1>1, <1>2 DEF Day
<1>5. MonthDays(y, m) \in 1..MonthDays(y, m)
  BY <1>1
<1>6. DayOf(Day(y, m, MonthDays(y, m))) = MonthDays(y, m)
  <2> DEFINE d == MonthDays(y, m)
  <2>1. d \in 1..MonthDays(y, m)
    BY Zenon, <1>5
  <2> HIDE DEF d
  <2>2. DayOf(Day(y, m, d)) = d
    BY <2>1, PartsOfDate
  <2>3. QED
    BY Zenon, <2>2 DEF d
<1>7. QED
  BY Zenon, <1>3, <1>4, <1>6

\* add_months of an i32 moves any date by that many months, and the last day
\* of a month to the last day of a month.
LEMMA AddMonthsRow ==
    ASSUME NEW day \in Int, NEW n \in Int
    PROVE  LET after == add_months_row(day, n)
           IN  /\ after \in Int
               /\ month_diff(day, after) = n
               /\ DayOf(day) = MonthDays(YearOf(day), MonthOf(day))
                    => DayOf(after) = MonthDays(YearOf(after), MonthOf(after))
<1> DEFINE Y == YearOf(day)
           M == MonthOf(day)
           total == 12 * Y + M - 1 + n
           y == total \div 12
           m == (total % 12) + 1
           d == IF DayOf(day) = last_day_of_month(Y, M) \/ DayOf(day) > last_day_of_month(y, m)
                THEN last_day_of_month(y, m) ELSE DayOf(day)
           after == add_months_row(day, n)
<1>1. Y \in Int /\ M \in 1..12 /\ DayOf(day) \in 1..MonthDays(Y, M) /\ MonthDays(Y, M) \in 28..31
  BY DateParts, MonthsFill
<1>2. after = Day(y, m, d)
  BY Zenon DEF add_months_row
<1> HIDE DEF Y, M
<1>3. y \in Int /\ m \in 1..12 /\ 12 * y + m = 12 * Y + M + n
  BY <1>1
<1> HIDE DEF y, m
<1>4. last_day_of_month(y, m) = MonthDays(y, m) /\ last_day_of_month(Y, M) = MonthDays(Y, M)
  BY Zenon, <1>1, <1>3, LastDayIsLength
<1>5. MonthDays(y, m) \in 28..31
  BY <1>3, MonthsFill
<1>6. d \in 1..MonthDays(y, m) /\ (DayOf(day) = MonthDays(Y, M) => d = MonthDays(y, m))
  BY <1>1, <1>4, <1>5
<1> HIDE DEF d, after
<1>7. after \in Int /\ YearOf(after) = y /\ MonthOf(after) = m /\ DayOf(after) = d
  BY Zenon, <1>2, <1>3, <1>6, PartsOfDate
<1>8. month_diff(day, after) = n
  BY <1>1, <1>3, <1>7 DEF month_diff, Y, M
<1>9. QED
  BY Zenon, <1>6, <1>7, <1>8 DEF after, Y, M

\* ADD_MONTHS moves any date by that many months, when they fit the i32 they
\* are cast to, and the last day of a month to the last day of a month.
THEOREM AddMonthsKeepsLastDay ==
    ASSUME MaxI32 \in Nat, NEW day \in Int, NEW n \in I32
    PROVE  LET after == add_months_row(day, Wrap32(n))
           IN  /\ month_diff(day, after) = n
               /\ DayOf(day) = MonthDays(YearOf(day), MonthOf(day))
                    => DayOf(after) = MonthDays(YearOf(after), MonthOf(after))
<1>1. Wrap32(n) = n
  BY WrapKeeps
<1>2. n \in Int
  BY DEF I32
<1>3. QED
  BY Zenon, <1>1, <1>2, AddMonthsRow

-----------------------------------------------------------------------------
(* Weeks *)

\* A weekday's name is found at its own place, or nowhere.
LEMMA DayNumbers ==
    ASSUME NEW dow
    PROVE  /\ NumberOfDay(dow) \in -1..6
           /\ NumberOfDay(dow) # -1 => WeekDays[NumberOfDay(dow) + 1] = dow
<1> DEFINE I == {i \in 1..Len(WeekDays) : WeekDays[i] = dow}
<1>1. NumberOfDay(dow) = (IF I # {} THEN Min(I) ELSE 0) - 1
  BY DEF NumberOfDay, SelectInSeq
<1>2. Len(WeekDays) = 7
  BY DEF WeekDays
<1>3. \A i, j \in I : i = j
  BY <1>2 DEF WeekDays
<1>4. ASSUME I # {} PROVE Min(I) \in I
  <2>1. PICK i : i \in I
    BY Zenon, <1>4
  <2>2. i <= i
    BY <1>2, <2>1
  <2>3. \A y \in I : i <= y
    BY Zenon, <1>3, <2>1, <2>2
  <2>4. QED
    BY Zenon, <2>1, <2>3 DEF Min
<1>5. CASE I = {}
  BY <1>1, <1>5
<1>6. CASE I # {}
  <2>1. Min(I) \in 1..7 /\ WeekDays[Min(I)] = dow
    BY Zenon, <1>2, <1>4, <1>6
  <2>2. NumberOfDay(dow) = Min(I) - 1
    BY Zenon, <1>1, <1>6
  <2> HIDE DEF I
  <2>3. NumberOfDay(dow) \in 0..6 /\ NumberOfDay(dow) + 1 = Min(I)
    BY <2>1, <2>2
  <2>4. QED
    BY <2>1, <2>3
<1>7. QED
  BY Zenon, <1>5, <1>6

\* NEXT_DAY and PREVIOUS_DAY answer the weekday asked for, the nearest one
\* strictly after and strictly before the date: they are a week apart, or two
\* when the date is itself that weekday.  PREVIOUS_DAY fails for Sunday, which
\* its match leaves out, and for what is no weekday.
THEOREM NextAndPrevious ==
    ASSUME NEW day \in Int, NEW dow
    PROVE  LET next == next_day_row(day, dow)
               prev == X(prev_day(day, dow))
           IN  IF dow = "su" \/ NumberOfDay(dow) = -1 THEN prev_day(day, dow).err
               ELSE
               /\ ~prev_day(day, dow).err
               /\ next - day \in 1..7 /\ day - prev \in 1..7
               /\ WeekDays[Weekday(next) + 1] = dow /\ WeekDays[Weekday(prev) + 1] = dow
               /\ next - prev = IF WeekDays[Weekday(day) + 1] = dow THEN 14 ELSE 7
<1> DEFINE next == next_day_row(day, dow)
           prev == X(prev_day(day, dow))
           n == NumberOfDay(dow)
<1>0. CASE dow = "su" \/ n = -1
  <2>1. n \notin 0..5
    <3>1. n \in -1..6 /\ (n # -1 => WeekDays[n + 1] = dow)
      BY DayNumbers
    <3>2. \A i \in 0..5 : WeekDays[i + 1] # "su"
      BY DEF WeekDays
    <3> HIDE DEF n
    <3>3. -1 \notin 0..5
      OBVIOUS
    <3>4. n \in 0..5 => n # -1
      BY <3>3
    <3>5. QED
      BY Zenon, <1>0, <3>1, <3>2, <3>4
  <2>2. prev_day(day, dow).err
    BY <2>1 DEF prev_day, Err
  <2>3. QED
    BY Zenon, <1>0, <2>2
<1> SUFFICES ASSUME dow # "su", n # -1
             PROVE  /\ ~prev_day(day, dow).err
                    /\ next - day \in 1..7 /\ day - prev \in 1..7
                    /\ WeekDays[Weekday(next) + 1] = dow /\ WeekDays[Weekday(prev) + 1] = dow
                    /\ next - prev = IF WeekDays[Weekday(day) + 1] = dow THEN 14 ELSE 7
  BY Zenon, <1>0
<1>1. n \in 0..5 /\ WeekDays[n + 1] = dow
  <2>1. n \in -1..6 /\ WeekDays[n + 1] = dow
    BY DayNumbers
  <2>2. WeekDays[6 + 1] = "su"
    BY DEF WeekDays
  <2> HIDE DEF n
  <2>3. n # 6
    BY Zenon, <2>1, <2>2
  <2>4. QED
    BY <2>1, <2>3
<1>2. next = day + (IF (n + 7 - Weekday(day)) % 7 = 0 THEN 7 ELSE (n + 7 - Weekday(day)) % 7)
  BY Zenon DEF next_day_row
<1>3. /\ prev = day - (IF (Weekday(day) + 7 - n) % 7 = 0 THEN 7 ELSE (Weekday(day) + 7 - n) % 7)
      /\ ~prev_day(day, dow).err
  BY <1>1 DEF prev_day, Cell, X
<1> HIDE DEF n, next, prev
<1>4. next - day \in 1..7 /\ day - prev \in 1..7
  BY <1>1, <1>2, <1>3 DEF Weekday
<1>5. Weekday(next) = n /\ Weekday(prev) = n
  BY <1>1, <1>2, <1>3 DEF Weekday
<1>6. next - prev = IF Weekday(day) = n THEN 14 ELSE 7
  BY <1>1, <1>2, <1>3 DEF Weekday
<1>7. WeekDays[Weekday(day) + 1] = dow <=> Weekday(day) = n
  <2>1. Weekday(day) \in 0..6
    BY DEF Weekday
  <2>2. \A i, j \in 1..7 : WeekDays[i] = WeekDays[j] => i = j
    BY DEF WeekDays
  <2>3. n + 1 \in 1..7 /\ Weekday(day) + 1 \in 1..7 /\ (Weekday(day) + 1 = n + 1 <=> Weekday(day) = n)
    BY <1>1, <2>1
  <2>4. QED
    BY Zenon, <1>1, <2>2, <2>3
<1>8. QED
  BY Zenon, <1>1, <1>3, <1>4, <1>5, <1>6, <1>7

\* LAST_DAY of a week is at most six days on, and is the day that DAYOFWEEK
\* numbers 7 (0 when WEEK_START is 0): the two files that turn the parameter
\* into a weekday agree, for every value it may have.
THEOREM LastDayEndsWeek ==
    ASSUME NEW day \in Int, NEW week_start \in 0..7
    PROVE  /\ LastWeekDay(day, week_start) - day \in 0..6
           /\ calculate_day_of_week(LastWeekDay(day, week_start), week_start)
                = IF week_start = 0 THEN 0 ELSE 7
<1> DEFINE first == IF week_start = 0 THEN 0 ELSE (week_start - 1) % 7
           last == (first + 6) % 7
           end == LastWeekDay(day, week_start)
<1>1. end = day + ((last + 7 - Weekday(day)) % 7)
  BY DEF LastWeekDay
<1>2. first \in 0..6 /\ first = week_start_to_weekday(week_start)
  BY DEF week_start_to_weekday
<1> HIDE DEF first
<1>3. last \in 0..6 /\ (last - first + 7) % 7 = 6
  BY <1>2
<1> HIDE DEF last, end
<1>4. end \in Int /\ end - day \in 0..6 /\ Weekday(end) = last
  BY <1>1, <1>3 DEF Weekday
<1>5. (Weekday(end) - week_start_to_weekday(week_start) + 7) % 7 = 6
  BY Zenon, <1>2, <1>3, <1>4
<1>6. calculate_day_of_week(end, week_start) = IF week_start = 0 THEN 0 ELSE 7
  BY <1>5 DEF calculate_day_of_week
<1>7. QED
  BY <1>4, <1>6 DEF end

\* Under WEEK_OF_YEAR_POLICY 1 the number of the week goes up by one on the day
\* that DAYOFWEEK numbers 1, starts again at 1 on January 1, and changes on no
\* other day.
THEOREM WeekChanges ==
    ASSUME NEW day \in Int, NEW week_start \in 0..7
    PROVE  WeekFromJan1(day + 1, week_start) =
             IF MonthOf(day + 1) = 1 /\ DayOf(day + 1) = 1 THEN 1
             ELSE WeekFromJan1(day, week_start)
                    + (IF calculate_day_of_week(day + 1, week_start) = 1 THEN 1 ELSE 0)
<1> DEFINE y == YearOf(day + 1)
           jan1 == Day(y, 1, 1)
           w == week_start_to_weekday(week_start)
           back == (Weekday(jan1) - w + 7) % 7
<1>1. /\ day + 1 \in Int /\ y \in Int /\ YearStart(y) <= day + 1 /\ day + 1 < YearStart(y + 1)
      /\ YearStart(y) \in Int /\ YearStart(y + 1) \in Int
  <2>1. day + 1 \in Int
    OBVIOUS
  <2>2. y \in Int /\ YearStart(y) <= day + 1 /\ day + 1 < YearStart(y + 1)
    BY <2>1, YearOfIsIn
  <2> HIDE DEF y
  <2>3. QED
    BY <2>1, <2>2, YearLength
<1>2. WeekFromJan1(day + 1, week_start) = (((day + 1) - (jan1 - back)) \div 7) + 1
  BY Zenon DEF WeekFromJan1
<1>3. w \in 0..6
  BY DEF week_start_to_weekday
<1>4. MonthOf(day + 1) = 1 /\ DayOf(day + 1) = 1 <=> day + 1 = jan1
  <2>1. MonthOf(day + 1) = 1 /\ DayOf(day + 1) = 1 => day + 1 = jan1
    BY <1>1, DateParts
  <2>2. 1 \in 1..12 /\ 1 \in 1..MonthDays(y, 1)
    BY DEF MonthDays
  <2>3. day + 1 = jan1 => MonthOf(day + 1) = 1 /\ DayOf(day + 1) = 1
    BY <1>1, <2>2, PartsOfDate
  <2>4. QED
    BY Zenon, <2>1, <2>3
<1> HIDE DEF y
<1>5. jan1 = YearStart(y)
  <2>1. 1 \in 1..12
    OBVIOUS
  <2>2. QED
    BY <1>1, <2>1, MonthsFill
<1> HIDE DEF jan1, w
<1>6. jan1 \in Int /\ back \in 0..6 /\ (jan1 - back + 3) % 7 = w
  BY <1>1, <1>3, <1>5 DEF Weekday
<1> HIDE DEF back
<1>7. CASE day + 1 = jan1
  <2>1. WeekFromJan1(day + 1, week_start) = 1
    BY <1>2, <1>6, <1>7
  <2>2. QED
    BY Zenon, <1>4, <1>7, <2>1
<1>8. CASE day + 1 # jan1
  <2>1. YearStart(y) <= day /\ day < YearStart(y + 1)
    BY <1>1, <1>5, <1>8
  <2>2. YearOf(day) = y
    BY <1>1, <2>1, OneYear
  <2>3. WeekFromJan1(day, week_start) = ((day - (jan1 - back)) \div 7) + 1
    BY Zenon, <2>2 DEF WeekFromJan1, jan1, back, w
  <2>4. calculate_day_of_week(day + 1, week_start) = 1 <=> (day + 1 + 3) % 7 = w
    <3> DEFINE x == (day + 1 + 3) % 7
               dow == (x - w + 7) % 7
    <3>1. calculate_day_of_week(day + 1, week_start) = IF week_start = 0 /\ dow = 6 THEN 0 ELSE dow + 1
      BY Zenon DEF calculate_day_of_week, Weekday, w
    <3>2. x \in 0..6
      OBVIOUS
    <3> HIDE DEF x
    <3>3. dow \in 0..6 /\ (dow = 0 <=> x = w)
      BY <1>3, <3>2
    <3> HIDE DEF dow
    <3>4. calculate_day_of_week(day + 1, week_start) = 1 <=> dow = 0
      BY <3>1, <3>3
    <3>5. QED
      BY Zenon, <3>3, <3>4 DEF x
  <2>5. (((day + 1) - (jan1 - back)) \div 7) =
          ((day - (jan1 - back)) \div 7) + (IF (day + 1 + 3) % 7 = w THEN 1 ELSE 0)
    BY <1>3, <1>6
  <2>6. QED
    BY <1>2, <1>4, <1>6, <1>8, <2>3, <2>4, <2>5
<1>9. QED
  BY Zenon, <1>7, <1>8

-----------------------------------------------------------------------------
(* Time zones *)

\* Two candidates are finitely many.
LEMMA TwoCandidates ==
    ASSUME NEW a, NEW b
    PROVE  IsFiniteSet({a, b})
<1>1. IsFiniteSet({a})
  BY Zenon, FS_Singleton
<1>2. IsFiniteSet({a} \cup {b})
  BY <1>1, FS_AddElement
<1>3. {a, b} = {a} \cup {b}
  OBVIOUS
<1>4. QED
  BY Zenon, <1>2, <1>3

\* CONVERT_TIMEZONE to a zone and back is the identity, or fails: the instant
\* found from the source's clock is one of those found from the target's, and
\* convert_timezone answers only when there is no other.
THEOREM ConvertBack ==
    ASSUME NEW source, NEW target, NEW t \in Int,
           source.at \in Int, source.before \in Int, source.after \in Int,
           target.at \in Int, target.before \in Int, target.after \in Int,
           ~convert_timezone(source, target, t).err
    PROVE  LET there == X(convert_timezone(source, target, t))
               back == convert_timezone(target, source, there)
           IN  back.err \/ X(back) = t
<1> DEFINE us == Instants(source, t)
           u == CHOOSE x \in us : TRUE
           there == u + OffsetAt(target, u)
           vs == Instants(target, there)
           v == CHOOSE x \in vs : TRUE
           back == convert_timezone(target, source, there)
<1>1. Cardinality(us) = 1 /\ convert_timezone(source, target, t) = Cell("Nanosecond", there)
  <2>1. ASSUME NEW e PROVE Err(e).err = TRUE
    BY DEF Err
  <2>2. QED
    BY Zenon, <2>1 DEF convert_timezone
<1>2. ASSUME NEW x PROVE X(Cell("Nanosecond", x)) = x
  BY DEF X, Cell
<1>3. us \subseteq {t - source.before, t - source.after}
  BY Zenon DEF Instants
<1>5. PICK w : us = {w}
  <2> DEFINE a == t - source.before
             b == t - source.after
  <2>1. us \subseteq {a, b}
    BY Zenon, <1>3
  <2> HIDE DEF us, a, b
  <2>2. IsFiniteSet(us)
    <3>1. IsFiniteSet({a, b})
      BY Zenon, TwoCandidates
    <3>2. QED
      BY Zenon, <2>1, <3>1, FS_Subset
  <2>3. QED
    BY Zenon, <1>1, <2>2, FS_Singleton
<1>6. u \in us
  BY Zenon, <1>5
<1>7. u \in {t - source.before, t - source.after} /\ u + OffsetAt(source, u) = t
  BY Zenon, <1>6 DEF Instants
<1> HIDE DEF us, u
<1>8. u \in Int
  BY <1>7
<1>9. u \in vs
  <2>1. OffsetAt(target, u) \in {target.before, target.after}
    BY Zenon DEF OffsetAt
  <2>2. there - OffsetAt(target, u) = u
    BY <1>8, <2>1
  <2>3. u \in {there - target.before, there - target.after}
    BY Zenon, <2>1, <2>2
  <2>4. u + OffsetAt(target, u) = there
    OBVIOUS
  <2> HIDE DEF there
  <2>5. QED
    BY Zenon, <2>3, <2>4 DEF Instants
<1>10. vs \subseteq {there - target.before, there - target.after}
  BY Zenon DEF Instants
<1> HIDE DEF there, vs
<1>11. CASE Cardinality(vs) = 1
  <2>1. v = u
    <3> DEFINE a == there - target.before
               b == there - target.after
    <3>1. vs \subseteq {a, b}
      BY Zenon, <1>10
    <3> HIDE DEF a, b
    <3>2. IsFiniteSet(vs)
      <4>1. IsFiniteSet({a, b})
        BY Zenon, TwoCandidates
      <4>2. QED
        BY Zenon, <3>1, <4>1, FS_Subset
    <3>3. PICK e : vs = {e}
      BY Zenon, <1>11, <3>2, FS_Singleton
    <3>4. QED
      BY Zenon, <1>9, <3>3
  <2>2. back = Cell("Nanosecond", v + OffsetAt(source, v)) \/ back = Err("invalid timestamp")
    BY Zenon, <1>11 DEF convert_timezone, vs
  <2>3. Err("invalid timestamp").err
    BY DEF Err
  <2> HIDE DEF back, v
  <2>4. QED
    BY Zenon, <1>1, <1>2, <1>7, <2>1, <2>2, <2>3 DEF back
<1>12. CASE Cardinality(vs) # 1
  <2>1. back = Err("invalid datetime") \/ back = Err("invalid timestamp")
    BY Zenon, <1>12 DEF convert_timezone, vs
  <2>2. Err("invalid timestamp").err /\ Err("invalid datetime").err
    BY DEF Err
  <2> HIDE DEF back
  <2>3. QED
    BY Zenon, <1>1, <1>2, <2>1, <2>2 DEF back
<1>13. QED
  BY Zenon, <1>11, <1>12
=============================================================================

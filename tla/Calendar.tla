------------------------------ MODULE Calendar ------------------------------
(***************************************************************************)
(* The Gregorian calendar of the chrono crate, as crates/functions uses    *)
(* it: a date is its number of days since 1970.                            *)
(***************************************************************************)
EXTENDS Integers

Leap(y) == y % 4 = 0 /\ (y % 100 # 0 \/ y % 400 = 0)
MonthDays(y, m) == IF m = 2 THEN IF Leap(y) THEN 29 ELSE 28
                   ELSE IF m \in {4, 6, 9, 11} THEN 30 ELSE 31
YearStart(y) == 365 * (y - 1970) + ((y - 1) \div 4) - ((y - 1) \div 100) + ((y - 1) \div 400) - 477
DaysBefore(y, m) == LET f[k \in 1..12] == IF k = 1 THEN 0 ELSE f[k - 1] + MonthDays(y, k - 1)
                    IN  f[m]
Day(y, m, d) == YearStart(y) + DaysBefore(y, m) + d - 1
YearOf(day) == LET g == 1970 + ((400 * day) \div 146097)
               IN  CHOOSE y \in (g - 1)..(g + 1) : YearStart(y) <= day /\ day < YearStart(y + 1)
MonthOf(day) == LET y == YearOf(day)
                IN  CHOOSE m \in 1..12 : /\ Day(y, m, 1) <= day
                                         /\ day < Day(y, m, 1) + MonthDays(y, m)
DayOf(day) == day - Day(YearOf(day), MonthOf(day), 1) + 1
Weekday(day) == (day + 3) % 7            \* 0 is Monday
PlusMonths(day, n) ==
    LET total == 12 * YearOf(day) + MonthOf(day) - 1 + n
        y == total \div 12
        m == (total % 12) + 1
        most == MonthDays(y, m)
    IN  Day(y, m, IF DayOf(day) <= most THEN DayOf(day) ELSE most)
IsoThursday(day) == day - Weekday(day) + 3
IsoYear(day) == YearOf(IsoThursday(day))
IsoWeek(day) == ((IsoThursday(day) - YearStart(IsoYear(day))) \div 7) + 1
=============================================================================

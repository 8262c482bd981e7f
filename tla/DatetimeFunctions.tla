-------------------------- MODULE DatetimeFunctions --------------------------
(***************************************************************************)
(* crates/functions/src/datetime.  A date is its number of days since 1970 *)
(* (module Calendar), a timestamp or time its number of ticks; the         *)
(* ticks of each part of a day are constants.  A part of a date stands for *)
(* all its spellings in lower case, Upper(part) for one in upper case.     *)
(***************************************************************************)
EXTENDS Columnar, Calendar

CONSTANTS
    Coef,    \* [Day, Hour, ..., Nanosecond |-> ticks]
    MaxI32,  \* the largest i32
    MaxI64   \* the largest number of ticks

Upper(part) == <<"upper", part>>
Spelt(part) == <<"lower", part>>
\* Arithmetic and casts of a build without overflow checks.
Wrap64(n) == ((n + MaxI64 + 1) % (2 * MaxI64 + 2)) - MaxI64 - 1
Wrap32(n) == ((n + MaxI32 + 1) % (2 * MaxI32 + 2)) - MaxI32 - 1
I32 == (-MaxI32 - 1)..MaxI32

-----------------------------------------------------------------------------

DayIn(t) == t \div Coef.Day
\* A cast to nanoseconds and back.
Ticks(c) == IF c.ty = "Date32" THEN X(c) * Coef.Day ELSE X(c)
FromTicks(ty, t) == IF ty = "Date32" THEN Cell(ty, DayIn(t)) ELSE Cell(ty, t)

\* One row answers a scalar, even from a column of one row.
OneIsScalar(r) == IF ~Failed(r) /\ Len(r.vs) = 1 THEN Scalar(r.vs[1]) ELSE r
\* The functions that refuse a NULL row.
NotNull(f(_), arg) ==
    EachRow(LAMBDA c : IF Some(c) THEN f(c) ELSE Err("must be a timestamp"), arg.vs)
Nullable(ty, f(_), arg) ==
    EachRow(LAMBDA c : IF Some(c) THEN f(c) ELSE Null(ty), arg.vs)
ScalarSome(arg) == ~arg.col /\ Some(Of(arg))

-----------------------------------------------------------------------------
(* ADD_MONTHS, LAST_DAY, NEXT_DAY, PREVIOUS_DAY and the names              *)

last_day_of_month(y, m) ==
    LET next == IF m = 12 THEN Day(y + 1, 1, 1) ELSE Day(y, m + 1, 1) IN DayOf(next - 1)

\* The last day of a month stays the last day.  A year or a sum of months that
\* is out of chrono's range or of i32 is far out of a timestamp's.
add_months_row(day, months) ==
    LET y == YearOf(day)
        total == 12 * y + MonthOf(day) - 1 + months
        ny == total \div 12
        nm == (total % 12) + 1
        last == last_day_of_month(ny, nm)
    IN  IF DayOf(day) = last_day_of_month(y, MonthOf(day)) \/ DayOf(day) > last
        THEN Day(ny, nm, last) ELSE Day(ny, nm, DayOf(day))

add_months(args) ==
    IF ~ScalarSome(args[2]) THEN Fail("second argument must be a scalar")
    ELSE OneIsScalar(NotNull(
           LAMBDA c : LET t == Ticks(c)
                          moved == (add_months_row(DayIn(t), Wrap32(X(Of(args[2])))) * Coef.Day) + (t % Coef.Day)
                      IN  IF moved \in (-MaxI64 - 1)..MaxI64 THEN FromTicks(c.ty, moved)
                          ELSE Err("timestamp is out of range"),
           args[1]))

LastWeekDay(day, week_start) ==
    LET first == IF week_start = 0 THEN 0 ELSE (week_start - 1) % 7
        last == (first + 6) % 7
    IN  day + ((last + 7 - Weekday(day)) % 7)

last_day_row(day, part, week_start) ==
    LET y == YearOf(day)
        m == MonthOf(day)
    IN  CASE part = "day" -> Cell("Date32", day)
          [] part = "week" -> Cell("Date32", LastWeekDay(day, week_start))
          [] part = "month" ->
               Cell("Date32", (IF m = 12 THEN Day(y + 1, 1, 1) ELSE Day(y, m + 1, 1)) - 1)
          [] part = "year" -> Cell("Date32", Day(y, 12, 31))
          [] OTHER -> Err("unsupported date part")

\* The part is lower-cased first; without one it is a month.
last_day(args, week_start) ==
    IF Len(args) = 2 /\ ~ScalarSome(args[2]) THEN Fail("second argument must be a scalar")
    ELSE LET part == IF Len(args) = 2 THEN X(Of(args[2]))[2] ELSE "month"
         IN  Nullable("Date32", LAMBDA c : last_day_row(DayIn(Ticks(c)), part, week_start), args[1])

WeekDays == <<"mo", "tu", "we", "th", "fr", "sa", "su">>
NumberOfDay(dow) == SelectInSeq(WeekDays, LAMBDA w : w = dow) - 1

next_day_row(day, dow) ==
    LET n == (NumberOfDay(dow) + 7 - Weekday(day)) % 7 IN day + (IF n = 0 THEN 7 ELSE n)

\* Keeps the time of day; the answer is a Date64.
next_day(args) ==
    IF ~ScalarSome(args[2]) THEN Fail("second argument must be a string")
    ELSE LET dow == X(Of(args[2]))
         IN  OneIsScalar(NotNull(
               LAMBDA c : IF NumberOfDay(dow) < 0 THEN Err("invalid day of week")
                          ELSE Cell("Date64", (next_day_row(DayIn(Ticks(c)), dow) * Coef.Day)
                                              + (Ticks(c) % Coef.Day)),
               args[1]))

\* No arm of the match names Sunday.
prev_day(day, dow) ==
    LET n == (Weekday(day) + 7 - NumberOfDay(dow)) % 7
    IN  IF NumberOfDay(dow) \notin 0..5 THEN Err("invalid day of week")
        ELSE Cell("Date32", day - (IF n = 0 THEN 7 ELSE n))

previous_day(args) ==
    IF ~ScalarSome(args[2]) THEN Fail("second argument must be a string")
    ELSE LET dow == X(Of(args[2]))
         IN  Nullable("Date32", LAMBDA c : prev_day(DayIn(Ticks(c)), dow), args[1])

dayname(arg) ==
    OneIsScalar(NotNull(LAMBDA c : Cell("Utf8", WeekDays[Weekday(DayIn(Ticks(c))) + 1]), arg))
monthname(arg) ==
    Nullable("Utf8", LAMBDA c : Cell("Utf8", MonthOf(DayIn(Ticks(c)))), arg)
-----------------------------------------------------------------------------
(* DATEADD.  A number of Float64 is counted in halves.                     *)

MonthParts == [year |-> 12, quarter |-> 3, month |-> 1]
DayParts == [week |-> 7, day |-> 1]
TickParts == [hour |-> Coef.Hour, minute |-> Coef.Minute, second |-> Coef.Second,
              millisecond |-> Coef.Millisecond, microsecond |-> Coef.Microsecond,
              nanosecond |-> 1, nseconds |-> 1]

check_return_type(part, ty) == IF ty = "Date32" /\ part \in DOMAIN TickParts THEN "Nanosecond" ELSE ty

Rounded(h) == IF h < 0 THEN -((1 - h) \div 2) ELSE (h + 1) \div 2
\* A NULL counts as 0: unwrap_or(0), or the value under a NULL of the array.
Amount(c) == IF ~Some(c) THEN 0 ELSE IF c.ty = "Float64" THEN Rounded(X(c)) ELSE X(c)
\* i32::try_from(n).unwrap_or(0)
Fitting(n) == IF n \in I32 THEN n ELSE 0
\* A year is an interval of that many years, kept in months, a quarter three
\* times as many months.
Months(part, n) == IF part = "year" THEN Wrap32(12 * Fitting(n)) ELSE Fitting(n * MonthParts[part])

AddTo(c, part, n) ==
    LET onDay(f(_)) == IF c.ty = "Date32" THEN Cell("Date32", f(X(c)))
                       ELSE Cell(c.ty, (f(DayIn(X(c))) * Coef.Day) + (X(c) % Coef.Day))
    IN  CASE c.ty = "Time64" -> Err("invalid arithmetic")
          [] part \in DOMAIN MonthParts -> onDay(LAMBDA d : PlusMonths(d, Months(part, n)))
          [] part \in DOMAIN DayParts -> onDay(LAMBDA d : d + Fitting(n * DayParts[part]))
          [] OTHER -> Cell(c.ty, Wrap64(X(c) + Wrap64(n * TickParts[part])))

AddRow(row, part) ==
    LET ty == check_return_type(part, row[2].ty)
        date == IF ty = row[2].ty \/ ~Some(row[2]) THEN Option(ty, row[2].held)
                ELSE Cell(ty, Ticks(row[2]))
    IN  IF Some(date) THEN AddTo(date, part, Amount(row[1])) ELSE date

\* check_return_type lower-cases the part, the match does not.
dateadd(args) ==
    IF ~ScalarSome(args[1]) THEN Fail("invalid unit type format")
    ELSE LET part == X(Of(args[1]))
         IN  IF part[1] = "upper" \/ part[2] \notin DOMAIN MonthParts \cup DOMAIN DayParts \cup DOMAIN TickParts
             THEN Fail("invalid date_or_time_part")
             ELSE EachRow(LAMBDA row : AddRow(row, part[2]), Broadcast(Tail(args)))

-----------------------------------------------------------------------------
(* DATEDIFF                                                                *)

datediff_coerce(tys) ==
    IF "Time64" \in {tys[1], tys[2]}
    THEN IF tys[1] = tys[2] THEN <<"Time64">> ELSE <<>>
    ELSE <<"Nanosecond">>

boundary_diff(a, b, coef) == (b \div coef) - (a \div coef)

weeks_diff(ticks, week_start) ==
    LET days == ticks \div Coef.Day
        rem == days % 7
    IN  IF days < 0 THEN 0
        ELSE (days \div 7) + (IF IF week_start = 0 THEN rem > 0 ELSE rem >= week_start THEN 1 ELSE 0)

month_diff(a, b) == 12 * (YearOf(b) - YearOf(a)) + MonthOf(b) - MonthOf(a)

QuarterOf(day) == ((MonthOf(day) - 1) \div 3) + 1

\* A quarter is compared by its number in its own year.
date_diff_func(a, b, part, week_start) ==
    LET da == DayIn(a)
        db == DayIn(b)
    IN  CASE part = "year" -> YearOf(db) - YearOf(da)
          [] part = "quarter" -> QuarterOf(db) - QuarterOf(da)
          [] part = "month" -> month_diff(da, db)
          [] part = "week" -> weeks_diff(b - a, week_start)
          [] part = "day" -> boundary_diff(a, b, Coef.Day)
          [] OTHER -> boundary_diff(a, b, TickParts[part])

datediff(args, week_start) ==
    LET part == X(Of(args[1]))[2]
        time == TypeOf(args[2]) = "Time64"
        row(r) == IF \E k \in 1..2 : ~Some(r[k]) THEN Null("Int64")
                  ELSE Cell("Int64", date_diff_func(Ticks(r[1]), Ticks(r[2]), part, week_start))
    IN  IF datediff_coerce(<<TypeOf(args[2]), TypeOf(args[3])>>) = <<>>
        THEN Fail("TIME cannot be mixed")
        ELSE IF ~ScalarSome(args[1]) THEN Fail("invalid unit format")
        ELSE IF part \notin (DOMAIN MonthParts \cup DOMAIN DayParts \cup DOMAIN TickParts) \ {"nseconds"}
        THEN Fail("invalid part")
        ELSE IF time /\ part \notin DOMAIN TickParts THEN Fail("invalid component for time")
        ELSE LET n == NumberRows(Tail(args))
             IN  EachRow(row, [m \in 1..n |-> <<IntoArray(args[2], n)[m], IntoArray(args[3], n)[m]>>])

-----------------------------------------------------------------------------
(* The parts of a date, with the session's WEEK_START and                  *)
(* WEEK_OF_YEAR_POLICY                                                     *)

week_start_to_weekday(week_start) == IF week_start \in 1..7 THEN week_start - 1 ELSE 0

calculate_day_of_week(day, week_start) ==
    LET dow == (Weekday(day) - week_start_to_weekday(week_start) + 7) % 7
    IN  IF week_start = 0 /\ dow = 6 THEN 0 ELSE dow + 1

\* The first week of a year under the policy of four days.
FirstWeekStart(year, week_start) ==
    LET jan1 == Day(year, 1, 1)
        before == (week_start_to_weekday(week_start) - Weekday(jan1) + 7) % 7
    IN  jan1 + before + (IF before > 3 THEN 7 ELSE 0)

WeeksOf(day, year, week_start) == ((day - FirstWeekStart(year, week_start)) \div 7) + 1

calculate_week_policy_0(day, week_start) ==
    LET y == YearOf(day)
    IN  IF week_start \in {0, 1} THEN IsoWeek(day)
        ELSE IF day < FirstWeekStart(y, week_start)
             THEN WeeksOf(Day(y - 1, 12, 31), y - 1, week_start)
             ELSE WeeksOf(day, y, week_start)

\* Mutant: weeks start on the weekday of January 1.
WeekFromJan1_late(day, week_start) == ((day - Day(YearOf(day), 1, 1)) \div 7) + 1

WeekFromJan1(day, week_start) ==
    LET jan1 == Day(YearOf(day), 1, 1)
        back == (Weekday(jan1) - week_start_to_weekday(week_start) + 7) % 7
    IN  ((day - (jan1 - back)) \div 7) + 1

calculate_week_of_year(day, week_start, policy) ==
    CASE policy = 0 -> calculate_week_policy_0(day, week_start)
      [] policy = 1 -> WeekFromJan1(day, week_start)
      [] OTHER -> IsoWeek(day)

calculate_year_of_week(day, week_start, policy) ==
    LET y == YearOf(day)
    IN  CASE policy = 0 -> IF week_start \in {0, 1} THEN IsoYear(day)
                           ELSE IF day < FirstWeekStart(y, week_start) THEN y - 1 ELSE y
          [] policy = 1 -> y
          [] OTHER -> IsoYear(day)

PartOf(interval, t, week_start, policy) ==
    LET day == DayIn(t)
    IN  CASE interval = "year" -> YearOf(day)
          [] interval = "yearofweekiso" -> IsoYear(day)
          [] interval = "yearofweek" -> calculate_year_of_week(day, week_start, policy)
          [] interval \in {"day", "dayofmonth"} -> DayOf(day)
          [] interval = "dayofweek" -> calculate_day_of_week(day, week_start)
          [] interval = "dayofweekiso" -> Weekday(day) + 1
          [] interval = "dayofyear" -> day - YearStart(YearOf(day))
          [] interval \in {"week", "weekofyear"} -> calculate_week_of_year(day, week_start, policy)
          [] interval = "weekiso" -> IsoWeek(day)
          [] interval = "month" -> MonthOf(day)
          [] interval = "quarter" -> QuarterOf(day)
          [] interval = "hour" -> (t % Coef.Day) \div Coef.Hour
          [] interval = "minute" -> (t % Coef.Hour) \div Coef.Minute
          [] interval = "second" -> (t % Coef.Minute) \div Coef.Second

date_part_extract(interval, arg, week_start, policy) ==
    OneIsScalar(Nullable("Int64",
        LAMBDA c : Cell("Int64", PartOf(interval, Ticks(c), week_start, policy)), arg))

-----------------------------------------------------------------------------
(* DATE_FROM_PARTS, TIME_FROM_PARTS, TIMESTAMP_FROM_PARTS                  *)

\* Months are counted from January of the year: month 0 is the December before.
make_date(year, month, days) ==
    LET first == Day(year, 1, 1)
    IN  PlusMonths(first, month - 1) + days - 1

make_time(hour, minute, second, nano) ==
    Wrap64(Wrap64(hour * Coef.Hour) + Wrap64(minute * Coef.Minute)
           + Wrap64(second * Coef.Second) + nano)

\* value(i) reads the 0 under a NULL, and panics past the end of the one-row
\* array a scalar became.
PartsOf(args) ==
    LET row(m) == [k \in DOMAIN args |-> IF m \in DOMAIN args[k].vs THEN args[k].vs[m] ELSE Err("panic")]
    IN  [m \in 1..NumberRows(args) |->
            IF Panics(row(m)) THEN <<>> ELSE [k \in DOMAIN args |-> IF Some(row(m)[k]) THEN X(row(m)[k]) ELSE 0]]
FromParts(args, f(_)) ==
    OneIsScalar(EachRow(LAMBDA p : IF p = <<>> THEN Err("panic") ELSE f(p), PartsOf(args)))

date_from_parts(args) ==
    FromParts(args, LAMBDA p : Cell("Date32", make_date(p[1], p[2], p[3])))

time_from_parts(args) ==
    FromParts(args, LAMBDA p : Cell("Time64", make_time(p[1], p[2], p[3],
                                                        IF Len(p) > 3 THEN p[4] ELSE 0)))

\* A time zone is only parsed (1 when it is one): the instant is the one in UTC.
make_timestamp(p) ==
    LET nano == IF Len(p) > 6 THEN p[7] ELSE 0
    IN  IF Len(p) = 8 /\ p[8] = 0 THEN Err("time zone")
        ELSE Cell("Nanosecond", Wrap64((make_date(p[1], p[2], p[3]) * Coef.Day)
                                       + make_time(p[4], p[5], p[6], nano)))

timestamp_from_parts(args) ==
    IF Len(args) = 2
    THEN FromParts(args, LAMBDA p : Cell("Nanosecond", Wrap64(p[1] * Coef.Day + p[2])))
    ELSE IF Len(args) \in 6..8 THEN FromParts(args, make_timestamp)
    ELSE Fail("unsupported number of arguments")

-----------------------------------------------------------------------------
(* CONVERT_TIMEZONE.  A zone has one change of offset, at a UTC instant.   *)

OffsetAt(zone, utc) == IF utc < zone.at THEN zone.before ELSE zone.after
\* from_local_datetime: no instant in a gap, two in an overlap.
Instants(zone, local) ==
    {u \in {local - zone.before, local - zone.after} : u + OffsetAt(zone, u) = local}

\* Before 1970 the remainder of a fraction is negative and no timestamp.
convert_timezone(source, target, t) ==
    IF t < 0 /\ t % Coef.Second # 0 THEN Err("invalid timestamp")
    ELSE LET us == Instants(source, t)
         IN  IF Cardinality(us) # 1 THEN Err("invalid datetime")
             ELSE LET u == CHOOSE x \in us : TRUE
                  IN  Cell("Nanosecond", u + OffsetAt(target, u))

build_array(arg, source, target) ==
    IF TypeOf(arg) # "Nanosecond" THEN Fail("not nanoseconds")
    ELSE Nullable("Nanosecond", LAMBDA c : convert_timezone(source, target, X(c)), arg)

\* Two arguments: the instant of a timestamp with a zone is kept, one without
\* a zone is read in the session's zone.
convert_timezone_invoke(args, sessionZone, unzoned) ==
    IF \E k \in 1..(Len(args) - 1) : ~ScalarSome(args[k]) THEN Fail("invalid tz")
    ELSE IF Len(args) = 3 THEN build_array(args[3], X(Of(args[1])), X(Of(args[2])))
    ELSE IF unzoned THEN build_array(args[2], sessionZone, X(Of(args[1])))
    ELSE Column(args[2].vs)
=============================================================================

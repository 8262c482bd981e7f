---------------------------- MODULE TemporalCalls ----------------------------
(***************************************************************************)
(* Calls of the conversion functions and of the functions on dates, times  *)
(* and timestamps.                                                         *)
(***************************************************************************)
EXTENDS Calls

CONSTANTS
    NanosPer, DaySeconds, YearSeconds,
    MaxNanos,       \* the largest i64 as the conversions see it
    Coef, MaxI32,
    MaxTicks,       \* the largest i64 as the functions on dates see it
    ByteStrings,    \* binaries
    DecimalTexts,   \* texts given to TO_DECIMAL
    TimeTexts,      \* texts given to TO_TIME
    StampTexts,     \* texts given to TO_TIMESTAMP
    DateTexts,      \* [text |-> what chrono reads in it under each format]
    Dates,          \* days since 1970
    Zones           \* time zones

V == INSTANCE ConversionFunctions WITH MaxI64 <- MaxNanos
D == INSTANCE DatetimeFunctions WITH MaxI64 <- MaxTicks

Literals(ty, X) == {D!Scalar(D!Cell(ty, x)) : x \in X}
Rows2(ty, X) == {D!Column(<<D!Cell(ty, x), D!Cell(ty, y)>>) : x, y \in X}
                \cup {D!Column(<<D!Null(ty), D!Cell(ty, x)>>) : x \in X}
NullOf(ty) == D!Scalar(D!Null(ty))

-----------------------------------------------------------------------------
(* Conversions                                                             *)

ToBinary(args, tryMode) == V!to_binary(args, tryMode)
ToDate(args, tryMode) == V!to_date(args, tryMode)
ToVarchar(args, tryMode) ==
    V!convert_to_varchar(args, IF Len(args) = 1 THEN "none" ELSE D!X(D!Of(args[2])), tryMode)

AskConversion(f, args, tryMode, r) == Invoke(f, Append(args, D!Scalar(D!Cell("Try", tryMode))), r)

BinaryFormats == Literals("Utf8", {"hex", "base64", "utf-8", "other"})
Small == Literals("Int64", 0..3)
Scales == Literals("Int64", 0..2)
Formats == Literals("Utf8", {<<36, 57, 44, 57>>})
Stamps == -20..20
TimeStamps == UNION {Literals(u, Stamps) : u \in DOMAIN NanosPer}

\* TO_DECIMAL's arguments after the first.
DecimalTails == {<<>>} \cup {<<p>> : p \in Small} \cup {<<g>> : g \in Formats}
                \cup {<<p, s>> : p \in Small, s \in Scales}
                \cup {<<g, p, s>> : g \in Formats \cup {NullOf("Utf8")}, p \in Small, s \in Scales}
\* Those of TO_BINARY and TO_VARCHAR.
FormatTails == {<<>>} \cup {<<g>> : g \in BinaryFormats}

CallConversion ==
    /\ Idle
    /\ \E try \in BOOLEAN :
       \/ \E w \in Literals("Utf8", {"yes", "off", "maybe"}) \cup Rows2("Utf8", {"yes", "off", "maybe"})
                   \cup Literals("Int64", {0, 2}) \cup Literals("Boolean", BOOLEAN) :
             AskConversion("TO_BOOLEAN", <<w>>, try, V!to_boolean(w, try))
       \/ \E t \in Literals("Utf8", DecimalTexts) \cup Rows2("Utf8", DecimalTexts) \cup Literals("Int64", {1250, -55}),
             tail \in DecimalTails : AskConversion("TO_DECIMAL", <<t>> \o tail, try, V!to_decimal(<<t>> \o tail, try))
       \/ \E b \in Literals("Utf8", ByteStrings) \cup Rows2("Utf8", ByteStrings), tail \in FormatTails :
             AskConversion("TO_BINARY", <<b>> \o tail, try, ToBinary(<<b>> \o tail, try))
       \/ \E b \in Literals("Binary", ByteStrings), tail \in FormatTails :
             AskConversion("TO_VARCHAR", <<b>> \o tail, try, ToVarchar(<<b>> \o tail, try))
       \/ \E t \in TimeStamps \cup Literals("Time64", 0..20) : AskConversion("TO_VARCHAR", <<t>>, try, ToVarchar(<<t>>, try))
       \/ \E t \in Literals("Utf8", DOMAIN DateTexts) \cup Rows2("Utf8", DOMAIN DateTexts),
             tail \in {<<>>} \cup {<<g>> : g \in Literals("Utf8", {"%y", "auto"})} :
             AskConversion("TO_DATE", <<t>> \o tail, try, ToDate(<<t>> \o tail, try))
       \/ \E t \in TimeStamps : AskConversion("TO_DATE", <<t>>, try, ToDate(<<t>>, try))
       \/ \E t \in Literals("Utf8", TimeTexts) \cup Rows2("Utf8", TimeTexts),
             tail \in {<<>>, <<D!Scalar(D!Cell("Utf8", "format"))>>} :
             AskConversion("TO_TIME", <<t>> \o tail, try, V!to_time(<<t>> \o tail, try))
       \/ \E t \in TimeStamps : AskConversion("TO_TIME", <<t>>, try, V!to_time(<<t>>, try))

\* TO_TIMESTAMP of texts, read with the automatic format or a given one, in
\* the session's time zone or none; of numbers with a scale; of timestamps
\* with a time zone and without.
StampTails == {<<>>} \cup {<<s>> : s \in Literals("Int64", {0, 3, 4, 6, 9})}
StampArgs == {<<t>> : t \in Literals("Utf8", StampTexts) \cup Rows2("Utf8", StampTexts) \cup TimeStamps
                            \cup Literals("Date32", Stamps) \cup UNION {Literals(u, Stamps) : u \in DOMAIN V!ZonedUnits}}
             \cup {<<t>> \o tail : t \in Literals("Int64", Stamps) \cup Literals("Decimal128", Stamps),
                                   tail \in StampTails}
             \cup {<<t, D!Scalar(D!Cell("Utf8", "format"))>> : t \in Literals("ZonedSecond", {0, 9})}
CallTimestamp ==
    /\ Idle
    /\ \E try, auto, zone \in BOOLEAN, args \in StampArgs :
          Invoke("TO_TIMESTAMP", <<args, auto, zone, try>>, V!to_timestamp(args, auto, zone, try, 10))

-----------------------------------------------------------------------------
(* Dates and times                                                         *)

Instants == {d * Coef.Day + k : d \in Dates, k \in {0, Coef.Day - 3}}
DateArgs == Literals("Date32", Dates) \cup Literals("Nanosecond", Instants)
DateRows == {D!Column(<<D!Cell("Date32", d), D!Null("Date32")>>) : d \in Dates}
Parts == {"year", "quarter", "month", "week", "day", "hour", "minute", "second", "nanosecond"}
PartArgs == {D!Scalar(D!Cell("Utf8", D!Spelt(p))) : p \in Parts \cup {"fortnight"}}
            \cup {D!Scalar(D!Cell("Utf8", D!Upper("day")))}
Amounts == Literals("Int64", {-13, -1, 0, 1, 13, 100}) \cup {NullOf("Int64")} \cup Literals("Float64", {-3, 3})
MonthCounts == Literals("Int64", {-13, -1, 0, 1, 13, MaxI32 + 10}) \cup {NullOf("Int64")}
DayNames == Literals("Utf8", {"mo", "th", "su", "xx"})
WeekStarts == 0..7
Extracted == {"year", "yearofweekiso", "yearofweek", "day", "dayofweek", "dayofweekiso", "dayofyear", "week",
              "weekiso", "month", "quarter", "hour", "minute", "second"}

CallDate ==
    /\ Idle
    /\ \/ \E t \in DateArgs \cup DateRows \cup Literals("Date32", {(MaxTicks \div Coef.Day) - 40}), n \in MonthCounts : Invoke("ADD_MONTHS", <<t, n>>, D!add_months(<<t, n>>))
       \/ \E t \in DateArgs \cup DateRows, p \in PartArgs, ws \in WeekStarts :
             Invoke("LAST_DAY", <<t, p, ws>>, D!last_day(<<t, p>>, ws))
       \/ \E t \in DateArgs \cup DateRows, w \in DayNames : Invoke("NEXT_DAY", <<t, w>>, D!next_day(<<t, w>>))
       \/ \E t \in DateArgs \cup DateRows, w \in DayNames : Invoke("PREVIOUS_DAY", <<t, w>>, D!previous_day(<<t, w>>))
       \/ \E t \in DateArgs \cup DateRows : Invoke("DAYNAME", <<t>>, D!dayname(t))
       \/ \E t \in DateArgs \cup DateRows : Invoke("MONTHNAME", <<t>>, D!monthname(t))
       \/ \E t \in DateArgs \cup DateRows \cup Literals("Time64", {0, 5}), p \in PartArgs, n \in Amounts :
             Invoke("DATEADD", <<p, n, t>>, D!dateadd(<<p, n, t>>))
       \/ \E t, u \in DateArgs \cup DateRows \cup Literals("Time64", {0, 40}), p \in PartArgs, ws \in {0, 1, 7} :
             Invoke("DATEDIFF", <<p, t, u, ws>>, D!datediff(<<p, t, u>>, ws))
       \/ \E i \in Extracted, t \in DateArgs \cup DateRows, ws \in WeekStarts, policy \in 0..2 :
             Invoke("DATE_PART", <<i, t, ws, policy>>, D!date_part_extract(i, t, ws, policy))

Years == Literals("Int64", {1999, 2000})
CallFromParts ==
    /\ Idle
    /\ \/ \E y \in Years \cup Rows2("Int64", {1999, 2000}), m \in Literals("Int64", {-1, 0, 1, 2, 12, 13}),
             d \in Literals("Int64", {0, 1, 29, 31}) \cup {NullOf("Int64")} :
             Invoke("DATE_FROM_PARTS", <<y, m, d>>, D!date_from_parts(<<y, m, d>>))
       \/ \E h \in Literals("Int64", {0, 1, 3}) \cup Rows2("Int64", {0, 1}), m, s, n \in Literals("Int64", {0, 1, 3}) :
             Invoke("TIME_FROM_PARTS", <<h, m, s, n>>, D!time_from_parts(<<h, m, s, n>>))
       \/ \E d \in Literals("Date32", Dates) \cup DateRows, t \in Literals("Time64", {0, 5}) \cup Rows2("Time64", {0, 5}) :
             Invoke("TIMESTAMP_FROM_PARTS", <<d, t>>, D!timestamp_from_parts(<<d, t>>))
       \/ \E y \in Years, m, h \in Literals("Int64", {1, 2}), zone \in Literals("Zone", {0, 1}) :
             LET args == <<y, m, m, h, h, h, h, zone>>
             IN  Invoke("TIMESTAMP_FROM_PARTS", args, D!timestamp_from_parts(args))

CallTimezone ==
    /\ Idle
    /\ \E from, to \in Zones, t \in -20..40 :
          LET args == <<D!Scalar(D!Cell("Zone", from)), D!Scalar(D!Cell("Zone", to)), D!Scalar(D!Cell("Nanosecond", t))>>
          IN  \/ Invoke("CONVERT_TIMEZONE", args, D!convert_timezone_invoke(args, from, TRUE))
              \/ \E unzoned \in BOOLEAN :
                    Invoke("CONVERT_TIMEZONE", Tail(args), D!convert_timezone_invoke(Tail(args), from, unzoned))

-----------------------------------------------------------------------------
(* Properties                                                              *)

Plain == {"TO_BOOLEAN", "TO_DECIMAL", "TO_BINARY", "TO_DATE", "TO_TIME"}

Convert(f, args, tryMode) ==
    CASE f = "TO_BOOLEAN" -> V!to_boolean(args[1], tryMode)
      [] f = "TO_DECIMAL" -> V!to_decimal(args, tryMode)
      [] f = "TO_BINARY" -> ToBinary(args, tryMode)
      [] f = "TO_DATE" -> ToDate(args, tryMode)
      [] f = "TO_TIME" -> V!to_time(args, tryMode)

Went == ~Idle /\ ~D!Failed(answer)
One(r) == D!X(r.vs[1])
Lit(ty, x) == D!Scalar(D!Cell(ty, x))
DayArg(d) == Lit("Date32", d)

FromParts == {"DATE_FROM_PARTS", "TIME_FROM_PARTS", "TIMESTAMP_FROM_PARTS"}
FromPartsOf(f, args) ==
    CASE f = "DATE_FROM_PARTS" -> D!date_from_parts(args)
      [] f = "TIME_FROM_PARTS" -> D!time_from_parts(args)
      [] f = "TIMESTAMP_FROM_PARTS" -> D!timestamp_from_parts(args)

\* DATEADD and ADD_MONTHS take their literals for every row of a column.  The
\* functions that make a date or a time of its parts may panic past the only
\* row of a literal, but give no row another's answer.
DateRowsStandAlone ==
    /\ call.f = "DATEADD" /\ Arg(3).col => D!EveryRowAlone(D!dateadd, call.args, answer)
    /\ call.f = "ADD_MONTHS" /\ Arg(1).col => D!EveryRowAlone(D!add_months, call.args, answer)
    /\ call.f \in FromParts /\ (\E k \in DOMAIN call.args : Arg(k).col) =>
          D!NoRowOfAnother(LAMBDA args : FromPartsOf(call.f, args), call.args, answer)

\* The TRY_ form of a conversion answers each row as the plain form answers it
\* alone, and NULL where the plain form fails; the plain form never turns a
\* value it cannot convert into NULL (TO_DATE of a number of seconds no date
\* is is the exception).
TryIsPlainOrNull ==
    call.f \in Plain /\ Went /\ D!X(D!Of(Arg(Len(call.args)))) =>
        LET args == SubSeq(call.args, 1, Len(call.args) - 1)
            alone(m) == Convert(call.f, [args EXCEPT ![1] = D!Scalar(args[1].vs[m])], FALSE)
        IN  \A m \in DOMAIN args[1].vs :
               IF D!Failed(alone(m)) THEN ~D!Some(answer.vs[m])
               ELSE /\ answer.vs[m] = alone(m).vs[1]
                    /\ D!Some(args[1].vs[m]) /\ call.f # "TO_DATE" => D!Some(answer.vs[m])

\* TO_BINARY gives back the binary that TO_VARCHAR rendered under the same
\* format, and under no format given to either.
BinaryTextRoundTrip ==
    call.f = "TO_VARCHAR" /\ Went /\ D!TypeOf(Arg(1)) = "Binary" /\ D!Some(answer.vs[1]) =>
        LET back == ToBinary(<<D!Scalar(answer.vs[1])>> \o SubSeq(call.args, 2, Len(call.args) - 1), FALSE)
        IN  back.vs[1] = D!Of(Arg(1))

\* TO_TIME answers a time of the day, of numbers and timestamps before 1970
\* and of numbers whose nanoseconds overflow too.
TimeIsWithinTheDay ==
    call.f = "TO_TIME" /\ Went =>
        \A m \in DOMAIN answer.vs : D!Some(answer.vs[m]) => D!X(answer.vs[m]) \in 0..(V!DayNanos - 1)

\* TO_DECIMAL answers the multiple of 10^-s nearest to the number, of fewer
\* than p digits, under a scale smaller than the precision.
DecimalIsNearestOfItsType ==
    call.f = "TO_DECIMAL" /\ Went /\ D!TypeOf(Arg(1)) = "Int64" /\ D!Some(answer.vs[1]) =>
        LET ty == V!to_decimal_type(SubSeq(call.args, 1, Len(call.args) - 1))
            off == 2 * ((One(answer) * 10^(2 - ty[2])) - One(Arg(1)))
        IN  /\ ty[2] < ty[1]
            /\ ty[1] < 9 => One(answer) \in (-(10^ty[1]) + 1)..(10^ty[1] - 1)
            /\ off \in -(10^(2 - ty[2]))..10^(2 - ty[2])

\* TRY_TO_TIMESTAMP answers each row as TO_TIMESTAMP answers it alone, and
\* NULL where that fails.  Two exceptions: in a gap of the session's clocks it
\* answers 0, the epoch (to_timestamp.rs:557), and a text beyond the
\* nanoseconds of i64, which TO_TIMESTAMP reads in microseconds, is NULL.
TryStampIsPlainOrNull ==
    call.f = "TO_TIMESTAMP" /\ Went /\ Arg(4) =>
        LET args == Arg(1)
            alone(m) == V!to_timestamp([args EXCEPT ![1] = D!Scalar(args[1].vs[m])], Arg(2), Arg(3), FALSE, 10)
            text == D!TypeOf(args[1]) = "Utf8"
        IN  \A m \in DOMAIN args[1].vs :
               IF D!Failed(alone(m))
               THEN answer.vs[m].held = IF alone(m).vs[1].ty = "cannot add local timezone" THEN <<0>> ELSE <<>>
               ELSE answer.vs[m].held = IF text /\ alone(m).vs[1].ty = "Microsecond" THEN <<>>
                                        ELSE alone(m).vs[1].held

\* The session's time zone is applied once: a text read in it is the text
\* read without a time zone and then moved there, and a timestamp that has a
\* time zone already is the same instant (numbers written in digits are
\* instants and are not moved).
ZoneIsAppliedOnce ==
    call.f = "TO_TIMESTAMP" /\ Arg(2) /\ Arg(3) /\ ~Arg(4) =>
        LET arg == Arg(1)[1]
            plain == V!to_timestamp(Arg(1), TRUE, FALSE, FALSE, 10)
            moved == V!to_timestamp(<<plain>>, TRUE, TRUE, FALSE, 10)
        IN  /\ D!TypeOf(arg) = "Utf8" /\ ~arg.col /\ D!X(D!Of(arg)).digits = <<>> /\ ~D!Failed(plain)
                 /\ D!TypeOf(plain) = "Nanosecond" =>
                  IF D!Failed(moved) THEN D!Failed(answer) ELSE answer = moved
            /\ D!TypeOf(arg) \in DOMAIN V!ZonedUnits => answer = plain

\* A column of texts whose first is within the nanoseconds of i64 keeps the
\* instant of every row: the unit taken from the first row suits the others,
\* or the call fails.  A column whose first text is beyond them does not: the
\* builder is then of microseconds, and Arrow's parser gives it nanoseconds
\* for the rows within them (to_timestamp.rs:396, 521), against the comment
\* that the builder is chosen to suit the values (394-395).
ColumnKeepsInstants ==
    call.f = "TO_TIMESTAMP" /\ Went /\ D!TypeOf(Arg(1)[1]) = "Utf8" /\ Arg(2) /\ ~Arg(3) /\ ~Arg(4) =>
        LET texts == Arg(1)[1].vs
            within(us) == us # <<>> /\ V!InNanos(us[1])
        IN  D!Some(texts[1]) /\ within(D!X(texts[1]).iso) =>
               \A m \in DOMAIN texts :
                  LET t == D!X(texts[m])
                  IN  D!Some(texts[m]) /\ t.digits = <<>> =>
                        D!X(answer.vs[m]) * NanosPer[answer.vs[m].ty]
                            = (IF within(t.iso) THEN t.iso[1] ELSE t.pattern[1]) * V!Micros

\* A call of TO_TIMESTAMP on a literal answers in the unit that
\* return_field_from_args told the planner (texts and zoned timestamps beside a
\* format, and columns of texts, take a unit the planner does not know).
PlannedUnitIsKept ==
    call.f = "TO_TIMESTAMP" /\ Went /\ ~Arg(1)[1].col /\ (D!TypeOf(Arg(1)[1]) \in {"Utf8"} \cup DOMAIN V!ZonedUnits => Len(Arg(1)) = 1) =>
        \A m \in DOMAIN answer.vs : answer.vs[m].ty = V!to_timestamp_field(Arg(1), Arg(4))

\* CONVERT_TIMEZONE to a zone and back is the identity, or fails because the
\* clocks of that zone show the time twice.
ConvertThereAndBack ==
    call.f = "CONVERT_TIMEZONE" /\ Went /\ Len(call.args) = 3 =>
        LET back == D!convert_timezone(One(Arg(2)), One(Arg(1)), One(answer))
        IN  back.err \/ D!X(back) = One(Arg(3))

\* DATEDIFF counts the boundaries between two dates, so the counts from one
\* date to a second and on to a third add up (weeks are counted otherwise).
DiffsAddUp ==
    call.f = "DATEDIFF" /\ Went /\ D!TypeOf(Arg(2)) = "Nanosecond" /\ D!TypeOf(Arg(3)) = "Nanosecond"
         /\ One(Arg(1))[2] # "week" =>
        \A t \in Instants :
            One(D!datediff(<<Arg(1), Arg(2), Lit("Nanosecond", t)>>, 0))
                + One(D!datediff(<<Arg(1), Lit("Nanosecond", t), Arg(3)>>, 0)) = One(answer)

\* DATEDIFF of a date and DATEADD of it is the amount added, of every part but
\* the quarter, of weeks forward only, and while the months or days of the
\* amount fit an i32 (a larger one adds nothing, or wraps when it is of years).
DiffUndoesAdd ==
    call.f = "DATEADD" /\ Went /\ ~Arg(3).col /\ D!Some(D!Of(Arg(2))) /\ D!TypeOf(Arg(2)) = "Int64"
         /\ One(Arg(1))[2] # "quarter" =>
        LET n == One(Arg(2))
            part == One(Arg(1))[2]
            fits == part \in DOMAIN D!TickParts
                    \/ n * (CASE part = "week" -> 7 [] part = "year" -> 12 [] OTHER -> 1) \in D!I32
        IN  (part = "week" => n >= 0) /\ fits =>
               One(D!datediff(<<Arg(1), Arg(3), D!Scalar(answer.vs[1])>>, 1)) = n

\* ADD_MONTHS keeps the last day of a month the last day, and moves any date
\* by that many months (by what is left of them in an i32, add_months.rs:105).
AddMonthsKeepsMonthEnd ==
    call.f = "ADD_MONTHS" /\ Went /\ D!TypeOf(Arg(1)) = "Date32" /\ ~Arg(1).col =>
        LET isLast(d) == One(D!last_day(<<DayArg(d)>>, 0)) = d
        IN  /\ isLast(One(Arg(1))) => isLast(One(answer))
            /\ One(Arg(2)) \in D!I32 => D!month_diff(One(Arg(1)), One(answer)) = One(Arg(2))

\* The day LAST_DAY ends a week on is the one DAYOFWEEK numbers 7, or 0 when
\* WEEK_START is 0, and it is within the week of the date.
LastDayEndsTheWeek ==
    call.f = "LAST_DAY" /\ Went /\ One(Arg(2))[2] = "week" /\ ~Arg(1).col /\ D!TypeOf(Arg(1)) = "Date32" =>
        LET last == One(answer)
        IN  /\ last - One(Arg(1)) \in 0..6
            /\ One(D!date_part_extract("dayofweek", DayArg(last), Arg(3), 0)) = IF Arg(3) = 0 THEN 0 ELSE 7

\* NEXT_DAY and PREVIOUS_DAY are strictly on either side of the date, one week
\* apart, or two when the date is itself that weekday.
NextAndPreviousBracket ==
    call.f = "PREVIOUS_DAY" /\ Went /\ ~Arg(1).col /\ D!TypeOf(Arg(1)) = "Date32" =>
        LET d == One(Arg(1))
            prev == One(answer)
            next == D!DayIn(One(D!next_day(call.args)))
        IN  /\ prev < d /\ d < next
            /\ next - prev = IF (d - prev) % 7 = 0 THEN 14 ELSE 7

\* Under policy 1 the number of the week changes on the first day of a week
\* and on January 1, and on no other day.
WeekChangesOnWeekStart ==
    call.f = "DATE_PART" /\ Went /\ Arg(1) = "week" /\ Arg(4) = 1 /\ ~Arg(2).col /\ D!TypeOf(Arg(2)) = "Date32" =>
        LET next == DayArg(One(Arg(2)) + 1)
            part(i) == One(D!date_part_extract(i, next, Arg(3), 1))
        IN  part("week") = IF part("month") = 1 /\ part("day") = 1 THEN 1
                           ELSE One(answer) + (IF part("dayofweek") = 1 THEN 1 ELSE 0)

\* DATE_FROM_PARTS takes the parts of a date back to the date, and a month
\* beyond the year's into the year it belongs to.
PartsMakeTheDate ==
    call.f = "DATE_PART" /\ Went /\ Arg(1) = "year" /\ ~Arg(2).col /\ D!TypeOf(Arg(2)) = "Date32" =>
        LET part(i) == One(D!date_part_extract(i, Arg(2), 0, 0))
            from(y, m) == One(D!date_from_parts(<<Lit("Int64", y), Lit("Int64", m), Lit("Int64", part("day"))>>))
        IN  \A k \in -1..1 : from(part("year") + k, part("month") - 12 * k) = One(Arg(2))

\* The laws of the conversions: a value that is converted is still that value,
\* within its type, or the call fails (NULL for the TRY_ forms), but for the
\* cases that TryStampIsPlainOrNull and ColumnKeepsInstants name.
ConversionsKeepTheValue ==
    /\ TryIsPlainOrNull /\ TryStampIsPlainOrNull /\ ZoneIsAppliedOnce /\ BinaryTextRoundTrip /\ TimeIsWithinTheDay
    /\ DecimalIsNearestOfItsType /\ ColumnKeepsInstants /\ PlannedUnitIsKept
    /\ ConvertThereAndBack

\* The laws of the calendar: adding, subtracting, numbering and composing
\* dates are done in eight files and follow one calendar.
CalendarFunctionsAgree ==
    /\ DiffsAddUp /\ DiffUndoesAdd /\ AddMonthsKeepsMonthEnd /\ LastDayEndsTheWeek
    /\ NextAndPreviousBracket /\ WeekChangesOnWeekStart /\ PartsMakeTheDate
=============================================================================

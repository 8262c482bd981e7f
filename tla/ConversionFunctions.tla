------------------------ MODULE ConversionFunctions ------------------------
(***************************************************************************)
(* crates/functions/src/conversion: TO_BOOLEAN, TO_DECIMAL, TO_BINARY,     *)
(* TO_DATE, TO_TIME, TO_TIMESTAMP, TO_VARCHAR and their TRY_ forms         *)
(* (tryMode).  Units of time are constants, so that the limits of i64 are  *)
(* within reach.  What chrono reads from a text under a format is given by *)
(* the text itself; a decimal number is counted in hundredths.             *)
(***************************************************************************)
EXTENDS StringFunctions, Calendar

CONSTANTS
    NanosPer,    \* [Second, Millisecond, Microsecond, Nanosecond |-> nanos]
    DaySeconds,  \* seconds in a day
    YearSeconds, \* seconds in a year
    MaxI64,      \* the largest i64
    DateTexts    \* [text |-> what chrono reads in it under each format]

NumberTypes == {"Int64", "Float64", "Decimal128"}

\* What a row that cannot be converted answers.
NullOr(tryMode, ty, e) == IF tryMode THEN Null(ty) ELSE Err(e)

\* Libraries: base64 is a mark in front of the bytes, a rendered value the value.
Encode64(bytes) == <<64>> \o bytes
Decode64(text) == IF text # <<>> /\ text[1] = 64 THEN <<Tail(text)>> ELSE <<>>
Render(x) == <<x>>

Rowwise(ty, f(_), arg) ==
    EachRow(LAMBDA c : IF Some(c) THEN f(X(c)) ELSE Null(ty), arg.vs)

-----------------------------------------------------------------------------
(* TO_BOOLEAN: words are plain strings here                                *)

TrueWords == {"true", "t", "yes", "y", "on", "1"}
FalseWords == {"false", "f", "no", "n", "off", "0"}

to_boolean(arg, tryMode) ==
    CASE TypeOf(arg) \in StringTypes ->
           Rowwise("Boolean",
                   LAMBDA w : CASE w \in TrueWords -> Cell("Boolean", TRUE)
                                [] w \in FalseWords -> Cell("Boolean", FALSE)
                                [] OTHER -> NullOr(tryMode, "Boolean", "invalid boolean"), arg)
      [] TypeOf(arg) \in NumberTypes ->
           Rowwise("Boolean", LAMBDA x : Cell("Boolean", x # 0), arg)
      [] TypeOf(arg) = "Boolean" -> Column(arg.vs)
      [] OTHER -> Fail("unsupported type")

-----------------------------------------------------------------------------
(* TO_DECIMAL                                                              *)

Dollar == 36
Comma == 44
Point == 46
Minus == 45

NumberOf(ds) == FoldLeft(LAMBDA n, d : 10 * n + d - 48, 0, ds)

\* The hundredths a text of a number stands for, <<>> for any other text.
Hundredths(s) ==
    LET neg == s # <<>> /\ s[1] = Minus
        body == IF neg THEN Tail(s) ELSE s
        dot == SelectInSeq(body, LAMBDA c : c = Point)
        whole == IF dot = 0 THEN body ELSE SubSeq(body, 1, dot - 1)
        frac == IF dot = 0 THEN <<>> ELSE SubSeq(body, dot + 1, Len(body))
        h == 100 * NumberOf(whole) + NumberOf(SubSeq(frac \o <<48, 48>>, 1, 2))
    IN  IF whole # <<>> /\ Len(frac) <= 2 /\ \A c \in Range(whole \o frac) : c \in 48..57
        THEN <<IF neg THEN -h ELSE h>> ELSE <<>>

\* Arrow's cast of h hundredths to Decimal128(p, s), s <= 2: rounded half
\* away from zero, an error when it needs more than p digits.
CastDecimal(h, p, s, tryMode) ==
    LET unit == 10^(2 - s)
        size == IF h < 0 THEN -h ELSE h
        m == (2 * size + unit) \div (2 * unit)
    IN  IF p < 9 /\ m >= 10^p THEN NullOr(tryMode, "Decimal128", "decimal overflow")
        ELSE Cell("Decimal128", IF h < 0 THEN -m ELSE m)

get_precision_checked(c) ==
    IF c.ty \in {"Int64", "Decimal128"} /\ Some(c) /\ X(c) \in 1..38 THEN <<X(c)>> ELSE <<>>
get_scale_checked(c, p) ==
    IF c.ty \in {"Int64", "Decimal128"} /\ Some(c) /\ X(c) \in 0..(p - 1) THEN <<X(c)>> ELSE <<>>

\* return_field_from_args: (p, s), or <<>> when an argument is refused.
to_decimal_type(args) ==
    LET text == Len(args) > 1 /\ ~args[2].col /\ TypeOf(args[2]) \in StringTypes
        rest == IF text THEN SubSeq(args, 3, Len(args)) ELSE SubSeq(args, 2, Len(args))
        used == IF Len(args) = 4 THEN SubSeq(args, 3, 4) ELSE rest
        p == IF used = <<>> THEN <<38>> ELSE get_precision_checked(Of(used[1]))
        s == IF Len(used) < 2 \/ p = <<>> THEN <<0>> ELSE get_scale_checked(Of(used[2]), p[1])
    IN  IF (\E n \in DOMAIN used : used[n].col) \/ p = <<>> \/ s = <<>> THEN <<>>
        ELSE <<p[1], s[1]>>

\* extract_format_arg: with four arguments the second must be a text.
FormatRefused(args) ==
    Len(args) > 1 /\ (args[2].col \/ ~Some(Of(args[2]))
                      \/ TypeOf(args[2]) \notin StringTypes \union NumberTypes
                      \/ (TypeOf(args[2]) \in NumberTypes /\ Len(args) > 3))

Without(s, c) == SelectSeq(s, LAMBDA x : x # c)

apply_formatting_if_needed(s, format) ==
    LET tight == Without(s, Space)
        bare == IF format # <<>> /\ format[1] = Dollar /\ tight # <<>> /\ tight[1] = Dollar
                THEN Tail(tight) ELSE tight
    IN  IF Comma \in Range(format) THEN Without(bare, Comma) ELSE bare

to_decimal(args, tryMode) ==
    LET ps == to_decimal_type(args)
        text(s) == LET h == Hundredths(IF Len(args) > 1 /\ TypeOf(args[2]) \in StringTypes
                                       THEN apply_formatting_if_needed(s, X(Of(args[2]))) ELSE s)
                   IN  IF h = <<>> THEN NullOr(tryMode, "Decimal128", "not a decimal")
                       ELSE CastDecimal(h[1], ps[1], ps[2], tryMode)
        number(n) == CastDecimal(n, ps[1], ps[2], tryMode)
        bool(b) == CastDecimal(IF b THEN 100 ELSE 0, ps[1], ps[2], tryMode)
        ty == TypeOf(args[1])
    IN  CASE ps = <<>> \/ FormatRefused(args) -> Fail("argument refused")
          [] ty \in StringTypes -> Rowwise("Decimal128", text, args[1])
          [] ty \in NumberTypes -> Rowwise("Decimal128", number, args[1])
          [] ty = "Boolean" -> Rowwise("Decimal128", bool, args[1])
          [] ty = "Null" \/ tryMode -> Column([n \in DOMAIN args[1].vs |-> Null("Decimal128")])
          [] OTHER -> Fail("unsupported type")

-----------------------------------------------------------------------------
(* TO_BINARY and TO_VARCHAR of binaries: formats are plain strings         *)

QuoteChar == 34
strip_surrounding_quotes(s) ==
    IF Len(s) >= 2 /\ s[1] = QuoteChar /\ Last(s) = QuoteChar THEN SubSeq(s, 2, Len(s) - 1) ELSE s

\* b64 is what the text stands for in base64.
convert_string_to_binary(s, format, tryMode, b64) ==
    LET hex == HexDecode(Without(strip_surrounding_quotes(s), Space))
        decoded == IF format = "hex" THEN hex ELSE b64
    IN  CASE format \in {"hex", "base64"} ->
               IF decoded = <<>> THEN NullOr(tryMode, "Binary", "cannot decode")
               ELSE Cell("Binary", decoded[1])
          [] format \in {"utf-8", "utf8"} -> Cell("Binary", Utf8Bytes(s))
          [] OTHER -> NullOr(tryMode, "Binary", "unsupported format")

to_binary(args, tryMode) ==
    LET format == IF Len(args) = 1 THEN "hex" ELSE X(Of(args[2]))
        text(s) == convert_string_to_binary(s, format, tryMode, Decode64(strip_surrounding_quotes(s)))
    IN  CASE Len(args) > 1 /\ args[2].col /\ (Len(args[2].vs) # 1 \/ ~Some(Of(args[2]))) ->
               Fail("format must be a non-null scalar")
          [] TypeOf(args[1]) \in StringTypes -> Rowwise("Binary", text, args[1])
          [] TypeOf(args[1]) \in BinaryTypes -> Column(args[1].vs)
          [] OTHER -> Fail("unsupported type")

\* Without a format Arrow's rendering is used, lower case hexadecimal.
convert_binary_to_string(bytes, format, tryMode, b64) ==
    LET chars == FromUtf8(bytes)
    IN  CASE format = "none" -> Cell("Utf8", HexText(bytes, FALSE))
          [] format \in {"utf-8", "utf8"} ->
               IF chars = <<>> THEN NullOr(tryMode, "Utf8", "invalid UTF-8")
               ELSE Cell("Utf8", chars[1])
          [] format = "hex" -> Cell("Utf8", HexText(bytes, TRUE))
          [] format = "base64" -> Cell("Utf8", b64)
          [] OTHER -> NullOr(tryMode, "Utf8", "unsupported format")

-----------------------------------------------------------------------------
(* TO_DATE.  Chrono(text, format) is <<[y, m, d]>> or <<>>; DayOfDigits is  *)
(* the day of a text that is a number of seconds, <<>> for other texts.    *)

LetterT == 84

\* The index is found in the trimmed text and used on the text.
format_date_str(s) ==
    LET t == SelectInSeq(Trimmed(s), LAMBDA c : c = LetterT)
        cut == IF t # 0 THEN t ELSE SelectInSeq(s, LAMBDA c : c = Space)
    IN  IF cut = 0 THEN s ELSE SubSeq(s, 1, cut - 1)

\* 20 digits and more are nanoseconds, 11 to 19 milli- or microseconds.
TruncatedDigits(s) ==
    LET n == Len(s)
    IN  SubSeq(s, 1, CASE n > 19 -> 11 + (n - 20) [] n > 10 -> 8 + ((n - 11) % 3) [] OTHER -> n)

\* The chrono library: what it reads in a text.
Chrono(text, format) == IF text \in DOMAIN DateTexts /\ format \in DOMAIN DateTexts[text]
                        THEN <<DateTexts[text][format]>> ELSE <<>>
\* A number of seconds: one too large for chrono has no day.
DayOfDigits(text) == IF text # <<>> /\ \A n \in DOMAIN text : text[n] \in 48..57
                     THEN <<IF Len(text) > 9 THEN <<>> ELSE <<NumberOf(text) \div DaySeconds>>>> ELSE <<>>
DayOfDate(d) == Day(d.y, d.m, d.d)
WithYear(d, year) == IF d.d <= MonthDays(year, d.m) THEN <<Day(year, d.m, d.d)>> ELSE <<>>

AutoFormats == <<"%Y-%m-%d", "%d-%B-%Y", "%m/%d/%Y">>

\* The formats are tried in order, then a number of seconds.
to_date_auto(s, tryMode) ==
    LET cut == format_date_str(s)
        hit == SelectInSeq(AutoFormats, LAMBDA f : Chrono(cut, f) # <<>>)
        seconds == DayOfDigits(TruncatedDigits(cut))
    IN  IF hit # 0 THEN Cell("Date32", DayOfDate(Chrono(cut, AutoFormats[hit])[1]))
        ELSE IF seconds # <<>> THEN Option("Date32", seconds[1])
        ELSE NullOr(tryMode, "Date32", "unsupported value format")

\* Years of two digits are of this century or the last, NULL where the date is
\* none of that year; the other years before 1970 fail.
to_date_format(s, format, tryMode) ==
    LET d == Chrono(s, format)
    IN  IF d = <<>> THEN NullOr(tryMode, "Date32", "unsupported value format")
        ELSE IF d[1].y < 70 THEN Option("Date32", WithYear(d[1], d[1].y + 2000))
        ELSE IF d[1].y < 100 THEN Option("Date32", WithYear(d[1], d[1].y + 1900))
        ELSE IF d[1].y < 1970 THEN NullOr(tryMode, "Date32", "unsupported value format")
        ELSE Cell("Date32", DayOfDate(d[1]))

\* A timestamp is cast to its day.  An "auto" format is no format.
to_date(args, tryMode) ==
    LET ty == TypeOf(args[1])
        auto(s) == to_date_auto(s, tryMode)
        given(s) == to_date_format(s, X(Of(args[2])), tryMode)
        cast(v) == Cell("Date32", (v * NanosPer[ty]) \div (DaySeconds * NanosPer.Second))
    IN  CASE ty \in StringTypes ->
               IF Len(args) = 1 THEN Rowwise("Date32", auto, args[1])
               ELSE IF args[2].col \/ TypeOf(args[2]) \notin StringTypes \/ ~Some(Of(args[2]))
                    THEN Fail("unsupported type at position two")
               ELSE IF X(Of(args[2])) = "auto" THEN Rowwise("Date32", auto, args[1])
               ELSE Rowwise("Date32", given, args[1])
          [] ty = "Date32" -> Column(args[1].vs)
          [] ty \in DOMAIN NanosPer -> Rowwise("Date32", cast, args[1])
          [] OTHER -> Fail("unsupported type")

-----------------------------------------------------------------------------
(* TO_TIME.  A text is [int, digits, clock]: the number it is, its length, *)
(* the nanoseconds since midnight the format or Arrow reads in it.         *)

\* i64 arithmetic of a build without overflow checks.
Wrap(x) == ((x + MaxI64 + 1) % (2 * (MaxI64 + 1))) - (MaxI64 + 1)
DayNanos == DaySeconds * NanosPer.Second

calc_nanos_since_midnight(n) == n % DayNanos

UnitOfDigits(len) == CASE len = 8 -> <<"Second">> [] len = 11 -> <<"Millisecond">>
                       [] len = 14 -> <<"Microsecond">> [] len = 17 -> <<"Nanosecond">>
                       [] OTHER -> <<>>

to_time_text(t, formatted, tryMode) ==
    LET unit == UnitOfDigits(t.digits)
        clock == IF t.clock = <<>> THEN NullOr(tryMode, "Time64", "cannot parse time")
                 ELSE Cell("Time64", t.clock[1])
    IN  IF formatted \/ t.int = <<>> THEN clock
        ELSE IF unit = <<>> THEN NullOr(tryMode, "Time64", "not a valid integer")
        ELSE Cell("Time64", calc_nanos_since_midnight(Wrap(t.int[1] * NanosPer[unit[1]])))

to_time(args, tryMode) ==
    LET ty == TypeOf(args[1])
        time(v) == Cell("Time64", calc_nanos_since_midnight(Wrap(v * NanosPer[ty])))
        text(t) == to_time_text(t, Len(args) = 2, tryMode)
    IN  CASE Len(args) = 2 /\ (args[2].col \/ TypeOf(args[2]) # "Utf8" \/ ~Some(Of(args[2]))) ->
               Fail("a string as the second argument")
          [] ty \in StringTypes -> Rowwise("Time64", text, args[1])
          [] ty \in DOMAIN NanosPer -> Rowwise("Time64", time, args[1])
          [] OTHER -> Fail("unknown data type")
-----------------------------------------------------------------------------
(* TO_TIMESTAMP.  A text is [digits, iso, pattern, format]: the number it  *)
(* is all digits of, and the microseconds since the epoch that Arrow's     *)
(* parser, the crate's pattern, and the format of the call read in it.     *)

Micros == NanosPer.Microsecond
InI64(n) == n \in (-MaxI64 - 1)..MaxI64
InNanos(us) == InI64(us * Micros)

determine_timestamp_scale(n) ==
    LET size == IF n < 0 THEN -n ELSE n
        year(unit) == YearSeconds * (NanosPer.Second \div NanosPer[unit])
    IN  CASE size < year("Millisecond") -> "Second"
          [] size < year("Microsecond") -> "Millisecond"
          [] size < year("Nanosecond") -> "Microsecond"
          [] OTHER -> "Nanosecond"

try_parse_with_regex(t, unit) ==
    CASE t.pattern = <<>> -> <<>>
      [] unit = "Microsecond" -> t.pattern
      [] OTHER -> IF InNanos(t.pattern[1]) THEN <<t.pattern[1] * Micros>> ELSE <<>>

\* Arrow's parser answers nanoseconds whatever the unit is.
try_parse_with_auto(t, tryMode, unit) ==
    LET found == try_parse_with_regex(t, unit)
    IN  IF t.iso # <<>> /\ InNanos(t.iso[1]) THEN Cell("Int64", t.iso[1] * Micros)
        ELSE IF found # <<>> THEN Cell("Int64", found[1])
        ELSE NullOr(tryMode, "Int64", "cannot get timestamp")

\* A text the format reads beyond the nanoseconds of i64 is NULL.
try_parse_with_format(t, tryMode) ==
    IF t.format = <<>> THEN NullOr(tryMode, "Int64", "cannot get timestamp")
    ELSE IF InNanos(t.format[1]) THEN Cell("Int64", t.format[1] * Micros) ELSE Null("Int64")

\* The one instant at which the clocks of the session's time zone show n
\* nanoseconds since the epoch, <<>> in a gap: they are two ticks ahead until
\* they jump over ticks 8 and 9.
SessionLocal(n) == IF n < 8 THEN <<n - 2>> ELSE IF n \in 8..9 THEN <<>> ELSE <<n - 4>>

apply_timezone(n, unit, tryMode) ==
    LET shown == IF unit = "Microsecond" THEN n * Micros ELSE n
    IN  IF SessionLocal(shown) # <<>> THEN Cell("Int64", SessionLocal(shown)[1])
        ELSE IF tryMode THEN Cell("Int64", 0) ELSE Err("cannot add local timezone")

unit_for_string_input(t, tryMode) ==
    IF try_parse_with_auto(t, tryMode, "Nanosecond").err
       /\ ~try_parse_with_auto(t, tryMode, "Microsecond").err
    THEN "Microsecond" ELSE "Nanosecond"

\* One row of build_timestamp_array_from_scalar_string; zone is FALSE for NTZ.
timestamp_row(t, unit, auto, zone, tryMode) ==
    LET parsed == IF auto THEN try_parse_with_auto(t, tryMode, unit)
                  ELSE try_parse_with_format(t, tryMode)
        scaled == Wrap(t.digits[1] * NanosPer[determine_timestamp_scale(t.digits[1])])
        shifted == apply_timezone(X(parsed), unit, tryMode)
    IN  CASE t.digits # <<>> -> IF InI64(t.digits[1]) THEN Cell(unit, scaled) ELSE Err("failed to parse int")
          [] parsed.err -> parsed
          [] ~Some(parsed) -> Null(unit)
          [] zone -> IF shifted.err THEN shifted ELSE Cell(unit, X(shifted))
          [] OTHER -> Cell(unit, X(parsed))

\* A NULL first row reads as the empty text.
NoText == [digits |-> <<>>, iso |-> <<>>, pattern |-> <<>>, format |-> <<>>]
FirstText(arg) == IF Some(Of(arg)) THEN X(Of(arg)) ELSE NoText

\* Mutant: the unit of every row is the last row's.
timestamp_unit_last(arg, tryMode) ==
    unit_for_string_input(IF Some(Last(arg.vs)) THEN X(Last(arg.vs)) ELSE NoText, tryMode)

\* The unit of every row is the first row's.
timestamp_unit(arg, tryMode) == unit_for_string_input(FirstText(arg), tryMode)

ScaleUnits == <<"Second", "Millisecond", "Microsecond", "Nanosecond">>
\* The unit of a numeric argument: from the second argument, seconds if it is
\* missing or a column, <<>> if it is refused.
NumericUnit(args) ==
    LET scale == IF Len(args) = 1 \/ args[2].col THEN <<0>> ELSE Of(args[2]).held
    IN  IF scale # <<>> /\ scale[1] \in {0, 3, 6, 9} THEN <<ScaleUnits[scale[1] \div 3 + 1]>> ELSE <<>>

Quotient(a, b) == IF a < 0 THEN -((-a) \div b) ELSE a \div b

\* Timestamps with a time zone, and their units.
ZonedUnits == [ZonedSecond |-> "Second", ZonedMillisecond |-> "Millisecond",
               ZonedMicrosecond |-> "Microsecond", ZonedNanosecond |-> "Nanosecond"]
OwnUnit(ty) == IF ty \in DOMAIN ZonedUnits THEN ZonedUnits[ty] ELSE ty

\* Arrow's cast of n nanoseconds: only a timestamp without a time zone is
\* moved, when it is given one.
CastZone(n, zoned, zone) == IF zone /\ ~zoned THEN SessionLocal(n) ELSE <<n>>

\* Microseconds, and nanoseconds in a time zone, keep their unit.
cast_timestamp(x, ty, zone) ==
    LET zoned == ty \in DOMAIN ZonedUnits
        unit == IF ty \in {"Microsecond", "ZonedMicrosecond"} THEN "Microsecond" ELSE "Nanosecond"
        n == x * (IF ty = "Date32" THEN DayNanos ELSE NanosPer[OwnUnit(ty)])
        there == CastZone(n, zoned, zone)
    IN  IF unit = "Nanosecond" /\ ~InI64(n) THEN Err("cast overflow")
        ELSE IF there = <<>> THEN Err("cannot cast timezone to different timezone")
        ELSE Cell(unit, there[1] \div NanosPer[unit])

\* pow10 is 10^s of a Decimal128(p, s) argument.
to_timestamp(args, auto, zone, tryMode, pow10) ==
    LET ty == TypeOf(args[1])
        unit == NumericUnit(args)
        whole(x) == Cell(unit[1], IF ty = "Decimal128" THEN Quotient(x, pow10) ELSE x)
        first == timestamp_unit(args[1], tryMode)
        text(t) == timestamp_row(t, first, auto, zone, tryMode)
        cast(x) == cast_timestamp(x, ty, zone)
    IN  CASE ty = "Null" -> Column([n \in DOMAIN args[1].vs |-> Null("Nanosecond")])
          [] ty \in {"Int64", "Float64", "Decimal128"} ->
               IF unit = <<>> THEN Fail("invalid value at position two")
               ELSE IF ty = "Decimal128" /\ Len(args[1].vs) = 1
                    THEN Scalar(Rowwise(unit[1], whole, args[1]).vs[1])
               ELSE Rowwise(unit[1], whole, args[1])
          [] ty \in {"Date32"} \cup DOMAIN NanosPer \cup DOMAIN ZonedUnits ->
               Rowwise(cast_timestamp(0, ty, FALSE).ty, cast, args[1])
          [] ty \in StringTypes -> Rowwise(first, text, args[1])
          [] OTHER -> Fail("invalid data type")

\* return_field_from_args: the unit the plan is told of.
to_timestamp_field(args, tryMode) ==
    LET ty == TypeOf(args[1])
    IN  CASE ty \in {"Int64", "Float64", "Decimal128"} ->
               IF Len(args) = 2 /\ args[2].col THEN "Nanosecond"
               ELSE IF NumericUnit(args) = <<>> THEN "refused" ELSE NumericUnit(args)[1]
          [] ty = "Utf8" /\ ~args[1].col /\ Len(args) = 1 /\ Some(Of(args[1])) ->
               unit_for_string_input(X(Of(args[1])), tryMode)
          [] ty \in DOMAIN ZonedUnits /\ ~args[1].col /\ Len(args) = 2 -> ZonedUnits[ty]
          [] OwnUnit(ty) = "Microsecond" -> "Microsecond"
          [] OTHER -> "Nanosecond"

-----------------------------------------------------------------------------
(* TO_VARCHAR                                                              *)

\* Seconds and fraction are divided towards zero: a time before the epoch
\* with a fraction has a negative one, which no u32 of chrono's range is.
convert_timestamp_to_string(v, unit, tryMode) ==
    LET per == NanosPer.Second \div NanosPer[unit]
        secs == Quotient(v, per)
    IN  IF v - secs * per < 0 THEN NullOr(tryMode, "Utf8", "invalid timestamp value")
        ELSE Cell("Utf8", Render(secs))

convert_time_to_string(v, unit) ==
    LET secs == (v * NanosPer[unit]) \div NanosPer.Second
    IN  Cell("Utf8", <<secs \div 3600, (secs % 3600) \div 60, secs % 60>>)

\* Numbers and dates are rendered under a layout that is left out here.
convert_to_varchar(args, format, tryMode) ==
    LET ty == TypeOf(args[1])
        plain(x) == Cell("Utf8", x)
        rendered(x) == Cell("Utf8", Render(x))
        stamp(v) == convert_timestamp_to_string(v, ty, tryMode)
        bytes(b) == convert_binary_to_string(b, format, tryMode, Encode64(b))
        refused(x) == NullOr(tryMode, "Utf8", "unsupported type")
    IN  CASE Len(args) > 1 /\ args[2].col /\ (Len(args[2].vs) # 1 \/ ~Some(Of(args[2]))) ->
               Fail("format must be a non-null scalar")
          [] ty \in {"Int64", "Float64", "Date32"} -> Rowwise("Utf8", rendered, args[1])
          [] ty \in DOMAIN NanosPer -> Rowwise("Utf8", stamp, args[1])
          [] ty = "Time64" ->
               Rowwise("Utf8", LAMBDA v : convert_time_to_string(v, "Nanosecond"), args[1])
          [] ty \in StringTypes -> Rowwise("Utf8", plain, args[1])
          [] ty \in BinaryTypes -> Rowwise("Utf8", bytes, args[1])
          [] OTHER -> Rowwise("Utf8", refused, args[1])
=============================================================================

---------------------------- MODULE QueryResults ----------------------------
(***************************************************************************)
(* The answer of a query on its way to the client: the record batches of a *)
(* QueryResult are converted column by column for the JSON or the Arrow    *)
(* format.  A column has a type [t, of, tz] and rows, <<x>> or <<>> for    *)
(* NULL; a second has 10^Digits.Nanosecond nanoseconds.  A text of a       *)
(* number is its whole part, the digits after the point and a suffix.      *)
(***************************************************************************)
EXTENDS Integers, Sequences, SequencesExt

CONSTANTS
    Digits,      \* [unit of time |-> decimal digits of a second it counts]
    Width,       \* [unsigned type |-> its bits]
    DayMillis,   \* milliseconds of a day
    MaxI64,      \* the largest i64, one less than a power of two
    ChronoSecs   \* the seconds chrono's DateTime reaches, either way

Type(t, of, tz) == [t |-> t, of |-> of, tz |-> tz]
Plain(t) == Type(t, "none", <<>>)
Col(ty, vs) == [ty |-> ty, vs |-> vs]
Ok(v) == [err |-> "none", v |-> v]
Failure(e) == [err |-> e, v |-> <<>>]
\* The first error of a loop with ?, or all it collected.
Collect(rs) ==
    LET bad == SelectInSeq(rs, LAMBDA r : r.err # "none")
    IN  IF bad # 0 THEN rs[bad] ELSE Ok([n \in DOMAIN rs |-> rs[n].v])
MapRows(f(_), vs) == [n \in DOMAIN vs |-> IF vs[n] = <<>> THEN <<>> ELSE <<f(vs[n][1])>>]

Ticks(unit) == 10 ^ Digits[unit]
Second == Ticks("Nanosecond")

\* Rust's / and %, which truncate.
Quotient(x, y) == IF x < 0 THEN -((-x) \div y) ELSE x \div y
Remainder(x, y) == x - y * Quotient(x, y)
\* i64 arithmetic of the release build.
Wrapped(x) == ((x + MaxI64 + 1) % (2 * (MaxI64 + 1))) - (MaxI64 + 1)
AsSigned(x, bits) == IF x < 2 ^ (bits - 1) THEN x ELSE x - 2 ^ bits

\* How Display writes a number that is not negative.
Decimal(n) ==
    LET k == CHOOSE j \in 1..10 : n < 10 ^ j /\ (j = 1 \/ n >= 10 ^ (j - 1))
    IN  [i \in 1..k |-> (n \div 10 ^ (k - i)) % 10]
Text(whole, frac, suffix) == [whole |-> whole, frac |-> frac, suffix |-> suffix]

-----------------------------------------------------------------------------
(* Time zones: the offset the name itself fixes, and the rule of the zone  *)
(* in the tz database, both in minutes                                     *)

OffsetAt(rule, secs) == IF secs < rule.at THEN rule.before ELSE rule.after

parse_timezone(zone, now) ==
    CASE zone.fixed # <<>> -> zone.fixed
      [] zone.fixed = <<>> /\ zone.rule # <<>> -> <<OffsetAt(zone.rule[1], now)>>
      [] OTHER -> <<>>

encode_tz(tz, now) ==
    IF tz = <<>> \/ parse_timezone(tz[1], now) = <<>> THEN <<>>
    ELSE <<parse_timezone(tz[1], now)[1] + 1440>>

\* Mutant: the offset is not made positive.
tz_to_i32_unshifted(zone, nanos) ==
    IF nanos = 0 \/ zone.rule = <<>> THEN 1440 ELSE OffsetAt(zone.rule[1], Quotient(nanos, Second))

\* from_timestamp is given the truncated second, so a fraction of a second
\* before the epoch looks the rule up up to a second late.
tz_to_i32(zone, nanos) ==
    LET secs == Quotient(nanos, Second)
    IN  IF nanos = 0 \/ secs \notin -ChronoSecs..ChronoSecs \/ zone.rule = <<>> THEN 1440
        ELSE OffsetAt(zone.rule[1], secs) + 1440

-----------------------------------------------------------------------------
(* Timestamps                                                              *)

\* DateTime::from_timestamp and its relatives: the second an instant is in and
\* the rest of it in the unit; the epoch for an instant out of reach.
DateTime(unit, x) ==
    LET secs == x \div Ticks(unit)
    IN  IF secs \in -ChronoSecs..ChronoSecs THEN [secs |-> secs, sub |-> x % Ticks(unit)]
        ELSE [secs |-> 0, sub |-> 0]

timestamp_text(unit, x, suffix) ==
    LET ts == DateTime(unit, x)
    IN  Text(ts.secs, IF unit = "Second" THEN <<>> ELSE Decimal(ts.sub), suffix)

to_nanoseconds(unit, x) == Wrapped(x * (Second \div Ticks(unit)))

\* A row that is NULL is a struct whose fields are NULL.
convert_timestamp_to_struct(col) ==
    LET zone == col.ty.tz[1]
        nanos == MapRows(LAMBDA x : to_nanoseconds(col.ty.of, x), col.vs)
        Part(f(_), n) == MapRows(f, nanos)[n]
    IN  IF col.ty.tz = <<>> THEN Col(Plain("Int64"), col.vs)
        ELSE Col(Type("Struct", "timestamp", <<>>),
                 [n \in DOMAIN nanos |->
                    <<[epoch |-> Part(LAMBDA x : Quotient(x, Second), n),
                       fraction |-> Part(LAMBDA x : Remainder(x, Second), n),
                       timezone |-> Part(LAMBDA x : tz_to_i32(zone, x), n)]>>])

convert_timestamp(col, fmt, now) ==
    IF fmt = "Arrow" THEN convert_timestamp_to_struct(col)
    ELSE LET suffix == encode_tz(col.ty.tz, now)
         IN  Col(Plain("Utf8"), MapRows(LAMBDA x : timestamp_text(col.ty.of, x, suffix), col.vs))

\* to_rfc3339: the instant and the offset it is written in.
build_timestamp_strings(vs) ==
    LET written(v) ==
          [at |-> Wrapped(v.epoch[1] * Second + v.fraction[1]),
           offset |-> IF v.timezone = <<>> \/ v.timezone[1] - 1440 \notin -1439..1439 THEN 0
                      ELSE v.timezone[1] - 1440]
    IN  [n \in DOMAIN vs |-> IF vs[n][1].epoch = <<>> \/ vs[n][1].fraction = <<>> THEN <<>>
                             ELSE <<written(vs[n][1])>>]

\* A struct with fields "epoch" and "fraction" is taken for a timestamp: an
\* error unless they are an Int64 and an Int32.
convert_struct_to_timestamp(col) ==
    CASE col.ty.t = "Struct" /\ col.ty.of = "timestamp" -> Ok(Col(Plain("Utf8"), build_timestamp_strings(col.vs)))
      [] col.ty.t = "Struct" /\ col.ty.of = "epoch and fraction" -> Failure("cannot cast")
      [] OTHER -> Ok(col)

-----------------------------------------------------------------------------
(* The other types                                                         *)

convert_date(col, fmt) ==
    CASE fmt = "Json" /\ col.ty.t = "Date32" -> Col(Plain("Int32"), col.vs)
      [] fmt = "Json" /\ col.ty.t = "Date64" ->
            Col(Plain("Int32"), MapRows(LAMBDA ms : Quotient(ms, DayMillis), col.vs))
      [] OTHER -> col

format_time_string(secs, sub, scale) ==
    LET zeroes == IF scale > Len(sub) THEN scale - Len(sub) ELSE 0
    IN  Text(secs, [n \in 1..zeroes |-> 0] \o sub, <<>>)

time_text(unit, x) ==
    LET ts == DateTime(unit, x)
    IN  IF unit = "Second" THEN format_time_string(ts.secs, <<0, 0, 0>>, 0)
        ELSE format_time_string(ts.secs, Decimal(ts.sub), Digits[unit])

convert_time(col, fmt) ==
    IF fmt = "Json" THEN Col(Plain("Utf8"), MapRows(LAMBDA x : time_text(col.ty.of, x), col.vs))
    ELSE Col(Plain("Int64"), col.vs)

Signed == [UInt8 |-> "UInt16", UInt16 |-> "UInt32", UInt32 |-> "UInt64"]

\* Each unsigned type becomes the signed one of twice its size, UInt64 a
\* Decimal128(38, 0).
convert_uint_to_int_datatypes(col, fmt) ==
    CASE fmt = "Json" -> col
      [] fmt = "Arrow" /\ col.ty.t = "UInt64" -> Col(Plain("Decimal128"), col.vs)
      [] OTHER -> Col(Plain("Int"), MapRows(LAMBDA x : AsSigned(x, Width[Signed[col.ty.t]]), col.vs))

to_utf8_array(col) == Col(Plain("Utf8"), MapRows(LAMBDA x : IF x THEN "TRUE" ELSE "FALSE", col.vs))

\* arrow's cast to Utf8.
Rendered(col) == Col(Plain("Utf8"), MapRows(LAMBDA x : [text |-> x], col.vs))

\* The rows of a union are [ty, held]; the child of the type of the first row
\* stands for the column.  A sparse child has a row for each row of the
\* union, a dense one only those of its type.
first_non_empty_type(col) ==
    LET ty == col.vs[1].ty
        Own(v) == v.ty = ty
        child == IF col.ty.of = "dense" THEN SelectSeq(col.vs, Own) ELSE col.vs
    IN  IF col.vs = <<>> THEN col
        ELSE Col(Plain(ty), [n \in DOMAIN child |-> IF Own(child[n]) THEN child[n].held ELSE <<>>])

-----------------------------------------------------------------------------
(* The answer                                                              *)

convert_column(col, fmt, now) ==
    CASE col.ty.t = "Union" -> first_non_empty_type(col)
      [] col.ty.t = "Timestamp" -> convert_timestamp(col, fmt, now)
      [] col.ty.t \in {"Date32", "Date64"} -> convert_date(col, fmt)
      [] col.ty.t = "Time" -> convert_time(col, fmt)
      [] col.ty.t \in DOMAIN Width -> convert_uint_to_int_datatypes(col, fmt)
      [] col.ty.t \in {"BinaryView", "Utf8View"} -> Rendered(col)
      [] col.ty.t = "Decimal128" /\ fmt = "Json" -> Rendered(col)
      [] col.ty.t = "Boolean" /\ fmt = "Json" -> to_utf8_array(col)
      [] OTHER -> col

\* RecordBatch::try_new refuses columns of different lengths.
try_new(cols) ==
    IF \E i, j \in DOMAIN cols : Len(cols[i].vs) # Len(cols[j].vs) THEN Failure("lengths differ") ELSE Ok(cols)

convert_record_batches(batches, fmt, now) ==
    Collect([b \in DOMAIN batches |->
               try_new([i \in DOMAIN batches[b] |-> convert_column(batches[b][i], fmt, now)])])

\* ColumnInfo::from_field: what the client is told of the column.
from_field(ty) ==
    [type |-> CASE ty.t \in DOMAIN Width \cup {"Int64", "Decimal128"} -> "fixed"
                [] ty.t = "Boolean" -> "boolean"
                [] ty.t = "Time" -> "time"
                [] ty.t \in {"Date32", "Date64"} -> "date"
                [] ty.t = "Timestamp" -> IF ty.tz = <<>> THEN "timestamp_ntz" ELSE "timestamp_tz"
                [] ty.t = "BinaryView" -> "binary"
                [] OTHER -> "text",
     scale |-> CASE ty.t = "Time" -> Digits.Nanosecond
                 [] ty.t = "Timestamp" -> Digits[ty.of]
                 [] OTHER -> 0]

BatchRows(batch) == IF batch = <<>> THEN 0 ELSE Len(batch[1].vs)

\* The rows as they are serialized: structs are made texts for JSON only.
Serialized(records, fmt) ==
    IF fmt = "Arrow" THEN Ok(records)
    ELSE Collect([b \in DOMAIN records |->
                    Collect([i \in DOMAIN records[b] |-> convert_struct_to_timestamp(records[b][i])])])

\* A result's schema is that of its columns in every batch.
handle_query_ok_result(schema, batches, fmt, now) ==
    LET records == convert_record_batches(batches, fmt, now)
        rowset == Serialized(records.v, fmt)
    IN  IF records.err # "none" \/ rowset.err # "none"
        THEN Failure(IF records.err # "none" THEN records.err ELSE rowset.err)
        ELSE Ok([rowset |-> rowset.v,
                 rowtype |-> [i \in DOMAIN schema |-> from_field(schema[i])],
                 total |-> FoldLeft(LAMBDA n, batch : n + BatchRows(batch), 0, records.v)])
=============================================================================

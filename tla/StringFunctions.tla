--------------------------- MODULE StringFunctions ---------------------------
(***************************************************************************)
(* String and binary functions: crates/functions/src/string-binary,        *)
(* crypto/md5.rs and STRTOK_TO_ARRAY.  A string is a sequence of code      *)
(* points and a binary a sequence of bytes.                                *)
(***************************************************************************)
EXTENDS Columnar

Space == 32

\* UTF-8 of the code points below 2048.
Utf8Bytes(s) ==
    FlattenSeq([n \in DOMAIN s |-> IF s[n] < 128 THEN <<s[n]>>
                                   ELSE <<192 + s[n] \div 64, 128 + (s[n] % 64)>>])

\* from_utf8: the string of a binary, <<>> when there is none.
FromUtf8(bytes) ==
    LET lead(n) == bytes[n] \in 194..223 /\ n < Len(bytes) /\ bytes[n + 1] \in 128..191
        tail(n) == bytes[n] \in 128..191 /\ n > 1 /\ bytes[n - 1] \in 194..223
        starts == SetToSortSeq({n \in DOMAIN bytes : ~tail(n)}, <)
    IN  IF \A n \in DOMAIN bytes : bytes[n] < 128 \/ lead(n) \/ tail(n)
        THEN <<[k \in DOMAIN starts |->
                  IF bytes[starts[k]] < 128 THEN bytes[starts[k]]
                  ELSE (bytes[starts[k]] - 192) * 64 + bytes[starts[k] + 1] - 128]>>
        ELSE <<>>

LowerChar(c) == IF c \in 65..90 THEN c + 32 ELSE c
ToLowercase(s) == [n \in DOMAIN s |-> LowerChar(s[n])]

\* The decimal digits of a number (Display of an integer).
DecimalDigits[n \in Nat] == IF n < 10 THEN <<48 + n>> ELSE Append(DecimalDigits[n \div 10], 48 + (n % 10))
Display(n) == IF n < 0 THEN <<45>> \o DecimalDigits[-n] ELSE DecimalDigits[n]

StringTypes == {"Utf8", "LargeUtf8", "Utf8View"}
BinaryTypes == {"Binary", "LargeBinary"}

-----------------------------------------------------------------------------
(* SUBSTR.  The length is <<>> or <<n>>.                                   *)

compute_substr(input, start, length) ==
    LET n == Len(input)
        from == IF start < 0 THEN n + start + 1 ELSE IF start = 0 THEN 1 ELSE start
        upto == IF length = <<>> \/ from + length[1] - 1 > n THEN n ELSE from + length[1] - 1
    IN  IF from \notin 1..n THEN <<>> ELSE SubSeq(input, from, upto)

\* process_string_arrays, process_binary_arrays, process_large_binary_arrays:
\* numbers are rendered first.
process_arrays(row) ==
    Strict(row[1].ty,
           LAMBDA xs : IF Len(xs) = 3 /\ xs[3] < 0 THEN Err("negative length")
                       ELSE Cell(row[1].ty, compute_substr(xs[1], xs[2], SubSeq(xs, 3, Len(xs)))),
           row)

\* coerce_types: the types the arguments are cast to, or an error.
coerce_types(types) ==
    IF Len(types) \notin 2..3 THEN <<>>
    ELSE IF types[1] \notin StringTypes \cup BinaryTypes \cup {"Null", "Int64"} THEN <<>>
    ELSE IF \E n \in 2..Len(types) : types[n] \notin {"Int64", "Null"} THEN <<>>
    ELSE <<[n \in DOMAIN types |->
              IF n > 1 THEN "Int64"
              ELSE IF types[1] \in StringTypes \cup BinaryTypes THEN types[1] ELSE "Utf8"]>>

\* The cast of a column to a coerced type.
CastTo(arg, ty) ==
    [arg EXCEPT !.vs = [n \in DOMAIN arg.vs |->
        Option(ty, IF arg.vs[n].ty = "Int64" /\ ty \in StringTypes /\ Some(arg.vs[n])
                   THEN <<Display(X(arg.vs[n]))>> ELSE arg.vs[n].held)]]

substr_invoke(args) ==
    LET types == coerce_types([n \in DOMAIN args |-> TypeOf(args[n])])
    IN  IF types = <<>> THEN Fail("types")
        ELSE EachRow(process_arrays, Broadcast([n \in DOMAIN args |-> CastTo(args[n], types[1][n])]))

\* ScalarValue's Display: a binary is written as hexadecimal digits.
HexDigit(d, upper) == IF d < 10 THEN 48 + d ELSE IF upper THEN 55 + d ELSE 87 + d
HexText(bytes, upper) ==
    FlattenSeq([n \in DOMAIN bytes |->
        <<HexDigit(bytes[n] \div 16, upper), HexDigit(bytes[n] % 16, upper)>>])
ScalarText(c) ==
    CASE c.ty \in StringTypes -> X(c)
      [] c.ty \in BinaryTypes -> HexText(X(c), TRUE)
      [] c.ty = "Int64" -> Display(X(c))

\* simplify: a literal string and start are evaluated while planning.  A
\* length that is not a literal, or is negative, counts as no length.
substr_simplify(args) ==
    LET literal(n) == ~args[n].col
        length == IF Len(args) = 3 /\ literal(3) /\ X(Of(args[3])) >= 0
                  THEN Of(args[3]).held ELSE <<>>
    IN  IF Len(args) \notin 2..3 \/ ~literal(1) \/ ~literal(2) THEN substr_invoke(args)
        ELSE IF \E n \in DOMAIN args : literal(n) /\ ~Some(Of(args[n])) THEN Scalar(Null("Null"))
        ELSE Scalar(Cell("Utf8View", compute_substr(ScalarText(Of(args[1])), X(Of(args[2])), length)))

-----------------------------------------------------------------------------
(* INSERT.  The bounds of a string are in bytes, its positions in          *)
(* characters.                                                             *)

\* insert_string and insert_binary; take and skip stop at the end.
insert_string(base, pos, len, insert, size) ==
    IF pos < 1 \/ pos > size + 1 THEN Err("position")
    ELSE IF len < 0 \/ len > size - pos + 1 THEN Err("length")
    ELSE Cell("Utf8", SubSeq(base, 1, IF pos - 1 > Len(base) THEN Len(base) ELSE pos - 1)
                        \o insert \o SubSeq(base, pos + len, Len(base)))

insert(args) ==
    LET size(x) == IF TypeOf(args[1]) = "Utf8" THEN Len(Utf8Bytes(x)) ELSE Len(x)
        row(xs) == LET r == insert_string(xs[1], xs[2], xs[3], xs[4], size(xs[1]))
                   IN  IF r.err THEN r ELSE Cell(TypeOf(args[1]), X(r))
    IN  IF TypeOf(args[1]) # TypeOf(args[4]) THEN Fail("types")
        ELSE IF TypeOf(args[1]) \notin {"Utf8", "Binary"} THEN Fail("datatype")
        ELSE EachRow(LAMBDA r : Strict(TypeOf(args[1]), row, r), Shortest(args))

-----------------------------------------------------------------------------

\* str::split and str::replace: the pieces between the leftmost matches that
\* do not overlap.  An empty pattern matches around every character.
RECURSIVE Pieces(_, _, _)
Pieces(s, d, from) ==
    LET hits == {n \in from..(Len(s) - Len(d) + 1) : SubSeq(s, n, n + Len(d) - 1) = d}
        hit == CHOOSE n \in hits : \A m \in hits : n <= m
    IN  IF d = <<>> THEN <<<<>>>> \o [n \in DOMAIN s |-> <<s[n]>>] \o <<<<>>>>
        ELSE IF hits = {} THEN <<SubSeq(s, from, Len(s))>>
        ELSE <<SubSeq(s, from, hit - 1)>> \o Pieces(s, d, hit + Len(d))

\* split_impl.
split(args) ==
    IF \E n \in 1..2 : TypeOf(args[n]) \notin StringTypes THEN Fail("types")
    ELSE ScalarIf(args, EachRow(LAMBDA r : Strict("List", LAMBDA xs : Cell("List", Pieces(xs[1], xs[2], 1)), r),
                                Broadcast(args)))

RECURSIVE JoinWith(_, _)
JoinWith(parts, d) ==
    IF Len(parts) = 1 THEN parts[1] ELSE parts[1] \o d \o JoinWith(Tail(parts), d)

\* REPLACE: a NULL replacement removes the pattern, except in a Utf8View,
\* where it makes the answer NULL.
replace(args) ==
    LET view == \E n \in 1..2 : TypeOf(args[n]) = "Utf8View"
        row(r) == IF ~Some(r[1]) \/ ~Some(r[2]) THEN Null("Utf8")
                  ELSE IF Len(r) = 3 /\ ~Some(r[3])
                       THEN IF view THEN Null("Utf8")
                            ELSE Cell("Utf8", JoinWith(Pieces(X(r[1]), X(r[2]), 1), <<>>))
                  ELSE Cell("Utf8", JoinWith(Pieces(X(r[1]), X(r[2]), 1), IF Len(r) = 3 THEN X(r[3]) ELSE <<>>))
    IN  IF \E n \in 1..2 : TypeOf(args[n]) \notin StringTypes THEN Fail("utf8")
        ELSE EachRow(row, Broadcast(args))

\* The runs of characters that are not delimiters.
Tokens(s, delimiters) ==
    LET cuts == SetToSortSeq({n \in DOMAIN s : s[n] \in delimiters} \cup {0, Len(s) + 1}, <)
    IN  SelectSeq([k \in 1..(Len(cuts) - 1) |-> SubSeq(s, cuts[k] + 1, cuts[k + 1] - 1)],
                  LAMBDA t : t # <<>>)

\* process_split: a part number that is negative does not fit a usize.
process_split(row) ==
    IF Panics(row) THEN Err("panic")
    ELSE Strict("Utf8",
                LAMBDA xs : LET tokens == Tokens(xs[1], ToSet(xs[2]))
                            IN  IF xs[3] < 0 THEN Err("panic")
                                ELSE IF xs[3] < 1 THEN Err("partNr")
                                ELSE IF xs[3] > Len(tokens) THEN Null("Utf8") ELSE Cell("Utf8", tokens[xs[3]]),
                row)

\* STRTOK: the default part number is a UInt64, which is not an Int64Array.
strtok(args) ==
    LET all == args \o SubSeq(<<Scalar(Cell("Utf8", <<Space>>)), Scalar(Cell("UInt64", 1))>>, Len(args), 2)
    IN  IF TypeOf(all[3]) # "Int64" THEN Fail("internal")
        ELSE EachRow(process_split, Indexed(all))

\* trim: without the spaces at either end.
Trimmed(s) ==
    LET kept == {n \in DOMAIN s : s[n] # Space}
    IN  IF kept = {} THEN <<>> ELSE SubSeq(s, Min(kept), Max(kept))

NullWord == <<110, 117, 108, 108>>
is_json_null(s) == ToLowercase(Trimmed(s)) \in {NullWord, <<91, Space>> \o NullWord \o <<Space, 93>>}

strtok_to_array(args) ==
    LET all == IF Len(args) = 2 THEN args ELSE Append(args, Scalar(Cell("Utf8", <<Space>>)))
        row(xs) == IF is_json_null(xs[1]) \/ is_json_null(xs[2]) THEN Null("List")
                   ELSE Cell("List", Tokens(xs[1], ToSet(xs[2])))
    IN  EachRow(LAMBDA r : Strict("List", row, r), Shortest(all))

-----------------------------------------------------------------------------

Measured(f(_), arg) == EachRow(LAMBDA r : Strict("UInt64", LAMBDA xs : Cell("UInt64", f(xs[1])), r), Shortest(<<arg>>))

\* LENGTH: characters of a string, bytes of a binary, digits of a number.
length(arg) ==
    CASE TypeOf(arg) \in StringTypes \cup BinaryTypes -> Measured(Len, arg)
      [] TypeOf(arg) = "Int64" -> Measured(LAMBDA n : Len(Display(n)), arg)
      [] TypeOf(arg) = "Null" -> Column([n \in DOMAIN arg.vs |-> Null("UInt64")])
      [] OTHER -> Fail("datatype")

\* RTRIMMED_LENGTH counts bytes, not characters.
rtrimmed_length(arg) ==
    LET kept(s) == {n \in DOMAIN s : \E m \in n..Len(s) : s[m] # Space}
    IN  Measured(LAMBDA s : Len(Utf8Bytes(SubSeq(s, 1, Cardinality(kept(s))))), arg)

\* LOWER of a column that is not a string is its text, not lower-cased.
lower(arg) ==
    EachRow(LAMBDA r : Strict("Utf8", LAMBDA xs : Cell("Utf8", CASE TypeOf(arg) \in StringTypes -> ToLowercase(xs[1])
                                                                 [] TypeOf(arg) = "Int64" -> Display(xs[1])), r),
            Shortest(<<arg>>))
lower_simplify(arg) ==
    IF arg.col THEN lower(arg)
    ELSE IF ~Some(Of(arg)) THEN Scalar(Null("Null"))
    ELSE Scalar(Cell("Utf8", ToLowercase(ScalarText(Of(arg)))))

\* HEX_ENCODE: upper-case digits when the second argument is 1 (the default).
hex_encode(args) ==
    LET bytes(x) == IF TypeOf(args[1]) \in StringTypes THEN Utf8Bytes(x) ELSE x
        ones == IntoArray(Scalar(Cell("Int64", 1)), Len(args[1].vs))
        row(r) == IF Some(r[1]) THEN Cell("Utf8", HexText(bytes(X(r[1])), r[2].held = <<1>>)) ELSE Null("Utf8")
    IN  CASE Len(args) \notin 1..2 -> Fail("arguments")
          [] Len(args) \in 1..2 /\ TypeOf(args[1]) = "Null" -> Column([n \in DOMAIN args[1].vs |-> Null("Utf8")])
          [] Len(args) \in 1..2 /\ TypeOf(args[1]) \in StringTypes \cup BinaryTypes ->
                EachRow(row, Shortest(IF Len(args) = 2 THEN args ELSE Append(args, Column(ones))))
          [] OTHER -> Fail("type")

\* hex::decode: <<>> for an odd number of digits or for another character.
HexValue(c) == CASE c \in 48..57 -> c - 48 [] c \in 65..70 -> c - 55 [] c \in 97..102 -> c - 87 [] OTHER -> -1
HexDecode(s) ==
    IF Len(s) % 2 = 1 \/ \E n \in DOMAIN s : HexValue(s[n]) = -1 THEN <<>>
    ELSE <<[n \in 1..(Len(s) \div 2) |-> 16 * HexValue(s[2 * n - 1]) + HexValue(s[2 * n])]>>

\* The binary form wants UTF-8 as well.
decode_hex_strings(hex, tryMode, ty) ==
    LET bytes == HexDecode(hex)
        chars == IF bytes = <<>> THEN <<>> ELSE FromUtf8(bytes[1])
    IN  IF chars # <<>> THEN Cell(ty, IF ty = "Binary" THEN bytes[1] ELSE chars[1])
        ELSE IF tryMode THEN Null(ty) ELSE Err("hex")

\* [TRY_]HEX_DECODE_STRING and [TRY_]HEX_DECODE_BINARY.  A NULL literal
\* answers Utf8, whatever the return type.
hex_decode(arg, tryMode, ty) ==
    CASE TypeOf(arg) \in StringTypes ->
            EachRow(LAMBDA r : Strict(ty, LAMBDA xs : decode_hex_strings(xs[1], tryMode, ty), r), Shortest(<<arg>>))
      [] TypeOf(arg) = "Null" -> Column([n \in DOMAIN arg.vs |-> Null("Utf8")])
      [] OTHER -> Fail("type")

hex_decode_string(arg, tryMode) == hex_decode(arg, tryMode, "Utf8")
hex_decode_binary(arg, tryMode) == hex_decode(arg, tryMode, "Binary")

\* Libraries: a digest is its input, a random string its seed, addresses are
\* the texts of one element.
Digest(s, bits) == <<s, bits>>
Md5Digest(s) == <<s>>
Sample(seed, n) == <<seed, n>>
Jaro(s, t) == IF s = t THEN 100 ELSE 0
Net(s) == IF Len(s) = 1 THEN <<s>> ELSE <<>>

\* SHA2 in its four sizes.
sha2(args) ==
    LET size == IF Len(args) = 1 THEN Scalar(Cell("Int64", 256)) ELSE args[2]
        row(bits, xs) == Cell("Utf8", Digest(xs[1], bits))
    IN  IF Len(args) \notin 1..2 THEN Fail("arguments")
        ELSE IF size.col /\ Len(size.vs) # 1 THEN Fail("digest column")
        ELSE IF ~size.col /\ (TypeOf(size) # "Int64" \/ ~Some(Of(size))) THEN Fail("digest")
        ELSE IF X(Of(size)) \notin {224, 256, 384, 512} THEN Fail("size")
        ELSE IF ~args[1].col /\ TypeOf(args[1]) # "Utf8" THEN Fail("string")
        ELSE ScalarIf(<<args[1]>>, EachRow(LAMBDA r : Strict("Utf8", LAMBDA xs : row(X(Of(size)), xs), r), Shortest(<<args[1]>>)))

\* MD5 of the text of any value.
md5(arg) ==
    EachRow(LAMBDA r : Strict("Utf8", LAMBDA xs : Cell("Utf8", Md5Digest(IF TypeOf(arg) = "Int64" THEN Display(xs[1]) ELSE xs[1])), r),
            Shortest(<<arg>>))

\* RANDSTR: lengths and seeds of the same number of rows; the generator is
\* seeded anew for every row.
randstr(args) ==
    IF Len(args) # 2 THEN Fail("arguments")
    ELSE IF \E n \in 1..2 : TypeOf(args[n]) \notin {"Null", "Int64"} THEN Fail("type")
    ELSE IF Len(args[1].vs) # Len(args[2].vs) THEN Fail("length mismatch")
    ELSE EachRow(LAMBDA r : Strict("Utf8", LAMBDA xs : IF xs[1] < 0 THEN Err("negative") ELSE Cell("Utf8", Sample(xs[2], xs[1])), r),
                 Shortest(args))

\* JAROWINKLER_SIMILARITY, in whole percents of the external similarity.
jarowinkler_similarity(args) ==
    LET row(xs) == Cell("UInt64", IF xs[1] = <<>> \/ xs[2] = <<>> THEN 0
                                  ELSE Jaro(ToLowercase(xs[1]), ToLowercase(xs[2])))
    IN  EachRow(LAMBDA r : Strict("UInt64", row, r), Shortest(args))

\* PARSE_IP: only INET addresses are read, by the parser Net.  A
\* permissive call answers an error object; the flag is a number of halves.
parse_ip(args) ==
    LET perm == Len(args) > 2 /\ Some(Of(args[3])) /\ X(Of(args[3])) # 0
        row(xs) == LET parsed == Net(xs[1])
                   IN  IF xs[2] # "INET" THEN Null("Utf8")
                       ELSE IF parsed # <<>> THEN Cell("Utf8", parsed[1])
                       ELSE IF perm THEN Cell("Utf8", "error") ELSE Err("ip")
    IN  IF Len(args) > 2 /\ args[3].col THEN Fail("constant")
        ELSE EachRow(LAMBDA r : Strict("Utf8", row, r), Broadcast(SubSeq(args, 1, 2)))
=============================================================================

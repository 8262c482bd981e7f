--------------------------- MODULE SemiStructured ---------------------------
(***************************************************************************)
(* OBJECT functions, GET, GET_PATH, TYPEOF, IS_*, PARSE_JSON and the       *)
(* encoding of SQL values as JSON: crates/functions/src/json.rs, the files *)
(* of semi-structured outside array/, and TO_ARRAY, TO_OBJECT, TO_VARIANT. *)
(***************************************************************************)
EXTENDS Variant

\* An answer of one row is returned as a scalar, whatever the argument was.
OneRow(r) == IF r.col /\ Len(r.vs) = 1 THEN Scalar(r.vs[1]) ELSE r

\* The rows of an argument, a scalar being one row.
ToArray(arg) == arg.vs

-----------------------------------------------------------------------------
(* OBJECT_CONSTRUCT[_KEEP_NULL]: one object for all the rows.  A NULL of   *)
(* the NULL type is left out unless keep_null; a typed NULL is kept.       *)

PairOf(k, v, keepNull) ==
    IF ~k.some THEN Error("null key")
    ELSE IF k.ty # "Utf8" THEN Error("key")
    ELSE IF v.ty = "Null" THEN IF keepNull THEN Value("Pair", JNull) ELSE NullOf("Pair")
    ELSE IF ~v.some THEN Value("Pair", JNull)
    ELSE IF v.ty = "Utf8" THEN Value("Pair", IF Parses(v.j) THEN v.j ELSE JText(v.j))
    ELSE IF v.ty \in {"Int64", "Float64", "Boolean"} THEN Value("Pair", v.j)
    ELSE Error("value")

object_construct(args, keepNull) ==
    LET n == NumberRows(args)
        cells == [m \in 1..((Len(args) \div 2) * n) |->
                     <<IntoArray(args[2 * ((m - 1) \div n) + 1], n)[((m - 1) % n) + 1],
                       IntoArray(args[2 * ((m - 1) \div n) + 2], n)[((m - 1) % n) + 1]>>]
        put(acc, c) == LET p == PairOf(c[1], c[2], keepNull)
                       IN  IF IsError(acc) THEN acc ELSE IF IsError(p) THEN p
                           ELSE IF ~p.some THEN acc ELSE Utf8(ObjPut(acc.j, c[1].j, p.j))
    IN  IF Len(args) % 2 # 0 THEN Fail("even") ELSE Scalar(FoldLeft(put, Utf8(JObj(<<>>)), cells))

\* Rows of objects; a scalar that is not a text is NULL.
ObjectRows(f(_), object) ==
    LET row(text) == Parsed(LAMBDA j : IF IsObj(j) THEN f(j) ELSE Error("object"), text)
    IN  IF object.col THEN TextRows(row, "Utf8", object.vs)
        ELSE Scalar(IF IsText(Of(object)) THEN row(Of(object).j) ELSE NullOf("Utf8"))

\* OBJECT_INSERT: flag, key and value are looked at before the object.
object_insert(object, key, value, update) ==
    LET flag == Of(update)
        insert(j) == IF Of(key).ty # "Utf8" THEN Error("key")
                     ELSE IF Of(key).j \in ObjKeys(j) /\ flag.j # JBool(TRUE) THEN Error("exists")
                     ELSE Utf8(ObjPut(j, Of(key).j, encode_scalar(Of(value))))
    IN  IF update.col \/ flag.ty # "Boolean" \/ ~flag.some THEN Fail("flag")
        ELSE IF key.col THEN Fail("scalar")
        ELSE IF ~Of(key).some THEN Scalar(NullOf("Utf8"))
        ELSE IF value.col THEN Fail("scalar")
        ELSE IF ~Of(value).some THEN Scalar(NullOf("Utf8"))
        ELSE ObjectRows(insert, object)

\* One key argument that is a JSON array stands for its strings; arguments
\* that are not texts are passed over.
PickKeys(keys) ==
    LET texts == SelectSeq(keys, LAMBDA k : ~k.col /\ IsText(Of(k)))
    IN  IF Len(keys) = 1 /\ texts # <<>> /\ IsArr(Of(keys[1]).j)
        THEN LET strings == SelectSeq(Of(keys[1]).j.a, LAMBDA x : x.t = "str") IN [n \in DOMAIN strings |-> strings[n].a[1]]
        ELSE [n \in DOMAIN texts |-> Of(texts[n]).j]

\* pick_keys: the entries in the order of the keys asked for.
pick_keys(j, keys) ==
    LET there == SelectSeq(keys, LAMBDA k : k \in ObjKeys(j))
    IN  ObjFrom([n \in DOMAIN there |-> <<there[n], ObjGet(j, there[n])>>])

object_pick(object, keys) ==
    ObjectRows(LAMBDA j : Utf8(pick_keys(j, PickKeys(keys))), object)

\* Keys that are not texts delete nothing.
object_delete(object, keys) ==
    LET texts == SelectSeq(keys, LAMBDA k : IsText(Of(k)))
        without(j) == FoldLeft(LAMBDA acc, k : ObjRemove(acc, Of(k).j), j, texts)
    IN  IF \E n \in DOMAIN keys : keys[n].col THEN Fail("scalar")
        ELSE ObjectRows(LAMBDA j : Utf8(without(j)), object)

\* The keys in the order of the map, as an array of strings.
KeySeq(j) == [n \in DOMAIN j.o |-> JText(j.o[n][1])]

object_keys(object) ==
    OneRow(Rows(LAMBDA v : IF ~v.some THEN NullOf("Utf8")
                           ELSE Parsed(LAMBDA j : IF IsObj(j) THEN Utf8(JArr(KeySeq(j)))
                                                  ELSE Error("object"), v.j), ToArray(object)))

is_object(arg) ==
    OneRow(Rows(LAMBDA v : IF v.some THEN Boolean(IsObj(v.j)) ELSE NullOf("Boolean"), ToArray(arg)))

-----------------------------------------------------------------------------

\* eq_ignore_ascii_case: each text has its lower-cased form; the first such key
\* of the object counts.
GetKey(j, key, ignoreCase, lower) ==
    LET first == SelectInSeq(j.o, LAMBDA p : IF ignoreCase THEN lower[p[1]] = lower[key] ELSE p[1] = key)
    IN  IF first = 0 THEN <<>> ELSE <<j.o[first][2]>>

\* A negative position is past every end.
GetIndex(j, n) == IF n \in 0..(Len(j.a) - 1) THEN <<j.a[n + 1]>> ELSE <<>>

\* GET and GET_IGNORE_CASE.
get(input, path, ignoreCase, lower) ==
    LET at(j) == CASE Of(path).ty = "Utf8" ->
                        Opt("Utf8", IF IsObj(j) THEN GetKey(j, Of(path).j, ignoreCase, lower) ELSE <<>>)
                   [] Of(path).ty = "Int64" -> Opt("Utf8", IF IsArr(j) THEN GetIndex(j, Of(path).j.i) ELSE <<>>)
                   [] Of(path).ty \notin {"Utf8", "Int64"} -> Error("path")
        row(v) == IF ~v.some \/ ~Of(path).some THEN NullOf("Utf8") ELSE Parsed(at, v.j)
    IN  IF path.col THEN Fail("scalar") ELSE OneRow(Rows(row, ToArray(input)))

\* A path is a sequence of symbols, a run of other characters being one.
Dot == Raw(".")
Colon == Raw(":")
Quote == Raw("quote")
Open == Raw("[")
Close == Raw("]")
Word(ts) == JoinedText(Raw(""), ts)

\* The symbols up to the first one of "ends", and those from it on.
Until(p, ends) ==
    LET n == SelectInSeq(p, LAMBDA x : x \in ends)
    IN  IF n = 0 THEN <<p, <<>>>> ELSE <<SubSeq(p, 1, n - 1), SubSeq(p, n, Len(p))>>

NoTokens == <<"none">>

\* tokenize_path: <<"key", text>> and <<"index", n>> tokens, or NoTokens.
RECURSIVE tokenize_path(_)
tokenize_path(p) ==
    LET rest(q) == IF q = <<>> THEN q ELSE Tail(q)
        quoted == Until(Tail(p), {Quote})
        number == Until(Tail(p), {Close})
        name == Until(p, {Dot, Colon, Open})
        with(token, q) == LET ts == tokenize_path(q)
                          IN  IF ts = NoTokens THEN ts ELSE <<token>> \o ts
    IN  CASE p = <<>> -> <<>>
          [] p # <<>> /\ p[1] \in {Dot, Colon} -> tokenize_path(Tail(p))
          [] p # <<>> /\ p[1] = Quote -> with(<<"key", Word(quoted[1])>>, rest(quoted[2]))
          [] p # <<>> /\ p[1] = Open ->
                IF Len(number[1]) = 1 /\ number[1][1].t = "int" /\ number[1][1].i >= 0
                THEN with(<<"index", number[1][1]>>, rest(number[2])) ELSE NoTokens
          [] p # <<>> /\ p[1] \notin {Dot, Colon, Quote, Open} -> with(<<"key", Word(name[1])>>, name[2])

\* A key of something that is not an object, or a missing one, ends the walk.
get_json_value(j, tokens) ==
    LET step(acc, t) == IF acc = <<>> THEN acc
                        ELSE IF t[1] = "key"
                        THEN IF IsObj(acc[1]) /\ t[2] \in ObjKeys(acc[1]) THEN <<ObjGet(acc[1], t[2])>> ELSE <<>>
                        ELSE IF IsArr(acc[1]) THEN GetIndex(acc[1], t[2].i) ELSE <<>>
    IN  FoldLeft(step, <<j>>, tokens)

\* GET_PATH: what does not parse, or is not there, is NULL.
get_path(input, path) ==
    LET tokens == tokenize_path(path)
        row(v) == IF ~v.some \/ ~Parses(v.j) \/ tokens = NoTokens THEN NullOf("Utf8")
                  ELSE Opt("Utf8", get_json_value(v.j, tokens))
    IN  OneRow(Rows(row, ToArray(input)))

-----------------------------------------------------------------------------

\* PARSE_JSON and TRY_PARSE_JSON: a JSON null is NULL.  Repaired texts are
\* those with elements missing, ",," and the like, which stand for nulls.
parse_json(arg, tryMode, repaired) ==
    LET fix(t) == IF t \in DOMAIN repaired THEN repaired[t] ELSE t
        row(v) == IF ~v.some THEN NullOf("Utf8")
                  ELSE IF ~Parses(fix(v.j)) THEN IF tryMode THEN NullOf("Utf8") ELSE Error("json")
                  ELSE IF fix(v.j) = JNull THEN NullOf("Utf8") ELSE Utf8(fix(v.j))
    IN  OneRow(Rows(row, ToArray(arg)))

KindOf(j) ==
    CASE j.t = "null" -> "NULL_VALUE" [] j.t = "bool" -> "BOOLEAN" [] j.t = "int" -> "INTEGER"
      [] j.t = "float" -> "DOUBLE" [] j.t \in {"str", "raw", "joined"} -> "VARCHAR"
      [] j.t = "arr" -> "ARRAY" [] j.t = "obj" -> "OBJECT"

TypeName(ty) ==
    CASE ty = "Int64" -> "INTEGER" [] ty = "Float64" -> "DOUBLE" [] ty = "Boolean" -> "BOOLEAN"
      [] ty = "Decimal" -> "DECIMAL" [] ty = "List" -> "ARRAY"

\* TYPEOF: by the column's type, NULLs included; only texts are looked into.
typeof(arg) ==
    LET row(v) == IF v.ty \notin {"Utf8", "Null"} THEN Utf8(Raw(TypeName(v.ty)))
                  ELSE IF ~v.some THEN NullOf("Utf8") ELSE Utf8(Raw(KindOf(LowerCased(v.j))))
    IN  OneRow(Rows(row, ToArray(arg)))

\* IS_NULL_VALUE, IS_BOOLEAN, IS_DOUBLE, IS_REAL, IS_DECIMAL, IS_INTEGER,
\* IS_VARCHAR, IS_ARRAY, IS_OBJECT.
is_typeof(kind, arg) ==
    LET typed(ty) == CASE ty = "Boolean" -> {"Boolean"} [] ty = "Int64" -> {"Integer", "Decimal"}
                       [] ty = "Float64" -> {"Double", "Real"} [] ty = "List" -> {"Array"}
                       [] ty = "Decimal" -> {"Decimal"}
        held(j) == CASE j.t = "null" -> {"Null"} [] j.t = "bool" -> {"Boolean"}
                     [] j.t = "int" -> {"Double", "Real", "Decimal", "Integer"}
                     [] j.t = "float" -> {"Double", "Real", "Decimal"} [] j.t = "str" -> {"String"}
                     [] j.t = "arr" -> {"Array"} [] j.t = "obj" -> {"Object"}
        row(v) == IF v.ty \notin {"Utf8", "Null"} THEN Boolean(kind \in typed(v.ty))
                  ELSE IF ~v.some THEN NullOf("Boolean")
                  ELSE Parsed(LAMBDA j : Boolean(kind \in held(j)), v.j)
    IN  Rows(row, IntoArray(arg, 1))

\* AS_ARRAY, AS_OBJECT: texts are passed on unread, anything else is NULL.
as_func(arg) ==
    OneRow(Rows(LAMBDA v : IF v.ty = "Utf8" THEN v ELSE NullOf("Utf8"), ToArray(arg)))

\* TO_ARRAY: the elements of a row; a list is passed on, a NULL row is empty.
to_array(arg) ==
    LET row(v) == IF v.ty \in {"List", "Null"} THEN v
                  ELSE IF ~v.some THEN Value("List", JArr(<<>>))
                  ELSE IF v.ty = "Utf8" /\ IsArr(v.j)
                  THEN Value("List", JArr([n \in DOMAIN v.j.a |-> JText(v.j.a[n])]))
                  ELSE Value("List", JArr(<<encode_scalar(v)>>))
    IN  Rows(row, IntoArray(arg, 1))

to_object(arg) ==
    LET row(v) == IF v.ty \notin {"Utf8", "Null"} THEN Error("unsupported")
                  ELSE IF ~v.some THEN NullOf("Utf8")
                  ELSE IF IsObj(v.j) THEN v ELSE Error("object")
    IN  Rows(row, IntoArray(arg, 1))

to_variant(arg) == arg

\* The path library, for the paths "[n]".
Select(j, p) == IF IsArr(j) THEN GetIndex(j, p.i) ELSE <<>>

\* VARIANT_ELEMENT of what the JSON path selects.
variant_element(array, index, flatten) ==
    LET n == NumberRows(<<array, index>>)
        plain(j) == IF j = JNull THEN NullOf("Utf8") ELSE Utf8(IF j.t = "str" THEN j.a[1] ELSE j)
        row(v, p) == IF ~v.some \/ ~p.some \/ ~Parses(v.j) \/ Select(v.j, p.j) = <<>> THEN NullOf("Utf8")
                     ELSE IF ~flatten.col /\ Of(flatten).j = JBool(TRUE) THEN plain(Select(v.j, p.j)[1])
                     ELSE Utf8(JArr(Select(v.j, p.j)))
    IN  Rows2(row, IntoArray(array, n), IntoArray(index, n))

-----------------------------------------------------------------------------
(* encode_array: the JSON of each row, by the type of the column.  A       *)
(* nested value has "kids" and a struct "names".                           *)

Nested(ty, names, kids) == [ty |-> ty, some |-> TRUE, j |-> JNull, names |-> names, kids |-> kids]

\* Base64 of bytes: a text that is no JSON.
encode_binary(v) == JText(Ordered("base64", v.j.i))

\* Dates, times, timestamps and durations of every unit are their integers.
encode_time(v) == JInt(v.j.i)

\* The fields of an interval as strings, with its type and unit.
encode_interval(v) ==
    LET fields == CASE v.unit = "YearMonth" -> <<"value">>
                    [] v.unit = "DayTime" -> <<"days", "milliseconds">>
                    [] v.unit = "MonthDayNano" -> <<"months", "days", "nanoseconds">>
    IN  JObj(<<<<Raw("type"), JStr("interval")>>, <<Raw("unit"), JStr(v.unit)>>>> \o
             [n \in DOMAIN fields |-> <<Raw(fields[n]), JText(JInt(v.parts[n]))>>])

\* The cast of a decimal of n units to a double (external): beyond
\* MaxExactDouble units only every other one is a double.
MaxExactDouble == 4
AsDouble(n) == IF n \in (-MaxExactDouble)..MaxExactDouble THEN n ELSE 2 * (n \div 2)

\* Decimals are cast to doubles first.
encode_decimal128(v) == encode_float(Float64(2 * AsDouble(v.j.i)))

\* A wide decimal is the strings of its two halves.
encode_decimal256(v) == JArr(<<JText(JInt(v.parts[1])), JText(JInt(v.parts[2]))>>)

\* Booleans and integers as they are, texts as strings.
encode_flat(v) == IF v.ty \in {"Utf8", "LargeUtf8", "Utf8View"} THEN JText(v.j) ELSE v.j

\* Of a nested row, with the JSON of what it holds.
encode_list(elements) == JArr(elements)
encode_struct(names, columns) == ObjFrom([n \in DOMAIN columns |-> <<names[n], columns[n]>>])
encode_union(id, value) == JObj(<<<<Raw("type_id"), JInt(id)>>, <<Raw("value"), JArr(<<value>>)>>>>)

\* A map and a run-end-encoded row encode a slice of their own type again:
\* the recursion has no end.
StackOverflow == Raw("stack overflow")

RECURSIVE encode_row(_)
encode_row(v) ==
    LET kids == [n \in DOMAIN v.kids |-> encode_row(v.kids[n])]
    IN  CASE ~v.some -> JNull
          [] v.some /\ v.ty \in {"Boolean", "Int64", "UInt64", "Utf8", "LargeUtf8", "Utf8View"} -> encode_flat(v)
          [] v.some /\ v.ty \in {"Float16", "Float32", "Float64"} -> encode_float(v)
          [] v.some /\ v.ty = "Decimal128" -> encode_decimal128(v)
          [] v.some /\ v.ty = "Binary" -> encode_binary(v)
          [] v.some /\ v.ty \in {"Date", "Time", "Timestamp", "Duration"} -> encode_time(v)
          [] v.some /\ v.ty = "Interval" -> encode_interval(v)
          [] v.some /\ v.ty = "Decimal256" -> encode_decimal256(v)
          [] v.some /\ v.ty = "List" -> encode_list(kids)
          [] v.some /\ v.ty = "Struct" -> encode_struct(v.names, kids)
          [] v.some /\ v.ty = "Union" -> encode_union(v.id, kids[1])
          [] v.some /\ v.ty \in {"Map", "RunEndEncoded"} -> StackOverflow

\* A dictionary is encoded as its keys and values, not row by row.
encode_dictionary(keys, values) ==
    JObj(<<<<Raw("keys"), JArr([n \in DOMAIN keys |-> encode_row(keys[n])])>>,
           <<Raw("values"), JArr([n \in DOMAIN values |-> encode_row(values[n])])>>>>)

=============================================================================

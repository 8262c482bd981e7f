------------------------------ MODULE Variant ------------------------------
(***************************************************************************)
(* The values the SQL functions of crates/functions work on.               *)
(*                                                                         *)
(* A text is the serialisation of a JSON value, and is modelled by that    *)
(* value, or one that no JSON parser accepts, Raw(s).  A JSON string holds *)
(* a text.  Every JSON value has the same fields, so that any two can be   *)
(* compared: i is a number (of halves for a float) or the place of a Raw   *)
(* text in the order of texts, a the elements of an array or the text of a *)
(* string, o the <<key, value>> pairs of an object, in the order they were *)
(* inserted (serde_json is built with its preserve_order feature).  A key  *)
(* is a text.                                                              *)
(*                                                                         *)
(* A SQL value has a type and is NULL unless "some".  An argument or an    *)
(* answer of a function is a scalar or a column of values.                 *)
(***************************************************************************)
EXTENDS Integers, Sequences, FiniteSets, SequencesExt

JSON(t, i, s, a, o) == [t |-> t, i |-> i, s |-> s, a |-> a, o |-> o]

JNull == JSON("null", 0, "", <<>>, <<>>)
JBool(b) == JSON("bool", IF b THEN 1 ELSE 0, "", <<>>, <<>>)
JInt(n) == JSON("int", n, "", <<>>, <<>>)
JFloat(h) == JSON("float", h, "", <<>>, <<>>)
JArr(a) == JSON("arr", 0, "", a, <<>>)
JObj(o) == JSON("obj", 0, "", <<>>, o)
Ordered(s, n) == JSON("raw", n, s, <<>>, <<>>)
Raw(s) == Ordered(s, 0)
JText(t) == JSON("str", 0, "", <<t>>, <<>>)
JStr(s) == JText(Raw(s))

\* Texts joined by a separator, which no JSON parser is given again.
JoinedText(sep, texts) ==
    CASE Len(texts) = 0 -> Raw("")
      [] Len(texts) = 1 -> texts[1]
      [] Len(texts) > 1 -> JSON("joined", 0, "", <<sep>> \o texts, <<>>)

IsArr(j) == j.t = "arr"
IsObj(j) == j.t = "obj"
Parses(text) == text.t \notin {"raw", "joined"}

\* Map of serde_json: insert replaces the value of a key in its place, remove
\* puts the last entry in the place of the one that goes.
ObjKeys(j) == {j.o[n][1] : n \in DOMAIN j.o}
ObjPlace(j, key) == SelectInSeq(j.o, LAMBDA p : p[1] = key)
ObjGet(j, key) == j.o[ObjPlace(j, key)][2]
ObjPut(j, key, v) ==
    IF key \in ObjKeys(j) THEN JObj([j.o EXCEPT ![ObjPlace(j, key)] = <<key, v>>]) ELSE JObj(Append(j.o, <<key, v>>))
ObjRemove(j, key) ==
    IF key \in ObjKeys(j) THEN JObj(Front([j.o EXCEPT ![ObjPlace(j, key)] = Last(j.o)])) ELSE j
ObjFrom(pairs) == FoldLeft(LAMBDA j, p : ObjPut(j, p[1], p[2]), JObj(<<>>), pairs)

\* The value of a text: two objects are equal (==) whatever the order of their
\* entries, though their texts differ.  A string is compared by its text.
RECURSIVE Canonical(_)
Canonical(j) ==
    CASE IsArr(j) -> [j EXCEPT !.a = [n \in DOMAIN j.a |-> Canonical(j.a[n])]]
      [] IsObj(j) -> [j EXCEPT !.o = {<<j.o[n][1], Canonical(j.o[n][2])>> : n \in DOMAIN j.o}]
      [] OTHER -> j
Same(x, y) == Canonical(x) = Canonical(y)
Has(a, x) == \E n \in DOMAIN a : Same(a[n], x)

-----------------------------------------------------------------------------

Value(ty, j) == [ty |-> ty, some |-> TRUE, j |-> j]
NullOf(ty) == [ty |-> ty, some |-> FALSE, j |-> JNull]
Untyped == NullOf("Null")
Utf8(text) == Value("Utf8", text)
Int64(n) == Value("Int64", JInt(n))
Float64(h) == Value("Float64", JFloat(h))
Boolean(b) == Value("Boolean", JBool(b))
Opt(ty, js) == IF js = <<>> THEN NullOf(ty) ELSE Value(ty, js[1])

\* An error in the place of a value; an error panics when it is "panic".
Error(e) == Value("Error", Raw(e))
IsError(v) == v.ty = "Error"

Scalar(v) == [col |-> FALSE, vs |-> <<v>>]
Column(vs) == [col |-> TRUE, vs |-> vs]
Fail(e) == Scalar(Error(e))
Failed(r) == ~r.col /\ IsError(r.vs[1])

Of(arg) == arg.vs[1]
IsText(v) == v.ty = "Utf8" /\ v.some
IsNullText(v) == v.ty \in {"Utf8", "Null"} /\ ~v.some

\* A single or half precision float with no fraction is written as an
\* integer, a double never is.
encode_float(v) == IF v.ty \in {"Float16", "Float32"} /\ v.j.i % 2 = 0 THEN JInt(v.j.i \div 2) ELSE v.j

\* encode_scalar, and encode_array of one row: the JSON value of a SQL value.
encode_scalar(v) ==
    CASE ~v.some -> JNull
      [] v.some /\ v.ty = "Utf8" -> JText(v.j)
      [] v.some /\ v.ty # "Utf8" -> encode_float(v)

\* A loop over the rows with ?: the first error ends it.
Rows(f(_), vs) ==
    LET rs == [n \in DOMAIN vs |-> f(vs[n])]
        bad == SelectInSeq(rs, IsError)
    IN  IF bad # 0 THEN Scalar(rs[bad]) ELSE Column(rs)

\* The same over two columns of the same length.
Rows2(f(_, _), us, vs) == Rows(LAMBDA p : f(p[1], p[2]), Zip(us, vs))

\* ColumnarValue::into_array.
IntoArray(arg, n) == IF arg.col THEN arg.vs ELSE [m \in 1..n |-> arg.vs[1]]
NumberRows(args) ==
    IF \E n \in DOMAIN args : args[n].col
    THEN Len(args[SelectInSeq(args, LAMBDA x : x.col)].vs) ELSE 1

\* Rows of texts: NULL rows give NULL, the others go through f.
TextRows(f(_), ty, vs) == Rows(LAMBDA v : IF v.some THEN f(v.j) ELSE NullOf(ty), vs)

\* The text "NULL", in any case, is a JSON null once it is lower-cased.
LowerCased(text) == IF text = Raw("NULL") THEN JNull ELSE text

\* A JSON text through f, or an error when it does not parse.
Parsed(f(_), text) == IF Parses(text) THEN f(text) ELSE Error("json")

=============================================================================

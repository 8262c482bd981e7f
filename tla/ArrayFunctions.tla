--------------------------- MODULE ArrayFunctions ---------------------------
(***************************************************************************)
(* The ARRAY functions of crates/functions/src/semi-structured/array.      *)
(* Each operator is one UDF: its answer for scalar and for column          *)
(* arguments, with the order in which arguments are looked at.  A column   *)
(* of arrays is a column of texts.                                         *)
(***************************************************************************)
EXTENDS Variant

\* The scalar forms take a text; "none" is what they answer otherwise.
TextScalar(f(_), v, none) == Scalar(IF IsText(v) THEN f(v.j) ELSE none)

\* An array element by element, or an error.
OnArray(f(_), j) == IF IsArr(j) THEN f(j.a) ELSE Error("must be a JSON array")

\* Mutant: a position counted from the end may be before the start.
insert_element_unclamped(j, pos, x) ==
    OnArray(LAMBDA a :
        LET p == IF pos < 0 THEN Len(a) + pos + 1 ELSE pos
        IN  IF p > Len(a) \/ p < 0 THEN Error("out of bounds") ELSE Utf8(JArr(InsertAt(a, p + 1, x))), j)

insert_element(j, pos, x) ==
    OnArray(LAMBDA a :
        LET p == IF pos < 0 THEN Max({Len(a) + pos, 0}) ELSE pos
        IN  IF p > Len(a) THEN Error("out of bounds") ELSE Utf8(JArr(InsertAt(a, p + 1, x))), j)

array_insert(array, pos, element) ==
    LET insert(text) == Parsed(LAMBDA j : insert_element(j, Of(pos).j.i, encode_scalar(Of(element))), text)
        isInt == Of(pos).ty = "Int64" /\ Of(pos).some
    IN  CASE pos.col \/ element.col -> Fail("types")
          [] ~pos.col /\ ~element.col /\ array.col ->
                IF ~isInt THEN Fail("integer") ELSE TextRows(insert, "Utf8", array.vs)
          [] ~pos.col /\ ~element.col /\ ~array.col ->
                IF IsText(Of(array)) /\ ~isInt THEN Fail("integer")
                ELSE TextScalar(insert, Of(array), Error("utf8"))

remove_at_position(j, pos) ==
    OnArray(LAMBDA a :
        LET p == IF pos < 0 THEN pos + Len(a) ELSE pos
        IN  IF p < 0 \/ p >= Len(a) THEN NullOf("Utf8") ELSE Utf8(JArr(RemoveAt(a, p + 1))), j)

\* A NULL position is NULL for all rows; a scalar NULL array is an error.
array_remove_at(array, position) ==
    LET v == Of(position)
        remove(text) == Parsed(LAMBDA j : remove_at_position(j, v.j.i), text)
    IN  CASE position.col -> Fail("types")
          [] ~position.col /\ ~array.col /\ ~IsText(Of(array)) -> Fail("utf8")
          [] ~position.col /\ (array.col \/ IsText(Of(array))) ->
                IF ~v.some /\ (~array.col \/ v.ty \in {"Null", "Int64"}) THEN Scalar(NullOf("Utf8"))
                ELSE IF v.ty # "Int64" THEN Fail("integer")
                ELSE IF array.col THEN TextRows(remove, "Utf8", array.vs)
                ELSE Scalar(remove(Of(array).j))

slice_array(j, from, to) ==
    OnArray(LAMBDA a :
        LET f == IF from < 0 THEN from + Len(a) ELSE from
            t == IF to < 0 THEN to + Len(a) ELSE to
        IN  IF f < 0 \/ f >= Len(a) \/ t < f \/ t > Len(a) THEN NullOf("Utf8")
            ELSE Utf8(JArr(SubSeq(a, f + 1, t))), j)

array_slice(array, from, to) ==
    LET u == Of(from)
        v == Of(to)
        bad(w) == w.ty # "Int64" /\ w # Untyped
        slice(text) == Parsed(LAMBDA j : slice_array(j, u.j.i, v.j.i), text)
    IN  CASE from.col \/ to.col -> Fail("types")
          [] ~from.col /\ ~to.col /\ ~array.col /\ ~IsText(Of(array)) -> Fail("utf8")
          [] ~from.col /\ ~to.col /\ (array.col \/ IsText(Of(array))) ->
                IF ~array.col /\ (~u.some \/ ~v.some) THEN Scalar(NullOf("Utf8"))
                ELSE IF bad(u) THEN Fail("integer")
                ELSE IF ~u.some THEN Scalar(NullOf("Utf8"))
                ELSE IF bad(v) THEN Fail("integer")
                ELSE IF ~v.some THEN Scalar(NullOf("Utf8"))
                ELSE IF array.col THEN TextRows(slice, "Utf8", array.vs)
                ELSE Scalar(slice(Of(array).j))

\* A column or a scalar of arrays, with a scalar element.
WithElement(f(_), array, element) ==
    IF element.col THEN Fail("types")
    ELSE IF array.col THEN TextRows(f, "Utf8", array.vs)
    ELSE TextScalar(f, Of(array), Error("utf8"))

array_append(array, element) ==
    WithElement(LAMBDA text : Parsed(LAMBDA j :
        OnArray(LAMBDA a : Utf8(JArr(Append(a, encode_scalar(Of(element))))), j), text), array, element)

array_prepend(array, element) ==
    WithElement(LAMBDA text : Parsed(LAMBDA j :
        OnArray(LAMBDA a : Utf8(JArr(<<encode_scalar(Of(element))>> \o a)), j), text), array, element)

\* A NULL element gives NULL before the array is looked at.
array_remove(array, element) ==
    WithElement(LAMBDA text : Parsed(LAMBDA j :
        IF ~Of(element).some THEN NullOf("Utf8")
        ELSE OnArray(LAMBDA a : Utf8(JArr(SelectSeq(a, LAMBDA x : ~Same(x, encode_scalar(Of(element)))))), j), text),
        array, element)

\* Two columns or two scalars.
Pairs(f(_, _), g(_, _), us, vs) ==
    CASE us.col /\ vs.col -> Rows2(f, us.vs, vs.vs)
      [] ~us.col /\ ~vs.col -> Scalar(g(Of(us), Of(vs)))
      [] us.col # vs.col -> Fail("types")

contains_value(x, text) ==
    Parsed(LAMBDA j :
        IF ~IsArr(j) \/ (x = JNull /\ ~Has(j.a, JNull)) THEN NullOf("Boolean")
        ELSE Boolean(Has(j.a, x)), text)

array_contains(value, array) ==
    Pairs(LAMBDA x, v : IF v.some THEN contains_value(encode_scalar(x), v.j) ELSE NullOf("Boolean"),
          LAMBDA x, v : IF IsNullText(v) THEN NullOf("Boolean")
                        ELSE IF IsText(v) THEN contains_value(encode_scalar(x), v.j)
                        ELSE Error("utf8"),
          value, array)

\* The first position of the element; not an array has none.
position_of(x, j) ==
    IF IsArr(j) /\ Has(j.a, x) THEN Int64(SelectInSeq(j.a, LAMBDA y : Same(y, x)) - 1) ELSE NullOf("Int64")

array_position(element, array) ==
    LET find(x, v) == Parsed(LAMBDA j : position_of(encode_scalar(x), j), v.j)
    IN  Pairs(LAMBDA x, v : IF v.some THEN find(x, v) ELSE NullOf("Int64"),
              LAMBDA x, v : IF IsText(v) THEN find(x, v) ELSE Error("string"),
              element, array)

\* Both texts parse, then f of the two arrays, NULL when one is not an array.
BothArrays(f(_, _), us, vs) ==
    LET row(u, v) == IF ~u.some \/ ~v.some THEN NullOf("Utf8")
                     ELSE IF ~Parses(u.j) \/ ~Parses(v.j) THEN Error("json")
                     ELSE IF IsArr(u.j) /\ IsArr(v.j) THEN Utf8(JArr(f(u.j.a, v.j.a)))
                     ELSE NullOf("Utf8")
        scalar(u, v) == IF IsNullText(u) THEN NullOf("Utf8")
                        ELSE IF ~IsText(u) THEN Error("first")
                        ELSE IF ~IsNullText(v) /\ ~IsText(v) THEN Error("second")
                        ELSE row(u, v)
    IN  Pairs(row, scalar, us, vs)

array_except(us, vs) == BothArrays(LAMBDA a, b : SelectSeq(a, LAMBDA x : ~Has(b, x)), us, vs)

\* The elements of the second array that are in the first.
array_intersection(us, vs) ==
    BothArrays(LAMBDA a, b : SelectSeq(b, LAMBDA x : Has(a, x)), us, vs)

\* The elements' texts are compared, not their values.
arrays_overlap(us, vs) ==
    LET both(u, v) == IF ~Parses(u.j) \/ ~Parses(v.j) THEN Error("json")
                      ELSE IF IsArr(u.j) /\ IsArr(v.j) THEN Boolean(ToSet(u.j.a) \cap ToSet(v.j.a) # {})
                      ELSE Error("arrays")
        row(u, v) == IF ~u.some \/ ~v.some THEN NullOf("Boolean") ELSE both(u, v)
        scalar(u, v) == IF ~u.some \/ ~v.some THEN NullOf("Boolean")
                        ELSE IF u.ty # "Utf8" \/ v.ty # "Utf8" THEN Error("utf8") ELSE both(u, v)
    IN  Pairs(row, scalar, us, vs)

\* One array, with an answer for a scalar that is not a text.
OneArray(f(_), ty, none(_), array) ==
    IF array.col THEN TextRows(LAMBDA text : Parsed(f, text), ty, array.vs)
    ELSE TextScalar(LAMBDA text : Parsed(f, text), Of(array), none(Of(array)))

Utf8Expected(v) == Error("utf8")

\* Display of a float has no point when there is no fraction.
WrittenNumber(j) == IF j.t = "float" /\ j.i % 2 = 0 THEN JInt(j.i \div 2) ELSE j

\* The number i64 or f64 that is smallest (sign 1) or largest (sign -1) among
\* those of the first number's type, as a text.
Extreme(a, sign) ==
    LET nums == SelectSeq(a, LAMBDA x : x.t \in {"int", "float"})
        same == SelectSeq(nums, LAMBDA x : x.t = nums[1].t)
    IN  IF nums = <<>> THEN <<>>
        ELSE <<WrittenNumber(CHOOSE x \in ToSet(same) : \A y \in ToSet(same) : sign * x.i <= sign * y.i)>>

array_min(array) ==
    OneArray(LAMBDA j : IF IsArr(j) THEN Opt("Utf8", Extreme(j.a, 1)) ELSE NullOf("Utf8"), "Utf8", Utf8Expected, array)

array_max(array) ==
    OneArray(LAMBDA j : IF IsArr(j) THEN Opt("Utf8", Extreme(j.a, -1)) ELSE NullOf("Utf8"), "Utf8", Utf8Expected, array)

array_reverse(array) ==
    OneArray(LAMBDA j : OnArray(LAMBDA a : Utf8(JArr(Reverse(a))), j), "Utf8",
             LAMBDA v : IF v.some THEN Error("utf8") ELSE NullOf("Utf8"), array)

array_size(array) ==
    OneArray(LAMBDA j : IF IsArr(j) THEN Int64(Len(j.a)) ELSE NullOf("Int64"), "Int64",
             LAMBDA v : IF IsNullText(v) THEN NullOf("Int64") ELSE Error("utf8"), array)

array_compact(array) ==
    OneArray(LAMBDA j : OnArray(LAMBDA a : Utf8(JArr(SelectSeq(a, LAMBDA x : x # JNull))), j),
             "Utf8", Utf8Expected, array)

\* The first occurrence of each element is kept.
FirstOnly(a) ==
    FoldLeft(LAMBDA seen, x : IF Has(seen, x) THEN seen ELSE Append(seen, x), <<>>, a)

array_distinct(array) ==
    OneArray(LAMBDA j : IF IsArr(j) THEN Utf8(JArr(FirstOnly(j.a))) ELSE NullOf("Utf8"),
             "Utf8", Utf8Expected, array)

\* IS_ARRAY: a text that is no JSON is FALSE.
is_array(arg) ==
    Rows(LAMBDA v : IF v.some THEN Boolean(IsArr(v.j)) ELSE NullOf("Boolean"), IntoArray(arg, NumberRows(<<arg>>)))

type_order(j) ==
    CASE j.t = "bool" -> 0 [] j.t \in {"int", "float"} -> 1 [] j.t = "str" -> 2
      [] j.t = "arr" -> 3 [] j.t = "obj" -> 4 [] j.t = "null" -> 5

\* compare_json_values as the place of a value: arrays and objects are all equal.
Place(j) ==
    CASE j.t = "int" -> 2 * j.i [] j.t = "float" -> j.i [] j.t = "bool" -> j.i
      [] j.t = "str" -> j.a[1].i [] j.t \in {"arr", "obj", "null"} -> 0

Before(x, y) == type_order(x) < type_order(y) \/ (type_order(x) = type_order(y) /\ Place(x) < Place(y))

\* sort_by is stable.
StableSort(a, lt(_, _)) ==
    LET rank(n) == Cardinality({m \in DOMAIN a : lt(a[m], a[n]) \/ (m <= n /\ ~lt(a[n], a[m]))})
    IN  [p \in DOMAIN a |-> a[CHOOSE n \in DOMAIN a : rank(n) = p]]

\* Nulls are last in ascending order and first in descending order.
sort_array(a, ascending) == StableSort(a, LAMBDA x, y : IF ascending THEN Before(x, y) ELSE Before(y, x))

\* array_sort: the third argument, nulls_first, is read and not used.
array_sort(array, ascending, nulls_first) ==
    LET up == IF ascending.col \/ Of(ascending).ty # "Boolean" \/ ~Of(ascending).some
              THEN TRUE ELSE Of(ascending).j = JBool(TRUE)
    IN  OneArray(LAMBDA j : OnArray(LAMBDA a : Utf8(JArr(sort_array(a, up))), j), "Utf8",
                 LAMBDA v : IF v.ty = "Utf8" THEN NullOf("Utf8") ELSE Error("first"), array)

\* The key "$n" of the n-th array.
Dollar(n) == Ordered("$", n)

zip_arrays(js) ==
    LET longest == Max({Len(js[n].a) : n \in DOMAIN js})
        cell(n, p) == IF p <= Len(js[n].a) THEN js[n].a[p] ELSE JNull
    IN  IF \E n \in DOMAIN js : js[n] = JNull THEN NullOf("Utf8")
        ELSE IF \E n \in DOMAIN js : ~IsArr(js[n]) THEN Error("arrays")
        ELSE Utf8(JArr([p \in 1..longest |-> JObj([n \in DOMAIN js |-> <<Dollar(n), cell(n, p)>>])]))

\* The arguments are taken in order: the first NULL or failure decides.
zip_row(vs) ==
    LET odd == SelectInSeq(vs, LAMBDA v : ~v.some \/ v.ty # "Utf8" \/ ~Parses(v.j))
    IN  IF odd = 0 THEN zip_arrays([n \in DOMAIN vs |-> vs[n].j])
        ELSE IF ~vs[odd].some THEN NullOf("Utf8") ELSE Error("json")

arrays_zip(args) ==
    LET row(r) == [n \in DOMAIN args |->
                      IF args[n].col = args[1].col THEN args[n].vs[r] ELSE Error("mixed")]
    IN  IF args = <<>> THEN Fail("at least one")
        ELSE IF args[1].col THEN Rows(zip_row, [r \in DOMAIN args[1].vs |-> row(r)])
        ELSE Scalar(zip_row(row(1)))

\* Both texts must be there; a NULL row of a column is an error too.
array_cat(us, vs) ==
    LET arrays(t) == IF ~Parses(t) THEN Error("json") ELSE IF IsArr(t) THEN Utf8(t) ELSE Error("arrays")
        cat(u, v) == IF ~u.some \/ ~v.some THEN Error("null")
                     ELSE IF IsError(arrays(u.j)) THEN arrays(u.j)
                     ELSE IF IsError(arrays(v.j)) THEN arrays(v.j)
                     ELSE Utf8(JArr(u.j.a \o v.j.a))
    IN  IF (~us.col /\ ~IsText(Of(us))) \/ (~vs.col /\ ~IsText(Of(vs))) THEN Fail("types")
        ELSE IF us.col \/ vs.col
             THEN Rows2(cat, IntoArray(us, NumberRows(<<us, vs>>)), IntoArray(vs, NumberRows(<<us, vs>>)))
        ELSE Scalar(cat(Of(us), Of(vs)))

\* Keys without NULLs; a later key replaces an earlier one.
create_object(keys, values) ==
    LET pairs == SelectSeq([n \in DOMAIN keys |-> <<keys[n], values[n]>>], LAMBDA p : p[1].some)
    IN  IF Len(keys) # Len(values) THEN NullOf("Utf8")
        ELSE Utf8(ObjFrom([n \in DOMAIN pairs |-> <<pairs[n][1].j, pairs[n][2]>>]))

\* Two columns are one array of keys and one of values, the same for every row.
arrays_to_object(ks, vs) ==
    LET value(v) == IF ~v.some THEN JNull ELSE IF Parses(v.j) THEN v.j ELSE JText(v.j)
        key(j) == IF j = JNull THEN NullOf("Utf8") ELSE Utf8(IF j.t = "str" THEN j.a[1] ELSE j)
        both(k, v) == IF ~IsText(k) \/ ~IsText(v) THEN NullOf("Utf8")
                      ELSE IF ~Parses(k.j) \/ ~Parses(v.j) THEN Error("json")
                      ELSE IF ~IsArr(k.j) \/ ~IsArr(v.j) THEN Error("arrays")
                      ELSE create_object([n \in DOMAIN k.j.a |-> key(k.j.a[n])], v.j.a)
    IN  CASE ks.col /\ vs.col ->
                Column([n \in DOMAIN ks.vs |->
                    IF ~ks.vs[n].some /\ ~vs.vs[n].some THEN NullOf("Utf8")
                    ELSE create_object(ks.vs, [m \in DOMAIN vs.vs |-> value(vs.vs[m])])])
          [] ~ks.col /\ ~vs.col -> Scalar(both(Of(ks), Of(vs)))
          [] ks.col # vs.col -> Fail("arrays")

\* (start..stop).step_by(step as usize): a negative step is a huge one, 0 panics.
step_by(start, stop, step) ==
    IF start >= stop THEN <<>>
    ELSE IF step < 0 THEN <<JInt(start)>>
    ELSE [n \in 1..((stop - start + step - 1) \div step) |-> JInt(start + (n - 1) * step)]

\* One array of all the rows, those with a NULL left out.
array_generate_range(start, stop, step) ==
    LET n == NumberRows(<<start, stop, step>>)
        of(arg, r) == IntoArray(arg, n)[r]
        used == SelectSeq([r \in 1..n |-> r],
                          LAMBDA r : of(start, r).some /\ of(stop, r).some /\ of(step, r).some)
        range(r) == step_by(of(start, r).j.i, of(stop, r).j.i, of(step, r).j.i)
    IN  IF \E r \in ToSet(used) : of(step, r).j.i = 0 THEN Fail("panic")
        ELSE Scalar(Utf8(JArr(FlattenSeq([m \in DOMAIN used |-> range(used[m])]))))

\* An element of a constructed array that is a text and parses is its JSON value.
Element(v) == IF ~v.some THEN JNull
              ELSE IF v.ty = "Utf8" /\ ~Parses(v.j) THEN JText(v.j) ELSE v.j

array_construct(args) ==
    LET n == NumberRows(args)
    IN  Column([r \in 1..n |-> Utf8(JArr([m \in DOMAIN args |-> Element(IntoArray(args[m], n)[r])]))])

RECURSIVE flatten_inner(_)
flatten_inner(j) ==
    LET arr == SelectInSeq(j.a, LAMBDA x : ~IsArr(x))
        obj == [n \in DOMAIN j.o |-> <<j.o[n][1], flatten_inner(j.o[n][2])>>]
    IN  CASE IsArr(j) -> IF arr = 0 THEN Utf8(JArr(FlattenSeq([n \in DOMAIN j.a |-> j.a[n].a])))
                         ELSE IF j.a[arr] = JNull THEN Utf8(JNull) ELSE Error("not an array of arrays")
          [] IsObj(j) -> IF \E n \in DOMAIN obj : IsError(obj[n][2]) THEN Error("not an array of arrays")
                         ELSE Utf8(JObj([n \in DOMAIN obj |-> <<obj[n][1], obj[n][2].j>>]))
          [] ~IsArr(j) /\ ~IsObj(j) -> Utf8(j)

\* The word NULL is lower-cased before parsing; a JSON null is NULL.
array_flatten(arg) ==
    LET parse(text) == IF Parses(LowerCased(text)) THEN LowerCased(text) ELSE JText(text)
        row(v) == IF ~v.some THEN NullOf("Utf8")
                  ELSE LET r == flatten_inner(IF v.ty = "Utf8" THEN parse(v.j) ELSE v.j)
                       IN  IF r = Utf8(JNull) THEN NullOf("Utf8") ELSE r
    IN  Rows(row, IntoArray(arg, NumberRows(<<arg>>)))

\* A string that parses is rendered as its JSON value, an inner array as JSON text.
RECURSIVE to_string(_, _)
to_string(j, sep) ==
    LET inner(x) == IF x.t \in {"arr", "obj"} THEN x ELSE to_string(x, sep)
    IN  CASE IsArr(j) -> JoinedText(sep, [n \in DOMAIN j.a |-> inner(j.a[n])])
          [] j = JNull -> Raw("")
          [] j.t = "str" -> IF Parses(j.a[1]) THEN to_string(j.a[1], sep) ELSE j.a[1]
          [] j.t \in {"obj", "bool", "int", "float"} -> j

array_to_string(array, sep) ==
    LET n == NumberRows(<<array, sep>>)
        text(v) == IF v.some THEN v.j ELSE Raw("")
    IN  Rows2(LAMBDA v, w : IF v.some THEN Utf8(to_string(encode_scalar(v), text(w))) ELSE NullOf("Utf8"),
              IntoArray(array, n), IntoArray(sep, n))

=============================================================================

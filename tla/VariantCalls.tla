---------------------------- MODULE VariantCalls ----------------------------
(***************************************************************************)
(* Calls of the functions on JSON values: ARRAY_*, OBJECT_*, GET, GET_PATH,*)
(* TYPEOF, IS_*, PARSE_JSON, TO_ARRAY, TO_OBJECT and FLATTEN.              *)
(***************************************************************************)
EXTENDS Calls

CONSTANTS
    Documents,   \* the texts, JSON or not, that arguments hold
    RowTexts,    \* those that a row of a column may hold
    Names,       \* the texts used as keys, each with its lower-cased form
    Ints,        \* the integers that arguments hold
    Paths        \* the paths of GET_PATH and FLATTEN

A == INSTANCE ArrayFunctions
S == INSTANCE Flatten

Cells == {S!Utf8(d) : d \in Documents} \cup {S!Int64(n) : n \in Ints}
         \cup {S!NullOf("Utf8"), S!Untyped, S!Boolean(TRUE)}
RowCells == {S!Utf8(d) : d \in RowTexts} \cup {S!NullOf("Utf8")}
Columns == {S!Column(<<u, v>>) : u, v \in RowCells}
Scalars == {S!Scalar(v) : v \in Cells}
TextArgs == Scalars \cup Columns
IntArgs == {S!Scalar(S!Int64(n)) : n \in Ints} \cup {S!Scalar(S!NullOf("Int64")), S!Scalar(S!Untyped)}
KeyArgs == {S!Scalar(S!Utf8(k)) : k \in DOMAIN Names} \cup {S!Scalar(S!NullOf("Utf8")), S!Scalar(S!Int64(0))}
FlagArgs == {S!Scalar(S!Boolean(b)) : b \in BOOLEAN} \cup {S!Scalar(S!NullOf("Boolean"))}
SmallArgs == {S!Scalar(v) : v \in RowCells} \cup {S!Column(<<v, v>>) : v \in RowCells}

\* A row of each type that encode_array has an encoder for.
TypedCells ==
    LET at(ty, n) == S!Value(ty, S!JInt(n))
        interval(unit, parts) == [ty |-> "Interval", some |-> TRUE, unit |-> unit, parts |-> parts]
        names == <<S!Raw("k"), S!Raw("l")>>
    IN  Cells \cup {S!Value(ty, S!JFloat(n)) : ty \in {"Float32", "Float64"}, n \in Ints}
        \cup {at(ty, n) : ty \in {"Binary", "Date", "Time", "Timestamp", "Duration"}, n \in Ints}
        \cup {at("Decimal128", n) : n \in Ints \cup {S!MaxExactDouble, S!MaxExactDouble + 1}}
        \cup {interval("YearMonth", <<n>>) : n \in Ints}
        \cup {interval("DayTime", <<m, n>>) : m, n \in Ints}
        \cup {interval("MonthDayNano", <<1, m, n>>) : m, n \in Ints}
        \cup {[ty |-> "Decimal256", some |-> TRUE, parts |-> <<m, n>>] : m, n \in Ints}
        \cup {S!Nested(ty, names, <<u, v>>) : ty \in {"List", "Struct"}, u, v \in RowCells}
        \cup {[ty |-> "Union", some |-> TRUE, id |-> n, kids |-> <<u>>] : n \in Ints, u \in RowCells}
        \cup {[ty |-> ty, some |-> TRUE, kids |-> <<>>] : ty \in {"Map", "RunEndEncoded"}}

Kinds == {"Null", "Boolean", "Double", "Real", "Decimal", "Integer", "String", "Array", "Object"}

ArrayUnary == {"ARRAY_MIN", "ARRAY_MAX", "ARRAY_REVERSE", "ARRAY_SIZE", "ARRAY_COMPACT", "ARRAY_DISTINCT",
               "ARRAY_FLATTEN", "IS_ARRAY"}
ArrayPairs == {"ARRAY_EXCEPT", "ARRAY_INTERSECTION", "ARRAYS_OVERLAP", "ARRAY_CAT", "ARRAYS_TO_OBJECT",
               "ARRAYS_ZIP", "ARRAY_CONSTRUCT", "ARRAY_CONTAINS", "ARRAY_POSITION", "ARRAY_TO_STRING"}
ArrayWithElement == {"ARRAY_APPEND", "ARRAY_PREPEND", "ARRAY_REMOVE"}
ValueUnary == {"OBJECT_KEYS", "IS_OBJECT", "PARSE_JSON", "TRY_PARSE_JSON", "TYPEOF", "AS_ARRAY", "TO_ARRAY",
               "TO_OBJECT", "TO_VARIANT"}

\* The texts with elements missing that PARSE_JSON repairs.
Repaired == (S!Raw("[,]") :> S!JArr(<<S!JNull, S!JNull>>))

ArrayOf(f, a) ==
    CASE f = "ARRAY_MIN" -> A!array_min(a)
      [] f = "ARRAY_MAX" -> A!array_max(a)
      [] f = "ARRAY_REVERSE" -> A!array_reverse(a)
      [] f = "ARRAY_SIZE" -> A!array_size(a)
      [] f = "ARRAY_COMPACT" -> A!array_compact(a)
      [] f = "ARRAY_DISTINCT" -> A!array_distinct(a)
      [] f = "ARRAY_FLATTEN" -> A!array_flatten(a)
      [] f = "IS_ARRAY" -> A!is_array(a)

PairOf(f, a, b) ==
    CASE f = "ARRAY_CONTAINS" -> A!array_contains(a, b)
      [] f = "ARRAY_POSITION" -> A!array_position(a, b)
      [] f = "ARRAY_EXCEPT" -> A!array_except(a, b)
      [] f = "ARRAY_INTERSECTION" -> A!array_intersection(a, b)
      [] f = "ARRAYS_OVERLAP" -> A!arrays_overlap(a, b)
      [] f = "ARRAY_CAT" -> A!array_cat(a, b)
      [] f = "ARRAYS_TO_OBJECT" -> A!arrays_to_object(a, b)
      [] f = "ARRAYS_ZIP" -> A!arrays_zip(<<a, b>>)
      [] f = "ARRAY_CONSTRUCT" -> A!array_construct(<<a, b>>)
      [] f = "ARRAY_TO_STRING" -> A!array_to_string(a, b)

ElementOf(f, a, x) ==
    CASE f = "ARRAY_APPEND" -> A!array_append(a, x)
      [] f = "ARRAY_PREPEND" -> A!array_prepend(a, x)
      [] f = "ARRAY_REMOVE" -> A!array_remove(a, x)

ValueOf(f, a) ==
    CASE f = "OBJECT_KEYS" -> S!object_keys(a)
      [] f = "IS_OBJECT" -> S!is_object(a)
      [] f = "PARSE_JSON" -> S!parse_json(a, FALSE, Repaired)
      [] f = "TRY_PARSE_JSON" -> S!parse_json(a, TRUE, Repaired)
      [] f = "TYPEOF" -> S!typeof(a)
      [] f = "AS_ARRAY" -> S!as_func(a)
      [] f = "TO_ARRAY" -> S!to_array(a)
      [] f = "TO_OBJECT" -> S!to_object(a)
      [] f = "TO_VARIANT" -> S!to_variant(a)

KeysOf(f, a, keys) == IF f = "OBJECT_PICK" THEN S!object_pick(a, keys) ELSE S!object_delete(a, keys)

CallArray ==
    /\ Idle
    /\ \/ \E f \in ArrayUnary, a \in TextArgs : Invoke(f, <<a>>, ArrayOf(f, a))
       \/ \E f \in ArrayPairs, a, b \in TextArgs : Invoke(f, <<a, b>>, PairOf(f, a, b))
       \/ \E f \in ArrayWithElement, a \in TextArgs, x \in Scalars : Invoke(f, <<a, x>>, ElementOf(f, a, x))
       \/ \E a \in TextArgs, p \in IntArgs, x \in SmallArgs : Invoke("ARRAY_INSERT", <<a, p, x>>, A!array_insert(a, p, x))
       \/ \E a \in TextArgs, p \in IntArgs : Invoke("ARRAY_REMOVE_AT", <<a, p>>, A!array_remove_at(a, p))
       \/ \E a \in TextArgs, p, q \in IntArgs : Invoke("ARRAY_SLICE", <<a, p, q>>, A!array_slice(a, p, q))
       \/ \E a \in TextArgs, up, first \in FlagArgs : Invoke("ARRAY_SORT", <<a, up, first>>, A!array_sort(a, up, first))
       \/ \E p, q, r \in IntArgs : Invoke("ARRAY_GENERATE_RANGE", <<p, q, r>>, A!array_generate_range(p, q, r))

CallObject ==
    /\ Idle
    /\ \/ \E f \in ValueUnary, a \in TextArgs : Invoke(f, <<a>>, ValueOf(f, a))
       \/ \E keep \in BOOLEAN, k, l \in KeyArgs, u, v \in Scalars :
             Invoke(IF keep THEN "OBJECT_CONSTRUCT_KEEP_NULL" ELSE "OBJECT_CONSTRUCT", <<k, u, l, v>>,
                    S!object_construct(<<k, u, l, v>>, keep))
       \/ \E a \in TextArgs, k \in KeyArgs, v \in SmallArgs, up \in FlagArgs :
             Invoke("OBJECT_INSERT", <<a, k, v, up>>, S!object_insert(a, k, v, up))
       \/ \E f \in {"OBJECT_PICK", "OBJECT_DELETE"}, a \in TextArgs, k, l \in KeyArgs :
             Invoke(f, <<a, k, l>>, KeysOf(f, a, <<k, l>>))
       \/ \E fold \in BOOLEAN, a \in TextArgs, k \in KeyArgs \cup IntArgs :
             Invoke(IF fold THEN "GET_IGNORE_CASE" ELSE "GET", <<a, k>>, S!get(a, k, fold, Names))
       \/ \E a \in TextArgs, p \in Paths : Invoke("GET_PATH", <<a, p>>, S!get_path(a, p))
       \/ \E kind \in Kinds, a \in TextArgs : Invoke("IS_TYPEOF", <<kind, a>>, S!is_typeof(kind, a))
       \/ \E a \in TextArgs, n \in Ints, flat \in FlagArgs :
             LET p == S!Scalar(S!Utf8(S!Ordered("[", n)))
             IN  Invoke("VARIANT_ELEMENT", <<a, p, flat>>, S!variant_element(a, p, flat))

\* encode_array of a row, here of two rows so that their JSON can be compared,
\* and of two dictionaries.
CallEncode ==
    /\ Idle
    /\ \/ \E u, v \in TypedCells : Invoke("ENCODE", <<u, v>>, <<S!encode_row(u), S!encode_row(v)>>)
       \/ \E k, l \in {0, 1}, u, v \in RowCells :
             LET dictionary(n, vs) == [ty |-> "Dictionary", keys |-> <<S!Int64(n)>>, values |-> vs]
             IN  Invoke("ENCODE", <<dictionary(k, <<u, v>>), dictionary(l, <<v, u>>)>>,
                        <<S!encode_dictionary(<<S!Int64(k)>>, <<u, v>>), S!encode_dictionary(<<S!Int64(l)>>, <<v, u>>)>>)

FlattenArgs(p, mode, outer, recursive, named) ==
    IF named THEN S!get_named_args([input |-> "x", path |-> p, mode |-> mode, is_outer |-> outer,
                                    is_recursive |-> recursive])
    ELSE S!get_args(<<"x", p, outer, recursive, mode>>)

Flattened(input, args, limit) ==
    Invoke("FLATTEN", <<input, args, limit>>, IF args = <<>> THEN [err |-> TRUE, rows |-> <<>>]
                                       ELSE S!execute(input, args[1], limit))

FlattenInputs == {[table |-> FALSE, rows |-> <<v>>] : v \in {c \in Cells : c.ty = "Utf8"}}
                 \cup {[table |-> TRUE, partitions |-> <<<<<<u>>, <<v>>>>, <<<<w>>>>>>] : u, v, w \in RowCells}
                 \cup {[table |-> TRUE, partitions |-> <<<<<<u, v>>>>>>] : u, v \in RowCells}

\* TABLE(FLATTEN(...)), its arguments named or in order: the input is an
\* expression or a column of a table whose batches are in two partitions.
CallFlatten ==
    /\ Idle
    /\ \E p \in Paths, mode \in S!Modes \cup {"rows"}, outer, recursive, named \in BOOLEAN, limit \in {<<>>, <<1>>},
          input \in FlattenInputs :
          Flattened(input, FlattenArgs(p, mode, outer, recursive, named), limit)

-----------------------------------------------------------------------------
(* Properties *)

Ok(r) == ~S!Failed(r)
JsonOf(arg) == S!Of(arg).j
JsonIn(v) == v.j
IsScalarArray(arg) == ~arg.col /\ S!IsText(S!Of(arg)) /\ S!IsArr(JsonOf(arg))
IsScalarObject(arg) == ~arg.col /\ S!IsText(S!Of(arg)) /\ S!IsObj(JsonOf(arg))
TextOf(j) == S!Scalar(S!Utf8(j))
At(n) == S!Scalar(S!Int64(n))

\* What a call answers when its first argument is replaced.
With(f, a, rest) ==
    CASE f \in ArrayUnary -> ArrayOf(f, a)
      [] f \in ArrayWithElement -> ElementOf(f, a, rest[1])
      [] f = "ARRAY_INSERT" -> A!array_insert(a, rest[1], rest[2])
      [] f = "ARRAY_REMOVE_AT" -> A!array_remove_at(a, rest[1])
      [] f = "ARRAY_SLICE" -> A!array_slice(a, rest[1], rest[2])
      [] f = "ARRAY_SORT" -> A!array_sort(a, rest[1], rest[2])
      [] f = "OBJECT_INSERT" -> S!object_insert(a, rest[1], rest[2], rest[3])
      [] f \in {"OBJECT_PICK", "OBJECT_DELETE"} -> KeysOf(f, a, rest)
      [] f \in {"GET", "GET_IGNORE_CASE"} -> S!get(a, rest[1], f = "GET_IGNORE_CASE", Names)
      [] f = "GET_PATH" -> S!get_path(a, rest[1])
      [] f = "OBJECT_KEYS" -> S!object_keys(a)

\* The functions whose column path is a loop over the same step as their
\* scalar path.
RowWise == (ArrayUnary \ {"IS_ARRAY", "ARRAY_FLATTEN"}) \cup ArrayWithElement
           \cup {"ARRAY_INSERT", "ARRAY_REMOVE_AT", "ARRAY_SLICE", "ARRAY_SORT", "OBJECT_INSERT",
                 "OBJECT_PICK", "OBJECT_DELETE", "GET", "GET_IGNORE_CASE", "GET_PATH", "OBJECT_KEYS"}

\* A function called with a column answers, row by row, what it answers for
\* that row as a literal, and fails exactly when one of those calls fails:
\* the column arm of invoke_with_args (NULLs skipped, rows counted) does the
\* same work as the scalar arm.
ColumnsAnswerLikeLiterals ==
    call.f \in RowWise /\ Arg(1).col =>
        LET rows == Arg(1).vs
            literal(n) == With(call.f, S!Scalar(rows[n]), Tail(call.args))
            texts == {n \in DOMAIN rows : rows[n].some}
        IN  IF Ok(answer) /\ answer.col
            THEN /\ Len(answer.vs) = Len(rows)
                 /\ \A n \in texts : literal(n) = S!Scalar(answer.vs[n])
                 /\ \A n \in DOMAIN rows \ texts : ~answer.vs[n].some
            ELSE Ok(answer) \/ texts = {} \/ \E n \in texts : ~Ok(literal(n))

\* ARRAY_INSERT takes every position up to the end of the array, counted from
\* either end or before the start, and ARRAY_REMOVE_AT at the place where it
\* put the element gives back the array.
InsertThenRemove ==
    call.f = "ARRAY_INSERT" /\ IsScalarArray(Arg(1)) /\ ~Arg(3).col
        /\ S!Of(Arg(2)).ty = "Int64" /\ S!Of(Arg(2)).some =>
        LET a == JsonOf(Arg(1)).a
            pos == JsonOf(Arg(2)).i
            b == JsonOf(answer).a
            put == IF pos < 0 THEN IF Len(a) + pos < 0 THEN 0 ELSE Len(a) + pos ELSE pos
        IN  IF pos > Len(a) THEN ~Ok(answer)
            ELSE
            /\ A!array_size(answer) = At(Len(a) + 1)
            /\ A!array_remove_at(answer, At(put)) = Arg(1)
            /\ pos >= -Len(a) => A!array_remove_at(answer, At(IF pos < 0 THEN pos - 1 ELSE pos)) = Arg(1)
            /\ b[put + 1] = S!encode_scalar(S!Of(Arg(3)))

\* A slice up to a place and the slice from it make up the array again: the
\* upper bound of ARRAY_SLICE is exclusive and the lower one inclusive.
SlicesMakeUpTheArray ==
    call.f = "ARRAY_SLICE" /\ IsScalarArray(Arg(1)) /\ Ok(answer) /\ S!Of(answer).some
        /\ JsonOf(Arg(2)).i = 0 =>
        LET a == JsonOf(Arg(1)).a
            cut == JsonOf(answer).a
            rest == A!array_slice(Arg(1), Arg(3), At(Len(a)))
        IN  Len(cut) < Len(a) => A!array_cat(answer, rest) = Arg(1)

\* When ARRAYS_OVERLAP is TRUE, ARRAY_INTERSECTION has an element, each one
\* ARRAY_CONTAINS finds, and what ARRAY_EXCEPT leaves does not overlap the
\* second array.  Where ARRAY_INTERSECTION has an element ARRAYS_OVERLAP is
\* TRUE, unless it is an object whose entries come in another order: that one
\* compares texts (arrays_overlap.rs:35), the others values.
SetFunctionsAgree ==
    call.f = "ARRAY_INTERSECTION" /\ IsScalarArray(Arg(1)) /\ IsScalarArray(Arg(2)) =>
        LET except == A!array_except(Arg(1), Arg(2))
            false == S!Scalar(S!Boolean(FALSE))
            reordered == \E x \in S!ToSet(JsonOf(Arg(1)).a), y \in S!ToSet(JsonOf(Arg(2)).a) : S!Same(x, y) /\ x # y
        IN  /\ JsonOf(answer).a = <<>> => A!arrays_overlap(Arg(1), Arg(2)) = false
            /\ A!arrays_overlap(Arg(1), Arg(2)) = false => JsonOf(answer).a = <<>> \/ reordered
            /\ A!arrays_overlap(except, Arg(2)) = false
            /\ \A x \in S!ToSet(JsonOf(answer).a) :
                  A!array_contains(S!Scalar(S!Value("Variant", x)), Arg(1)) = S!Scalar(S!Boolean(TRUE))

\* ARRAY_SORT rearranges the array so that no element is before one that
\* compares smaller, in either order, and equal elements keep their order:
\* descending is ascending backwards once ties are turned round.
SortRearranges ==
    call.f = "ARRAY_SORT" /\ IsScalarArray(Arg(1)) /\ Ok(answer) =>
        LET a == JsonOf(Arg(1)).a
            b == JsonOf(answer).a
            up == Arg(2) # S!Scalar(S!Boolean(FALSE))
            backwards == A!array_sort(A!array_reverse(Arg(1)), S!Scalar(S!Boolean(~up)), Arg(3))
        IN  /\ \A x \in S!ToSet(a) \cup S!ToSet(b) :
                  Cardinality({n \in DOMAIN a : a[n] = x}) = Cardinality({n \in DOMAIN b : b[n] = x})
            /\ A!array_reverse(backwards) = answer

\* GET finds an element at the position ARRAY_POSITION answers for it.
PositionIsWhereGetLooks ==
    call.f = "ARRAY_POSITION" /\ IsScalarArray(Arg(2)) /\ Ok(answer) /\ S!Of(answer).some =>
        S!get(Arg(2), answer, FALSE, Names) = TextOf(S!encode_scalar(S!Of(Arg(1))))

\* OBJECT_INSERT changes at most the key it is given, and without the update
\* flag a key the object has is refused, never overwritten.
InsertNeverOverwrites ==
    call.f = "OBJECT_INSERT" /\ IsScalarObject(Arg(1)) /\ Ok(answer) /\ S!Of(answer).some =>
        LET key == JsonOf(Arg(2))
        IN  /\ S!object_delete(answer, <<Arg(2)>>) = S!object_delete(Arg(1), <<Arg(2)>>)
            /\ S!get(answer, Arg(2), FALSE, Names) = TextOf(S!encode_scalar(S!Of(Arg(3))))
            /\ key \in S!ObjKeys(JsonOf(Arg(1))) => Arg(4) = S!Scalar(S!Boolean(TRUE))

\* OBJECT_CONSTRUCT of two pairs is the empty object with the pairs inserted
\* in turn, the later value of a repeated key replacing the earlier.
ConstructIsRepeatedInsert ==
    call.f = "OBJECT_CONSTRUCT" /\ Ok(answer) =>
        LET put(object, k, v) ==
                IF S!Of(v).ty = "Null" THEN object
                ELSE LET j == S!PairOf(S!Of(k), S!Of(v), FALSE).j
                     IN  S!object_insert(object, k, S!Scalar(S!Value("Variant", j)), S!Scalar(S!Boolean(TRUE)))
        IN  answer = put(put(TextOf(S!JObj(<<>>)), Arg(1), Arg(2)), Arg(3), Arg(4))

\* TYPEOF of a JSON text names the type for which IS_<type> is TRUE: the two
\* files classify a value on their own.
TypeofAgreesWithIs ==
    call.f = "TYPEOF" /\ ~Arg(1).col /\ S!IsText(S!Of(Arg(1))) /\ S!Parses(JsonOf(Arg(1))) =>
        LET is(kind) == S!is_typeof(kind, Arg(1)) = S!Column(<<S!Boolean(TRUE)>>)
            named(name) == JsonOf(answer) = S!Raw(name)
        IN  /\ named("INTEGER") <=> is("Integer")
            /\ named("DOUBLE") <=> is("Double") /\ ~is("Integer")
            /\ named("BOOLEAN") <=> is("Boolean")
            /\ named("VARCHAR") <=> is("String")
            /\ named("NULL_VALUE") <=> is("Null")
            /\ named("ARRAY") <=> is("Array") /\ A!is_array(Arg(1)) = S!Column(<<S!Boolean(TRUE)>>)
            /\ named("OBJECT") <=> is("Object") /\ S!is_object(Arg(1)) = S!Scalar(S!Boolean(TRUE))

\* GET_PATH over a path of one name and one position is GET of GET.
PathIsRepeatedGet ==
    call.f = "GET_PATH" /\ ~Arg(1).col /\ S!IsText(S!Of(Arg(1))) /\ S!Parses(JsonOf(Arg(1))) =>
        LET tokens == S!tokenize_path(Arg(2))
            get(v, t) == IF ~S!Of(v).some THEN v ELSE S!get(v, IF t[1] = "key" THEN TextOf(t[2]) ELSE At(t[2].i), FALSE, Names)
        IN  tokens # S!NoTokens =>
            answer = CASE Len(tokens) = 0 -> Arg(1)
                       [] Len(tokens) = 1 -> get(Arg(1), tokens[1])
                       [] Len(tokens) = 2 -> get(get(Arg(1), tokens[1]), tokens[2])

\* Whether every key of a document can be written in a path as it is.
RECURSIVE PlainKeys(_)
PlainKeys(j) ==
    /\ \A k \in S!ObjKeys(j) : k.t # "joined"
    /\ \A n \in DOMAIN j.o : PlainKeys(j.o[n][2])
    /\ S!IsArr(j) => \A n \in DOMAIN j.a : PlainKeys(j.a[n])

\* The number of values below a value.
RECURSIVE ValuesBelow(_)
ValuesBelow(j) ==
    LET kids == IF S!IsArr(j) THEN j.a ELSE [n \in DOMAIN j.o |-> j.o[n][2]]
    IN  S!FoldLeft(LAMBDA sum, x : sum + 1 + ValuesBelow(x), 0, kids)

\* The PATH of a row of FLATTEN, read as GET_PATH reads a path, leads from the
\* input to its VALUE, one step beyond THIS, and no two rows have the same;
\* this is said of inputs whose keys hold no dot or bracket, since PATH does
\* not quote (path_to_string) and then names another place, or none.  A
\* recursive expansion of any input has one row for each value below it.
FlattenRowsAreWhereTheySay ==
    call.f = "FLATTEN" /\ ~answer.err /\ ~Arg(1).table /\ Arg(2) # <<>> /\ Arg(3) = <<>> =>
        LET rows == answer.rows
            input == Arg(1).rows[1].j
            start == S!get_json_value(input, Arg(2)[1].path)
            real == {n \in DOMAIN rows : rows[n].value # <<>>}
            tokens(n) == S!tokenize_path(rows[n].path[1])
        IN  /\ PlainKeys(input) => \A n \in real :
                  /\ S!get_json_value(input, tokens(n)) = rows[n].value
                  /\ S!get_json_value(input, S!Front(tokens(n))) = rows[n].this
                  /\ \A m \in real : rows[m].path = rows[n].path => m = n
            /\ Arg(2)[1].recursive /\ Arg(2)[1].mode = "both" /\ start # <<>> /\ Arg(1).rows[1].some =>
                  Cardinality(real) = ValuesBelow(start[1])

\* FLATTEN of a table's column gives, batch by batch and row by row, what each
\* row gives on its own, and fails when one of them fails: nothing of a row or
\* a batch is left over for the next.  OUTER's row for a value that expands to
\* nothing is the exception: it is there only when no row at all gives any.
BatchesAreFlattenedAlone ==
    call.f = "FLATTEN" /\ Arg(1).table /\ Arg(2) # <<>> /\ Arg(3) = <<>> =>
        LET batches == Arg(1).partitions[1]
            alone(v) == S!execute([table |-> FALSE, rows |-> <<v>>], [Arg(2)[1] EXCEPT !.outer = FALSE], <<>>)
            counted(v, n) == LET rows == alone(v).rows IN [m \in DOMAIN rows |-> [rows[m] EXCEPT !.seq = n]]
            each(n) == S!FlattenSeq([m \in DOMAIN batches[n] |-> counted(batches[n][m], n)])
            all == S!FlattenSeq([n \in DOMAIN batches |-> each(n)])
        IN  IF \E n \in DOMAIN batches : \E m \in DOMAIN batches[n] : alone(batches[n][m]).err
            THEN answer.err
            ELSE IF all = <<>> THEN Len(answer.rows) = (IF Arg(2)[1].outer THEN 1 ELSE 0)
            ELSE answer.rows = all

\* With OUTER, FLATTEN of one value that expands to nothing still gives
\* exactly one row; without OUTER, what is there but cannot be expanded gives
\* none.
OuterKeepsARow ==
    call.f = "FLATTEN" /\ ~answer.err /\ ~Arg(1).table /\ Arg(2) # <<>> =>
        LET nothing == \A n \in DOMAIN answer.rows : answer.rows[n].value = <<>>
        IN  /\ Arg(2)[1].outer => answer.rows # <<>>
            /\ nothing => Len(answer.rows) <= 1
            /\ ~Arg(2)[1].outer /\ Arg(1).rows[1].some /\ nothing => answer.rows = <<>>

\* Two values of a type that encode_array writes as JSON (OBJECT_CONSTRUCT,
\* ARRAY_CONSTRUCT and the aggregates store only that) are still told apart
\* there, except decimals that are the same double (encode_decimal128_array
\* casts them), and a map and a run-end-encoded row, which never finish.
EncodingTellsValuesApart ==
    call.f = "ENCODE" /\ Arg(1).ty = Arg(2).ty /\ Arg(1).ty \notin {"Map", "RunEndEncoded"} =>
        /\ S!StackOverflow \notin {answer[1], answer[2]}
        /\ S!Same(answer[1], answer[2]) =>
              \/ Arg(1) = Arg(2)
              \/ Arg(1).ty = "Decimal128" /\ S!AsDouble(JsonIn(Arg(1)).i) = S!AsDouble(JsonIn(Arg(2)).i)

\* The laws of semi-structured values: what one function builds, inserts or
\* encodes, another finds, takes apart and classifies the same way, at every
\* position and path; each is in a file of its own.
SemiStructuredFunctionsAgree ==
    /\ InsertThenRemove /\ SlicesMakeUpTheArray /\ SetFunctionsAgree
    /\ SortRearranges /\ PositionIsWhereGetLooks
    /\ InsertNeverOverwrites /\ ConstructIsRepeatedInsert /\ TypeofAgreesWithIs
    /\ PathIsRepeatedGet /\ EncodingTellsValuesApart

\* FLATTEN visits each place of its input once and says where it is, keeps
\* the rows and batches of a table apart, and with OUTER gives a row for one
\* value that has none (FlattenTableFunc, flatten and execute).
FlattenGivesEachPlaceOnce == FlattenRowsAreWhereTheySay /\ BatchesAreFlattenedAlone /\ OuterKeepsARow
=============================================================================

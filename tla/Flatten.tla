------------------------------- MODULE Flatten -------------------------------
(***************************************************************************)
(* crates/functions/src/table/flatten: the FLATTEN table function.  A row  *)
(* is [seq, key, path, index, value, this]; all but seq are <<>> when NULL *)
(* and <<x>> otherwise.  The path is a text, a sequence of symbols like    *)
(* those tokenize_path reads.                                              *)
(***************************************************************************)
EXTENDS SemiStructured

Modes == {"both", "array", "object"}
Row(seq, key, path, index, value, this) ==
    [seq |-> seq, key |-> key, path |-> path, index |-> index, value |-> value, this |-> this]

\* The symbols of a key: one, unless it has a dot or a bracket in it.
KeySymbols(k) == IF k.t = "joined" THEN Tail(k.a) ELSE <<k>>

\* path_to_string: keys are neither quoted nor escaped.
path_to_string(tokens) ==
    FlattenSeq([n \in DOMAIN tokens |->
        IF tokens[n][1] = "index" THEN <<Open, tokens[n][2], Close>>
        ELSE (IF n = 1 THEN <<>> ELSE <<Dot>>) \o KeySymbols(tokens[n][2])])

Keys(j) == [n \in DOMAIN j.o |-> j.o[n][1]]

Entries(j, keys) == [n \in DOMAIN keys |-> <<<<"key", keys[n]>>, ObjGet(j, keys[n])>>]

\* Mutant: elements are counted from 1.
Children_from_one(j) ==
    IF IsArr(j) THEN [n \in DOMAIN j.a |-> <<<<"index", JInt(n)>>, j.a[n]>>] ELSE Entries(j, Keys(j))

\* The children of a container, with the token that leads to each.
Children(j) ==
    IF IsArr(j) THEN [n \in DOMAIN j.a |-> <<<<"index", JInt(n - 1)>>, j.a[n]>>] ELSE Entries(j, Keys(j))

Expands(j, mode) == \/ IsArr(j) /\ mode \in {"array", "both"}
                    \/ IsObj(j) /\ mode \in {"object", "both"}

\* Rows, and the last container entered for them.
Result(rows, last) == [rows |-> rows, last |-> last, err |-> FALSE]
Joined(rs, last) ==
    LET entered == {n \in DOMAIN rs : rs[n].last # <<>>}
    IN  [rows |-> FlattenSeq([n \in DOMAIN rs |-> rs[n].rows]),
         last |-> IF entered = {} THEN last ELSE rs[Max(entered)].last,
         err |-> \E n \in DOMAIN rs : rs[n].err]

\* One child's row, then the rows below it.
ChildRows(child, path, this, seq, below) ==
    LET named(kind) == IF child[1][1] = kind THEN <<child[1][2]>> ELSE <<>>
    IN  Result(<<Row(seq, named("key"), <<path_to_string(path)>>, named("index"), <<child[2]>>, <<this>>)>> \o below.rows, below.last)

RECURSIVE flatten(_, _, _, _, _)
flatten(j, path, recursive, mode, seq) ==
    LET below(x, p) == IF recursive THEN flatten(x, p, recursive, mode, seq) ELSE Result(<<>>, <<>>)
        child(c, p) == ChildRows(c, p, j, seq, below(c[2], p))
        each(kids) == [n \in DOMAIN kids |-> child(kids[n], Append(path, kids[n][1]))]
    IN  IF Expands(j, mode) THEN Joined(each(Children(j)), <<j>>) ELSE Result(<<>>, <<>>)

\* A NULL row of the input gives a row of NULLs, a path that leads nowhere none.
FlattenInput(v, args, seq) ==
    LET found(input) == IF input = <<>> THEN Result(<<>>, <<>>)
                        ELSE flatten(input[1], args.path, args.recursive, args.mode, seq)
    IN  CASE ~v.some -> Result(<<Row(seq, <<>>, <<>>, <<>>, <<>>, <<>>)>>, <<>>)
          [] v.some /\ ~Parses(v.j) -> [Result(<<>>, <<>>) EXCEPT !.err = TRUE]
          [] v.some /\ Parses(v.j) -> found(get_json_value(v.j, args.path))

\* SEQ counts the batches, not the rows, of the input.
FlattenBatch(batch, args, seq) ==
    Joined([n \in DOMAIN batch |-> FlattenInput(batch[n], args, seq)], <<>>)

\* The row OUTER adds when nothing at all was expanded.
empty_record_batch(path, last, outer, seq) ==
    IF outer THEN <<Row(seq, <<>>, <<path_to_string(path)>>, <<>>, <<>>, last)>> ELSE <<>>

Limited(rows, limit) == IF limit = <<>> THEN rows
                        ELSE SubSeq(rows, 1, IF limit[1] < Len(rows) THEN limit[1] ELSE Len(rows))

\* evaluate_expr_or_plan: a table is read from its first partition only.
InputBatches(input) == IF input.table THEN input.partitions[1] ELSE <<input.rows>>

\* OUTER's row is added when no batch gave a row; its container is the last batch's.
Finished(rs, args, limit) ==
    LET all == Joined(rs, <<>>)
        last == IF rs = <<>> THEN <<>> ELSE rs[Len(rs)].last
    IN  CASE all.err -> Result(<<>>, <<>>)
          [] ~all.err /\ all.rows = <<>> -> Result(empty_record_batch(args.path, last, args.outer, Len(rs)), <<>>)
          [] OTHER -> Result(Limited(all.rows, limit), <<>>)

\* [err, rows]
execute(input, args, limit) ==
    LET each(batches) == [n \in DOMAIN batches |-> FlattenBatch(batches[n], args, n)]
        answered(rs) == [err |-> \E n \in DOMAIN rs : rs[n].err, rows |-> Finished(rs, args, limit).rows]
    IN  answered(each(InputBatches(input)))

-----------------------------------------------------------------------------
(* call: named arguments (a function from names to literals) or positional *)

FlattenArgs(path, outer, recursive, mode) ==
    [path |-> path, outer |-> outer, recursive |-> recursive, mode |-> mode]

Given(args, n, default) == IF n \in DOMAIN args THEN args[n] ELSE default

\* A wrong mode is an error by name.
get_named_args(args) ==
    LET tokens == tokenize_path(Given(args, "path", <<>>))
    IN  IF "input" \notin DOMAIN args \/ tokens = NoTokens \/ Given(args, "mode", "both") \notin Modes
        THEN <<>>
        ELSE <<FlattenArgs(tokens, Given(args, "is_outer", FALSE), Given(args, "is_recursive", FALSE),
                           Given(args, "mode", "both"))>>

\* A wrong mode is BOTH by position.
get_args(args) ==
    LET tokens == tokenize_path(Given(args, 2, <<>>))
        mode == Given(args, 5, "both")
    IN  IF args = <<>> \/ tokens = NoTokens THEN <<>>
        ELSE <<FlattenArgs(tokens, Given(args, 3, FALSE), Given(args, 4, FALSE),
                           IF mode \in Modes THEN mode ELSE "both")>>
=============================================================================

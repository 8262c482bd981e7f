------------------------------ MODULE Columnar ------------------------------
(***************************************************************************)
(* Arguments and answers of a DataFusion function: a scalar or a column of *)
(* cells.  A cell has a type and holds <<x>>, or <<>> when it is NULL; an  *)
(* error is a cell too, and is the whole answer when a row raises it.      *)
(***************************************************************************)
EXTENDS Integers, Sequences, FiniteSets, SequencesExt

Cell(ty, x) == [ty |-> ty, held |-> <<x>>, err |-> FALSE]
Null(ty) == [ty |-> ty, held |-> <<>>, err |-> FALSE]
Err(e) == [ty |-> e, held |-> <<>>, err |-> TRUE]
Option(ty, v) == [ty |-> ty, held |-> v, err |-> FALSE]

Some(c) == c.held # <<>>
X(c) == c.held[1]

Scalar(c) == [col |-> FALSE, vs |-> <<c>>]
Column(cs) == [col |-> TRUE, vs |-> cs]
Fail(e) == Scalar(Err(e))
Failed(r) == r.vs # <<>> /\ r.vs[1].err
TypeOf(arg) == arg.vs[1].ty
Of(arg) == arg.vs[1]

\* A loop over rows with ?: the first error ends it.
EachRow(f(_), rows) ==
    LET rs == [n \in DOMAIN rows |-> f(rows[n])]
        bad == SelectInSeq(rs, LAMBDA c : c.err)
    IN  IF bad # 0 THEN Scalar(rs[bad]) ELSE Column(rs)

NumberRows(args) ==
    IF \E n \in DOMAIN args : args[n].col
    THEN Len(args[SelectInSeq(args, LAMBDA x : x.col)].vs) ELSE 1

\* into_array(number_rows): a scalar is repeated for every row.
IntoArray(arg, n) == IF arg.col THEN arg.vs ELSE [m \in 1..n |-> arg.vs[1]]

\* to_array and zip: a scalar is one row, and the shortest column counts.
Shortest(args) ==
    LET n == CHOOSE m \in {Len(args[k].vs) : k \in DOMAIN args} :
                 \A k \in DOMAIN args : m <= Len(args[k].vs)
    IN  [m \in 1..n |-> [k \in DOMAIN args |-> args[k].vs[m]]]

\* Mutant: the scalars are not repeated.
Broadcast_shortest(args) == Shortest(args)

Broadcast(args) ==
    LET n == NumberRows(args)
    IN  [m \in 1..n |-> [k \in DOMAIN args |-> IntoArray(args[k], n)[m]]]

\* to_array and a loop over the rows of the first: indexing a shorter column
\* past its end panics.
Indexed(args) ==
    [m \in DOMAIN args[1].vs |->
        [k \in DOMAIN args |-> IF m \in DOMAIN args[k].vs THEN args[k].vs[m] ELSE Err("panic")]]
Panics(row) == \E k \in DOMAIN row : row[k].err

\* A row with a NULL gives NULL; the others go through f.
Strict(ty, f(_), row) ==
    IF \E k \in DOMAIN row : ~Some(row[k]) THEN Null(ty)
    ELSE f([k \in DOMAIN row |-> X(row[k])])

\* An answer whose every argument was a scalar is a scalar.
ScalarIf(args, r) ==
    IF ~Failed(r) /\ \A n \in DOMAIN args : ~args[n].col THEN Scalar(r.vs[1]) ELSE r

-----------------------------------------------------------------------------

\* The call that row m stands for: the columns are cut to that row.
RowAlone(args, m) ==
    [k \in DOMAIN args |-> IF args[k].col THEN Column(<<args[k].vs[m]>>) ELSE args[k]]

\* r answers every row as f answers it alone, and fails only if a row does.
EveryRowAlone(f(_), args, r) ==
    LET n == NumberRows(args)
        alone(m) == f(RowAlone(args, m))
    IN  IF Failed(r) THEN \E m \in 1..n : Failed(alone(m))
        ELSE /\ r.col => Len(r.vs) = n
             /\ \A m \in 1..n : IntoArray(r, n)[m] = alone(m).vs[1]

\* r may fail or answer too few rows, which the engine refuses, but the rows
\* it answers are those that f answers alone.
NoRowOfAnother(f(_), args, r) ==
    Failed(r) \/ /\ Len(r.vs) <= NumberRows(args)
                 /\ \A m \in DOMAIN r.vs : r.vs[m] = f(RowAlone(args, m)).vs[1]
=============================================================================

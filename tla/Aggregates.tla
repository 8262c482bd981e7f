----------------------------- MODULE Aggregates -----------------------------
(***************************************************************************)
(* The aggregate functions of crates/functions/src/aggregate, run the way  *)
(* the engine runs an accumulator: every partition of the input has its    *)
(* own (update_batch on runs of its rows), a partition hands its state()   *)
(* over when its rows are used up, one last accumulator takes the states   *)
(* (merge_batch, one or several states per call, in any order) and is      *)
(* evaluated.  A plan with one partition may skip the hand-over.           *)
(*                                                                         *)
(* A cell is a sequence of at most one value; <<>> is SQL's NULL.          *)
(***************************************************************************)
EXTENDS Integers, Sequences, FiniteSets, SequencesExt

CONSTANTS
    Functions_,   \* the aggregates to run: names of the code
    Groups(_),    \* f's groups: sequences of partitions, each a row sequence
    Delimiter,    \* LISTAGG's second argument
    PctNum, PctDen, \* PERCENTILE_CONT's first argument is PctNum / PctDen
    MaxStates     \* the most states one merge_batch call receives

VARIABLES
    fn,       \* the aggregate, "none" between two queries
    group,    \* its input, as partitioned at the start
    pending,  \* the rows of each partition not yet given to update_batch
    partial,  \* each partition's accumulator
    emitted,  \* partitions whose state() was handed over and not merged
    merged,   \* partitions whose state was merged
    final,    \* the last accumulator
    widest,   \* the most states a merge_batch call has received
    result    \* what evaluate() answered: <<>> before it is called

aggregateVars == <<fn, group, pending, partial, emitted, merged, final, widest, result>>

Partitions == DOMAIN group

NonNull(rows) == SelectSeq(rows, LAMBDA c : c # <<>>)
Values(rows) == FlattenSeq(rows)

\* What a call answers when it returns an error.
Failure == [failed |-> TRUE]

-----------------------------------------------------------------------------
(* BOOLAND_AGG, BOOLOR_AGG, BOOLXOR_AGG: one Option<bool>                  *)

bool_new == [state |-> <<>>]

booland_update(acc, rows) ==
    IF acc.state = <<FALSE>> THEN acc
    ELSE IF <<FALSE>> \in Range(rows) THEN [acc EXCEPT !.state = <<FALSE>>]
    ELSE IF NonNull(rows) # <<>> THEN [acc EXCEPT !.state = <<TRUE>>]
    ELSE acc

\* Only the first of the states is read.
booland_merge(acc, states) ==
    IF acc.state = <<FALSE>> \/ states[1].state = <<>> THEN acc
    ELSE [acc EXCEPT !.state = states[1].state]

\* update_batch returns early on FALSE, and an all-FALSE batch overwrites TRUE.
boolor_update(acc, rows) ==
    IF acc.state = <<FALSE>> THEN acc
    ELSE IF <<TRUE>> \in Range(rows) THEN [acc EXCEPT !.state = <<TRUE>>]
    ELSE IF NonNull(rows) # <<>> THEN [acc EXCEPT !.state = <<FALSE>>]
    ELSE acc

boolor_merge(acc, states) ==
    IF acc.state = <<TRUE>> \/ states[1].state = <<>> THEN acc
    ELSE [acc EXCEPT !.state = states[1].state]

\* The loop of update_batch and merge_batch: a second TRUE ends it.
XorRows(acc, rows) ==
    LET trues == Cardinality({i \in DOMAIN rows : rows[i] = <<TRUE>>})
                   + (IF acc.state = <<TRUE>> THEN 1 ELSE 0)
    IN  CASE acc.state = <<FALSE>> -> acc
          [] trues >= 2 -> [acc EXCEPT !.state = <<FALSE>>]
          [] trues = 1 -> [acc EXCEPT !.state = <<TRUE>>]
          [] OTHER -> IF NonNull(rows) # <<>> THEN [acc EXCEPT !.state = <<FALSE>>]
                      ELSE acc

boolxor_update(acc, rows) == XorRows(acc, rows)
boolxor_merge(acc, states) == XorRows(acc, <<states[1].state>>)

-----------------------------------------------------------------------------
(* ANY_VALUE: the first row, NULL or not                                   *)

any_value_new == [value |-> <<>>, is_set |-> FALSE]

any_value_update(acc, rows) ==
    IF acc.is_set \/ rows = <<>> THEN acc ELSE [value |-> rows[1], is_set |-> TRUE]

any_value_merge(acc, states) ==
    LET set == SelectSeq(states, LAMBDA s : s.is_set)
    IN  IF acc.is_set \/ set = <<>> THEN acc ELSE [value |-> set[1].value, is_set |-> TRUE]

-----------------------------------------------------------------------------
(* ARRAY_UNIQUE_AGG: the distinct values in the order they came            *)

unique_new == [values |-> <<>>, hash |-> {}]

RECURSIVE PushNew(_, _)
PushNew(acc, xs) ==
    IF xs = <<>> THEN acc
    ELSE PushNew(IF xs[1] \in acc.hash THEN acc
                 ELSE [acc EXCEPT !.values = Append(@, xs[1]),
                                  !.hash = @ \union {xs[1]}], Tail(xs))

unique_update(acc, rows) == PushNew(acc, Values(rows))

\* Only the first state's list is read.
unique_merge(acc, states) == PushNew(acc, states[1].values)

\* An empty list has no type to build an array of: evaluate() fails.
unique_evaluate(acc) == IF acc.values = <<>> THEN Failure ELSE [array |-> acc.values]

-----------------------------------------------------------------------------
(* ARRAY_UNION_AGG: a row is a text, read as JSON: an array of elements    *)
(* [t, x], or something else (array is FALSE, not JSON included); the last *)
(* element seen gives the type every element is read back with             *)

union_new == [values |-> <<>>, hash |-> {}, dt |-> <<>>, err |-> FALSE]

\* A row is compared with the rows before it, not with itself.
PushRow(acc, xs) ==
    LET new == SelectSeq(xs, LAMBDA x : x \notin acc.hash)
    IN  [acc EXCEPT !.values = @ \o new, !.hash = @ \union Range(new)]

TypeOfLast(dt, xs) == IF xs = <<>> THEN dt ELSE <<Last(xs).t>>

RECURSIVE union_update(_, _)
union_update(acc, rows) ==
    IF rows = <<>> THEN acc
    ELSE IF rows[1] = <<>> THEN union_update(acc, Tail(rows))
    ELSE IF ~rows[1][1].array THEN [acc EXCEPT !.err = TRUE]
    ELSE LET xs == SelectSeq(rows[1][1].xs, LAMBDA x : x.t # "Null")
             now == PushRow(acc, xs)
         IN  union_update([now EXCEPT !.dt = TypeOfLast(@, xs)], Tail(rows))

union_merge(acc, states) ==
    LET now == PushRow(acc, states[1].values)
    IN  [now EXCEPT !.dt = IF states[1].dt = <<>> THEN @ ELSE states[1].dt]

\* Booleans and numbers are parsed back; with strings, and before any type
\* is known, every element becomes a string of its JSON text.
union_evaluate(acc) ==
    LET Is(t) == \A i \in DOMAIN acc.values : acc.values[i].t = t
    IN  CASE acc.dt \in {<<"Bool">>, <<"Number">>} ->
               IF Is(acc.dt[1]) THEN [array |-> acc.values] ELSE Failure
          [] acc.dt \in {<<>>, <<"String">>} ->
               [array |-> [i \in DOMAIN acc.values |-> [t |-> "String", x |-> acc.values[i]]]]
          [] OTHER -> [array |-> acc.values]

-----------------------------------------------------------------------------
(* LISTAGG: a text is a sequence of letters                                *)

listagg_new == [result |-> <<>>, delimiter |-> <<>>, delimiter_set |-> FALSE, seen |-> {}]

append_value(acc, val, distinct) ==
    IF distinct /\ val \in acc.seen THEN acc
    ELSE [acc EXCEPT !.result = IF @ = <<>> THEN <<val>>
                                ELSE <<@[1] \o (IF @[1] = <<>> THEN <<>> ELSE acc.delimiter) \o val>>,
                     !.seen = IF distinct THEN @ \union {val} ELSE @]

RECURSIVE AppendAll(_, _, _)
AppendAll(acc, vals, distinct) ==
    IF vals = <<>> THEN acc
    ELSE AppendAll(append_value(acc, vals[1], distinct), Tail(vals), distinct)

\* The delimiter is an argument: every row carries it, NULL values included.
listagg_update(acc, rows, distinct) ==
    LET told == IF acc.delimiter_set \/ rows = <<>> THEN acc
                ELSE [acc EXCEPT !.delimiter = Delimiter, !.delimiter_set = TRUE]
    IN  AppendAll(told, Values(rows), distinct)

\* The first state's delimiter is taken, set or not.  The values the states
\* have seen are added before their texts are appended as one value each; a
\* lone empty text does not survive the join with NUL.
listagg_merge(acc, states, distinct) ==
    LET told == IF acc.delimiter_set THEN acc
                ELSE [acc EXCEPT !.delimiter = states[1].delimiter, !.delimiter_set = TRUE]
        seen == UNION {states[i].seen : i \in {j \in DOMAIN states : states[j].seen # {<<>>}}}
        aware == IF distinct THEN [told EXCEPT !.seen = @ \union seen] ELSE told
        texts == Values([i \in DOMAIN states |-> states[i].result])
    IN  AppendAll(aware, texts, distinct)

\* Nothing aggregated is the empty text, not NULL.
listagg_evaluate(acc) == [text |-> IF acc.result = <<>> THEN <<>> ELSE acc.result[1]]

-----------------------------------------------------------------------------
(* OBJECT_AGG: rows are [k, v], both cells; a value is [ty, j] where j is  *)
(* the JSON a text holds, <<>> if it is not JSON                           *)

object_new == [keys |-> <<>>, values |-> <<>>, keys_seen |-> {}, err |-> FALSE]

RECURSIVE PutEntries(_, _)
PutEntries(acc, es) ==
    IF acc.err \/ es = <<>> THEN acc
    ELSE IF es[1].k \in acc.keys_seen THEN [acc EXCEPT !.err = TRUE]
    ELSE PutEntries([acc EXCEPT !.keys = Append(@, es[1].k),
                                !.values = Append(@, es[1].v),
                                !.keys_seen = @ \union {es[1].k}], Tail(es))

object_update(acc, rows) ==
    LET full == SelectSeq(rows, LAMBDA r : r.k # <<>> /\ r.v # <<>>)
    IN  PutEntries(acc, [i \in DOMAIN full |-> [k |-> full[i].k[1], v |-> full[i].v[1]]])

StateEntries(s) == [i \in DOMAIN s.keys |-> [k |-> s.keys[i], v |-> s.values[i]]]

\* Mutant: the keys of the states are not compared.
object_merge_unseen(acc, states) ==
    LET es == FlattenSeq([i \in DOMAIN states |-> StateEntries(states[i])])
    IN  [acc EXCEPT !.keys = @ \o [i \in DOMAIN es |-> es[i].k],
                    !.values = @ \o [i \in DOMAIN es |-> es[i].v]]

object_merge(acc, states) ==
    PutEntries(acc, FlattenSeq([i \in DOMAIN states |-> StateEntries(states[i])]))

\* Values that are not texts are left out; a text that is not JSON fails.
object_evaluate(acc) ==
    LET texts == {i \in DOMAIN acc.keys : acc.values[i].ty = "Utf8"}
    IN  IF \E i \in texts : acc.values[i].j = <<>> THEN Failure
        ELSE [object |-> {<<acc.keys[i], acc.values[i].j[1]>> : i \in texts}]

-----------------------------------------------------------------------------
(* PERCENTILE_CONT                                                         *)

percentile_new == [values |-> <<>>]
percentile_update(acc, rows) == [values |-> acc.values \o Values(rows)]

Interpolate(vs) ==
    LET at == PctNum * (Len(vs) - 1)
        lower == at \div PctDen
        rest == at % PctDen
    IN  IF rest = 0 THEN vs[lower + 1]
        ELSE vs[lower + 1] + (((vs[lower + 2] - vs[lower + 1]) * rest) \div PctDen)

percentile_evaluate(acc) ==
    [number |-> IF acc.values = <<>> THEN <<>>
                ELSE <<Interpolate(SortSeq(acc.values, LAMBDA a, b : a < b))>>]

\* state() hands over the percentile of the partition's values, not the values.
percentile_state(acc) == percentile_evaluate(acc).number
percentile_merge(acc, states) == [values |-> acc.values \o Values(states)]

-----------------------------------------------------------------------------
(* The functions by name                                                   *)

Distinct == fn = "listagg distinct"

New(f) ==
    CASE f \in {"booland_agg", "boolor_agg", "boolxor_agg"} -> bool_new
      [] f = "any_value" -> any_value_new
      [] f = "array_unique_agg" -> unique_new
      [] f = "array_union_agg" -> union_new
      [] f \in {"listagg", "listagg distinct"} -> listagg_new
      [] f = "object_agg" -> object_new
      [] f = "percentile_cont" -> percentile_new

update_batch(acc, rows) ==
    CASE fn = "booland_agg" -> booland_update(acc, rows)
      [] fn = "boolor_agg" -> boolor_update(acc, rows)
      [] fn = "boolxor_agg" -> boolxor_update(acc, rows)
      [] fn = "any_value" -> any_value_update(acc, rows)
      [] fn = "array_unique_agg" -> unique_update(acc, rows)
      [] fn = "array_union_agg" -> union_update(acc, rows)
      [] fn \in {"listagg", "listagg distinct"} -> listagg_update(acc, rows, Distinct)
      [] fn = "object_agg" -> object_update(acc, rows)
      [] fn = "percentile_cont" -> percentile_update(acc, rows)

state(acc) == IF fn = "percentile_cont" THEN percentile_state(acc) ELSE acc

merge_batch(acc, states) ==
    CASE fn = "booland_agg" -> booland_merge(acc, states)
      [] fn = "boolor_agg" -> boolor_merge(acc, states)
      [] fn = "boolxor_agg" -> boolxor_merge(acc, states)
      [] fn = "any_value" -> any_value_merge(acc, states)
      [] fn = "array_unique_agg" -> unique_merge(acc, states)
      [] fn = "array_union_agg" -> union_merge(acc, states)
      [] fn \in {"listagg", "listagg distinct"} -> listagg_merge(acc, states, Distinct)
      [] fn = "object_agg" -> object_merge(acc, states)
      [] fn = "percentile_cont" -> percentile_merge(acc, states)

evaluate(acc) ==
    CASE fn \in {"booland_agg", "boolor_agg", "boolxor_agg"} -> [bool |-> acc.state]
      [] fn = "any_value" -> [any |-> acc.value]
      [] fn = "array_unique_agg" -> unique_evaluate(acc)
      [] fn = "array_union_agg" -> union_evaluate(acc)
      [] fn \in {"listagg", "listagg distinct"} -> listagg_evaluate(acc)
      [] fn = "object_agg" -> object_evaluate(acc)
      [] fn = "percentile_cont" -> percentile_evaluate(acc)

\* A call that fails ends the query.
Broken(acc) == fn \in {"object_agg", "array_union_agg"} /\ acc.err

-----------------------------------------------------------------------------
AggregateInit ==
    /\ fn = "none" /\ group = <<>> /\ pending = <<>> /\ partial = <<>>
    /\ emitted = {} /\ merged = {} /\ final = <<>> /\ widest = 0 /\ result = <<>>

\* A query with an aggregate f over the rows of g.
Start(f, g) ==
    /\ fn' = f /\ group' = g /\ pending' = g
    /\ partial' = [p \in DOMAIN g |-> New(f)]
    /\ final' = New(f)
    /\ UNCHANGED <<emitted, merged, widest, result>>

\* One update_batch call on the next n rows of partition p.
Update(p, n) ==
    /\ result = <<>>
    /\ p \notin emitted \union merged
    /\ n \in 1..Len(pending[p])
    /\ LET acc == update_batch(partial[p], SubSeq(pending[p], 1, n))
       IN  /\ partial' = [partial EXCEPT ![p] = acc]
           /\ result' = IF Broken(acc) THEN <<Failure>> ELSE <<>>
    /\ pending' = [pending EXCEPT ![p] = SubSeq(@, n + 1, Len(@))]
    /\ UNCHANGED <<fn, group, emitted, merged, final, widest>>

\* The partition's rows are used up: its state goes to the last accumulator.
Emit(p) ==
    /\ result = <<>>
    /\ p \notin emitted \union merged
    /\ pending[p] = <<>>
    /\ emitted' = emitted \union {p}
    /\ UNCHANGED <<fn, group, pending, partial, merged, final, widest, result>>

\* One merge_batch call with the states of the partitions ps, in that order.
Merge(ps) ==
    /\ result = <<>>
    /\ ps # <<>>
    /\ LET acc == merge_batch(final, [i \in DOMAIN ps |-> state(partial[ps[i]])])
       IN  /\ final' = acc
           /\ result' = IF Broken(acc) THEN <<Failure>> ELSE <<>>
    /\ emitted' = emitted \ Range(ps)
    /\ merged' = merged \union Range(ps)
    /\ widest' = IF Len(ps) > widest THEN Len(ps) ELSE widest
    /\ UNCHANGED <<fn, group, pending, partial>>

Evaluate ==
    /\ fn # "none" /\ result = <<>>
    /\ merged = Partitions
    /\ result' = <<evaluate(final)>>
    /\ UNCHANGED <<fn, group, pending, partial, emitted, merged, final, widest>>

\* A plan with one partition evaluates its accumulator at once.
EvaluateSingle ==
    /\ result = <<>>
    /\ Partitions = {1} /\ pending[1] = <<>> /\ emitted \union merged = {}
    /\ result' = <<evaluate(partial[1])>>
    /\ UNCHANGED <<fn, group, pending, partial, emitted, merged, final, widest>>

Orders(S) == {ps \in UNION {[1..n -> S] : n \in 1..MaxStates} : IsInjective(ps)}

\* The query is answered.
Finish ==
    /\ result # <<>>
    /\ fn' = "none" /\ group' = <<>> /\ pending' = <<>> /\ partial' = <<>>
    /\ emitted' = {} /\ merged' = {} /\ final' = <<>> /\ widest' = 0 /\ result' = <<>>

AggregateNext ==
    \/ fn = "none" /\ \E f \in Functions_ : \E g \in Groups(f) : Start(f, g)
    \/ \E p \in Partitions : \E n \in 1..Len(pending[p]) : Update(p, n)
    \/ \E p \in Partitions : Emit(p)
    \/ \E ps \in Orders(emitted) : Merge(ps)
    \/ Evaluate
    \/ EvaluateSingle
    \/ Finish

-----------------------------------------------------------------------------
(* What the answers promise                                                *)

\* The group as one sequence of rows.
Whole == FlattenSeq(group)
Done(f) == fn = f /\ result # <<>>
Ans == result[1]
Bag(xs) == [x \in Range(xs) |-> Cardinality({i \in DOMAIN xs : xs[i] = x})]

\* BOOLAND_AGG answers the conjunction of the group's non-NULL rows, NULL if
\* there are none, however the rows are cut into batches and partitions -
\* as long as merge_batch gets its states one at a time
\* (booland_agg.rs, update_batch and merge_batch).
BoolandIsConjunction ==
    Done("booland_agg") /\ widest <= 1 =>
        Ans = [bool |-> IF Values(Whole) = <<>> THEN <<>>
                        ELSE <<FALSE \notin Range(Values(Whole))>>]

\* BOOLXOR_AGG never answers TRUE for a group with no TRUE row, and never
\* NULL for a group with a row that is not, as long as states are merged one
\* at a time (boolxor_agg.rs, update_batch and merge_batch).
BoolxorNeedsATrue ==
    Done("boolxor_agg") /\ widest <= 1 =>
        /\ Ans = [bool |-> <<TRUE>>] => TRUE \in Range(Values(Whole))
        /\ Ans = [bool |-> <<>>] <=> Values(Whole) = <<>>

\* ANY_VALUE answers a row of the group, and NULL only if a row is NULL or
\* there is none: an empty partition's state never stands for a row, in any
\* order of merges (any_value.rs, the is_set flag).
AnyValueIsARow ==
    Done("any_value") =>
        \/ Ans.any \in Range(Whole)
        \/ Whole = <<>> /\ Ans.any = <<>>

\* ARRAY_UNIQUE_AGG answers each value of a group that has one, once,
\* whichever partition saw it first (array_unique_agg.rs, update_batch and
\* merge_batch on one state).  Of a group of NULLs alone nothing is said: the
\* comment at array_unique_agg.rs:27-28 promises the empty array for it, and
\* iter_to_array fails on no values (array_unique_agg.rs:115).
UniqueAggHasEachOnce ==
    Done("array_unique_agg") /\ widest <= 1 /\ Values(Whole) # <<>> =>
        /\ Ans # Failure
        /\ Range(Ans.array) = Range(Values(Whole))
        /\ IsInjective(Ans.array)

\* ARRAY_UNION_AGG fails for a row that is not an array, in whichever batch
\* and partition it comes; over arrays of elements of one type it answers
\* without failing and holds every element of every array
\* (array_union_agg.rs, the data type is carried by the states).
UnionAggHasEveryElement ==
    LET rows == Range(Values(Whole))
        elements == {x \in UNION {Range(r.xs) : r \in rows} : x.t # "Null"}
        types == {x.t : x \in elements}
    IN  Done("array_union_agg") =>
          /\ (\E r \in rows : ~r.array) => Ans = Failure
          /\ widest <= 1 /\ (\A r \in rows : r.array) /\ Cardinality(types) = 1 =>
               /\ Ans # Failure
               /\ Range(Ans.array) = IF types = {"String"}
                                     THEN {[t |-> "String", x |-> e] : e \in elements} ELSE elements

\* LISTAGG without DISTINCT holds every non-NULL value as often as the group
\* does, in every schedule; LISTAGG DISTINCT holds each value once when one
\* accumulator saw all rows (listagg.rs, append_value and merge_batch).
ListaggKeepsEveryValue ==
    LET letters == SelectSeq(Ans.text, LAMBDA c : c # Delimiter[1])
    IN  /\ Done("listagg") => Bag(letters) = Bag(FlattenSeq(Values(Whole)))
        /\ Done("listagg distinct") /\ merged = {} =>
             /\ IsInjective(letters)
             /\ Range(letters) = Range(FlattenSeq(Values(Whole)))

\* OBJECT_AGG fails exactly when a key comes twice, in one batch, two
\* batches or two partitions, or a text is not JSON; otherwise the object
\* has the entries of all text rows (object_agg.rs, keys_seen).
ObjectAggRefusesRepeatedKeys ==
    LET full == {i \in DOMAIN Whole : Whole[i].k # <<>> /\ Whole[i].v # <<>>}
        texts == {i \in full : Whole[i].v[1].ty = "Utf8"}
        twice == \E i, j \in full : i # j /\ Whole[i].k = Whole[j].k
        bad == \E i \in texts : Whole[i].v[1].j = <<>>
    IN  Done("object_agg") =>
          IF twice \/ bad THEN Ans = Failure
          ELSE Ans = [object |-> {<<Whole[i].k[1], Whole[i].v[1].j[1]>> : i \in texts}]

\* PERCENTILE_CONT in one partition is the continuous percentile of all the
\* group's values, however they are batched: for PctNum / PctDen = 1/2, as
\* many values lie below it as above (percentile_cont.rs, evaluate).
PercentileSplitsTheGroup ==
    LET vs == Values(Whole)
        below == Cardinality({i \in DOMAIN vs : vs[i] < Ans.number[1]})
        above == Cardinality({i \in DOMAIN vs : vs[i] > Ans.number[1]})
    IN  Done("percentile_cont") /\ merged = {} =>
          IF vs = <<>> THEN Ans.number = <<>>
          ELSE /\ below * PctDen <= PctNum * Len(vs)
               /\ above * PctDen <= (PctDen - PctNum) * Len(vs)

\* An aggregate answers for the group and not for the schedule: the batches,
\* the partitions, the order of the merges and the states per merge leave no
\* trace, as far as each accumulator's merge_batch allows.
AggregatesIgnoreTheSchedule ==
    /\ BoolandIsConjunction /\ BoolxorNeedsATrue /\ AnyValueIsARow /\ UniqueAggHasEachOnce
    /\ UnionAggHasEveryElement /\ ListaggKeepsEveryValue /\ ObjectAggRefusesRepeatedKeys
    /\ PercentileSplitsTheGroup
=============================================================================

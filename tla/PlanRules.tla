------------------------------ MODULE PlanRules ------------------------------
(***************************************************************************)
(* The optimizer rules of crates/executor/src/datafusion, and the plans    *)
(* they rewrite with what these answer.  An aggregate is not computed: its *)
(* value over a group is the expression together with the rows of the      *)
(* group, all that tells one aggregate's value from another's.             *)
(***************************************************************************)
EXTENDS Integers, Sequences, FiniteSets, SequencesExt

-----------------------------------------------------------------------------
(* SplitOrderedAggregates.  An input row is [id, key], the key a cell per  *)
(* group column, <<>> for NULL; an aggregate expression is [f, ord,        *)
(* plain], plain when it is an aggregate function under aliases and casts. *)

find_ordering_in_aggregate(e) == IF e.plain THEN <<e.ord>> ELSE <<>>

\* The name two orderings are told apart by: each sort with its direction and
\* the place of its NULLs.
ordering_signature(ord) == ord

partition_aggregates(aggs) ==
    LET Found(n) == find_ordering_in_aggregate(aggs[n])
        Sig(n) == ordering_signature(Found(n)[1])
        ordered == {n \in DOMAIN aggs : Found(n) # <<>>}
    IN  [classes |-> {{n \in ordered : Sig(n) = s} : s \in {Sig(n) : n \in ordered}},
         unordered |-> DOMAIN aggs \ ordered]

\* GROUP BY: the groups of NULL keys are groups too, and without keys there is
\* one group whatever the rows.
GroupsBy(rows, keys) ==
    {[key |-> k, of |-> {r \in rows : r.key = k}] : k \in IF keys = 0 THEN {<<>>} ELSE {r.key : r \in rows}}
Value(e, group) == [e |-> e, of |-> group.of]

aggregate(rows, keys, aggs) ==
    {[key |-> g.key, vals |-> [n \in DOMAIN aggs |-> Value(aggs[n], g)]] : g \in GroupsBy(rows, keys)}

\* Mutant: the values of a branch are found by their place in it.
build_branch_places(rows, keys, aggs, ns) ==
    {[key |-> g.key, vals |-> [n \in ns |-> Value(aggs[Cardinality({m \in ns : m <= n})], g)]] :
        g \in GroupsBy(rows, keys)}

\* The aggregates numbered ns, each under the name agg_n.
build_branch(rows, keys, aggs, ns) ==
    {[key |-> g.key, vals |-> [n \in ns |-> Value(aggs[n], g)]] : g \in GroupsBy(rows, keys)}

\* The group keys of two branches joined by =, which no NULL satisfies.
SameKey(k, l) == \A n \in DOMAIN k : k[n] # <<>> /\ k[n] = l[n]

merge_branches(left, right) ==
    {[key |-> p[1].key,
      vals |-> [n \in DOMAIN p[1].vals \cup DOMAIN p[2].vals |->
                  IF n \in DOMAIN p[1].vals THEN p[1].vals[n] ELSE p[2].vals[n]]] :
        p \in {q \in left \X right : SameKey(q[1].key, q[2].key)}}

\* The rows in the order of the original columns.
build_final_projection(rows, aggs) ==
    {[key |-> r.key, vals |-> [n \in DOMAIN aggs |-> r.vals[n]]] : r \in rows}

\* The case-folded form of a column name.
Folded(name) == CASE name = "B" -> "b" [] OTHER -> name

\* The classes come out of a HashMap, so any of them may be the first branch,
\* the one that takes the unordered aggregates.  col(name) neither qualifies
\* nor quotes a group column: two of one name are ambiguous, and a name with
\* capitals means another column, which is not there or is projected twice.
rewrite(rows, names, aggs, first) ==
    LET keys == Len(names)
        parts == partition_aggregates(aggs)
        start == build_branch(rows, keys, aggs, first \cup parts.unordered)
        others == SetToSeq(parts.classes \ {first})
        Merged(acc, ns) == merge_branches(acc, build_branch(rows, keys, aggs, ns))
    IN  CASE Cardinality(parts.classes) <= 1 -> [err |-> FALSE, rows |-> aggregate(rows, keys, aggs)]
          [] /\ Cardinality(parts.classes) > 1
             /\ ~IsInjective(names) \/ \E n \in DOMAIN names : Folded(names[n]) # names[n] ->
               [err |-> TRUE, rows |-> {}]
          [] OTHER -> [err |-> FALSE, rows |-> build_final_projection(FoldLeft(Merged, start, others), aggs)]

-----------------------------------------------------------------------------
(* EliminateEmptyDataSourceExec and RemoveExecAboveEmpty.  A physical plan *)
(* is [op, rows, kids]; rows counts the rows of a leaf.                    *)

Node(op, rows, kids) == [op |-> op, rows |-> rows, kids |-> kids]
EmptyExec == Node("Empty", 0, <<>>)

\* transform_up visits the children first, then the node with its new children.
RECURSIVE eliminate_empty(_)
eliminate_empty(plan) ==
    IF plan.op = "Source" /\ plan.rows = 0 THEN EmptyExec
    ELSE [plan EXCEPT !.kids = [n \in DOMAIN plan.kids |-> eliminate_empty(plan.kids[n])]]

RECURSIVE contains_aggregates(_)
contains_aggregates(plan) ==
    plan.op \in {"Aggregate", "GroupedAggregate"} \/ \E n \in DOMAIN plan.kids : contains_aggregates(plan.kids[n])

remove_exec(plan) ==
    IF plan.op = "Empty" \/ contains_aggregates(plan) \/ plan.kids = <<>> THEN plan
    ELSE IF \A n \in DOMAIN plan.kids : plan.kids[n].op = "Empty" THEN EmptyExec ELSE plan

RECURSIVE remove_above_empty(_)
remove_above_empty(plan) ==
    remove_exec([plan EXCEPT !.kids = [n \in DOMAIN plan.kids |-> remove_above_empty(plan.kids[n])]])

\* physical_optimizer_rules: the first two rules, in this order.
optimize(plan) == remove_above_empty(eliminate_empty(plan))

\* How many rows a plan answers, and how many it hands to its sinks.  The
\* joins match every pair of rows; a sink answers with one row, its count.
RECURSIVE Rows(_)
Rows(plan) ==
    LET kid(n) == Rows(plan.kids[n])
    IN  CASE plan.op = "Empty" -> 0
          [] plan.op \in {"Source", "PlaceholderRow"} -> plan.rows
          [] plan.op \in {"Filter", "Sort", "Projection"} -> kid(1)
          [] plan.op \in {"Aggregate", "DataSink"} -> 1
          [] plan.op = "GroupedAggregate" -> IF kid(1) = 0 THEN 0 ELSE 1
          [] plan.op = "Union" -> kid(1) + kid(2)
          [] plan.op = "InnerJoin" -> kid(1) * kid(2)
          [] plan.op = "LeftJoin" -> IF kid(2) = 0 THEN kid(1) ELSE kid(1) * kid(2)
          [] plan.op = "FullJoin" -> CASE kid(1) = 0 -> kid(2)
                                       [] kid(2) = 0 -> kid(1)
                                       [] OTHER -> kid(1) * kid(2)

Written(plan) == IF plan.op = "DataSink" THEN Rows(plan.kids[1]) ELSE 0
=============================================================================

------------------------------ MODULE MCMerge ------------------------------
(***************************************************************************)
(* Merge for TLC: two columns, a target of two data files and sources of   *)
(* one to three rows.  The first writer runs any of the statements, the    *)
(* second an upsert.                                                       *)
(***************************************************************************)
EXTENDS Merge

CONSTANTS w1, w2

MCColumns == {"k", "v"}

Row(k, v) == [c \in MCColumns |-> IF c = "k" THEN k ELSE v]

File(m, rows) == [manifest |-> m, rows |-> rows]

MCTables == {
    <<File(1, <<Row(1, 1), Row(2, 2)>>), File(1, <<Row(3, 0)>>)>>,
    <<File(1, <<Row(1, 3), Row(NULL, 1)>>), File(2, <<Row(3, 1)>>)>>,
    <<>>}

By(column, transform) == [column |-> column, transform |-> transform, width |-> 2]
NotPartitioned == {}
ByKey == {By("k", "identity")}

Source(kind, partition, rows) == [kind |-> kind, partition |-> partition, rows |-> rows]

Always == [side |-> "none", column |-> "v", value |-> 0]
When(side, value) == [side |-> side, column |-> "v", value |-> value]

Clause(kind, pred, action, set, columns, values, n) ==
    [kind |-> kind, pred |-> pred, action |-> action, set |-> set,
     columns |-> columns, values |-> values, rows |-> n]

Update(pred) == Clause("Matched", pred, "Update", <<<<"v", "v">>>>, <<>>, <<>>, 0)
Insert(pred, cols) == Clause("NotMatched", pred, "Insert", <<>>, cols, cols, 1)
InsertAll == Insert(Always, <<"k", "v">>)

Merge(source, on, clauses) ==
    [source |-> source, target |-> "table", on |-> on, clauses |-> clauses]

Two == Source("table", NotPartitioned, <<Row(1, 5), Row(4, 6)>>)
Three == Source("table", ByKey, <<Row(1, 5), Row(3, 5), Row(4, 6)>>)

Upsert == Merge(Two, "key", <<Update(Always), InsertAll>>)

\* Statements SQL's MERGE and the implementation agree on.
Agreeing == {
    Upsert,
    Merge(Three, "key", <<Update(Always), InsertAll>>),
    Merge(Three, "window", <<Update(When("target", 1)), InsertAll>>),
    Merge(Source("derived", {By("v", "truncate")}, <<Row(3, 2)>>), "key",
        <<Update(When("source", 1)), Update(When("source", 2)), InsertAll>>),
    Merge(Source("table", NotPartitioned, <<Row(NULL, 5), Row(2, 6)>>), "key",
        <<Update(Always), Insert(When("source", 5), <<"k", "v">>), Insert(When("source", 6), <<"v", "k">>)>>),
    Merge(Source("view", NotPartitioned, <<Row(4, 4)>>), "never", <<Insert(Always, <<"v">>)>>)}

\* Statements outside that class, which must not lose rows either.
Beyond == {
    Merge(Source("table", {By("v", "identity")}, <<Row(1, 2), Row(3, 1)>>), "key", <<Update(Always)>>),
    Merge([Three EXCEPT !.partition = {By("k", "period")}], "key", <<Update(Always), InsertAll>>),
    Merge([Three EXCEPT !.partition = {By("k", "identity"), By("v", "bucket")}], "key", <<Update(Always), InsertAll>>),
    Merge(Two, "key", <<Clause("Matched", Always, "Delete", <<>>, <<>>, <<>>, 0)>>),
    Merge(Source("derived", NotPartitioned, <<Row(1, 5), Row(1, 6)>>), "key", <<Update(Always)>>)}

Refused == {
    [Upsert EXCEPT !.source.kind = "function"],
    [Upsert EXCEPT !.source.kind = "iceberg_view"],
    [Upsert EXCEPT !.target = "not_table"],
    [Upsert EXCEPT !.target = "not_iceberg"],
    [Upsert EXCEPT !.clauses[1].kind = "NotMatchedBySource"],
    [Upsert EXCEPT !.clauses[1].action = "UpdateTuple"],
    [Upsert EXCEPT !.clauses[2].action = "InsertRow"],
    [Upsert EXCEPT !.clauses[2].rows = 2]}

Workload(a, b) == [w \in {w1, w2} |-> IF w = w1 THEN a ELSE b]

MCWorkloads == {Workload(a, Upsert) : a \in Agreeing \cup Beyond \cup Refused}

\* An upsert from a source that is partitioned by a transform of the key.
MCTransformed ==
    LET source(transform) == Source("table", {By("k", transform)}, <<Row(1, 5), Row(3, 5)>>)
    IN  {Workload(Merge(source(transform), "key", <<Update(Always), InsertAll>>), Upsert) :
            transform \in {"bucket", "truncate", "period"}}

MCMaxRuns == [w \in {w1, w2} |-> IF w = w1 THEN 2 ELSE 1]

=============================================================================

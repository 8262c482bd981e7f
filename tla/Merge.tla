------------------------------- MODULE Merge -------------------------------
(***************************************************************************)
(* MERGE INTO as copy-on-write over an Iceberg table: the planning of      *)
(* UserQuery::merge_to_logical_plan (executor/src/query.rs), the stream    *)
(* that counts and projects the joined rows, and the sink that commits     *)
(* (executor/src/datafusion/physical_plan/merge.rs).                       *)
(*                                                                         *)
(* A table is a set of immutable data files, each listed by a manifest.    *)
(* Writers run MERGE concurrently; each reads the snapshot that was        *)
(* current when it planned.  The commit of a snapshot is the catalog's     *)
(* (external): it fails when another snapshot has been committed since.    *)
(*                                                                         *)
(* A row is a function from Columns; the values of SET and INSERT are      *)
(* columns of the source, and a predicate compares one column with a       *)
(* literal.  Types, casts and aliases are left out.                        *)
(***************************************************************************)
EXTENDS Integers, Sequences, FiniteSets, FiniteSetsExt

CONSTANTS
    Writers,     \* sessions that run a MERGE
    Workloads,   \* the MERGE statement of each writer
    Tables,      \* initial contents of the target: Seq of [manifest, rows]
    Columns,
    NULL,
    MaxBatch,    \* rows of a record batch
    MaxRuns      \* how often each writer sends its statement

Key == "k"       \* the column that ON compares

\* Rows, and the statements as far as planning tells them apart.
Values == Int \cup {NULL}
TableRows == [Columns -> Values]
Clauses ==
    [kind : {"Matched", "NotMatched", "NotMatchedBySource"},
     pred : [side : {"none", "source", "target"}, column : Columns, value : Values],
     action : {"Update", "UpdateTuple", "Insert", "InsertRow", "Delete"},
     set : Seq(Columns \X Columns), columns : Seq(Columns), values : Seq(Columns), rows : Nat]
\* A partition field: the column and the transform PARTITION BY names.  Of a
\* transform into year, month, day or hour only the width of the period counts.
PartitionFields ==
    [column : Columns, transform : {"identity", "bucket", "truncate", "period"}, width : Nat \ {0}]
Sources == [kind : STRING, partition : SUBSET PartitionFields, rows : Seq(TableRows)]
MergeStatements ==
    [source : Sources, target : STRING, on : {"key", "window", "never"}, clauses : Seq(Clauses)]

\* A column may be NULL, which is no number, and ON can name its column.
ASSUME ColumnsAssumption == NULL \notin Int /\ Key \in Columns

ASSUME BatchAssumption == MaxBatch \in Nat

\* A target is a sequence of data files with rows of the table's columns.
ASSUME TablesAssumption == \A content \in Tables : content \in Seq([manifest : Nat, rows : Seq(TableRows)])

\* What the SQL grammar lets through: WHEN MATCHED does not insert and WHEN
\* NOT MATCHED does not update.  columns and values are the pairs that the zip
\* of an INSERT's two lists yields.
ASSUME WorkloadsAssumption ==
    \A load \in Workloads :
        /\ load \in [Writers -> MergeStatements]
        /\ \A w \in Writers : \A n \in DOMAIN load[w].clauses :
              LET c == load[w].clauses[n]
              IN  /\ c.action = "Update" => c.kind \in {"Matched", "NotMatchedBySource"}
                  /\ c.action = "Insert" => c.kind = "NotMatched"
                  /\ Len(c.columns) = Len(c.values)

VARIABLES
    table,     \* [snapshot, files]: what the catalog holds
    pc, stmt, runs,
    base,      \* the snapshot a statement read when it planned
    left,      \* joined rows the stream has not been polled for
    matching,  \* matching_files of the stream: <<data file, manifest>>
    grouped,   \* matching_files_ref once the stream has ended, in <<>> or <<f>>
    updated, inserted,  \* the two counters
    result     \* the answer of the statement

vars == <<table, pc, stmt, runs, base, left, matching, grouped, updated, inserted, result>>

NoRow == <<>>
Pending == [status |-> "pending"]
Failed(e) == [status |-> e]

-----------------------------------------------------------------------------
(* Planning *)

\* The rows of a table, by <<data file, position>>.
RowIds(tb) == UNION {{f} \X DOMAIN tb.files[f].rows : f \in DOMAIN tb.files}
RowAt(tb, t) == tb.files[t[1]].rows[t[2]]

Less(a, b) == a # NULL /\ b # NULL /\ a < b

\* The partition value of a column's value (external: Iceberg computes it when
\* a file of the source is written; the hash of bucket is the number itself).
PartitionValue(field, v) ==
    CASE field.transform = "identity" -> v
      [] field.transform = "bucket" -> v % field.width
      [] field.transform = "truncate" -> v - (v % field.width)
      [] field.transform = "period" -> v \div field.width

PartitionValues(src, field) ==
    {PartitionValue(field, v) : v \in {src.rows[i][field.column] : i \in DOMAIN src.rows} \ {NULL}}

\* The smallest and the largest partition value of the source, for each field.
partition_column_bounds(src) ==
    {[column |-> f.column, min |-> Min(PartitionValues(src, f)), max |-> Max(PartitionValues(src, f))] :
        f \in {f \in src.partition : PartitionValues(src, f) # {}}}

\* The bounds the scan of the target gets, all of which it must meet: only a
\* table gives any, and only when it has a snapshot and is partitioned.  They
\* bound the column itself, not the value its transform makes of it.
target_filter_expression(src) ==
    IF src.kind # "table" \/ src.rows = <<>> THEN {} ELSE partition_column_bounds(src)

\* The data files a scan with these bounds opens (external: the scan of the
\* Iceberg table prunes whole files by their statistics).
ScannedFiles(tb, src) ==
    {f \in DOMAIN tb.files : \A b \in target_filter_expression(src) :
        \E i \in DOMAIN tb.files[f].rows :
            LET v == tb.files[f].rows[i][b.column]
            IN  v # NULL /\ b.min <= v /\ v <= b.max}

\* The ON condition holds of a target row and a source row.
Matches(on, t, s) ==
    CASE on = "key" -> t[Key] # NULL /\ t[Key] = s[Key]
      [] on = "window" -> t[Key] # NULL /\ t[Key] = s[Key] /\ Less(t["v"], 2)
      [] on = "never" -> FALSE

\* Pairs of the inner join of the scanned target and the source.
InnerJoin(tb, st) ==
    {p \in {t \in RowIds(tb) : t[1] \in ScannedFiles(tb, st.source)} \X DOMAIN st.source.rows :
        Matches(st.on, RowAt(tb, p[1]), st.source.rows[p[2]])}

\* The data files with a row of the inner join.
AffectedFiles(tb, st) == {p[1][1] : p \in InnerJoin(tb, st)}

\* Mutant: the target side is what the inner join found.
JoinedMatchesOnly(tb, st) ==
    LET pairs == InnerJoin(tb, st)
    IN  {[t |-> p[1], s |-> <<p[2]>>] : p \in pairs}
        \cup {[t |-> NoRow, s |-> <<i>>] : i \in {i \in DOMAIN st.source.rows :
                                            \A p \in pairs : p[2] # i}}

\* The full join of the affected files with the source.
Joined(tb, st) ==
    LET pairs == InnerJoin(tb, st)
        target == {t \in RowIds(tb) : t[1] \in AffectedFiles(tb, st)}
    IN  {[t |-> p[1], s |-> <<p[2]>>] : p \in pairs}
        \cup {[t |-> t, s |-> NoRow] : t \in target \ {p[1] : p \in pairs}}
        \cup {[t |-> NoRow, s |-> <<i>>] : i \in {i \in DOMAIN st.source.rows :
                                            \A p \in pairs : p[2] # i}}

\* The condition of a clause on a joined row, without its predicate.
merge_clause_expression(c, j) ==
    IF c.kind = "Matched" THEN j.t # NoRow /\ j.s # NoRow ELSE j.t = NoRow

\* The predicate of a clause; a comparison with NULL is not true.
Predicate(tb, st, c, j) ==
    CASE c.pred.side = "none" -> TRUE
      [] c.pred.side = "source" ->
            j.s # NoRow /\ st.source.rows[j.s[1]][c.pred.column] = c.pred.value
      [] c.pred.side = "target" ->
            j.t # NoRow /\ RowAt(tb, j.t)[c.pred.column] = c.pred.value

Op(tb, st, n, j) ==
    LET c == st.clauses[n] IN merge_clause_expression(c, j) /\ Predicate(tb, st, c, j)

\* updates of a column: the UPDATE clauses that assign it, each one WHEN.
Updates(clauses, col) ==
    {n \in DOMAIN clauses : /\ clauses[n].action = "Update"
                            /\ \E i \in DOMAIN clauses[n].set : clauses[n].set[i][1] = col}

\* inserts of a column: the INSERT clauses, each one WHEN; one that does not
\* list the column replaces the WHENs of those before it by its own NULL.
Inserts(clauses, col) ==
    LET all == {n \in DOMAIN clauses : clauses[n].action = "Insert"}
    IN  {n \in all : \A m \in all : col \notin Range(clauses[m].columns) => m <= n}

\* Where an UPDATE assigns a column, and where an INSERT lists it.
Assigning(c, col) == {i \in DOMAIN c.set : c.set[i][1] = col}
Listing(c, col) == {i \in DOMAIN c.columns : c.columns[i] = col}

\* The value of a column under the WHEN of a clause; the first assignment counts.
merge_clause_projection(st, n, col, j) ==
    LET c == st.clauses[n]
        s == st.source.rows[j.s[1]]
    IN  IF c.action = "Update" THEN s[c.set[Min(Assigning(c, col))][2]]
        ELSE IF Listing(c, col) # {} THEN s[c.values[Min(Listing(c, col))]]
        ELSE NULL

\* Mutant: a column no clause sets is NULL.
collect_merge_clause_expressions_else_null(tb, st, j) ==
    [col \in Columns |->
        LET ups == {n \in Updates(st.clauses, col) : Op(tb, st, n, j)}
            ins == {n \in Inserts(st.clauses, col) : Op(tb, st, n, j)}
        IN  IF ups # {} THEN merge_clause_projection(st, Min(ups), col, j)
            ELSE IF ins # {} THEN merge_clause_projection(st, Min(ins), col, j)
            ELSE NULL]

\* The row written for a joined row: per column the first WHEN that holds, the
\* updates before the inserts, otherwise the column of the target row, NULL
\* where there is none.
collect_merge_clause_expressions(tb, st, j) ==
    [col \in Columns |->
        LET ups == {n \in Updates(st.clauses, col) : Op(tb, st, n, j)}
            ins == {n \in Inserts(st.clauses, col) : Op(tb, st, n, j)}
        IN  IF ups # {} THEN merge_clause_projection(st, Min(ups), col, j)
            ELSE IF ins # {} THEN merge_clause_projection(st, Min(ins), col, j)
            ELSE IF j.t = NoRow THEN NULL ELSE RowAt(tb, j.t)[col]]

\* Mutant: the markers do not look at the predicate.
MarkedByKind(tb, st, action, j) ==
    \E n \in DOMAIN st.clauses :
        st.clauses[n].action = action /\ merge_clause_expression(st.clauses[n], j)

\* MERGE_UPDATED_COLUMN and MERGE_INSERTED_COLUMN.
Marked(tb, st, action, j) ==
    \E n \in DOMAIN st.clauses : st.clauses[n].action = action /\ Op(tb, st, n, j)

\* The first clause that cannot be planned.
ClauseError(c) ==
    CASE c.kind = "NotMatchedBySource" -> "not_matched_by_source_not_supported"
      [] c.action = "UpdateTuple" -> "panic"
      [] c.action = "InsertRow" -> "only_merge_statements"
      [] c.action = "Insert" /\ c.rows # 1 -> "insert_only_one_row"
      [] OTHER -> "none"

\* The error planning ends with, in the order of the code.
PlanError(st) ==
    LET bad == {n \in DOMAIN st.clauses : ClauseError(st.clauses[n]) # "none"}
    IN  CASE st.source.kind \notin {"table", "derived", "view"} -> "source_not_supported"
          [] st.target = "not_table" -> "target_must_be_table"
          [] st.target = "not_iceberg" -> "iceberg"
          [] bad # {} -> ClauseError(st.clauses[Min(bad)])
          [] OTHER -> "none"

-----------------------------------------------------------------------------
(* Execution *)

\* The data files of a batch and their manifests: of its first row, and of
\* each row whose file is not that of the row before it.
unique_files_and_manifests(batch, tb) ==
    LET file(i) == IF batch[i].t = NoRow THEN 0 ELSE batch[i].t[1]
    IN  {<<file(i), tb.files[file(i)].manifest>> : i \in {i \in DOMAIN batch :
            file(i) # 0 /\ (i = 1 \/ file(i) # file(i - 1))}}

count_true_and_valid(w, batch, action) ==
    Cardinality({i \in DOMAIN batch : Marked(base[w], stmt[w], action, batch[i])})

\* Record batches the join may hand over next.
Batches(S) == UNION {Injection(1..n, S) : n \in 1..MaxBatch}

Init ==
    /\ \E content \in Tables : table = [snapshot |-> 0, files |-> content]
    /\ pc = [w \in Writers |-> "idle"]
    /\ stmt \in Workloads
    /\ runs = [w \in Writers |-> 0]
    /\ base = [w \in Writers |-> table]
    /\ left = [w \in Writers |-> {}]
    /\ matching = [w \in Writers |-> {}]
    /\ grouped = [w \in Writers |-> <<>>]
    /\ updated = [w \in Writers |-> 0]
    /\ inserted = [w \in Writers |-> 0]
    /\ result = [w \in Writers |-> Pending]

\* merge_to_logical_plan: the statement is refused, or it loads the table and
\* its stream is set up.
Plan(w) ==
    /\ pc[w] = "idle" /\ runs[w] < MaxRuns[w]
    /\ runs' = [runs EXCEPT ![w] = @ + 1]
    /\ LET error == PlanError(stmt[w])
       IN  \/ /\ error # "none"
              /\ pc' = [pc EXCEPT ![w] = "done"]
              /\ result' = [result EXCEPT ![w] = Failed(error)]
              /\ UNCHANGED <<base, left, matching, grouped, updated, inserted>>
           \/ /\ error = "none"
              /\ pc' = [pc EXCEPT ![w] = "stream"]
              /\ base' = [base EXCEPT ![w] = table]
              /\ left' = [left EXCEPT ![w] = Joined(table, stmt[w])]
              /\ matching' = [matching EXCEPT ![w] = {}]
              /\ grouped' = [grouped EXCEPT ![w] = <<>>]
              /\ updated' = [updated EXCEPT ![w] = 0]
              /\ inserted' = [inserted EXCEPT ![w] = 0]
              /\ result' = [result EXCEPT ![w] = Pending]
    /\ UNCHANGED <<table, stmt>>

\* poll_next with a batch.
PollBatch(w) ==
    /\ pc[w] = "stream"
    /\ \E batch \in Batches(left[w]) :
        /\ left' = [left EXCEPT ![w] = @ \ Range(batch)]
        /\ matching' = [matching EXCEPT ![w] = @ \cup unique_files_and_manifests(batch, base[w])]
        /\ updated' = [updated EXCEPT ![w] = @ + count_true_and_valid(w, batch, "Update")]
        /\ inserted' = [inserted EXCEPT ![w] = @ + count_true_and_valid(w, batch, "Insert")]
    /\ UNCHANGED <<table, pc, stmt, runs, base, grouped, result>>

\* poll_next with an error of the input, or an error of write_parquet_data_files.
PollError(w) ==
    /\ pc[w] = "stream" /\ left[w] # {}
    /\ pc' = [pc EXCEPT ![w] = "done"]
    /\ left' = [left EXCEPT ![w] = {}]
    /\ result' = [result EXCEPT ![w] = Failed("stream_error")]
    /\ UNCHANGED <<table, stmt, runs, base, matching, grouped, updated, inserted>>

\* The data files of each manifest.
Group(pairs) == [m \in {p[2] : p \in pairs} |-> {p[1] : p \in {p \in pairs : p[2] = m}}]

\* poll_next at the end of the input.
PollEnd(w) ==
    /\ pc[w] = "stream" /\ left[w] = {}
    /\ grouped' = [grouped EXCEPT ![w] = <<Group(matching[w])>>]
    /\ matching' = [matching EXCEPT ![w] = {}]
    /\ pc' = [pc EXCEPT ![w] = "commit"]
    /\ UNCHANGED <<table, stmt, runs, base, left, updated, inserted, result>>

\* The rows write_parquet_data_files has written, as one data file; the place
\* of a row in it is the joined row it was made from.
Written(w) ==
    [j \in Joined(base[w], stmt[w]) |-> collect_merge_clause_expressions(base[w], stmt[w], j)]

\* Transaction::append_data (external).
AppendData(tb, rows) ==
    LET f == Max(DOMAIN tb.files \cup {0}) + 1
    IN  [snapshot |-> tb.snapshot + 1,
         files |-> [g \in DOMAIN tb.files \cup {f} |->
                       IF g = f THEN [manifest |-> f, rows |-> rows] ELSE tb.files[g]]]

\* Transaction::overwrite (external): without the files listed for a manifest.
Overwrite(tb, rows, files) ==
    LET f == Max(DOMAIN tb.files \cup {0}) + 1
        kept == {g \in DOMAIN tb.files : tb.files[g].manifest \notin DOMAIN files
                                         \/ g \notin files[tb.files[g].manifest]}
    IN  [snapshot |-> tb.snapshot + 1,
         files |-> [g \in kept \cup {f} |->
                       IF g = f THEN [manifest |-> f, rows |-> rows] ELSE tb.files[g]]]

\* The columns of the result row: one for each kind of action of the
\* statement, and the updated count when there is none.
Answer(w) ==
    LET has(a) == \E n \in DOMAIN stmt[w].clauses : stmt[w].clauses[n].action = a
    IN  [status |-> "ok",
         inserted |-> IF has("Insert") THEN inserted[w] ELSE 0,
         updated |-> IF has("Update") THEN updated[w] ELSE 0,
         deleted |-> 0]

\* Mutant: the commit does not look at the snapshot it is based on.
CommitBlind(w) ==
    /\ pc[w] = "commit"
    /\ pc' = [pc EXCEPT ![w] = "done"]
    /\ grouped' = [grouped EXCEPT ![w] = <<>>]
    /\ LET rows == Written(w)
       IN  table' = IF rows = <<>> THEN table
                    ELSE Overwrite(base[w], rows, grouped[w][1])
    /\ result' = [result EXCEPT ![w] = Answer(w)]
    /\ UNCHANGED <<stmt, runs, base, left, matching, updated, inserted>>

\* The sink after the stream: matching_files is taken; nothing written is
\* nothing to commit; a commit fails when the table has moved on.
Commit(w) ==
    /\ pc[w] = "commit"
    /\ pc' = [pc EXCEPT ![w] = "done"]
    /\ grouped' = [grouped EXCEPT ![w] = <<>>]
    /\ LET rows == Written(w)
           files == grouped[w][1]
       IN  \/ /\ rows = <<>>
              /\ UNCHANGED table
              /\ result' = [result EXCEPT ![w] = Answer(w)]
           \/ /\ rows # <<>> /\ table.snapshot = base[w].snapshot
              /\ table' = IF DOMAIN files = {} THEN AppendData(base[w], rows)
                          ELSE Overwrite(base[w], rows, files)
              /\ result' = [result EXCEPT ![w] = Answer(w)]
           \/ /\ rows # <<>> /\ table.snapshot # base[w].snapshot
              /\ UNCHANGED table
              /\ result' = [result EXCEPT ![w] = Failed("conflict")]
    /\ UNCHANGED <<stmt, runs, base, left, matching, updated, inserted>>

\* The client sends the statement again.
Again(w) ==
    /\ pc[w] = "done" /\ runs[w] < MaxRuns[w]
    /\ pc' = [pc EXCEPT ![w] = "idle"]
    /\ UNCHANGED <<table, stmt, runs, base, left, matching, grouped, updated, inserted, result>>

Done ==
    /\ \A w \in Writers : pc[w] = "done" /\ runs[w] = MaxRuns[w]
    /\ UNCHANGED vars

Step(w) == Plan(w) \/ PollBatch(w) \/ PollError(w) \/ PollEnd(w) \/ Commit(w) \/ Again(w)

Next == (\E w \in Writers : Step(w)) \/ Done

Spec == Init /\ [][Next]_vars

-----------------------------------------------------------------------------
(* Properties *)

\* The bag of rows of a table.
Rows(tb) ==
    LET ids == RowIds(tb)
        vals == {RowAt(tb, t) : t \in ids}
    IN  [r \in vals |-> Cardinality({t \in ids : RowAt(tb, t) = r})]

CountOf(bag, r) == IF r \in DOMAIN bag THEN bag[r] ELSE 0

\* The pairs that SQL's MERGE joins: every row of the table, no pruning.
SQLPairs(tb, st) ==
    {p \in RowIds(tb) \X DOMAIN st.source.rows :
        Matches(st.on, RowAt(tb, p[1]), st.source.rows[p[2]])}

\* The clause that SQL's MERGE applies to a joined row, 0 when none does.
SQLClause(tb, st, j) ==
    LET all == {n \in DOMAIN st.clauses :
                  /\ IF st.clauses[n].kind = "Matched" THEN j.t # NoRow /\ j.s # NoRow ELSE j.t = NoRow
                  /\ Predicate(tb, st, st.clauses[n], j)}
    IN  IF all # {} THEN Min(all) ELSE 0

\* The row that an UPDATE or an INSERT clause yields.
SQLRow(tb, st, c, j) ==
    LET s == st.source.rows[j.s[1]]
    IN  IF c.action = "Update"
        THEN [col \in Columns |->
                IF Assigning(c, col) = {} THEN RowAt(tb, j.t)[col] ELSE s[c.set[Min(Assigning(c, col))][2]]]
        ELSE [col \in Columns |->
                IF Listing(c, col) = {} THEN NULL ELSE s[c.values[Min(Listing(c, col))]]]

\* The joined rows of SQL's MERGE and what each becomes: none or one row.
SQLJoined(tb, st) ==
    LET pairs == SQLPairs(tb, st)
    IN  {[t |-> p[1], s |-> <<p[2]>>] : p \in pairs}
        \cup {[t |-> t, s |-> NoRow] : t \in RowIds(tb) \ {p[1] : p \in pairs}}
        \cup {[t |-> NoRow, s |-> <<i>>] : i \in {i \in DOMAIN st.source.rows :
                                            \A p \in pairs : p[2] # i}}

SQLBecomes(tb, st, j) ==
    LET n == SQLClause(tb, st, j)
    IN  IF n = 0 THEN IF j.t = NoRow THEN {} ELSE {RowAt(tb, j.t)}
        ELSE IF st.clauses[n].action = "Delete" THEN {} ELSE {SQLRow(tb, st, st.clauses[n], j)}

\* The bag of rows SQL's MERGE leaves.
SQLMerge(tb, st) ==
    LET js == SQLJoined(tb, st)
        vals == UNION {SQLBecomes(tb, st, j) : j \in js}
    IN  [r \in vals |-> Cardinality({j \in js : r \in SQLBecomes(tb, st, j)})]

\* The bounds a source gives are the key's own.  A table partitioned by another
\* column, or by a bucket, a prefix or a period of the key, is no such source:
\* its bounds can skip a file whose rows match (PrunedFilesMatchNothing), and
\* MERGE then inserts what it should update.
KeyBounds(src) ==
    src.kind = "table" => \A f \in src.partition : f.column = Key /\ f.transform = "identity"

\* The statements the implementation claims: no row that a DELETE claims, no
\* source row left over, no two INSERT clauses with different columns, no row
\* that two clauses claim, no target row matched twice, and a source whose
\* bounds are those of the key (KeyBounds).
Supported(tb, st) ==
    LET js == SQLJoined(tb, st)
        claims(j) == {n \in DOMAIN st.clauses : Op(tb, st, n, j)}
        inserts == {n \in DOMAIN st.clauses : st.clauses[n].action = "Insert"}
    IN  /\ \A j \in js : /\ Cardinality(claims(j)) <= 1
                         /\ j.t = NoRow => claims(j) # {}
                         /\ \A n \in claims(j) : st.clauses[n].action # "Delete"
        /\ \A m, n \in inserts :
              Range(st.clauses[m].columns) = Range(st.clauses[n].columns)
        /\ \A p, q \in SQLPairs(tb, st) : p[1] = q[1] => p = q
        /\ KeyBounds(st.source)

\* The bounds prune only files without relevant data: a file that the scan of
\* the target skips has no row that a source row matches.
PrunedFilesMatchNothing ==
    \A w \in Writers : pc[w] = "stream" =>
        \A p \in SQLPairs(base[w], stmt[w]) : p[1][1] \in ScannedFiles(base[w], stmt[w].source)

\* A commit of a supported statement makes of the rows that are current, not
\* only of those its snapshot had, what SQL's MERGE makes of them.
CommitIsSQLMerge ==
    [][\A w \in Writers :
        (Commit(w) /\ result'[w].status = "ok" /\ Supported(table, stmt[w]))
            => Rows(table') = SQLMerge(table, stmt[w])]_vars

\* However the rows are cut into batches and whatever the clauses are, a row
\* of the table that no source row matches is there after the commit.
NoTargetRowLost ==
    [][\A w \in Writers : Commit(w) =>
        LET hit == {p[1] : p \in SQLPairs(table, stmt[w])}
            kept == {t \in RowIds(table) : t \notin hit}
        IN  \A t \in kept :
               Cardinality({u \in kept : RowAt(table, u) = RowAt(table, t)})
                 <= CountOf(Rows(table'), RowAt(table, t))]_vars

\* The counts a client reads are the numbers of rows SQL's MERGE updates and
\* inserts.
CountsAreExact ==
    \A w \in Writers :
        (pc[w] = "done" /\ result[w].status = "ok" /\ Supported(base[w], stmt[w])) =>
            LET claimed(a) == {j \in SQLJoined(base[w], stmt[w]) :
                    \E n \in DOMAIN stmt[w].clauses :
                        stmt[w].clauses[n].action = a /\ SQLClause(base[w], stmt[w], j) = n}
            IN  /\ result[w].updated = Cardinality(claimed("Update"))
                /\ result[w].inserted = Cardinality(claimed("Insert"))

\* Every column comes from the source column of its name, in UPDATE and in
\* INSERT clauses alike.
IsUpsert(st) ==
    \A n \in DOMAIN st.clauses :
        LET c == st.clauses[n]
        IN  IF c.action = "Update"
            THEN /\ \A i \in DOMAIN c.set : c.set[i][1] = c.set[i][2]
                 /\ {c.set[i][1] : i \in DOMAIN c.set} = Columns \ {Key}
            ELSE c.columns = c.values /\ Range(c.columns) = Columns

\* Sending a supported upsert by key once more, with nothing else committed in
\* between, changes no row.
RepeatIsIdempotent ==
    [][\A w \in Writers :
        (/\ Commit(w) /\ runs[w] > 1 /\ table'.snapshot = runs[w]
         /\ \A x \in Writers \ {w} : runs[x] = 0
         /\ stmt[w].on = "key" /\ IsUpsert(stmt[w]) /\ Supported(table, stmt[w])
         /\ \A i \in DOMAIN stmt[w].source.rows : stmt[w].source.rows[i][Key] # NULL)
            => Rows(table') = Rows(table)]_vars
=============================================================================

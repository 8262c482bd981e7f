----------------------------- MODULE Statements -----------------------------
(***************************************************************************)
(* The statements of one session (crates/executor/src/query.rs), run        *)
(* concurrently by Workers over the shared catalog of module Catalog.       *)
(*                                                                         *)
(* A statement runs without interruption from one await to the next.  At an *)
(* await on the Iceberg catalog its job holds the request (req); Remote     *)
(* performs it and leaves the answer in reply, and the action named after   *)
(* the job's pc goes on from there.  Until then other statements run, the   *)
(* request may fail with or without its effect, and the statement may be    *)
(* aborted - its request may then still be performed, late, or never.       *)
(***************************************************************************)
EXTENDS Catalog

CONSTANTS
    Workers,          \* concurrent statements
    Menus,            \* the sets of statements a client may choose from, one per behaviour
    Starts,           \* the catalog and Iceberg states a process may start with
    Context,          \* QueryContext.schema, "" for None
    Columns,          \* columns of a table, for PARTITION BY
    Buckets, CatalogBucket,   \* object store urls, and the one the catalog itself uses
    MaxStatements, MaxFaults, MaxWrites   \* bounds

VARIABLES
    cat,      \* the catalog list
    ice,      \* the remote Iceberg catalog
    job,      \* per worker, the statement it runs or last ran
    vars,     \* session_params.properties, and DataFusion's options in the same state
    stores,   \* table_object_store: per bucket, who registered the store
    late,     \* requests of aborted statements that may still be performed
    staged,   \* names under which a stage was ever registered
    menu, left

\* DataFusion's default schema is there, and so is the one of the context.
ASSUME ContextAssumption == "public" \in SchemaNames /\ Context \in SchemaNames \cup {""}

ASSUME BoundsAssumption == MaxStatements \in Nat /\ MaxFaults \in Nat /\ MaxWrites \in Nat

\* A process starts with what one of the two registrations makes of Iceberg.
ASSUME StartsAssumption ==
    \A start \in Starts :
        /\ start.ice \in IcebergStates
        /\ \/ start.cat = register_iceberg_catalog(start.ice)
           \/ \E schemas \in SUBSET SchemaNames, path \in Paths :
                 start.cat = register_iceberg_catalog_lazy(start.ice, schemas, path)

allvars == <<cat, ice, job, vars, stores, late, staged, menu, left>>

NoRequest == Request("none", <<>>, 0)
NoReply == [ok |-> FALSE, found |-> Missing]
NoCommand == [op |-> "none", name |-> <<"", "">>, mode |-> "plain", from |-> <<>>, arg |-> <<>>]
IdleJob ==
    [pc |-> "idle", cmd |-> NoCommand, type |-> "none", path |-> <<>>, obj |-> 0, req |-> NoRequest,
     reply |-> NoReply, todo |-> {}, listed |-> {}, floor |-> 0, answer |-> "none"]

\* The parser's statements, as far as they are told apart: names are a schema,
\* "" for none, and a table.  A SET gives both variables of its tuple the same
\* value, so that two values from different SETs can be told apart; its tuple
\* may have options of DataFusion besides (keys that begin with datafusion.).
TableOps ==
    {"create_table", "truncate", "drop_table", "drop_view", "create_view", "alter_table", "select",
     "insert", "show_tables", "show_views", "show_objects", "show_columns", "describe", "copy_into"}
SchemaOps == {"create_schema", "drop_schema"}
Variables == {"a", "b"}
Options == {"c", "d"}
Names == (SchemaNames \cup {""}) \X TableNames
IsCommand(cmd) ==
    /\ DOMAIN cmd = DOMAIN NoCommand
    /\ cmd.op \in TableOps \cup {"create_stage"} => cmd.name \in Names
    /\ cmd.op \in SchemaOps => cmd.name[1] \in SchemaNames
    /\ cmd.op = "create_table" => cmd.from \in Names \cup {<<>>}
    /\ cmd.op = "create_view" => cmd.from \in Names
    /\ cmd.op \in {"set", "unset"} =>
          /\ Variables \subseteq DOMAIN cmd.arg /\ DOMAIN cmd.arg \subseteq Variables \cup Options
          /\ cmd.arg.a = cmd.arg.b
    /\ cmd.op = "use" => \/ cmd.arg.key \in {"", "database"}
                         \/ cmd.arg.key = "schema" /\ cmd.arg.value \in SchemaNames

ASSUME MenusAssumption == \A choice \in Menus : \A cmd \in choice : IsCommand(cmd)

-----------------------------------------------------------------------------
(* Names *)

current_database == IF vars.database # "" THEN vars.database ELSE Database
current_schema ==
    IF vars.schema # "" THEN vars.schema ELSE IF Context # "" THEN Context ELSE "public"
get_catalog == current_database \in cat.catalogs

\* resolve_table_object_name, resolve_ident and resolve_table_ref: the session's
\* schema for a bare name, everything in lower case.
resolve_table_ref(n) == <<Lower[IF n[1] = "" THEN current_schema ELSE n[1]], Lower[n[2]]>>

\* What DataFusion makes of a name that was not resolved first.
default_table_ref(n) == <<IF n[1] = "" THEN "public" ELSE n[1], n[2]>>

-----------------------------------------------------------------------------
(* Steps of a job *)

query_type(op) ==
    CASE op \in {"insert", "truncate", "select", "update", "delete", "merge"} -> "dml"
      [] op \in {"create_table", "create_view", "create_schema", "create_stage", "create_database",
                 "create_volume", "create_external_table", "copy_into", "alter_table", "alter_session",
                 "drop_table", "drop_view", "drop_schema", "drop_database", "drop_stage"} -> "ddl"
      [] OTHER -> "misc"

Started(w, cmd) ==
    [IdleJob EXCEPT !.cmd = cmd, !.type = query_type(cmd.op), !.floor = ice.next]
Finished(j, answer) ==
    [j EXCEPT !.pc = "idle", !.obj = 0, !.req = NoRequest, !.reply = NoReply, !.todo = {}, !.answer = answer]
Asking(j, pc, o, request) == [j EXCEPT !.pc = pc, !.obj = o, !.req = request, !.reply = NoReply]

\* Mutant: base tables come from the cache too.
Loading_cached(j, pc, c, o, t) ==
    IF Cached(c, o, t).kind = "none" THEN Asking(j, pc, o, Request("load", load_fresh_iceberg_table(c, o, t), 0))
    ELSE [j EXCEPT !.pc = pc, !.obj = o, !.req = NoRequest,
                   !.reply = [ok |-> TRUE, found |-> [view |-> FALSE, path |-> Identifier(c, o, t), id |-> 1,
                                                      snap |-> Cached(c, o, t).seen]]]

\* CachingSchema::table for table t of object o: a view at once, else a request.
Loading(j, pc, c, o, t) ==
    IF FromCache(c, o, t)
    THEN [j EXCEPT !.pc = pc, !.obj = o, !.req = NoRequest,
                   !.reply = [ok |-> TRUE, found |-> View(Cached(c, o, t).source)]]
    ELSE Asking(j, pc, o, Request("load", load_fresh_iceberg_table(c, o, t), 0))

Set(w, j) == job' = [job EXCEPT ![w] = j]
End(w, j, answer) == Set(w, Finished(j, answer)) /\ UNCHANGED <<ice, vars, stores, late, staged, menu>>
Go(w, c, j) == cat' = c /\ Set(w, j) /\ UNCHANGED <<ice, vars, stores, late, staged, menu>>

\* parse_query, update_stats_query_type and the dispatch in execute.
Execute(w, cmd, ops) ==
    /\ job[w].pc = "idle" /\ left.statements > 0
    /\ cmd.op \in ops
    /\ left' = [left EXCEPT !.statements = @ - 1]
At(w, pc) == job[w].pc = pc /\ job[w].req = NoRequest /\ left' = left

Fails(w, j) == End(w, j, "error") /\ cat' = cat
Succeeds(w, j) == End(w, j, "ok") /\ cat' = cat

\* table_references_for_statement for one reference: schema_for_ref, then table.
Planning(w, j, pc, path) ==
    IF get_catalog /\ schema_id(cat, path[1]) # 0
    THEN LET c == schema(cat, path[1]) IN Go(w, c, Loading(j, pc, c, c.cache[path[1]], path[2]))
    ELSE Fails(w, j)

Found(w) == job[w].reply.ok /\ IsThere(job[w].reply.found)
FoundTable(w) == Found(w) /\ ~job[w].reply.found.view

-----------------------------------------------------------------------------
(* CREATE TABLE and TRUNCATE.  arg is the PARTITION BY clause: its fields,  *)
(* each a column or a transform with arguments.                             *)

column_name_from_arg(a) == a.form = "column"
u32_from_arg(a) == a.form = "number"

parse_partition_field_expr(e) ==
    \/ e.form = "column"
    \/ /\ e.form = "function" /\ e.name \in {"year", "month", "day", "hour"}
       /\ Len(e.args) = 1 /\ column_name_from_arg(e.args[1])
    \/ /\ e.form = "function" /\ e.name \in {"bucket", "truncate"}
       /\ Len(e.args) = 2 /\ u32_from_arg(e.args[1]) /\ column_name_from_arg(e.args[2])
partition_column(e) == IF e.form = "column" THEN e.name ELSE e.args[Len(e.args)].name

\* Whether build_iceberg_partition_spec answers a specification.
build_iceberg_partition_spec(fields) ==
    \A k \in 1..Len(fields) :
        parse_partition_field_expr(fields[k]) /\ partition_column(fields[k]) \in Columns

\* The last synchronous stretch before the table is created.
build_iceberg_create_table_builder(w, j, c, o) ==
    IF build_iceberg_partition_spec(j.cmd.arg)
    THEN Go(w, c, Asking(j, "create_done", o, Request("create", Identifier(c, o, j.path[2]), 0)))
    ELSE cat' = c /\ End(w, j, "error")

\* A plan loads every table the statement names, its target included.  Only the
\* source has to be there.
CreateTable(w) ==
    \E cmd \in menu :
        /\ Execute(w, cmd, {"create_table"})
        /\ LET j == [Started(w, cmd) EXCEPT !.path = resolve_table_ref(cmd.name)]
           IN  IF cmd.from = <<>> THEN Planning(w, j, "create_planned", j.path)
               ELSE Planning(w, j, "create_source", resolve_table_ref(cmd.from))

CreateSource(w) ==
    /\ At(w, "create_source")
    /\ IF ~Found(w) THEN Fails(w, job[w])
       ELSE IF job[w].cmd.op = "truncate" THEN Go(w, cat, [job[w] EXCEPT !.pc = "create_planned"])
       ELSE Planning(w, job[w], "create_planned", job[w].path)

\* truncate_table: CREATE OR REPLACE TABLE t AS (SELECT * FROM t WHERE FALSE).
Truncate(w) ==
    \E cmd \in menu :
        /\ Execute(w, cmd, {"truncate"})
        /\ LET path == resolve_table_ref(cmd.name)
               j == [Started(w, [cmd EXCEPT !.mode = "or_replace", !.from = path]) EXCEPT !.path = path]
           IN  Planning(w, j, "create_source", path)

\* Whether the source of the statement leaves no rows to insert.
is_logical_plan_effectively_empty(cmd) == cmd.from = <<>> \/ cmd.op = "truncate"

CreatePlanned(w) ==
    /\ At(w, "create_planned")
    /\ LET j == job[w]
           c == schema(cat, j.path[1])
           o == c.cache[j.path[1]]
           t == j.path[2]
       IN  \/ (~j.reply.ok \/ ~get_catalog \/ o = 0) /\ Fails(w, j)
           \/ /\ j.reply.ok /\ get_catalog /\ o # 0
              /\ \/ /\ table_exist(c, o, t) /\ j.cmd.mode = "plain"
                    /\ cat' = c /\ End(w, j, "error")
                 \/ /\ table_exist(c, o, t) /\ j.cmd.mode = "if_not_exists"
                    /\ cat' = c /\ End(w, j, "ok")
                 \/ /\ table_exist(c, o, t) /\ j.cmd.mode = "or_replace" /\ AsksIceberg(c, o, t)
                    /\ Go(w, drop_table_async(c, o, t),
                          Asking(j, "create_dropped", o, Request("drop", Identifier(c, o, t), 0)))
                 \/ /\ table_exist(c, o, t) /\ j.cmd.mode = "or_replace" /\ ~AsksIceberg(c, o, t)
                    /\ build_iceberg_create_table_builder(w, j,
                           mirror_deregister(drop_table_async(c, o, t), o, t), o)
                 \/ /\ ~table_exist(c, o, t)
                    /\ build_iceberg_create_table_builder(w, j, c, o)

CreateDropped(w) ==
    /\ At(w, "create_dropped")
    /\ LET j == job[w]
       IN  IF j.reply.ok
           THEN build_iceberg_create_table_builder(w, j, mirror_deregister(cat, j.obj, j.path[2]), j.obj)
           ELSE Fails(w, j)

\* Mutant: an error of the creation is ignored.
CreateDone_ignored(w) ==
    /\ At(w, "create_done")
    /\ LET j == job[w]
       IN  cat' = create_iceberg_table_async(cat, j.obj, j.path[2], 0) /\ End(w, j, "ok")

CreateDone(w) ==
    /\ At(w, "create_done")
    /\ LET j == job[w]
           made == create_iceberg_table_async(cat, j.obj, j.path[2], j.reply.found.snap)
           c == schema(made, j.path[1])
           o == c.cache[j.path[1]]
       IN  \/ ~j.reply.ok /\ Fails(w, j)
           \/ /\ j.reply.ok /\ is_logical_plan_effectively_empty(j.cmd)
              /\ cat' = made /\ End(w, j, "ok")
           \/ /\ j.reply.ok /\ ~is_logical_plan_effectively_empty(j.cmd)
              /\ IF o = 0 THEN cat' = made /\ End(w, j, "error")
                 ELSE Go(w, c, Loading(j, "create_target", c, o, j.path[2]))

\* An append to the table that was loaded, of the creation that was loaded.
Append_(w, pc) ==
    LET found == job[w].reply.found
    IN  Go(w, cat, Asking(job[w], pc, job[w].obj, Request("append", found.path, found.id)))

CreateTarget(w) ==
    /\ At(w, "create_target")
    /\ IF FoundTable(w) THEN Append_(w, "appended") ELSE Fails(w, job[w])

\* The end of every statement that writes rows.
Appended(w) ==
    /\ At(w, "appended")
    /\ IF job[w].reply.ok THEN Succeeds(w, job[w]) ELSE Fails(w, job[w])

-----------------------------------------------------------------------------
(* drop_query *)

\* From the existence check to the remote call of a DROP TABLE.
DropNow(w, j) ==
    LET c == schema(cat, j.path[1])
        o == c.cache[j.path[1]]
        t == j.path[2]
    IN  IF o = 0 THEN cat' = c /\ End(w, j, IF j.cmd.mode = "if_exists" THEN "ok" ELSE "error")
        ELSE IF AsksIceberg(c, o, t)
        THEN Go(w, drop_table_async(c, o, t),
                Asking(j, "drop_done", o, Request("drop", Identifier(c, o, t), 0)))
        ELSE cat' = mirror_deregister(drop_table_async(c, o, t), o, t) /\ End(w, j, "ok")

\* The plan a DROP VIEW executes: find_and_deregister looks the view up again.
DropViewNow(w, j) ==
    LET c == schema(cat, j.path[1])
        o == c.cache[j.path[1]]
    IN  IF o = 0 THEN cat' = c /\ End(w, j, IF j.cmd.mode = "if_exists" THEN "ok" ELSE "error")
        ELSE Go(w, c, Loading(j, "view_found", c, o, j.path[2]))

DropTableOrView(w) ==
    \E cmd \in menu :
        /\ Execute(w, cmd, {"drop_table", "drop_view"})
        /\ LET j == [Started(w, cmd) EXCEPT !.path = resolve_table_ref(cmd.name)]
           IN  IF get_catalog /\ schema_id(cat, j.path[1]) # 0 /\ cmd.mode = "if_exists"
               THEN IF cmd.op = "drop_table" THEN DropNow(w, j) ELSE DropViewNow(w, j)
               ELSE Planning(w, j, "drop_checked", j.path)

DropChecked(w) ==
    /\ At(w, "drop_checked")
    /\ IF ~Found(w) THEN Fails(w, job[w])
       ELSE IF job[w].cmd.op = "drop_table" THEN DropNow(w, job[w])
       ELSE DropViewNow(w, job[w])

DropDone(w) ==
    /\ At(w, "drop_done")
    /\ LET j == job[w]
       IN  IF j.reply.ok THEN cat' = mirror_deregister(cat, j.obj, j.path[2]) /\ End(w, j, "ok")
           ELSE Fails(w, j)

\* SessionContext::drop_view: with IF EXISTS no error of the lookup counts.
ViewFound(w) ==
    /\ At(w, "view_found")
    /\ LET j == job[w]
       IN  IF Found(w) /\ j.reply.found.view
           THEN cat' = deregister_table(cat, j.obj, j.path[2]) /\ End(w, j, "ok")
           ELSE cat' = cat /\ End(w, j, IF j.cmd.mode = "if_exists" THEN "ok" ELSE "error")

DropSchema(w) ==
    \E cmd \in menu :
        /\ Execute(w, cmd, {"drop_schema"})
        /\ LET j == [Started(w, cmd) EXCEPT !.path = <<cmd.name[1]>>]
               c == IF cmd.mode = "if_exists" THEN cat ELSE schema(cat, cmd.name[1])
           IN  IF get_catalog /\ (cmd.mode = "if_exists" \/ c.cache[cmd.name[1]] # 0)
               THEN Go(w, c, Asking(j, "schema_dropped", 0, Request("drop_namespace", j.path, 0)))
               ELSE Fails(w, j)

SchemaDropped(w) ==
    /\ At(w, "schema_dropped")
    /\ LET j == job[w]
       IN  IF j.reply.ok THEN cat' = drop_namespace_async(cat, j.path[1]) /\ End(w, j, "ok")
           ELSE Fails(w, j)

DropDatabase(w) ==
    \E cmd \in menu :
        /\ Execute(w, cmd, {"drop_database"})
        /\ IF Database \in cat.catalogs
           THEN cat' = drop_catalog(cat) /\ End(w, Started(w, cmd), "ok")
           ELSE Fails(w, Started(w, cmd))

-----------------------------------------------------------------------------
(* Schemas, views, ALTER TABLE *)

CreateSchema(w) ==
    \E cmd \in menu :
        /\ Execute(w, cmd, {"create_schema"})
        /\ LET n == Lower[cmd.name[1]]
               j == [Started(w, cmd) EXCEPT !.path = <<n>>]
               c == schema(cat, n)
           IN  \/ ~get_catalog /\ Fails(w, j)
               \/ /\ get_catalog /\ c.cache[n] # 0
                  /\ cat' = c /\ End(w, j, IF cmd.mode = "if_not_exists" THEN "ok" ELSE "error")
               \/ /\ get_catalog /\ c.cache[n] = 0
                  /\ Go(w, c, Asking(j, "schema_created", 0, Request("create_namespace", j.path, 0)))

SchemaCreated(w) ==
    /\ At(w, "schema_created")
    /\ LET j == job[w]
       IN  IF j.reply.ok THEN cat' = create_namespace_async(cat, j.path[1]) /\ End(w, j, "ok")
           ELSE Fails(w, j)

\* create_view resolves neither the view's name nor its source: DataFusion puts
\* the view into its default schema, and only finds the source among the loaded
\* tables when the session's schema leads to the same name.
CreateView(w) ==
    \E cmd \in menu :
        /\ Execute(w, cmd, {"create_view"})
        /\ LET j == [Started(w, cmd) EXCEPT !.path = default_table_ref(cmd.name)]
           IN  IF current_database = Database /\ resolve_table_ref(cmd.from) = default_table_ref(cmd.from)
               THEN Planning(w, j, "view_planned", resolve_table_ref(cmd.from))
               ELSE Fails(w, j)

ViewPlanned(w) ==
    /\ At(w, "view_planned")
    /\ IF Found(w) /\ Database \in cat.catalogs /\ schema_id(cat, job[w].path[1]) # 0
       THEN LET c == schema(cat, job[w].path[1])
            IN  Go(w, c, Loading(job[w], "view_target", c, c.cache[job[w].path[1]], job[w].path[2]))
       ELSE Fails(w, job[w])

\* SessionContext::create_view: anything but a table that was loaded counts as absent.
ViewTarget(w) ==
    /\ At(w, "view_target")
    /\ LET j == job[w]
           c == schema(cat, j.path[1])
           o == c.cache[j.path[1]]
           t == j.path[2]
           entry == [NoEntry EXCEPT !.kind = "view", !.name = t, !.source = default_table_ref(j.cmd.from)]
       IN  \/ o = 0 /\ Fails(w, j)
           \/ o # 0 /\ Found(w) /\ j.cmd.mode = "plain" /\ Fails(w, j)
           \/ /\ o # 0 /\ Found(w) /\ j.cmd.mode = "or_replace"
              /\ cat' = register_table(deregister_table(c, o, t), o, t, entry) /\ End(w, j, "ok")
           \/ /\ o # 0 /\ ~Found(w)
              /\ cat' = register_table(c, o, t, entry) /\ End(w, j, "ok")

AlterTable(w) ==
    \E cmd \in menu :
        /\ Execute(w, cmd, {"alter_table"})
        /\ LET j == [Started(w, cmd) EXCEPT !.path = resolve_table_ref(cmd.name)]
           IN  IF get_catalog /\ schema_id(cat, j.path[1]) # 0 /\ cmd.mode = "if_exists"
               THEN cat' = schema(cat, j.path[1]) /\ End(w, j, "ok")
               ELSE Planning(w, j, "alter_checked", j.path)

AlterChecked(w) ==
    /\ At(w, "alter_checked")
    /\ IF Found(w) THEN Succeeds(w, job[w]) ELSE Fails(w, job[w])

-----------------------------------------------------------------------------
(* SELECT and INSERT (execute_with_custom_plan), SHOW and DESCRIBE *)

Select(w) ==
    \E cmd \in menu :
        /\ Execute(w, cmd, {"select", "insert"})
        /\ LET j == [Started(w, cmd) EXCEPT !.path = resolve_table_ref(cmd.name)]
           IN  Planning(w, j, IF cmd.mode = "pivot" THEN "pivot_planned" ELSE "select_planned", j.path)

\* traverse_and_update_query runs the PIVOT's own query first, and keeps the
\* clause as it was when that fails.
PivotPlanned(w) ==
    /\ At(w, "pivot_planned")
    /\ Planning(w, job[w], "select_planned", job[w].path)

\* CachingTable::scan of a view loads the source again (rewrite_view_source).
rewrite_view_source(w) ==
    LET source == job[w].reply.found.path
        c == schema(cat, source[1])
    IN  IF Database \in cat.catalogs /\ c.cache[source[1]] # 0
        THEN Go(w, c, Loading([job[w] EXCEPT !.path = source], "select_planned", c, c.cache[source[1]], source[2]))
        ELSE Fails(w, job[w])

\* What the answer was read from stays in the job: path, and the snapshot as obj.
SelectPlanned(w) ==
    /\ At(w, "select_planned")
    /\ LET j == job[w]
       IN  \/ ~Found(w) /\ Fails(w, j)
           \/ Found(w) /\ j.reply.found.view /\ j.cmd.op = "insert" /\ Fails(w, j)
           \/ Found(w) /\ j.reply.found.view /\ j.cmd.op = "select" /\ rewrite_view_source(w)
           \/ FoundTable(w) /\ j.cmd.op = "insert" /\ Append_(w, "appended")
           \/ /\ FoundTable(w) /\ j.cmd.op = "select"
              /\ cat' = cat /\ End(w, [j EXCEPT !.listed = {j.reply.found}], "ok")

\* SHOW TABLES, VIEWS and OBJECTS [IN schema], SHOW COLUMNS [IN TABLE]: without
\* IN (a name without a schema) the session's schema, which nobody checks.
resolve_show_in_name(cmd) ==
    \/ cmd.name[1] = ""
    \/ LET n == Lower[cmd.name[1]]
       IN  /\ get_catalog /\ schema_id(cat, n) # 0
           /\ cmd.op = "show_columns" =>
                 table_exist(schema(cat, n), schema_id(cat, n), Lower[cmd.name[2]])

Show(w) ==
    \E cmd \in menu :
        /\ Execute(w, cmd, {"show_tables", "show_views", "show_objects", "show_columns"})
        /\ LET path == resolve_table_ref(cmd.name)
               c == IF get_catalog /\ cmd.name[1] # "" THEN schema(cat, path[1]) ELSE cat
               j == [Started(w, cmd) EXCEPT !.path = path]
           IN  IF resolve_show_in_name(cmd) THEN Go(w, c, [j EXCEPT !.pc = "make_tables"])
               ELSE cat' = c /\ End(w, j, "error")

\* DESCRIBE TABLE selects from information_schema.columns.
DescribeTable(w) ==
    \E cmd \in menu :
        /\ Execute(w, cmd, {"describe"})
        /\ Go(w, cat, [Started(w, cmd) EXCEPT !.path = resolve_table_ref(cmd.name), !.pc = "make_tables"])

\* make_tables (make_columns, make_views): the names of the schema, as they are now.
MakeTables(w) ==
    /\ At(w, "make_tables")
    /\ LET j == job[w]
           c == schema(cat, j.path[1])
           o == c.cache[j.path[1]]
       IN  IF get_catalog /\ o # 0
           THEN Go(w, c, [j EXCEPT !.pc = "fetch", !.obj = o, !.todo = table_names(c, o)])
           ELSE Succeeds(w, j)

\* Mutant: what the cache knows needs no loading.
fetch_table_cached(w, t) ==
    LET j == job[w]
    IN  Go(w, cat, [j EXCEPT !.todo = @ \ {t}, !.listed = @ \cup {Table(ice, Identifier(cat, j.obj, t))}])

\* What the query on the information schema keeps of the tables it fetched.
Shown(j, t, found) ==
    CASE j.cmd.op = "show_tables" -> ~found.view
      [] j.cmd.op = "show_views" -> found.view
      [] j.cmd.op = "show_objects" -> TRUE
      [] j.cmd.op = "show_columns" -> j.cmd.name[1] = "" \/ t = j.path[2]
      [] j.cmd.op = "describe" -> t = j.path[2]

\* fetch_table_providers: each name is loaded, in any order; what is not found is left out.
fetch_table_providers(w, t) ==
    LET j == job[w]
        found == IF FromCache(cat, j.obj, t) THEN View(Cached(cat, j.obj, t).source)
                 ELSE Table(ice, load_fresh_iceberg_table(cat, j.obj, t))
    IN  Go(w, cat, [j EXCEPT !.todo = @ \ {t},
                             !.listed = IF IsThere(found) /\ Shown(j, t, found) THEN @ \cup {found} ELSE @])

Fetch(w) ==
    /\ job[w].pc = "fetch"
    /\ \/ \E t \in job[w].todo : left' = left /\ fetch_table_providers(w, t)
       \/ /\ \E t \in job[w].todo : Go(w, cat, [job[w] EXCEPT !.todo = @ \ {t}])
          /\ left.faults > 0 /\ left' = [left EXCEPT !.faults = @ - 1]
       \/ job[w].todo = {} /\ left' = left /\ Succeeds(w, job[w])

ShowSchemas(w) ==
    \E cmd \in menu :
        /\ Execute(w, cmd, {"show_schemas"})
        /\ IF get_catalog
           THEN Go(w, schema_names(cat), [Started(w, cmd) EXCEPT !.pc = "make_schemata", !.todo = cat.schemas])
           ELSE Succeeds(w, Started(w, cmd))

MakeSchemata(w) ==
    /\ At(w, "make_schemata")
    /\ \/ \E n \in job[w].todo : Go(w, schema(cat, n), [job[w] EXCEPT !.todo = @ \ {n}])
       \/ job[w].todo = {} /\ Succeeds(w, job[w])

-----------------------------------------------------------------------------
(* Session variables.  set_session_variable holds the state's write lock    *)
(* while it sets DataFusion's options, and then sets or removes the session *)
(* variables, one key at a time in the order of a hash map.                 *)

Unlocked == \A w \in Workers : job[w].pc # "set_properties"

\* set_variable and set_tuple_variables_from_sql; arg gives the values.  All are
\* computed before any is set; a list of another length than the names, or a
\* value that fails, sets none.
SetTuple(w) ==
    \E cmd \in menu :
        /\ Execute(w, cmd, {"set"})
        /\ \/ cmd.mode = "length" /\ Fails(w, Started(w, cmd))
           \/ cmd.mode # "length" /\ Go(w, cat, [Started(w, cmd) EXCEPT !.pc = "set_values", !.todo = DOMAIN cmd.arg])

SetValues(w) ==
    /\ At(w, "set_values")
    /\ LET j == job[w]
       IN  \/ j.cmd.mode = "fails" /\ Fails(w, j)
           \/ /\ j.cmd.mode # "fails" /\ Unlocked
              /\ Go(w, cat, [j EXCEPT !.pc = "set_properties"])

AlterSessionUnset(w) ==
    \E cmd \in menu :
        /\ Unlocked
        /\ Execute(w, cmd, {"unset"})
        /\ Go(w, cat, [Started(w, cmd) EXCEPT !.pc = "set_properties", !.todo = DOMAIN cmd.arg])

\* ConfigOptions::set (external) knows neither every key nor every value.
Refuses(k, value) == value = "refused"

\* What a key gets; an option is set by UNSET too.
NewValue(j, k) == IF j.cmd.op = "unset" /\ k \in Variables THEN "" ELSE j.cmd.arg[k]

SetKey(w, k) ==
    /\ vars' = [vars EXCEPT ![k] = NewValue(job[w], k)]
    /\ Set(w, [job[w] EXCEPT !.todo = @ \ {k}])
    /\ UNCHANGED <<cat, ice, stores, late, staged, menu>>

\* Mutant: the keys are set in the order of one map.
SetProperties_mixed(w) ==
    /\ At(w, "set_properties")
    /\ \/ \E k \in job[w].todo :
            IF k \in Options /\ Refuses(k, NewValue(job[w], k)) THEN Fails(w, job[w]) ELSE SetKey(w, k)
       \/ job[w].todo = {} /\ Succeeds(w, job[w])

\* set_session_variable: an option that is refused ends the statement, and the
\* options set before it stay set.  Then set_properties or remove_properties.
SetProperties(w) ==
    /\ At(w, "set_properties")
    /\ \/ \E k \in job[w].todo \cap Options :
            IF Refuses(k, NewValue(job[w], k)) THEN Fails(w, job[w]) ELSE SetKey(w, k)
       \/ job[w].todo \cap Options = {} /\ \E k \in job[w].todo : SetKey(w, k)
       \/ job[w].todo = {} /\ Succeeds(w, job[w])

\* USE names no object that has to exist.
UseStatement(w) ==
    \E cmd \in menu :
        /\ Unlocked
        /\ Execute(w, cmd, {"use"})
        /\ cat' = cat
        /\ IF cmd.arg.key = "" THEN vars' = vars /\ Set(w, Finished(Started(w, cmd), "error"))
           ELSE /\ vars' = [vars EXCEPT ![cmd.arg.key] = cmd.arg.value]
                /\ Set(w, Finished(Started(w, cmd), "ok"))
        /\ UNCHANGED <<ice, stores, late, staged, menu>>

-----------------------------------------------------------------------------
(* COPY INTO and CREATE STAGE *)

CopyInto(w) ==
    \E cmd \in menu :
        /\ Execute(w, cmd, {"copy_into"})
        /\ LET j == [Started(w, cmd) EXCEPT !.path = resolve_table_ref(cmd.name)]
           IN  IF cmd.mode = "from_stage" THEN Fails(w, j)
               ELSE Planning(w, j, "copy_loaded", j.path)

\* build_listing_table_config, the cast to the table's columns, and the insert.
ListingTable(w, j) ==
    IF j.cmd.mode = "bad_format" \/ j.reply.found.view
    THEN Set(w, Finished(j, "error"))
    ELSE Set(w, Asking(j, "appended", j.obj, Request("append", j.reply.found.path, j.reply.found.id)))

\* Mutant: the store is registered whether or not there is one already.
CopyLoaded_overwrites(w) ==
    /\ At(w, "copy_loaded")
    /\ UNCHANGED <<cat, ice, vars, stores, late, staged, menu>>
    /\ IF ~Found(w) THEN Set(w, Finished(job[w], "error"))
       ELSE Set(w, [job[w] EXCEPT !.pc = "copy_region"])

CopyLoaded(w) ==
    /\ At(w, "copy_loaded")
    /\ UNCHANGED <<cat, ice, vars, stores, late, staged, menu>>
    /\ LET j == job[w]
       IN  IF ~Found(w) THEN Set(w, Finished(j, "error"))
           ELSE IF stores[j.cmd.arg] # "none" THEN ListingTable(w, j)
           ELSE IF j.cmd.mode = "integration" THEN Set(w, Finished(j, "error"))
           ELSE Set(w, [j EXCEPT !.pc = "copy_region"])

\* get_object_store_from_stage_params asks for the bucket's region in between.
CopyRegion(w) ==
    /\ At(w, "copy_region")
    /\ UNCHANGED <<cat, ice, vars, late, staged, menu>>
    /\ LET j == job[w]
       IN  \/ stores' = [stores EXCEPT ![j.cmd.arg] = "copy"] /\ ListingTable(w, j)
           \/ stores' = stores /\ Set(w, Finished(j, "error"))

CreateStage(w) ==
    \E cmd \in menu :
        /\ Execute(w, cmd, {"create_stage"})
        /\ UNCHANGED <<cat, ice, vars, late, staged, menu>>
        /\ \/ /\ cmd.mode = "bad_url"
              /\ stores' = stores /\ Set(w, Finished(Started(w, cmd), "error"))
           \/ /\ cmd.mode # "bad_url"
              /\ stores' = [stores EXCEPT ![cmd.arg] = "stage"]
              /\ Set(w, [Started(w, cmd) EXCEPT !.pc = "stage_read", !.path = default_table_ref(cmd.name)])

\* read_csv, then register_csv under the bare name; the file may be unreadable.
StageRead(w) ==
    /\ At(w, "stage_read")
    /\ LET j == job[w]
           c == schema(cat, j.path[1])
           o == c.cache[j.path[1]]
       IN  \/ Fails(w, j)
           \/ /\ Database \in cat.catalogs /\ o # 0
              /\ cat' = register_table(c, o, j.path[2], [NoEntry EXCEPT !.kind = "stage", !.name = j.path[2]])
              /\ staged' = staged \cup {j.path}
              /\ Set(w, Finished(j, "ok"))
              /\ UNCHANGED <<ice, vars, stores, late, menu>>

-----------------------------------------------------------------------------
(* Statements that answer at once *)

StatusOnly(w) ==
    \E cmd \in menu :
        /\ Execute(w, cmd, {"begin", "commit", "rollback", "update"})
        /\ Succeeds(w, Started(w, cmd))
NotSupported(w) ==
    \E cmd \in menu :
        /\ Execute(w, cmd, {"create_database", "create_volume", "create_external_table"})
        /\ Fails(w, Started(w, cmd))

-----------------------------------------------------------------------------
(* The world around the statements *)

Replied(w, ok) ==
    [job[w] EXCEPT !.req = NoRequest,
                   !.reply = [ok |-> ok,
                              found |-> IF ok /\ job[w].req.op \in {"load", "create"}
                                        THEN Table(Performed(ice, job[w].req), job[w].req.path) ELSE Missing]]

Remote(w) ==
    /\ job[w].req # NoRequest
    /\ ice' = Performed(ice, job[w].req)
    /\ Set(w, Replied(w, Agrees(ice, job[w].req)))
    /\ UNCHANGED <<cat, vars, stores, late, staged, menu, left>>

\* The call fails; what it asked for may have happened all the same.
RemoteFails(w) ==
    /\ job[w].req # NoRequest /\ left.faults > 0
    /\ left' = [left EXCEPT !.faults = @ - 1]
    /\ ice' \in {ice, Performed(ice, job[w].req)}
    /\ Set(w, Replied(w, FALSE))
    /\ UNCHANGED <<cat, vars, stores, late, staged, menu>>

\* A timeout, an abort or a lost client drops the statement at an await.
Abort(w) ==
    /\ job[w].pc \notin {"idle", "set_properties", "make_schemata"} /\ left.faults > 0
    /\ left' = [left EXCEPT !.faults = @ - 1]
    /\ late' = IF job[w].req.op \in {"none", "load"} THEN late ELSE late \cup {job[w].req}
    /\ Set(w, Finished(job[w], "aborted"))
    /\ UNCHANGED <<cat, ice, vars, stores, staged, menu>>

LateEffect ==
    \E r \in late :
        /\ ice' = Performed(ice, r) /\ late' = late \ {r}
        /\ UNCHANGED <<cat, job, vars, stores, staged, menu, left>>

\* Another client of the Iceberg catalog adds rows to a table.
OutsideWrite ==
    \E p \in Paths :
        /\ left.writes > 0 /\ ice.tables[p].id # 0
        /\ left' = [left EXCEPT !.writes = @ - 1]
        /\ ice' = Effect(ice, Request("append", p, ice.tables[p].id))
        /\ UNCHANGED <<cat, job, vars, stores, late, staged, menu>>

-----------------------------------------------------------------------------
Init ==
    /\ \E start \in Starts : cat = start.cat /\ ice = start.ice
    /\ menu \in Menus
    /\ job = [w \in Workers |-> IdleJob]
    /\ vars = [database |-> "", schema |-> "", a |-> "", b |-> "", c |-> "", d |-> ""]
    /\ stores = [u \in Buckets |-> IF u = CatalogBucket THEN "catalog" ELSE "none"]
    /\ late = {} /\ staged = {}
    /\ left = [statements |-> MaxStatements, faults |-> MaxFaults, writes |-> MaxWrites]

Ddl(w) ==
    \/ CreateTable(w) \/ Truncate(w) \/ CreateSource(w) \/ CreatePlanned(w) \/ CreateDropped(w) \/ CreateDone(w) \/ CreateTarget(w)
    \/ DropTableOrView(w) \/ DropChecked(w) \/ DropDone(w) \/ ViewFound(w)
    \/ DropSchema(w) \/ SchemaDropped(w) \/ DropDatabase(w) \/ CreateSchema(w) \/ SchemaCreated(w)
    \/ CreateView(w) \/ ViewPlanned(w) \/ ViewTarget(w) \/ AlterTable(w) \/ AlterChecked(w)

Queries(w) ==
    \/ Select(w) \/ PivotPlanned(w) \/ SelectPlanned(w) \/ Appended(w)
    \/ Show(w) \/ DescribeTable(w) \/ MakeTables(w) \/ Fetch(w) \/ ShowSchemas(w) \/ MakeSchemata(w)
    \/ StatusOnly(w) \/ NotSupported(w)

Settings(w) ==
    \/ SetTuple(w) \/ SetValues(w) \/ AlterSessionUnset(w) \/ SetProperties(w) \/ UseStatement(w)
    \/ CopyInto(w) \/ CopyLoaded(w) \/ CopyRegion(w) \/ CreateStage(w) \/ StageRead(w)

Next ==
    \/ \E w \in Workers : Ddl(w) \/ Queries(w) \/ Settings(w) \/ Remote(w) \/ RemoteFails(w) \/ Abort(w)
    \/ LateEffect \/ OutsideWrite

Spec == Init /\ [][Next]_allvars

-----------------------------------------------------------------------------
(* Properties *)

\* The type invariant.
TypeOK ==
    /\ cat \in CatalogStates /\ ice \in IcebergStates
    /\ \A w \in Workers : job[w].obj \in 0..Len(cat.objects) /\ job[w].answer \in {"none", "ok", "error", "aborted"}
    /\ stores \in [Buckets -> {"none", "catalog", "copy", "stage"}]
    /\ staged \subseteq Paths
    /\ left \in [statements : 0..MaxStatements, faults : 0..MaxFaults, writes : 0..MaxWrites]

Answered(w, ops) == job[w].pc = "idle" /\ job[w].answer = "ok" /\ job[w].cmd.op \in ops

\* A base table in a schema's cache exists in Iceberg, whatever was lost, failed
\* or aborted on the way: drop_table_async takes the entry out before it asks
\* Iceberg, create_iceberg_table_async puts it in after Iceberg answered, and no
\* statement drops a table whose entry it did not take.  (A stage registered
\* under the name, and the bootstrap aliases of another name, are set apart.)
CachedTablesExist ==
    \A o \in 1..Len(cat.objects), t \in TableNames :
        /\ cat.objects[o].name = cat.objects[o].namespace
        /\ Cached(cat, o, t).kind = "table" /\ Cached(cat, o, t).name = t
        /\ Path(cat, o, t) \notin staged
        => ice.tables[Path(cat, o, t)].id # 0

\* A SELECT answers from the current snapshot, or from one that was current
\* after the statement began - through a view as well: CachingSchema::table never
\* answers a base table from the cache, which other writers leave behind.
ReadsAreFresh ==
    \A w \in Workers : Answered(w, {"select"}) =>
        \A f \in job[w].listed :
            ice.tables[f.path].id # 0 /\ ice.tables[f.path].snap < job[w].floor
                => f.id = ice.tables[f.path].id /\ f.snap = ice.tables[f.path].snap

\* When CREATE OR REPLACE TABLE or TRUNCATE answers success, the table that was
\* there before the statement is gone, even when the drop and the creation it
\* consists of were interleaved with other statements.
ReplaceIsNew ==
    \A w \in Workers :
        Answered(w, {"create_table", "truncate"}) /\ job[w].cmd.mode = "or_replace"
            => ice.tables[job[w].path].id = 0 \/ ice.tables[job[w].path].id >= job[w].floor

\* SHOW and DESCRIBE show no table that is not there: with Iceberg
\* unchanged since the statement began, what they list exists as listed, however
\* far the mirror and the cache are off.
ListsAreFresh ==
    \A w \in Workers :
        Answered(w, {"show_tables", "show_views", "show_objects", "show_columns", "describe"}) /\ ice.next = job[w].floor =>
            \A f \in job[w].listed : ~f.view => f.id # 0 /\ ice.tables[f.path].id = f.id

\* The session variables of one tuple assignment are set together or not at
\* all: while no statement holds the lock, both come from the same SET (or from
\* none), also when a value or an option of DataFusion in the tuple failed.  (The
\* options themselves are not: those set before the one refused stay set, and
\* the statement answers an error.)
TupleSetsAreAtomic == Unlocked => vars.a = vars.b

\* COPY INTO never puts its own object store in the place of the catalog's: the
\* store it registers after asking for the region goes where there was none
\* when it looked, and no other statement makes a store the catalog's.
CopyKeepsCatalogStore ==
    [][\A u \in Buckets : stores[u] = "catalog" /\ stores'[u] # "catalog" => stores'[u] = "stage"]_allvars
=============================================================================

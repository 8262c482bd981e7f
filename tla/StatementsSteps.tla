--------------------------- MODULE StatementsSteps --------------------------
(***************************************************************************)
(* The inductive invariant of the statement layer, StatementInv, and what  *)
(* the steps of each statement do to it.                                   *)
(*                                                                         *)
(* A statement stops at every await, and what it has learnt before may be  *)
(* out of date after.  StatementInv says what still holds of it then:      *)
(*   - its schema object is an object of the catalog, which only grows, and*)
(*     keeps the name it was found under (CatOK, Core, Local);             *)
(*   - what it has read from Iceberg is what Iceberg has, or Iceberg has   *)
(*     written the table since the statement began (FoundOK: floor is the  *)
(*     snapshot counter at that time);                                     *)
(*   - a table that it has created is still that creation, a later one, or *)
(*     gone (Created);                                                     *)
(*   - at most one statement is setting variables, and those it has set have*)
(*     its values (TupleInv).                                              *)
(* The first three survive the steps of the others because catalogs grow   *)
(* (Grows) and Iceberg only moves forward (Moves): lemma JobStays.         *)
(*                                                                         *)
(* A step of a statement is calm when it leaves everything else alone and  *)
(* makes no table or stage visible (Calm), takes an entry out of a cache to*)
(* drop its table (Takes), or registers a table that it has created (Makes).*)
(***************************************************************************)
EXTENDS Statements, TLAPS

\* A statement's record has the fields it began with.
Shape(j) == DOMAIN j = DOMAIN IdleJob

-----------------------------------------------------------------------------
(* The catalog and Iceberg *)

\* What a tables_cache holds: a view knows its source, and what is there has a name.
EntryOK(e) ==
    /\ e \in Entries
    /\ e # NoEntry => e.name \in TableNames
    /\ e.kind = "view" => e.source \in Paths

\* A catalog: what is current for a schema is one of its objects, and every
\* cache is well formed.
CatOK(c) ==
    /\ c \in CatalogStates
    /\ \A n \in SchemaNames : /\ c.cache[n] <= Len(c.objects)
                              /\ c.cache[n] # 0 => c.objects[c.cache[n]].name = n
    /\ \A o \in 1..Len(c.objects), t \in TableNames : EntryOK(c.objects[o].tables[t])

\* A catalog c becomes d: schema objects stay and keep their names, new ones
\* have the name of their namespace.
Grows(c, d) ==
    /\ CatOK(d)
    /\ Len(c.objects) <= Len(d.objects)
    /\ \A o \in 1..Len(c.objects) : /\ d.objects[o].name = c.objects[o].name
                                    /\ d.objects[o].namespace = c.objects[o].namespace
    /\ \A o \in 1..Len(d.objects) : o > Len(c.objects) => d.objects[o].name = d.objects[o].namespace

\* It has no base table and no stage in a cache that was not there before.
Follows(c, d) ==
    /\ Grows(c, d)
    /\ \A o \in 1..Len(d.objects), t \in TableNames : Cached(d, o, t).kind \in {"table", "stage"} =>
          o <= Len(c.objects) /\ Cached(d, o, t) = Cached(c, o, t)

\* Iceberg i becomes k: a table that changes is gone, or it has a new snapshot
\* and is the same creation or a new one.
Moves(i, k) ==
    /\ k \in IcebergStates
    /\ i.next <= k.next
    /\ \A p \in Paths :
          \/ k.tables[p] = i.tables[p]
          \/ /\ k.next > i.next
             /\ \/ k.tables[p].id = 0
                \/ /\ k.tables[p].snap >= i.next
                   /\ k.tables[p].id = i.tables[p].id \/ k.tables[p].id >= i.next

-----------------------------------------------------------------------------
(* A job *)

\* What a provider leads to is what Iceberg had since the statement began.
FoundOK(f, i, floor) ==
    /\ f \in [view : BOOLEAN, path : Paths \cup {<<>>}, id : Nat, snap : Nat]
    /\ f.view \/ f.id # 0 => f.path \in Paths
    /\ ~f.view /\ f.id # 0 =>
          \/ i.tables[f.path] = [id |-> f.id, snap |-> f.snap]
          \/ i.next > floor /\ (i.tables[f.path].id = 0 \/ i.tables[f.path].snap >= floor)

\* A request to Iceberg names a table or a namespace there is.
ReqOK(r) ==
    \/ r = NoRequest
    \/ r \in [op : {"load", "create", "drop", "append"}, path : Paths, id : Nat] /\ (r.op = "drop" => r.id = 0)
    \/ \E n \in SchemaNames : r = Request("create_namespace", <<n>>, 0) \/ r = Request("drop_namespace", <<n>>, 0)

\* Statements and program counters by what they are about.
CreateOps == {"create_table", "truncate"}
ShowOps == {"show_tables", "show_views", "show_objects", "show_columns", "describe"}
CreatePcs == {"create_planned", "create_source", "create_dropped", "create_done", "create_target"}
TablePcs == {"drop_checked", "drop_done", "view_found", "view_planned", "view_target", "alter_checked",
             "pivot_planned", "select_planned", "make_tables", "fetch", "copy_loaded", "copy_region", "appended"}

\* The part of a job that does not depend on where it is.
Core(j, c, i) ==
    /\ Shape(j) /\ IsCommand(j.cmd)
    /\ j.cmd.op \in TableOps => j.path \in Paths
    /\ j.cmd.op \in SchemaOps => \E n \in SchemaNames : j.path = <<n>>
    /\ j.obj \in 0..Len(c.objects)
    /\ ReqOK(j.req)
    /\ DOMAIN j.reply = {"ok", "found"} /\ j.reply.ok \in BOOLEAN
    /\ j.floor \in Nat /\ j.floor <= i.next
    /\ FoundOK(j.reply.found, i, j.floor)
    /\ \A f \in j.listed : FoundOK(f, i, j.floor) /\ (f.view \/ f.id # 0)
    /\ j.cmd.op = "select" => \A f \in j.listed : ~f.view
    /\ j.answer \in {"none", "ok", "error", "aborted"}

\* Which statements are where.
PlacedAt(op, pc) ==
    /\ pc \in CreatePcs => op \in CreateOps
    /\ op \in CreateOps => pc \in CreatePcs \cup {"idle", "appended"}
    /\ pc \in TablePcs => op \in TableOps
    /\ pc \in {"schema_created", "schema_dropped"} => op \in SchemaOps
    /\ pc \in {"view_planned", "view_target"} => op = "create_view"
    /\ pc \in {"make_tables", "fetch"} => op \in ShowOps
\* The same, of a job.
Placed(j) == PlacedAt(j.cmd.op, j.pc)

\* The table at path p is gone or was created since.
NewAt(i, p, floor) == i.tables[p].id = 0 \/ i.tables[p].id >= floor

\* The table the statement has created is new, under a schema of its name.
Created(j, c, i) ==
    \E o \in 1..Len(c.objects) : /\ c.objects[o].name = j.path[1]
                                 /\ NewAt(i, <<c.objects[o].namespace, j.path[2]>>, j.floor)

\* The part that does.
Local(j, c, i) ==
    /\ j.pc \in {"create_dropped", "create_done", "drop_done", "view_found"} =>
          j.obj # 0 /\ c.objects[j.obj].name = j.path[1]
    /\ j.pc = "create_done" =>
          /\ j.req \in {NoRequest, Request("create", Identifier(c, j.obj, j.path[2]), 0)}
          /\ j.req = NoRequest /\ j.reply.ok => Created(j, c, i)
    /\ j.cmd.op \in CreateOps /\ j.pc \in {"create_target", "appended"} => Created(j, c, i)
    /\ j.cmd.op \in CreateOps /\ j.pc = "idle" /\ j.answer = "ok" /\ j.cmd.mode = "or_replace" => Created(j, c, i)
    /\ j.pc = "fetch" => j.req = NoRequest /\ j.obj # 0 /\ j.todo \subseteq TableNames
    /\ j.pc = "copy_region" => j.req = NoRequest /\ j.reply.ok /\ IsThere(j.reply.found)
    /\ j.pc = "make_schemata" => j.todo \subseteq SchemaNames
    /\ j.pc = "set_values" => j.cmd.op = "set" /\ j.todo = DOMAIN j.cmd.arg
    /\ j.pc = "set_properties" =>
          /\ j.cmd.op \in {"set", "unset"} /\ j.todo \subseteq Variables \cup Options
          /\ j.todo \cap Options = {} \/ Variables \subseteq j.todo
    /\ j.pc = "stage_read" => j.path \in Paths

\* A job of the statement layer, with the catalog and Iceberg around it.
JobOK(j, c, i) == Core(j, c, i) /\ Placed(j) /\ Local(j, c, i)

-----------------------------------------------------------------------------
(* The invariant *)

\* At most one statement is setting variables; those it has set have its value,
\* and before the first, while it sets options, they are as the last statement
\* left them.
TupleInv ==
    /\ \A w, v \in Workers : job[w].pc = "set_properties" /\ job[v].pc = "set_properties" => w = v
    /\ \A w \in Workers : job[w].pc = "set_properties" =>
          /\ \A k \in Variables \ job[w].todo : vars[k] = NewValue(job[w], k)
          /\ Variables \subseteq job[w].todo => vars.a = vars.b
    /\ TupleSetsAreAtomic

\* The variables besides the catalog, Iceberg and the jobs.
RestOK ==
    /\ DOMAIN vars = {"database", "schema"} \cup Variables \cup Options /\ vars.schema \in SchemaNames \cup {""}
    /\ \A r \in late : ReqOK(r)
    /\ stores \in [Buckets -> {"none", "catalog", "copy", "stage"}]
    /\ staged \subseteq Paths
    /\ menu \in Menus
    /\ left \in [statements : 0..MaxStatements, faults : 0..MaxFaults, writes : 0..MaxWrites]

\* The inductive invariant of the statement layer.
StatementInv ==
    /\ CatOK(cat) /\ ice \in IcebergStates
    /\ DOMAIN job = Workers /\ \A w \in Workers : JobOK(job[w], cat, ice)
    /\ RestOK /\ TupleInv

-----------------------------------------------------------------------------
(* The catalog's operators *)

\* What a schema object of the catalog is.
SchemaObjects == [name : SchemaNames, namespace : SchemaNames, tables : [TableNames -> Entries]]

\* The places of a sequence.
LEMMA SequenceIsFunction ==
    ASSUME NEW S, NEW s \in Seq(S)
    PROVE  s \in [1..Len(s) -> S] /\ Len(s) \in Nat
OBVIOUS

\* The fields of a well-formed catalog.
LEMMA CatFields ==
    ASSUME NEW c, CatOK(c)
    PROVE  /\ c.cache \in [SchemaNames -> Nat]
           /\ Len(c.objects) \in Nat
           /\ c.objects \in [1..Len(c.objects) -> SchemaObjects]
           /\ c.schemas \in SUBSET SchemaNames /\ c.tables \in SUBSET Paths /\ c.catalogs \in SUBSET {Database}
<1>1. c \in CatalogStates
  BY Zenon DEF CatOK
<1>2. c.objects \in Seq(SchemaObjects)
  BY Zenon, <1>1 DEF CatalogStates, SchemaObjects
<1>3. /\ c.cache \in [SchemaNames -> Nat] /\ c.schemas \in SUBSET SchemaNames
      /\ c.tables \in SUBSET Paths /\ c.catalogs \in SUBSET {Database}
  BY Zenon, <1>1 DEF CatalogStates
<1>4. QED
  BY Zenon, <1>2, <1>3, SequenceIsFunction

\* Growing is transitive, and a well-formed catalog grows to itself.
LEMMA GrowsTransitive ==
    ASSUME NEW c, NEW d, NEW e, CatOK(c), Grows(c, d), Grows(d, e)
    PROVE  Grows(c, e)
<1>1. CatOK(d) /\ CatOK(e)
  BY Zenon DEF Grows
<1>2. /\ Len(c.objects) \in Nat /\ Len(d.objects) \in Nat /\ Len(e.objects) \in Nat
      /\ Len(c.objects) <= Len(d.objects) /\ Len(d.objects) <= Len(e.objects)
  BY Zenon, <1>1, CatFields DEF Grows
<1>3. QED
  BY <1>1, <1>2 DEF Grows

\* A catalog that stays follows itself.
LEMMA FollowsReflexive ==
    ASSUME NEW c, CatOK(c)
    PROVE  Follows(c, c)
BY CatFields DEF Grows, Follows

\* Two changes without a new table are one.
LEMMA FollowsTransitive ==
    ASSUME NEW c, NEW d, NEW e, CatOK(c), Follows(c, d), Follows(d, e)
    PROVE  Follows(c, e)
<1>1. Grows(c, e)
  BY Zenon, GrowsTransitive DEF Follows
<1>2. /\ Len(c.objects) \in Nat /\ Len(d.objects) \in Nat /\ Len(e.objects) \in Nat
  BY Zenon, CatFields DEF Follows, Grows
<1>3. QED
  BY <1>1, <1>2 DEF Follows

\* A catalog with the same objects and a cache that only loses names.
LEMMA FollowsSameObjects ==
    ASSUME NEW c, CatOK(c), NEW d \in CatalogStates, d.objects = c.objects,
           \A n \in SchemaNames : d.cache[n] \in {0, c.cache[n]}
    PROVE  Follows(c, d)
BY CatFields DEF Follows, Grows, CatOK, Cached

\* Exchanging the objects and the cache of a catalog.
LEMMA CatalogWith ==
    ASSUME NEW c \in CatalogStates, NEW objs \in Seq(SchemaObjects), NEW cache \in [SchemaNames -> Nat]
    PROVE  /\ [c EXCEPT !.objects = objs, !.cache = cache] \in CatalogStates
           /\ [c EXCEPT !.objects = objs] \in CatalogStates
BY Zenon DEF CatalogStates, SchemaObjects

\* An empty entry is well formed.
LEMMA NoEntryOK == EntryOK(NoEntry)
BY DEF EntryOK, NoEntry, Entries

\* CachingSchema adds an object and makes it current.
LEMMA FollowsCachingSchema ==
    ASSUME NEW c, CatOK(c), NEW n \in SchemaNames
    PROVE  /\ Follows(c, CachingSchema(c, n, n))
           /\ CachingSchema(c, n, n).cache[n] # 0
<1> DEFINE new == [name |-> n, namespace |-> n, tables |-> EmptyCache]
           d == CachingSchema(c, n, n)
           objs == Append(c.objects, new)
<1>1. EmptyCache \in [TableNames -> Entries] /\ \A t \in TableNames : EntryOK(EmptyCache[t])
  BY Zenon, NoEntryOK DEF EmptyCache, EntryOK
<1>2. /\ d.objects = objs /\ d.cache = [c.cache EXCEPT ![n] = Len(c.objects) + 1]
      /\ d.schemas = c.schemas /\ d.tables = c.tables /\ d.catalogs = c.catalogs
  BY Zenon DEF CachingSchema, CatOK, CatalogStates
<1>3. new \in SchemaObjects
  BY Zenon, <1>1 DEF SchemaObjects
<1>4. c.objects \in Seq(SchemaObjects)
  BY Zenon DEF CatOK, CatalogStates, SchemaObjects
<1>5. new.name = n /\ new.namespace = n /\ new.tables = EmptyCache
  BY Zenon
<1> HIDE DEF new
<1>6. /\ Len(objs) = Len(c.objects) + 1
      /\ \A o \in 1..Len(c.objects) : objs[o] = c.objects[o]
      /\ objs[Len(c.objects) + 1] = new
      /\ objs \in Seq(SchemaObjects)
  BY <1>3, <1>4, CatFields
<1> HIDE DEF objs, d
<1>7. d \in CatalogStates
  <2>1. d.cache \in [SchemaNames -> Nat]
    BY <1>2, CatFields
  <2>2. objs \in Seq(SchemaObjects) /\ [c.cache EXCEPT ![n] = Len(c.objects) + 1] \in [SchemaNames -> Nat]
    BY Zenon, <1>2, <1>6, <2>1
  <2>3. d = [c EXCEPT !.objects = objs, !.cache = [c.cache EXCEPT ![n] = Len(c.objects) + 1]]
    BY Zenon DEF d, CachingSchema, objs, new, CatOK, CatalogStates
  <2>4. QED
    BY Zenon, <2>2, <2>3, CatalogWith DEF CatOK
<1>8. Len(d.objects) = Len(c.objects) + 1 /\ Len(c.objects) \in Nat
  BY Zenon, <1>2, <1>6, CatFields
<1>9. ASSUME NEW m \in SchemaNames
      PROVE  d.cache[m] <= Len(d.objects) /\ (d.cache[m] # 0 => d.objects[d.cache[m]].name = m)
  <2>1. CASE m = n
    BY <1>2, <1>5, <1>6, <1>8, <2>1, CatFields
  <2>2. CASE m # n
    <3>1. d.cache[m] = c.cache[m] /\ c.cache[m] \in Nat
      BY Zenon, <1>2, <2>2, CatFields
    <3>2. c.cache[m] <= Len(c.objects) /\ (c.cache[m] # 0 => c.objects[c.cache[m]].name = m)
      BY Zenon DEF CatOK
    <3>3. QED
      BY <1>2, <1>6, <1>8, <3>1, <3>2
  <2>3. QED
    BY Zenon, <2>1, <2>2
<1>10. ASSUME NEW o \in 1..Len(d.objects), NEW t \in TableNames PROVE EntryOK(d.objects[o].tables[t])
  <2>1. CASE o = Len(c.objects) + 1
    BY Zenon, <1>1, <1>2, <1>5, <1>6, <2>1
  <2>2. CASE o # Len(c.objects) + 1
    BY <1>2, <1>6, <1>8, <2>2 DEF CatOK
  <2>3. QED
    BY Zenon, <2>1, <2>2
<1>11. CatOK(d)
  BY Zenon, <1>7, <1>9, <1>10 DEF CatOK
<1>12. d.cache[n] # 0
  BY <1>2, CatFields
<1>13. Grows(c, d)
  BY <1>2, <1>5, <1>6, <1>8, <1>11 DEF Grows
<1>14. ASSUME NEW o \in 1..Len(d.objects), NEW t \in TableNames, Cached(d, o, t).kind \in {"table", "stage"}
       PROVE  o <= Len(c.objects) /\ Cached(d, o, t) = Cached(c, o, t)
  <2>1. EmptyCache[t].kind = "none"
    BY Zenon DEF EmptyCache, NoEntry
  <2>2. o # Len(c.objects) + 1
    BY Zenon, <1>2, <1>5, <1>6, <1>14, <2>1 DEF Cached
  <2>3. QED
    BY <1>2, <1>6, <1>8, <2>2 DEF Cached
<1>15. QED
  BY Zenon, <1>12, <1>13, <1>14 DEF Follows, d

\* CachingCatalog::schema, and the object it answers.
LEMMA SchemaFollows ==
    ASSUME NEW c, CatOK(c), NEW n \in SchemaNames
    PROVE  /\ Follows(c, schema(c, n))
           /\ schema(c, n).cache[n] \in 0..Len(schema(c, n).objects)
           /\ schema(c, n).cache[n] # 0 => schema(c, n).objects[schema(c, n).cache[n]].name = n
<1>1. Follows(c, schema(c, n))
  BY Zenon, FollowsCachingSchema, FollowsReflexive DEF schema
<1>2. CatOK(schema(c, n))
  BY Zenon, <1>1 DEF Follows, Grows
<1>3. QED
  BY <1>1, <1>2, CatFields DEF CatOK

\* Changes of the names alone.
LEMMA NamesFollow ==
    ASSUME NEW c, CatOK(c)
    PROVE  /\ Follows(c, schema_names(c))
           /\ Follows(c, drop_catalog(c))
           /\ \A n \in SchemaNames : Follows(c, drop_namespace_async(c, n))
           /\ \A n \in SchemaNames : Follows(c, create_namespace_async(c, n))
           /\ \A o \in 1..Len(c.objects), t \in TableNames :
                 Follows(c, mirror_deregister(c, o, t)) /\ Follows(c, mirror_register(c, o, t))
<1>0. c \in CatalogStates /\ c.cache \in [SchemaNames -> Nat]
  BY Zenon, CatFields DEF CatOK
<1>1. Follows(c, schema_names(c))
  <2> DEFINE g == [n \in SchemaNames |-> IF n \in c.schemas THEN c.cache[n] ELSE 0]
  <2>1. g \in [SchemaNames -> Nat] /\ \A n \in SchemaNames : g[n] \in {0, c.cache[n]}
    BY Zenon, <1>0
  <2> DEFINE d == [c EXCEPT !.cache = g]
  <2>2. schema_names(c) = d
    BY Zenon, <1>0 DEF schema_names, CatalogStates
  <2> HIDE DEF g
  <2>3. d \in CatalogStates /\ d.objects = c.objects /\ d.cache = g
    BY Zenon, <1>0, <2>1 DEF CatalogStates
  <2> HIDE DEF d
  <2>4. Follows(c, d)
    BY Zenon, <2>1, <2>3, FollowsSameObjects
  <2>5. QED
    BY Zenon, <2>2, <2>4
<1>2. Follows(c, drop_catalog(c))
  <2>1. drop_catalog(c) \in CatalogStates /\ drop_catalog(c).objects = c.objects /\ drop_catalog(c).cache = c.cache
    BY Zenon, <1>0 DEF CatalogStates, drop_catalog
  <2>2. QED
    BY Zenon, <2>1, FollowsSameObjects
<1>3. ASSUME NEW n \in SchemaNames PROVE Follows(c, drop_namespace_async(c, n))
  <2>1. /\ drop_namespace_async(c, n) \in CatalogStates /\ drop_namespace_async(c, n).objects = c.objects
        /\ drop_namespace_async(c, n).cache = [c.cache EXCEPT ![n] = 0]
    BY Zenon, <1>0 DEF CatalogStates, drop_namespace_async
  <2>2. QED
    BY Zenon, <1>0, <2>1, FollowsSameObjects
<1>4. ASSUME NEW n \in SchemaNames PROVE Follows(c, create_namespace_async(c, n))
  <2> DEFINE d == [c EXCEPT !.schemas = @ \cup {n}]
  <2>1. d \in CatalogStates /\ d.objects = c.objects /\ d.cache = c.cache
    BY Zenon, <1>0 DEF CatalogStates
  <2> HIDE DEF d
  <2>2. Follows(c, d)
    BY Zenon, <2>1, FollowsSameObjects
  <2>3. Follows(d, CachingSchema(d, n, n))
    BY Zenon, <2>2, FollowsCachingSchema DEF Follows, Grows
  <2>4. create_namespace_async(c, n) = CachingSchema(d, n, n)
    BY Zenon DEF create_namespace_async, d
  <2>5. QED
    BY Zenon, <2>2, <2>3, <2>4, FollowsTransitive
<1>5. ASSUME NEW o \in 1..Len(c.objects), NEW t \in TableNames
      PROVE  Follows(c, mirror_deregister(c, o, t)) /\ Follows(c, mirror_register(c, o, t))
  <2>1. Path(c, o, t) \in Paths
    BY Zenon, CatFields DEF Path, Paths, SchemaObjects
  <2>2. /\ mirror_deregister(c, o, t) \in CatalogStates /\ mirror_deregister(c, o, t).objects = c.objects
        /\ mirror_deregister(c, o, t).cache = c.cache
    BY Zenon, <1>0 DEF CatalogStates, mirror_deregister
  <2>3. /\ mirror_register(c, o, t) \in CatalogStates /\ mirror_register(c, o, t).objects = c.objects
        /\ mirror_register(c, o, t).cache = c.cache
    BY Zenon, <1>0, <2>1 DEF CatalogStates, mirror_register
  <2>4. QED
    BY Zenon, <2>2, <2>3, FollowsSameObjects
<1>6. QED
  BY Zenon, <1>1, <1>2, <1>3, <1>4, <1>5

\* What Put changes: one entry of one object.
LEMMA PutGrows ==
    ASSUME NEW c, CatOK(c), NEW o \in 1..Len(c.objects), NEW t \in TableNames, NEW e, EntryOK(e)
    PROVE  /\ Grows(c, Put(c, o, t, e))
           /\ Put(c, o, t, e).cache = c.cache /\ Len(Put(c, o, t, e).objects) = Len(c.objects)
           /\ \A q \in 1..Len(c.objects), u \in TableNames :
                 Cached(Put(c, o, t, e), q, u) = IF q = o /\ u = t THEN e ELSE Cached(c, q, u)
           /\ e.kind \notin {"table", "stage"} => Follows(c, Put(c, o, t, e))
<1> DEFINE old == c.objects[o]
           new == [old EXCEPT !.tables = [@ EXCEPT ![t] = e]]
           objs == [c.objects EXCEPT ![o] = new]
           d == Put(c, o, t, e)
<1>1. /\ c \in CatalogStates /\ c.objects \in Seq(SchemaObjects) /\ old \in SchemaObjects
      /\ c.cache \in [SchemaNames -> Nat] /\ Len(c.objects) \in Nat
  BY Zenon, CatFields DEF CatOK, CatalogStates, SchemaObjects
<1>2. d = [c EXCEPT !.objects = objs]
  BY Zenon DEF Put
<1>3. /\ new \in SchemaObjects /\ new.name = old.name /\ new.namespace = old.namespace
      /\ new.tables = [old.tables EXCEPT ![t] = e]
  BY Zenon, <1>1 DEF SchemaObjects, EntryOK
<1>4. old.tables \in [TableNames -> Entries]
  BY Zenon, <1>1 DEF SchemaObjects
<1> HIDE DEF new, old
<1>5. /\ objs \in Seq(SchemaObjects) /\ Len(objs) = Len(c.objects)
      /\ \A q \in 1..Len(c.objects) : objs[q] = IF q = o THEN new ELSE c.objects[q]
  BY <1>1, <1>3
<1> HIDE DEF objs
<1>6. d \in CatalogStates /\ d.objects = objs /\ d.cache = c.cache
  <2>1. [c EXCEPT !.objects = objs] \in CatalogStates
    BY Zenon, <1>1, <1>5, CatalogWith
  <2>2. QED
    BY Zenon, <1>1, <1>2, <2>1 DEF CatalogStates
<1> HIDE DEF d
<1>7. \A q \in 1..Len(c.objects), u \in TableNames :
         Cached(d, q, u) = IF q = o /\ u = t THEN e ELSE Cached(c, q, u)
  BY Zenon, <1>3, <1>4, <1>5, <1>6 DEF Cached, old
<1>8. \A q \in 1..Len(c.objects) : /\ d.objects[q].name = c.objects[q].name
                                   /\ d.objects[q].namespace = c.objects[q].namespace
  BY Zenon, <1>3, <1>5, <1>6 DEF old
<1>9. CatOK(d)
  <2>1. \A q \in 1..Len(d.objects), u \in TableNames : EntryOK(d.objects[q].tables[u])
    BY Zenon, <1>5, <1>6, <1>7 DEF CatOK, Cached
  <2>2. ASSUME NEW n \in SchemaNames
        PROVE  d.cache[n] <= Len(d.objects) /\ (d.cache[n] # 0 => d.objects[d.cache[n]].name = n)
    <3>1. c.cache[n] <= Len(c.objects) /\ (c.cache[n] # 0 => c.objects[c.cache[n]].name = n) /\ c.cache[n] \in Nat
      BY Zenon, <1>1 DEF CatOK
    <3>2. QED
      BY <1>1, <1>5, <1>6, <1>8, <3>1
  <2>3. QED
    BY Zenon, <1>6, <2>1, <2>2 DEF CatOK
<1>10. Grows(c, d) /\ Len(d.objects) = Len(c.objects)
  BY <1>1, <1>5, <1>6, <1>8, <1>9 DEF Grows
<1>11. e.kind \notin {"table", "stage"} => Follows(c, d)
  BY <1>1, <1>7, <1>10 DEF Follows
<1>12. QED
  BY Zenon, <1>6, <1>7, <1>10, <1>11 DEF d

\* register_table puts its entry into the cache; the mirror's names play no part.
LEMMA RegisterGrows ==
    ASSUME NEW c, CatOK(c), NEW o \in 1..Len(c.objects), NEW t \in TableNames, NEW e, EntryOK(e)
    PROVE  /\ Grows(c, register_table(c, o, t, e))
           /\ Len(register_table(c, o, t, e).objects) = Len(c.objects)
           /\ \A q \in 1..Len(c.objects), u \in TableNames :
                 Cached(register_table(c, o, t, e), q, u) = IF q = o /\ u = t THEN e ELSE Cached(c, q, u)
           /\ e.kind \notin {"table", "stage"} => Follows(c, register_table(c, o, t, e))
<1> DEFINE d == mirror_register(c, o, t)
<1>1. Follows(c, d)
  BY Zenon, NamesFollow
<1>2. d.objects = c.objects
  BY Zenon DEF CatOK, CatalogStates, mirror_register
<1>3. register_table(c, o, t, e) = Put(d, o, t, e)
  BY Zenon DEF register_table
<1> HIDE DEF d
<1>4. CatOK(d) /\ Grows(c, d)
  BY Zenon, <1>1 DEF Follows, Grows
<1>5. o \in 1..Len(d.objects)
  BY Zenon, <1>2
<1>6. Grows(d, Put(d, o, t, e)) /\ Len(Put(d, o, t, e).objects) = Len(d.objects)
  BY <1>4, <1>5, PutGrows
<1>7. \A q \in 1..Len(c.objects), u \in TableNames :
         Cached(Put(d, o, t, e), q, u) = IF q = o /\ u = t THEN e ELSE Cached(d, q, u)
  BY <1>2, <1>4, <1>5, PutGrows
<1>8. e.kind \notin {"table", "stage"} => Follows(d, Put(d, o, t, e))
  BY Zenon, <1>4, <1>5, PutGrows
<1>9. Grows(c, Put(d, o, t, e))
  BY Zenon, <1>4, <1>6, GrowsTransitive
<1>10. e.kind \notin {"table", "stage"} => Follows(c, Put(d, o, t, e))
  BY Zenon, <1>1, <1>8, FollowsTransitive
<1>11. QED
  BY Zenon, <1>2, <1>3, <1>6, <1>7, <1>9, <1>10 DEF Cached

\* Taking a table or a view out of a cache.
LEMMA DropFollows ==
    ASSUME NEW c, CatOK(c), NEW o \in 1..Len(c.objects), NEW t \in TableNames
    PROVE  /\ Follows(c, drop_table_async(c, o, t)) /\ Len(drop_table_async(c, o, t).objects) = Len(c.objects)
           /\ Cached(drop_table_async(c, o, t), o, t) = NoEntry
           /\ Follows(c, mirror_deregister(drop_table_async(c, o, t), o, t))
           /\ Len(mirror_deregister(drop_table_async(c, o, t), o, t).objects) = Len(c.objects)
           /\ Follows(c, deregister_table(c, o, t)) /\ Len(deregister_table(c, o, t).objects) = Len(c.objects)
<1> DEFINE d == Put(c, o, t, NoEntry)
<1>0. NoEntry.kind = "none"
  BY Zenon DEF NoEntry
<1>1. Follows(c, d) /\ Len(d.objects) = Len(c.objects) /\ Cached(d, o, t) = NoEntry
  BY <1>0, NoEntryOK, PutGrows
<1>2. drop_table_async(c, o, t) = d /\ deregister_table(c, o, t) \in {d, mirror_deregister(d, o, t)}
  BY Zenon DEF drop_table_async, deregister_table
<1> HIDE DEF d
<1>3. CatOK(d) /\ o \in 1..Len(d.objects)
  BY Zenon, <1>1 DEF Follows, Grows
<1>4. Follows(d, mirror_deregister(d, o, t)) /\ mirror_deregister(d, o, t).objects = d.objects
  BY Zenon, <1>3, NamesFollow DEF CatOK, CatalogStates, mirror_deregister
<1>5. Follows(c, mirror_deregister(d, o, t))
  BY Zenon, <1>1, <1>4, FollowsTransitive
<1>6. QED
  BY Zenon, <1>1, <1>2, <1>4, <1>5

\* What a schema object leads to has the right type.
LEMMA LookupTyped ==
    ASSUME NEW c, CatOK(c), NEW o \in 1..Len(c.objects), NEW t \in TableNames
    PROVE  /\ Path(c, o, t) \in Paths /\ Identifier(c, o, t) \in Paths
           /\ load_fresh_iceberg_table(c, o, t) \in Paths
           /\ FromCache(c, o, t) => Cached(c, o, t).source \in Paths
<1>1. c.objects[o] \in SchemaObjects /\ EntryOK(Cached(c, o, t))
  BY Zenon, CatFields DEF CatOK, Cached
<1>2. \A u \in TableNames : Path(c, o, u) \in Paths /\ Identifier(c, o, u) \in Paths
  BY Zenon, <1>1 DEF Path, Identifier, Paths, SchemaObjects
<1>3. QED
  BY Zenon, <1>1, <1>2 DEF load_fresh_iceberg_table, FromCache, EntryOK

\* The parts of a path.
LEMMA PathParts ==
    ASSUME NEW p \in Paths
    PROVE  p[1] \in SchemaNames /\ p[2] \in TableNames /\ p = <<p[1], p[2]>>
BY DEF Paths

\* Names lead to paths.
LEMMA NamesResolve ==
    ASSUME vars.schema \in SchemaNames \cup {""}, NEW n \in Names
    PROVE  resolve_table_ref(n) \in Paths /\ default_table_ref(n) \in Paths
<1>1. n[1] \in SchemaNames \cup {""} /\ n[2] \in TableNames
  BY Zenon DEF Names
<1>2. current_schema \in SchemaNames
  BY Zenon, ContextAssumption DEF current_schema
<1>3. QED
  BY Zenon, <1>1, <1>2, ContextAssumption, NamesAssumption DEF resolve_table_ref, default_table_ref, Paths

-----------------------------------------------------------------------------
(* Iceberg *)

\* Nothing happens to Iceberg.
LEMMA MovesReflexive ==
    ASSUME NEW i \in IcebergStates
    PROVE  Moves(i, i)
BY DEF Moves, IcebergStates

\* A table gets a record of its own, which is empty or bears the next number.
LEMMA MovesTable ==
    ASSUME NEW i \in IcebergStates, NEW p \in Paths, NEW x \in [id : Nat, snap : Nat],
           x.id = 0 \/ (x.snap = i.next /\ x.id \in {i.tables[p].id, i.next}),
           NEW k \in IcebergStates, k.next = i.next + 1,
           \A q \in Paths : k.tables[q] = IF q = p THEN x ELSE i.tables[q]
    PROVE  Moves(i, k)
<1>1. i.tables \in [Paths -> [id : Nat, snap : Nat]] /\ i.next \in Nat \ {0}
  BY Zenon DEF IcebergStates
<1>2. QED
  BY <1>1 DEF Moves

\* Namespaces come and go without a table changing.
LEMMA MovesNamespaces ==
    ASSUME NEW i \in IcebergStates, NEW names \in SUBSET SchemaNames
    PROVE  Moves(i, [i EXCEPT !.namespaces = names])
BY DEF Moves, IcebergStates

\* What one request does to the tables: nothing, or a change of the one it names,
\* or of none.
LEMMA EffectTables ==
    ASSUME NEW i \in IcebergStates, NEW r, ReqOK(r)
    PROVE  /\ Moves(i, Effect(i, r))
           /\ r.op \notin {"create", "drop"} => \A p \in Paths : Effect(i, r).tables[p].id = i.tables[p].id
           /\ \A p \in Paths : p # r.path => Effect(i, r).tables[p] = i.tables[p]
           /\ r.op = "create" => Effect(i, r).tables[r.path] = [id |-> i.next, snap |-> i.next]
<1>0. i.tables \in [Paths -> [id : Nat, snap : Nat]] /\ i.next \in Nat \ {0} /\ i.namespaces \in SUBSET SchemaNames
  BY Zenon DEF IcebergStates
<1>1. ASSUME r \in [op : {"load", "create", "drop", "append"}, path : Paths, id : Nat],
             NEW x \in [id : Nat, snap : Nat],
             x.id = 0 \/ (x.snap = i.next /\ x.id \in {i.tables[r.path].id, i.next}),
             Effect(i, r) = [i EXCEPT !.tables = [i.tables EXCEPT ![r.path] = x], !.next = i.next + 1]
      PROVE  /\ Moves(i, Effect(i, r))
             /\ \A p \in Paths : Effect(i, r).tables[p] = IF p = r.path THEN x ELSE i.tables[p]
  <2> DEFINE tables == [i.tables EXCEPT ![r.path] = x]
             n == i.next + 1
             k == Effect(i, r)
  <2>1. r.path \in Paths
    BY Zenon, <1>1
  <2>2. tables \in [Paths -> [id : Nat, snap : Nat]] /\ n \in Nat \ {0}
    BY <1>0, <1>1, <2>1
  <2>3. \A p \in Paths : tables[p] = IF p = r.path THEN x ELSE i.tables[p]
    BY Zenon, <1>0
  <2>4. k = [i EXCEPT !.tables = tables, !.next = n]
    BY Zenon, <1>1
  <2> HIDE DEF tables, n, k
  <2>5. k \in IcebergStates /\ k.tables = tables /\ k.next = n
    BY Zenon, <2>2, <2>4 DEF IcebergStates
  <2>6. k.next = i.next + 1 /\ \A p \in Paths : k.tables[p] = IF p = r.path THEN x ELSE i.tables[p]
    BY Zenon, <2>3, <2>5 DEF n
  <2>7. Moves(i, k)
    BY <1>1, <2>1, <2>5, <2>6, MovesTable
  <2>8. QED
    BY Zenon, <2>6, <2>7 DEF k
<1>2. CASE r \in [op : {"load", "create", "drop", "append"}, path : Paths, id : Nat] /\ r.op = "create"
  <2> DEFINE x == [id |-> i.next, snap |-> i.next]
  <2>1. x \in [id : Nat, snap : Nat] /\ x.id = i.next /\ x.snap = i.next
    BY Zenon, <1>0
  <2>2. Effect(i, r) = [i EXCEPT !.tables = [i.tables EXCEPT ![r.path] = x], !.next = i.next + 1]
    BY Zenon, <1>2 DEF Effect
  <2> HIDE DEF x
  <2>3. /\ Moves(i, Effect(i, r))
        /\ \A p \in Paths : Effect(i, r).tables[p] = IF p = r.path THEN x ELSE i.tables[p]
    BY Zenon, <1>1, <1>2, <2>1, <2>2
  <2>4. QED
    BY Zenon, <1>2, <2>3 DEF x
<1>3. CASE r \in [op : {"load", "create", "drop", "append"}, path : Paths, id : Nat] /\ r.op = "drop"
  <2>1. NoTable \in [id : Nat, snap : Nat] /\ NoTable.id = 0
    BY Zenon DEF NoTable
  <2>2. Effect(i, r) = [i EXCEPT !.tables = [i.tables EXCEPT ![r.path] = NoTable], !.next = i.next + 1]
    BY Zenon, <1>3 DEF Effect
  <2>3. /\ Moves(i, Effect(i, r))
        /\ \A p \in Paths : Effect(i, r).tables[p] = IF p = r.path THEN NoTable ELSE i.tables[p]
    BY Zenon, <1>1, <1>3, <2>1, <2>2
  <2>4. QED
    BY Zenon, <1>3, <2>3
<1>4. CASE r \in [op : {"load", "create", "drop", "append"}, path : Paths, id : Nat] /\ r.op = "append"
  <2> DEFINE x == [i.tables[r.path] EXCEPT !.snap = i.next]
  <2>0. i.tables[r.path] \in [id : Nat, snap : Nat]
    BY Zenon, <1>0, <1>4
  <2>1. x \in [id : Nat, snap : Nat] /\ x.id = i.tables[r.path].id /\ x.snap = i.next
    BY Zenon, <1>0, <2>0
  <2>2. Effect(i, r) = [i EXCEPT !.tables = [i.tables EXCEPT ![r.path] = x], !.next = i.next + 1]
    BY Zenon, <1>4 DEF Effect
  <2> HIDE DEF x
  <2>3. /\ Moves(i, Effect(i, r))
        /\ \A p \in Paths : Effect(i, r).tables[p] = IF p = r.path THEN x ELSE i.tables[p]
    BY Zenon, <1>1, <1>4, <2>1, <2>2
  <2>4. QED
    BY Zenon, <1>4, <2>1, <2>3
<1>5. CASE r.op \in {"none", "load"}
  <2>1. Effect(i, r) = i
    BY Zenon, <1>5 DEF Effect
  <2>2. QED
    BY Zenon, <1>5, <2>1, MovesReflexive
<1>6. CASE \E n \in SchemaNames : r = Request("create_namespace", <<n>>, 0) \/ r = Request("drop_namespace", <<n>>, 0)
  <2>1. PICK n \in SchemaNames : r = Request("create_namespace", <<n>>, 0) \/ r = Request("drop_namespace", <<n>>, 0)
    BY Zenon, <1>6
  <2>2. r.op \in {"create_namespace", "drop_namespace"} /\ r.path = <<n>>
    BY <2>1 DEF Request
  <2>3. PICK names \in SUBSET SchemaNames : Effect(i, r) = [i EXCEPT !.namespaces = names]
    <3>1. CASE r.op = "create_namespace"
      <4>1. Effect(i, r) = [i EXCEPT !.namespaces = i.namespaces \cup {n}]
        BY <2>2, <3>1 DEF Effect
      <4>2. QED
        BY Zenon, <1>0, <4>1
    <3>2. CASE r.op = "drop_namespace"
      <4>1. Effect(i, r) = [i EXCEPT !.namespaces = i.namespaces \ {n}]
        BY <2>2, <3>2 DEF Effect
      <4>2. QED
        BY Zenon, <1>0, <4>1
    <3>3. QED
      BY Zenon, <2>2, <3>1, <3>2
  <2>4. Effect(i, r).tables = i.tables
    BY Zenon, <2>3 DEF IcebergStates
  <2>5. QED
    BY Zenon, <2>2, <2>3, <2>4, MovesNamespaces
<1>7. r = NoRequest => r.op = "none"
  BY DEF NoRequest, Request
<1>8. QED
  BY Zenon, <1>2, <1>3, <1>4, <1>5, <1>6, <1>7 DEF ReqOK

\* A request is performed or not.
LEMMA PerformedMoves ==
    ASSUME NEW i \in IcebergStates, NEW r, ReqOK(r)
    PROVE  Moves(i, Performed(i, r))
BY Zenon, EffectTables, MovesReflexive DEF Performed

-----------------------------------------------------------------------------
(* What a job knows stays true while other jobs work *)

\* What a statement has read stays a reading since it began, whatever Iceberg does.
LEMMA FoundStays ==
    ASSUME NEW i \in IcebergStates, NEW k, Moves(i, k), NEW floor \in Nat, floor <= i.next,
           NEW f, FoundOK(f, i, floor)
    PROVE  FoundOK(f, k, floor)
<1>1. i.next \in Nat /\ k.next \in Nat /\ i.next <= k.next
  BY Zenon DEF Moves, IcebergStates
<1>2. \A p \in Paths : i.tables[p].snap \in Nat /\ k.tables[p].snap \in Nat
  BY Zenon DEF Moves, IcebergStates
<1>3. QED
  BY SMTT(20), <1>1, <1>2 DEF FoundOK, Moves

\* A table created since a statement began stays that, or is dropped.
LEMMA NewStays ==
    ASSUME NEW i \in IcebergStates, NEW k, Moves(i, k), NEW floor \in Nat, floor <= i.next,
           NEW p \in Paths, NewAt(i, p, floor)
    PROVE  NewAt(k, p, floor)
<1>1. i.next \in Nat /\ k.next \in Nat /\ i.next <= k.next /\ i.tables[p].id \in Nat /\ k.tables[p].id \in Nat
  BY Zenon DEF Moves, IcebergStates
<1>2. QED
  BY <1>1 DEF NewAt, Moves

\* What CREATE TABLE has made stays new under a schema object of its name.
LEMMA CreatedStays ==
    ASSUME NEW i \in IcebergStates, NEW k, Moves(i, k), NEW c, CatOK(c), NEW d, Grows(c, d),
           NEW j, j.path \in Paths, j.floor \in Nat, j.floor <= i.next, Created(j, c, i)
    PROVE  Created(j, d, k)
<1>1. PICK o \in 1..Len(c.objects) : /\ c.objects[o].name = j.path[1]
                                     /\ NewAt(i, <<c.objects[o].namespace, j.path[2]>>, j.floor)
  BY Zenon DEF Created
<1>2. /\ Len(c.objects) \in Nat /\ Len(d.objects) \in Nat /\ o \in 1..Len(d.objects)
      /\ d.objects[o].name = c.objects[o].name /\ d.objects[o].namespace = c.objects[o].namespace
  BY CatFields DEF Grows
<1>3. <<c.objects[o].namespace, j.path[2]>> \in Paths
  BY Zenon, PathParts, LookupTyped DEF Identifier
<1>4. NewAt(k, <<c.objects[o].namespace, j.path[2]>>, j.floor)
  BY Zenon, <1>1, <1>3, NewStays
<1>5. QED
  BY Zenon, <1>1, <1>2, <1>4 DEF Created

\* What a job knows stays true.
LEMMA JobStays ==
    ASSUME NEW c, CatOK(c), NEW d, Grows(c, d), NEW i \in IcebergStates, NEW k, Moves(i, k),
           NEW j, JobOK(j, c, i)
    PROVE  JobOK(j, d, k)
<1>1. /\ Len(c.objects) \in Nat /\ Len(d.objects) \in Nat /\ Len(c.objects) <= Len(d.objects)
      /\ i.next \in Nat /\ k.next \in Nat /\ i.next <= k.next
  BY Zenon, CatFields DEF Grows, Moves, IcebergStates
<1>2. j.floor \in Nat /\ j.floor <= i.next /\ j.obj \in 0..Len(c.objects) /\ Core(j, c, i) /\ Local(j, c, i) /\ Placed(j)
  BY Zenon DEF JobOK, Core
<1>3. FoundOK(j.reply.found, k, j.floor) /\ \A f \in j.listed : FoundOK(f, k, j.floor)
  BY Zenon, <1>2, FoundStays DEF Core
<1>4. Core(j, d, k)
  BY <1>1, <1>2, <1>3 DEF Core
<1>5. j.obj # 0 => /\ d.objects[j.obj].name = c.objects[j.obj].name
                   /\ Identifier(d, j.obj, j.path[2]) = Identifier(c, j.obj, j.path[2])
  BY SMTT(20), <1>1, <1>2 DEF Grows, Identifier
<1>6. j.cmd.op \in CreateOps => j.path \in Paths
  BY Zenon, <1>2 DEF Core, CreateOps, TableOps
<1>7. j.cmd.op \in CreateOps /\ Created(j, c, i) => Created(j, d, k)
  BY Zenon, <1>2, <1>6, CreatedStays
<1>8. j.pc = "create_done" => j.cmd.op \in CreateOps
  BY Zenon, <1>2 DEF Placed, PlacedAt, CreatePcs
<1>9. Local(j, d, k)
  BY Zenon, <1>2, <1>5, <1>7, <1>8 DEF Local
<1>10. QED
  BY Zenon, <1>2, <1>4, <1>9 DEF JobOK

-----------------------------------------------------------------------------
(* The jobs an action makes *)

\* The places of a statement about which Local says nothing.
FreePcs ==
    {"create_planned", "create_source", "drop_checked", "view_planned", "view_target", "alter_checked",
     "pivot_planned", "select_planned", "make_tables", "copy_loaded", "schema_created", "schema_dropped"}

\* The job k has the statement of j and what it knows of it.
Same(k, j) ==
    /\ Shape(k) /\ k.cmd = j.cmd /\ k.path = j.path /\ k.floor = j.floor /\ k.listed = j.listed
    /\ k.answer = j.answer

\* The empty reply leads to nothing.
LEMMA NothingFound ==
    ASSUME NEW i, NEW floor
    PROVE  DOMAIN NoReply = {"ok", "found"} /\ NoReply.ok = FALSE /\ FoundOK(NoReply.found, i, floor)
BY DEF NoReply, Missing, FoundOK

\* What is loaded from Iceberg is what Iceberg has.
LEMMA TableFound ==
    ASSUME NEW i \in IcebergStates, NEW p \in Paths, NEW floor
    PROVE  FoundOK(Table(i, p), i, floor)
<1>1. i.tables[p] \in [id : Nat, snap : Nat]
  BY Zenon DEF IcebergStates
<1>2. QED
  BY Zenon, <1>1 DEF Table, FoundOK

\* A job with another object, request and reply.
LEMMA CoreSame ==
    ASSUME NEW j, NEW c, NEW i, Core(j, c, i), NEW k, Same(k, j),
           k.obj \in 0..Len(c.objects), ReqOK(k.req),
           DOMAIN k.reply = {"ok", "found"}, k.reply.ok \in BOOLEAN, FoundOK(k.reply.found, i, k.floor)
    PROVE  Core(k, c, i)
BY DEF Core, Same

\* A job at another place with the same object, request and reply.
LEMMA AlikeCore ==
    ASSUME NEW j, NEW c, NEW i, Core(j, c, i), NEW k, Same(k, j),
           k.obj = j.obj, k.req = j.req, k.reply = j.reply
    PROVE  Core(k, c, i)
BY DEF Core, Same

\* At the places where nothing local is promised, Core and Placed are enough.
LEMMA FreeOK ==
    ASSUME NEW j, NEW c, NEW i, Core(j, c, i), j.pc \in FreePcs, PlacedAt(j.cmd.op, j.pc)
    PROVE  JobOK(j, c, i)
BY DEF JobOK, Placed, Local, FreePcs

\* The fields of a job that asks Iceberg.
LEMMA AskingFields ==
    ASSUME NEW j, Shape(j), NEW pc, NEW o, NEW r
    PROVE  LET k == Asking(j, pc, o, r)
           IN  Same(k, j) /\ k.pc = pc /\ k.obj = o /\ k.req = r /\ k.reply = NoReply /\ k.todo = j.todo
BY DEF Asking, Same, Shape, IdleJob

\* Asking Iceberg keeps the part that does not depend on the place.
LEMMA AskingCore ==
    ASSUME NEW j, NEW c, NEW i, Core(j, c, i), NEW pc, NEW o \in 0..Len(c.objects), NEW r, ReqOK(r)
    PROVE  Core(Asking(j, pc, o, r), c, i)
<1> DEFINE k == Asking(j, pc, o, r)
<1>1. Same(k, j) /\ k.obj = o /\ k.req = r /\ k.reply = NoReply
  BY AskingFields DEF Core
<1> HIDE DEF k
<1>2. Core(k, c, i)
  BY Zenon, <1>1, NothingFound, CoreSame
<1>3. QED
  BY Zenon, <1>2 DEF k

\* The fields of a job that has ended.
LEMMA FinishedFields ==
    ASSUME NEW j, Shape(j), NEW answer
    PROVE  LET k == Finished(j, answer)
           IN  /\ Shape(k) /\ k.cmd = j.cmd /\ k.path = j.path /\ k.floor = j.floor /\ k.listed = j.listed
               /\ k.pc = "idle" /\ k.obj = 0 /\ k.req = NoRequest /\ k.reply = NoReply /\ k.todo = {}
               /\ k.answer = answer
BY DEF Finished, Shape, IdleJob

\* A statement may end anywhere; when it is a replacement that says it succeeded, it created the table.
LEMMA FinishedOK ==
    ASSUME NEW j, NEW c, CatOK(c), NEW i, Core(j, c, i), NEW answer \in {"ok", "error", "aborted"},
           j.cmd.op \in CreateOps /\ answer = "ok" /\ j.cmd.mode = "or_replace" => Created(j, c, i)
    PROVE  JobOK(Finished(j, answer), c, i)
<1> DEFINE k == Finished(j, answer)
<1>1. /\ Shape(k) /\ k.cmd = j.cmd /\ k.path = j.path /\ k.floor = j.floor /\ k.listed = j.listed
      /\ k.pc = "idle" /\ k.obj = 0 /\ k.req = NoRequest /\ k.reply = NoReply /\ k.todo = {}
      /\ k.answer = answer
  BY FinishedFields DEF Core
<1> HIDE DEF k
<1>2. ReqOK(NoRequest) /\ 0 \in 0..Len(c.objects)
  BY CatFields DEF ReqOK
<1>3. Core(k, c, i)
  BY Zenon, <1>1, <1>2, NothingFound DEF Core
<1>4. Placed(k)
  BY Zenon, <1>1 DEF Placed, PlacedAt, CreatePcs, TablePcs
<1>5. Created(j, c, i) => Created(k, c, i)
  BY Zenon, <1>1 DEF Created
<1>6. Local(k, c, i)
  BY Zenon, <1>1, <1>5 DEF Local
<1>7. QED
  BY Zenon, <1>3, <1>4, <1>6 DEF JobOK, k

\* Loading a table, or finding a view in the cache.
LEMMA LoadingCore ==
    ASSUME NEW j, NEW c, CatOK(c), NEW i, Core(j, c, i), NEW pc, NEW o \in 1..Len(c.objects), NEW t \in TableNames
    PROVE  LET k == Loading(j, pc, c, o, t)
           IN  /\ Core(k, c, i) /\ Same(k, j) /\ k.pc = pc /\ k.obj = o /\ k.todo = j.todo
               /\ k.req.op \in {"none", "load"}
<1> DEFINE k == Loading(j, pc, c, o, t)
<1>0. o \in 0..Len(c.objects) /\ Shape(j)
  BY CatFields DEF Core
<1>1. CASE FromCache(c, o, t)
  <2> DEFINE v == View(Cached(c, o, t).source)
             reply == [ok |-> TRUE, found |-> v]
  <2>1. FoundOK(v, i, j.floor)
    BY Zenon, <1>1, LookupTyped DEF View, FoundOK
  <2>2. DOMAIN reply = {"ok", "found"} /\ reply.ok = TRUE /\ reply.found = v
    BY Zenon
  <2>3. k = [j EXCEPT !.pc = pc, !.obj = o, !.req = NoRequest, !.reply = reply]
    BY Zenon, <1>1 DEF Loading
  <2> HIDE DEF v, reply, k
  <2>4. Same(k, j) /\ k.pc = pc /\ k.obj = o /\ k.todo = j.todo /\ k.req = NoRequest /\ k.reply = reply
    BY Zenon, <1>0, <2>3 DEF Same, Shape, IdleJob
  <2>5. Core(k, c, i)
    <3>1. ReqOK(NoRequest) /\ k.floor = j.floor
      BY Zenon, <2>4 DEF ReqOK, Same
    <3>2. QED
      BY Zenon, <1>0, <2>1, <2>2, <2>4, <3>1, CoreSame
  <2>6. NoRequest.op = "none"
    BY Zenon DEF NoRequest, Request
  <2>7. QED
    BY Zenon, <2>4, <2>5, <2>6 DEF k
<1>2. CASE ~FromCache(c, o, t)
  <2> DEFINE r == Request("load", load_fresh_iceberg_table(c, o, t), 0)
  <2>1. ReqOK(r) /\ r.op = "load"
    BY Zenon, LookupTyped DEF ReqOK, Request
  <2>2. k = Asking(j, pc, o, r)
    BY Zenon, <1>2 DEF Loading
  <2> HIDE DEF r, k
  <2>3. Core(k, c, i)
    BY Zenon, <1>0, <2>1, <2>2, AskingCore
  <2>4. Same(k, j) /\ k.pc = pc /\ k.obj = o /\ k.todo = j.todo /\ k.req = r
    BY <1>0, <2>2, AskingFields
  <2>5. QED
    BY Zenon, <2>1, <2>3, <2>4 DEF k
<1>3. QED
  BY Zenon, <1>1, <1>2

\* A job is well formed in a catalog that has grown.
LEMMA CoreGrows ==
    ASSUME NEW c, CatOK(c), NEW d, Grows(c, d), NEW i, NEW j, Core(j, c, i)
    PROVE  Core(j, d, i)
<1>1. j.obj \in 0..Len(d.objects)
  BY CatFields DEF Core, Grows
<1>2. QED
  BY Zenon, <1>1 DEF Core

-----------------------------------------------------------------------------
(* Steps that take hold of no table *)

\* A job that neither drops a table nor has created one.
Light(j) ==
    /\ j.pc \notin {"set_properties", "copy_region"} /\ j.req.op # "drop"
    /\ j.pc = "create_done" => j.req # NoRequest

\* What most actions do: the catalog list loses entries at most, and one
\* statement goes on to a place where its job is in order.
Calm(w) ==
    /\ UNCHANGED <<ice, vars, stores, late, staged, menu>>
    /\ Follows(cat, cat')
    /\ \E j : job' = [job EXCEPT ![w] = j] /\ JobOK(j, cat', ice) /\ Light(j)

\* Going on to the next await is calm when the job there is light.
LEMMA GoCalm ==
    ASSUME NEW w, NEW c, Follows(cat, c), NEW j, JobOK(j, c, ice), Light(j), Go(w, c, j)
    PROVE  Calm(w)
BY Zenon DEF Go, Set, Calm

\* So is ending,
LEMMA EndCalm ==
    ASSUME NEW w, Follows(cat, cat'), NEW j, Core(j, cat', ice), NEW answer \in {"ok", "error", "aborted"},
           j.cmd.op \in CreateOps /\ answer = "ok" /\ j.cmd.mode = "or_replace" => Created(j, cat', ice),
           End(w, j, answer)
    PROVE  Calm(w)
<1> DEFINE k == Finished(j, answer)
<1>1. CatOK(cat')
  BY Zenon DEF Follows, Grows
<1>2. JobOK(k, cat', ice)
  BY Zenon, <1>1, FinishedOK
<1>3. k.pc = "idle" /\ k.req = NoRequest
  BY FinishedFields DEF Core
<1>4. job' = [job EXCEPT ![w] = k] /\ UNCHANGED <<ice, vars, stores, late, staged, menu>>
  BY Zenon DEF End, Set
<1> HIDE DEF k
<1>5. Light(k)
  BY <1>3 DEF Light, NoRequest, Request
<1>6. QED
  BY Zenon, <1>2, <1>4, <1>5 DEF Calm

\* ending with an error,
LEMMA FailsCalm ==
    ASSUME StatementInv, NEW w, NEW j, Core(j, cat, ice), Fails(w, j)
    PROVE  Calm(w)
<1>1. cat' = cat /\ End(w, j, "error") /\ Follows(cat, cat')
  BY Zenon, FollowsReflexive DEF Fails, StatementInv
<1>2. QED
  BY Zenon, <1>1, EndCalm

\* and ending well, for CREATE TABLE when its table is there.
LEMMA SucceedsCalm ==
    ASSUME StatementInv, NEW w, NEW j, Core(j, cat, ice), j.cmd.op \in CreateOps => Created(j, cat, ice),
           Succeeds(w, j)
    PROVE  Calm(w)
<1>1. cat' = cat /\ End(w, j, "ok") /\ Follows(cat, cat')
  BY Zenon, FollowsReflexive DEF Succeeds, StatementInv
<1>2. QED
  BY Zenon, <1>1, EndCalm

\* A statement of the menu that has just started.
LEMMA StartedCore ==
    ASSUME StatementInv, NEW w, NEW cmd, IsCommand(cmd), NEW p,
           cmd.op \in TableOps => p \in Paths,
           cmd.op \in SchemaOps => \E n \in SchemaNames : p = <<n>>
    PROVE  LET j == [Started(w, cmd) EXCEPT !.path = p]
           IN  /\ Core(j, cat, ice) /\ j.cmd = cmd /\ j.path = p /\ j.floor = ice.next /\ j.pc = "idle"
               /\ j.obj = 0 /\ j.req = NoRequest
<1> DEFINE j == [Started(w, cmd) EXCEPT !.path = p]
<1>1. /\ Shape(j) /\ j.cmd = cmd /\ j.path = p /\ j.floor = ice.next /\ j.listed = {} /\ j.answer = "none"
      /\ j.obj = 0 /\ j.req = NoRequest /\ j.reply = NoReply /\ j.pc = "idle"
  BY Zenon DEF Started, Shape, IdleJob
<1> HIDE DEF j
<1>2. ReqOK(NoRequest) /\ 0 \in 0..Len(cat.objects) /\ ice.next \in Nat
  BY CatFields DEF ReqOK, StatementInv, IcebergStates
<1>3. DOMAIN NoReply = {"ok", "found"} /\ NoReply.ok \in BOOLEAN /\ FoundOK(NoReply.found, ice, ice.next)
  BY Zenon, NothingFound
<1>4. ice.next <= ice.next
  BY <1>2
<1>5. Core(j, cat, ice)
  BY Zenon, <1>1, <1>2, <1>3, <1>4 DEF Core
<1>6. QED
  BY Zenon, <1>1, <1>5 DEF j

\* A statement that names no table or schema has just started.
LEMMA PlainStartedCore ==
    ASSUME StatementInv, NEW w, NEW cmd, IsCommand(cmd), cmd.op \notin TableOps \cup SchemaOps
    PROVE  /\ Core(Started(w, cmd), cat, ice) /\ Started(w, cmd).cmd = cmd
<1> DEFINE j == Started(w, cmd)
<1>1. /\ Shape(j) /\ j.cmd = cmd /\ j.floor = ice.next /\ j.listed = {} /\ j.answer = "none"
      /\ j.obj = 0 /\ j.req = NoRequest /\ j.reply = NoReply
  BY Zenon DEF Started, Shape, IdleJob
<1> HIDE DEF j
<1>2. ReqOK(NoRequest) /\ 0 \in 0..Len(cat.objects) /\ ice.next \in Nat
  BY CatFields DEF ReqOK, StatementInv, IcebergStates
<1>3. DOMAIN NoReply = {"ok", "found"} /\ NoReply.ok \in BOOLEAN /\ FoundOK(NoReply.found, ice, ice.next)
  BY Zenon, NothingFound
<1>4. ice.next <= ice.next
  BY <1>2
<1>5. Core(j, cat, ice)
  BY Zenon, <1>1, <1>2, <1>3, <1>4 DEF Core
<1>6. QED
  BY Zenon, <1>1, <1>5 DEF j

\* The statements of the menu, and what their names lead to.
LEMMA MenuCommand ==
    ASSUME StatementInv, NEW cmd \in menu
    PROVE  /\ IsCommand(cmd)
           /\ \A n \in Names : resolve_table_ref(n) \in Paths /\ default_table_ref(n) \in Paths
           /\ cmd.op \in TableOps => cmd.name \in Names
<1>1. menu \in Menus /\ vars.schema \in SchemaNames \cup {""}
  BY Zenon DEF StatementInv, RestOK
<1>2. IsCommand(cmd)
  BY Zenon, <1>1, MenusAssumption
<1>3. QED
  BY Zenon, <1>1, <1>2, NamesResolve DEF IsCommand

\* Looking up a table of a schema.
LEMMA LookupCalm ==
    ASSUME StatementInv, NEW w, NEW j, Core(j, cat, ice), NEW n \in SchemaNames, NEW t \in TableNames,
           schema(cat, n).cache[n] # 0,
           NEW pc \in FreePcs \cup {"view_found"}, PlacedAt(j.cmd.op, pc), pc = "view_found" => n = j.path[1],
           Go(w, schema(cat, n), Loading(j, pc, schema(cat, n), schema(cat, n).cache[n], t))
    PROVE  Calm(w)
<1> DEFINE c == schema(cat, n)
           o == c.cache[n]
           k == Loading(j, pc, c, o, t)
<1>1. CatOK(cat) /\ Go(w, c, k) /\ o # 0
  BY Zenon DEF StatementInv
<1>2. Follows(cat, c) /\ o \in 0..Len(c.objects) /\ c.objects[o].name = n
  BY Zenon, <1>1, SchemaFollows
<1> HIDE DEF c, o
<1>3. CatOK(c) /\ Grows(cat, c) /\ o \in 1..Len(c.objects)
  BY SMTT(20), <1>1, <1>2 DEF Follows, Grows
<1>4. Core(j, c, ice)
  BY Zenon, <1>1, <1>3, CoreGrows
<1>5. Core(k, c, ice) /\ Same(k, j) /\ k.pc = pc /\ k.obj = o /\ k.req.op \in {"none", "load"}
  BY SMTT(20), <1>3, <1>4, LoadingCore
<1> HIDE DEF k
<1>8. JobOK(k, c, ice)
  <2>1. CASE pc \in FreePcs
    BY Zenon, <1>5, <2>1, FreeOK DEF Same
  <2>2. CASE pc = "view_found"
    <3>1. k.cmd = j.cmd /\ k.path = j.path
      BY Zenon, <1>5 DEF Same
    <3>2. Placed(k)
      BY Zenon, <1>5, <3>1 DEF Placed
    <3>3. Local(k, c, ice)
      BY Zenon, <1>1, <1>2, <1>5, <2>2, <3>1 DEF Local
    <3>4. QED
      BY Zenon, <1>5, <3>2, <3>3 DEF JobOK
  <2>3. QED
    BY Zenon, <2>1, <2>2
<1>9. Light(k)
  BY Zenon, <1>5 DEF Light, FreePcs
<1>10. QED
  BY Zenon, <1>1, <1>2, <1>8, <1>9, GoCalm

\* Planning a statement.
LEMMA PlanningCalm ==
    ASSUME StatementInv, NEW w, NEW j, Core(j, cat, ice), NEW pc \in FreePcs, PlacedAt(j.cmd.op, pc),
           NEW path \in Paths, Planning(w, j, pc, path)
    PROVE  Calm(w)
<1>1. path[1] \in SchemaNames /\ path[2] \in TableNames /\ pc # "view_found"
  BY Zenon, PathParts DEF FreePcs
<1>2. CASE Fails(w, j)
  BY Zenon, <1>2, FailsCalm
<1>3. CASE ~Fails(w, j)
  <2>1. /\ schema(cat, path[1]).cache[path[1]] # 0
        /\ Go(w, schema(cat, path[1]), Loading(j, pc, schema(cat, path[1]), schema(cat, path[1]).cache[path[1]], path[2]))
    BY Zenon, <1>3 DEF Planning, schema_id
  <2>2. QED
    BY Zenon, <1>1, <2>1, LookupCalm
<1>4. QED
  BY Zenon, <1>2, <1>3

-----------------------------------------------------------------------------
(* CREATE TABLE and TRUNCATE *)

\* CREATE TABLE: create_table_query up to the planning of its source.
LEMMA CreateTableCalm ==
    ASSUME StatementInv, NEW w \in Workers, CreateTable(w)
    PROVE  Calm(w)
<1>1. PICK cmd \in menu :
          /\ cmd.op = "create_table"
          /\ LET j == [Started(w, cmd) EXCEPT !.path = resolve_table_ref(cmd.name)]
             IN  \/ cmd.from = <<>> /\ Planning(w, j, "create_planned", j.path)
                 \/ cmd.from # <<>> /\ Planning(w, j, "create_source", resolve_table_ref(cmd.from))
  BY Zenon DEF CreateTable, Execute
<1> DEFINE p == resolve_table_ref(cmd.name)
           j == [Started(w, cmd) EXCEPT !.path = p]
<1>2. cmd.op \in TableOps /\ cmd.op \notin SchemaOps
  BY Zenon, <1>1 DEF TableOps, SchemaOps
<1>3. IsCommand(cmd) /\ p \in Paths /\ (cmd.from # <<>> => resolve_table_ref(cmd.from) \in Paths)
  BY Zenon, <1>1, <1>2, MenuCommand DEF IsCommand
<1> HIDE DEF p
<1>4. Core(j, cat, ice) /\ j.cmd = cmd /\ j.path = p
  BY <1>2, <1>3, StartedCore
<1>5. Planning(w, j, "create_planned", p) \/ (cmd.from # <<>> /\ Planning(w, j, "create_source", resolve_table_ref(cmd.from)))
  BY Zenon, <1>1, <1>4 DEF p
<1> HIDE DEF j
<1>6. \A pc \in {"create_planned", "create_source"} : pc \in FreePcs /\ PlacedAt(j.cmd.op, pc)
  BY Zenon, <1>1, <1>4 DEF FreePcs, PlacedAt, CreatePcs, CreateOps, TablePcs
<1>7. QED
  BY Zenon, <1>3, <1>4, <1>5, <1>6, PlanningCalm

\* TRUNCATE TABLE starts as a CREATE OR REPLACE of its own rows.
LEMMA TruncateCalm ==
    ASSUME StatementInv, NEW w \in Workers, Truncate(w)
    PROVE  Calm(w)
<1>1. PICK cmd \in menu :
          /\ cmd.op = "truncate"
          /\ LET path == resolve_table_ref(cmd.name)
                 j == [Started(w, [cmd EXCEPT !.mode = "or_replace", !.from = path]) EXCEPT !.path = path]
             IN  Planning(w, j, "create_source", path)
  BY Zenon DEF Truncate, Execute
<1> DEFINE p == resolve_table_ref(cmd.name)
           run == [cmd EXCEPT !.mode = "or_replace", !.from = p]
           j == [Started(w, run) EXCEPT !.path = p]
<1>2. cmd.op \in TableOps
  BY Zenon, <1>1 DEF TableOps
<1>3. IsCommand(cmd) /\ p \in Paths
  BY Zenon, <1>1, <1>2, MenuCommand
<1> HIDE DEF p
<1>4. IsCommand(run) /\ run.op = "truncate" /\ run.op \notin SchemaOps
  BY Zenon, <1>1, <1>3 DEF IsCommand, NoCommand, SchemaOps
<1> HIDE DEF run
<1>5. Core(j, cat, ice) /\ j.cmd = run /\ j.path = p
  BY <1>3, <1>4, StartedCore
<1>6. Planning(w, j, "create_source", p)
  BY Zenon, <1>1 DEF p, run
<1> HIDE DEF j
<1>7. "create_source" \in FreePcs /\ PlacedAt(j.cmd.op, "create_source")
  BY Zenon, <1>4, <1>5 DEF FreePcs, PlacedAt, CreatePcs, CreateOps, TablePcs
<1>8. QED
  BY Zenon, <1>3, <1>5, <1>6, <1>7, PlanningCalm

\* What is known of a job at one of the places of a statement.
LEMMA JobAt ==
    ASSUME StatementInv, NEW w \in Workers
    PROVE  /\ JobOK(job[w], cat, ice) /\ Core(job[w], cat, ice) /\ Local(job[w], cat, ice) /\ Placed(job[w])
           /\ job[w].pc \in CreatePcs => job[w].cmd.op \in CreateOps /\ job[w].path \in Paths
           /\ job[w].pc \in TablePcs => job[w].cmd.op \in TableOps /\ job[w].path \in Paths
<1>1. JobOK(job[w], cat, ice) /\ Core(job[w], cat, ice) /\ Local(job[w], cat, ice) /\ Placed(job[w])
  BY Zenon DEF StatementInv, JobOK
<1>2. CreateOps \subseteq TableOps
  BY Zenon DEF CreateOps, TableOps
<1>3. job[w].cmd.op \in TableOps => job[w].path \in Paths
  BY Zenon, <1>1 DEF Core
<1>4. QED
  BY Zenon, <1>1, <1>2, <1>3 DEF Placed, PlacedAt

\* What was found.
LEMMA FoundFields ==
    ASSUME StatementInv, NEW w \in Workers, Found(w)
    PROVE  /\ job[w].reply.found.path \in Paths /\ job[w].reply.found.id \in Nat
           /\ FoundOK(job[w].reply.found, ice, job[w].floor)
           /\ job[w].reply.found.view \/ job[w].reply.found.id # 0
BY Zenon, JobAt DEF Core, FoundOK, Found, IsThere

\* The source of a CREATE TABLE AS has been looked up.
LEMMA CreateSourceCalm ==
    ASSUME StatementInv, NEW w \in Workers, CreateSource(w)
    PROVE  Calm(w)
<1> DEFINE j == job[w]
           k == [j EXCEPT !.pc = "create_planned"]
<1>1. j.pc = "create_source" /\ j.req = NoRequest
  BY Zenon DEF CreateSource, At
<1>2. Core(j, cat, ice) /\ j.cmd.op \in CreateOps /\ j.path \in Paths
  BY Zenon, <1>1, JobAt DEF CreatePcs
<1>3. "create_planned" \in FreePcs /\ PlacedAt(j.cmd.op, "create_planned")
  BY Zenon, <1>2 DEF FreePcs, PlacedAt, CreatePcs, CreateOps, TablePcs
<1>4. Same(k, j) /\ k.pc = "create_planned" /\ k.obj = j.obj /\ k.req = j.req /\ k.reply = j.reply
  BY Zenon, <1>2 DEF Same, Core, Shape, IdleJob
<1>5. Fails(w, j) \/ Go(w, cat, k) \/ Planning(w, j, "create_planned", j.path)
  BY Zenon DEF CreateSource
<1>6. Follows(cat, cat)
  BY Zenon, FollowsReflexive DEF StatementInv
<1> HIDE DEF k
<1>7. Core(k, cat, ice)
  BY Zenon, <1>2, <1>4, AlikeCore
<1>8. JobOK(k, cat, ice)
  BY Zenon, <1>3, <1>4, <1>7, FreeOK DEF Same
<1>9. Light(k)
  BY SMTT(20), <1>1, <1>4 DEF Light, NoRequest, Request
<1> HIDE DEF j
<1>10. QED
  BY Zenon, <1>2, <1>3, <1>5, <1>6, <1>8, <1>9, FailsCalm, GoCalm, PlanningCalm

\* The statement takes a table out of a cache and asks Iceberg to drop it.
Takes(w) ==
    /\ UNCHANGED <<ice, vars, stores, late, staged, menu>>
    /\ Follows(cat, cat')
    /\ \E o \in 1..Len(cat.objects), t \in TableNames : \E j :
          /\ AsksIceberg(cat, o, t) /\ Cached(cat', o, t) = NoEntry
          /\ job' = [job EXCEPT ![w] = j] /\ JobOK(j, cat', ice)
          /\ j.req = Request("drop", Identifier(cat, o, t), 0) /\ j.pc \notin {"set_properties", "create_done"}

\* Asking for the creation.
LEMMA BuilderCalm ==
    ASSUME StatementInv, NEW w, NEW c, Follows(cat, c), NEW j, Core(j, c, ice), j.cmd.op \in CreateOps,
           NEW o \in 1..Len(c.objects), c.objects[o].name = j.path[1],
           build_iceberg_create_table_builder(w, j, c, o)
    PROVE  Calm(w)
<1>1. CASE cat' = c /\ End(w, j, "error")
  BY Zenon, <1>1, EndCalm
<1>2. CASE Go(w, c, Asking(j, "create_done", o, Request("create", Identifier(c, o, j.path[2]), 0)))
  <2> DEFINE r == Request("create", Identifier(c, o, j.path[2]), 0)
             k == Asking(j, "create_done", o, r)
  <2>1. CatOK(c) /\ j.path \in Paths /\ Shape(j)
    BY Zenon DEF Follows, Grows, Core, CreateOps, TableOps
  <2>2. Identifier(c, o, j.path[2]) \in Paths
    BY Zenon, <2>1, PathParts, LookupTyped
  <2>3. ReqOK(r) /\ r # NoRequest /\ r.op = "create"
    BY Zenon, <2>2 DEF ReqOK, Request, NoRequest
  <2>4. o \in 0..Len(c.objects) /\ o # 0
    BY SMTT(20), <2>1, CatFields
  <2>5. r = Request("create", Identifier(c, o, j.path[2]), 0)
    BY Zenon
  <2> HIDE DEF r
  <2>6. Core(k, c, ice)
    BY Zenon, <2>3, <2>4, AskingCore
  <2>7. Same(k, j) /\ k.pc = "create_done" /\ k.obj = o /\ k.req = r /\ k.reply = NoReply
    BY SMTT(20), <2>1, AskingFields
  <2>8. Go(w, c, k)
    BY Zenon, <1>2, <2>5
  <2> HIDE DEF k
  <2>9. Placed(k)
    BY Zenon, <2>7 DEF Same, Placed, PlacedAt, CreatePcs, CreateOps, TablePcs
  <2>10. Local(k, c, ice)
    BY Zenon, <2>3, <2>4, <2>5, <2>7 DEF Same, Local
  <2>11. Light(k)
    BY Zenon, <2>3, <2>7 DEF Light
  <2>12. QED
    BY Zenon, <2>6, <2>8, <2>9, <2>10, <2>11, GoCalm DEF JobOK
<1>3. QED
  BY Zenon, <1>1, <1>2 DEF build_iceberg_create_table_builder

\* Asking for the drop.
LEMMA DropTakes ==
    ASSUME StatementInv, NEW w, NEW c, Follows(cat, c), NEW j, Core(j, c, ice), j.path \in Paths,
           NEW o \in 1..Len(c.objects), c.objects[o].name = j.path[1], AsksIceberg(c, o, j.path[2]),
           NEW pc \in {"create_dropped", "drop_done"}, PlacedAt(j.cmd.op, pc),
           Go(w, drop_table_async(c, o, j.path[2]),
              Asking(j, pc, o, Request("drop", Identifier(c, o, j.path[2]), 0)))
    PROVE  Takes(w)
<1> DEFINE t == j.path[2]
           d == drop_table_async(c, o, t)
           r == Request("drop", Identifier(c, o, t), 0)
           k == Asking(j, pc, o, r)
<1>1. CatOK(cat) /\ CatOK(c) /\ t \in TableNames /\ Shape(j) /\ Grows(cat, c)
  BY Zenon, PathParts DEF StatementInv, Follows, Grows, Core
<1>2. Follows(c, d) /\ Len(d.objects) = Len(c.objects) /\ Cached(d, o, t) = NoEntry
  BY Zenon, <1>1, DropFollows
<1>3. Identifier(c, o, t) \in Paths
  BY Zenon, <1>1, LookupTyped
<1>4. ReqOK(r) /\ r = Request("drop", Identifier(c, o, t), 0)
  BY Zenon, <1>3 DEF ReqOK, Request
<1>5. Go(w, d, k)
  BY Zenon
<1> HIDE DEF t, d, r
<1>6. Follows(cat, d) /\ CatOK(d) /\ Grows(c, d)
  <2>1. Follows(cat, d)
    BY Zenon, <1>1, <1>2, FollowsTransitive
  <2>2. QED
    BY Zenon, <1>2, <2>1 DEF Follows, Grows
<1>7. Core(j, d, ice) /\ o \in 0..Len(d.objects) /\ o # 0
  BY SMTT(20), <1>1, <1>2, <1>6, CoreGrows, CatFields
<1>8. Core(k, d, ice)
  BY Zenon, <1>4, <1>7, AskingCore
<1>9. Same(k, j) /\ k.pc = pc /\ k.obj = o /\ k.req = r
  BY SMTT(20), <1>1, AskingFields
<1> HIDE DEF k
<1>10. d.objects[o].name = j.path[1]
  BY Zenon, <1>6 DEF Grows
<1>11. Placed(k) /\ Local(k, d, ice)
  BY Zenon, <1>7, <1>9, <1>10 DEF Same, Placed, Local
<1>12. o \in 1..Len(cat.objects) /\ Cached(c, o, t) = Cached(cat, o, t) /\ Identifier(c, o, t) = Identifier(cat, o, t)
  <2>1. Cached(c, o, t).kind \in {"table", "stage"}
    BY Zenon DEF AsksIceberg, t
  <2>2. o <= Len(cat.objects) /\ Cached(c, o, t) = Cached(cat, o, t)
    BY Zenon, <1>1, <2>1 DEF Follows
  <2>3. o \in 1..Len(cat.objects)
    BY SMTT(20), <1>1, <2>2, CatFields
  <2>4. QED
    BY Zenon, <1>1, <2>2, <2>3 DEF Grows, Identifier
<1>13. AsksIceberg(cat, o, t)
  BY Zenon, <1>12 DEF AsksIceberg, t
<1>14. cat' = d /\ job' = [job EXCEPT ![w] = k] /\ UNCHANGED <<ice, vars, stores, late, staged, menu>>
  BY Zenon, <1>5 DEF Go, Set
<1>15. JobOK(k, cat', ice) /\ Cached(cat', o, t) = NoEntry /\ Follows(cat, cat')
  BY Zenon, <1>2, <1>6, <1>8, <1>11, <1>14 DEF JobOK
<1>16. k.req = Request("drop", Identifier(cat, o, t), 0) /\ k.pc \notin {"set_properties", "create_done"}
  BY Zenon, <1>4, <1>9, <1>12
<1>17. QED
  BY Zenon, <1>1, <1>12, <1>13, <1>14, <1>15, <1>16 DEF Takes

\* create_iceberg_table finds the target: it ends, asks Iceberg to create the
\* table, or drops the old one first.
LEMMA CreatePlannedStep ==
    ASSUME StatementInv, NEW w \in Workers, CreatePlanned(w)
    PROVE  Calm(w) \/ Takes(w)
<1> DEFINE j == job[w]
           c == schema(cat, j.path[1])
           o == c.cache[j.path[1]]
           t == j.path[2]
           d == mirror_deregister(drop_table_async(c, o, t), o, t)
<1>1. j.pc = "create_planned"
  BY Zenon DEF CreatePlanned, At
<1>2. Core(j, cat, ice) /\ j.cmd.op \in CreateOps /\ j.path \in Paths
  BY Zenon, <1>1, JobAt DEF CreatePcs
<1>3. CatOK(cat) /\ j.path[1] \in SchemaNames /\ t \in TableNames
  BY Zenon, <1>2, PathParts DEF StatementInv
<1>4. Follows(cat, c) /\ o \in 0..Len(c.objects) /\ (o # 0 => c.objects[o].name = j.path[1])
  BY Zenon, <1>3, SchemaFollows
<1>5. \/ Fails(w, j)
      \/ /\ o # 0
         /\ \/ cat' = c /\ End(w, j, "error")
            \/ j.cmd.mode = "if_not_exists" /\ cat' = c /\ End(w, j, "ok")
            \/ /\ AsksIceberg(c, o, t)
               /\ Go(w, drop_table_async(c, o, t),
                     Asking(j, "create_dropped", o, Request("drop", Identifier(c, o, t), 0)))
            \/ build_iceberg_create_table_builder(w, j, d, o)
            \/ build_iceberg_create_table_builder(w, j, c, o)
  BY Zenon DEF CreatePlanned
<1> HIDE DEF c, o
<1>6. CatOK(c) /\ Grows(cat, c) /\ (o # 0 => o \in 1..Len(c.objects))
  BY SMTT(20), <1>4 DEF Follows, Grows
<1>7. Core(j, c, ice)
  BY Zenon, <1>2, <1>3, <1>6, CoreGrows
<1>8. CASE Fails(w, j)
  BY Zenon, <1>2, <1>8, FailsCalm
<1>9. CASE cat' = c /\ (End(w, j, "error") \/ (j.cmd.mode = "if_not_exists" /\ End(w, j, "ok")))
  BY Zenon, <1>4, <1>7, <1>9, EndCalm
<1>10. CASE /\ o # 0 /\ AsksIceberg(c, o, t)
            /\ Go(w, drop_table_async(c, o, t),
                  Asking(j, "create_dropped", o, Request("drop", Identifier(c, o, t), 0)))
  <2>1. PlacedAt(j.cmd.op, "create_dropped")
    BY Zenon, <1>2 DEF PlacedAt, CreatePcs, CreateOps, TablePcs
  <2>2. QED
    BY Zenon, <1>2, <1>4, <1>6, <1>7, <1>10, <2>1, DropTakes
<1>11. CASE o # 0 /\ build_iceberg_create_table_builder(w, j, c, o)
  BY Zenon, <1>2, <1>4, <1>6, <1>7, <1>11, BuilderCalm
<1>12. CASE o # 0 /\ build_iceberg_create_table_builder(w, j, d, o)
  <2>1. o \in 1..Len(c.objects)
    BY Zenon, <1>6, <1>12
  <2>2. Follows(c, d) /\ Len(d.objects) = Len(c.objects)
    BY Zenon, <1>3, <1>6, <2>1, DropFollows
  <2> HIDE DEF d
  <2>3. Follows(cat, d) /\ Grows(c, d)
    BY Zenon, <1>3, <1>4, <2>2, FollowsTransitive DEF Follows
  <2>4. Core(j, d, ice) /\ o \in 1..Len(d.objects) /\ d.objects[o].name = j.path[1]
    BY Zenon, <1>4, <1>6, <1>7, <1>12, <2>1, <2>2, <2>3, CoreGrows DEF Grows
  <2>5. QED
    BY Zenon, <1>2, <1>12, <2>3, <2>4, BuilderCalm
<1>13. QED
  BY Zenon, <1>5, <1>8, <1>9, <1>10, <1>11, <1>12

\* The old table is gone: the new one is asked for.
LEMMA CreateDroppedCalm ==
    ASSUME StatementInv, NEW w \in Workers, CreateDropped(w)
    PROVE  Calm(w)
<1> DEFINE j == job[w]
           o == j.obj
           d == mirror_deregister(cat, o, j.path[2])
<1>1. j.pc = "create_dropped"
  BY Zenon DEF CreateDropped, At
<1>2. Core(j, cat, ice) /\ j.cmd.op \in CreateOps /\ j.path \in Paths /\ o \in 0..Len(cat.objects)
  BY Zenon, <1>1, JobAt DEF CreatePcs, Core
<1>3. o # 0 /\ cat.objects[o].name = j.path[1]
  BY Zenon, <1>1, JobAt DEF Local
<1>4. CatOK(cat) /\ j.path[2] \in TableNames /\ o \in 1..Len(cat.objects)
  BY SMTT(20), <1>2, <1>3, PathParts DEF StatementInv
<1>5. Follows(cat, d)
  BY Zenon, <1>4, NamesFollow
<1>6. Fails(w, j) \/ build_iceberg_create_table_builder(w, j, d, o)
  BY Zenon DEF CreateDropped
<1> HIDE DEF d
<1>7. Grows(cat, d)
  BY Zenon, <1>5 DEF Follows
<1>8. Core(j, d, ice)
  BY Zenon, <1>2, <1>4, <1>7, CoreGrows
<1>9. o \in 1..Len(d.objects) /\ d.objects[o].name = j.path[1]
  BY SMTT(20), <1>3, <1>4, <1>7, CatFields DEF Grows
<1> HIDE DEF j, o
<1>10. QED
  BY Zenon, <1>2, <1>5, <1>6, <1>8, <1>9, FailsCalm, BuilderCalm

\* The table a statement has created goes into the cache of its schema.
Makes(w) ==
    /\ UNCHANGED <<ice, vars, stores, late, staged, menu>>
    /\ Grows(cat, cat')
    /\ job[w].pc = "create_done" /\ job[w].req = NoRequest /\ job[w].reply.ok
    /\ \A q \in 1..Len(cat'.objects), u \in TableNames : Cached(cat', q, u).kind \in {"table", "stage"} =>
          /\ q <= Len(cat.objects)
          /\ \/ q = job[w].obj /\ u = job[w].path[2] /\ Cached(cat', q, u).kind = "table"
             \/ Cached(cat', q, u) = Cached(cat, q, u)
    /\ \E j : job' = [job EXCEPT ![w] = j] /\ JobOK(j, cat', ice) /\ Light(j)

\* Iceberg has answered the creation: a created table is registered in the
\* cache of its schema.
LEMMA CreateDoneStep ==
    ASSUME StatementInv, NEW w \in Workers, CreateDone(w)
    PROVE  Calm(w) \/ Makes(w)
<1> DEFINE j == job[w]
           o == j.obj
           t == j.path[2]
           e == [NoEntry EXCEPT !.kind = "table", !.name = t, !.seen = j.reply.found.snap]
           made == create_iceberg_table_async(cat, o, t, j.reply.found.snap)
           c == schema(made, j.path[1])
           q == c.cache[j.path[1]]
           k == Loading(j, "create_target", c, q, t)
<1>1. j.pc = "create_done" /\ j.req = NoRequest
  BY Zenon DEF CreateDone, At
<1>2. Core(j, cat, ice) /\ j.cmd.op \in CreateOps /\ j.path \in Paths /\ o \in 0..Len(cat.objects)
  BY Zenon, <1>1, JobAt DEF CreatePcs, Core
<1>3. o # 0 /\ (j.reply.ok => Created(j, cat, ice))
  BY Zenon, <1>1, JobAt DEF Local
<1>4. /\ CatOK(cat) /\ ice \in IcebergStates /\ j.path[1] \in SchemaNames /\ t \in TableNames
      /\ o \in 1..Len(cat.objects) /\ Moves(ice, ice)
  BY SMTT(20), <1>2, <1>3, PathParts, MovesReflexive DEF StatementInv
<1>5. EntryOK(e) /\ e.kind = "table"
  BY Zenon, <1>2, <1>4 DEF Core, FoundOK, EntryOK, Entries, NoEntry
<1>6. made = register_table(cat, o, t, e)
  BY Zenon DEF create_iceberg_table_async
<1>7. \/ Fails(w, j)
      \/ j.reply.ok /\ cat' = made /\ (End(w, j, "ok") \/ End(w, j, "error"))
      \/ j.reply.ok /\ q # 0 /\ Go(w, c, k)
  BY Zenon DEF CreateDone
<1> HIDE DEF e
<1>8. /\ Grows(cat, made) /\ Len(made.objects) = Len(cat.objects)
      /\ \A x \in 1..Len(cat.objects), u \in TableNames :
            Cached(made, x, u) = IF x = o /\ u = t THEN e ELSE Cached(cat, x, u)
  BY SMTT(20), <1>4, <1>5, <1>6, RegisterGrows
<1> HIDE DEF made, o, t, j
<1>9. CatOK(made) /\ Core(j, made, ice)
  BY Zenon, <1>2, <1>4, <1>8, CoreGrows DEF Grows
<1>10. CASE Fails(w, j)
  BY Zenon, <1>2, <1>10, FailsCalm
<1>11. CASE j.reply.ok /\ cat' = made /\ (End(w, j, "ok") \/ End(w, j, "error"))
  <2>1. PICK answer \in {"ok", "error"} : End(w, j, answer)
    BY Zenon, <1>11
  <2>2. Created(j, made, ice)
    BY Zenon, <1>2, <1>3, <1>4, <1>8, <1>11, CreatedStays DEF Core
  <2>3. JobOK(Finished(j, answer), made, ice)
    BY Zenon, <1>9, <2>2, FinishedOK
  <2>4. Light(Finished(j, answer))
    BY <1>2, FinishedFields DEF Core, Light, NoRequest, Request
  <2>5. job' = [job EXCEPT ![w] = Finished(j, answer)] /\ UNCHANGED <<ice, vars, stores, late, staged, menu>>
    BY Zenon, <2>1 DEF End, Set
  <2>6. \A x \in 1..Len(made.objects), u \in TableNames : Cached(made, x, u).kind \in {"table", "stage"} =>
          /\ x <= Len(cat.objects)
          /\ \/ x = o /\ u = t /\ Cached(made, x, u).kind = "table"
             \/ Cached(made, x, u) = Cached(cat, x, u)
    BY SMTT(20), <1>4, <1>5, <1>8, CatFields
  <2>7. QED
    BY Zenon, <1>1, <1>8, <1>11, <2>3, <2>4, <2>5, <2>6 DEF Makes, j, o, t
<1>12. CASE j.reply.ok /\ q # 0 /\ Go(w, c, k)
  <2>1. Follows(made, c) /\ q \in 0..Len(c.objects)
    BY Zenon, <1>4, <1>9, SchemaFollows
  <2> HIDE DEF c, q
  <2>2. CatOK(c) /\ Grows(made, c) /\ q \in 1..Len(c.objects)
    BY SMTT(20), <1>12, <2>1 DEF Follows, Grows
  <2>3. Grows(cat, c) /\ Core(j, c, ice)
    BY Zenon, <1>4, <1>8, <1>9, <2>2, GrowsTransitive, CoreGrows
  <2>4. Created(j, c, ice)
    BY Zenon, <1>2, <1>3, <1>4, <1>12, <2>3, CreatedStays DEF Core
  <2>5. Core(k, c, ice) /\ Same(k, j) /\ k.pc = "create_target" /\ k.req.op \in {"none", "load"}
    BY SMTT(20), <1>4, <2>2, <2>3, LoadingCore
  <2>6. job' = [job EXCEPT ![w] = k] /\ cat' = c /\ UNCHANGED <<ice, vars, stores, late, staged, menu>>
    BY Zenon, <1>12 DEF Go, Set
  <2> HIDE DEF k
  <2>7. Placed(k) /\ Local(k, c, ice)
    <3>1. Created(k, c, ice)
      BY Zenon, <2>4, <2>5 DEF Created, Same
    <3>2. Placed(k)
      BY Zenon, <1>2, <2>5 DEF Same, Placed, PlacedAt, CreatePcs, CreateOps, TablePcs
    <3>3. QED
      BY Zenon, <2>5, <3>1, <3>2 DEF Local
  <2>8. JobOK(k, c, ice) /\ Light(k)
    BY Zenon, <2>5, <2>7 DEF JobOK, Light
  <2>9. \A x \in 1..Len(c.objects), u \in TableNames : Cached(c, x, u).kind \in {"table", "stage"} =>
          /\ x <= Len(cat.objects)
          /\ \/ x = o /\ u = t /\ Cached(c, x, u).kind = "table"
             \/ Cached(c, x, u) = Cached(cat, x, u)
    <3>1. Len(cat.objects) \in Nat /\ Len(c.objects) \in Nat
      BY Zenon, <1>4, <2>2, CatFields
    <3>2. QED
      BY SMTT(20), <1>5, <1>8, <2>1, <3>1 DEF Follows
  <2>10. QED
    BY Zenon, <1>1, <1>12, <2>3, <2>6, <2>8, <2>9 DEF Makes, j, o, t
<1>13. QED
  BY Zenon, <1>7, <1>10, <1>11, <1>12

\* Rows for the table that was loaded.
LEMMA AppendCalm ==
    ASSUME StatementInv, NEW w \in Workers, Found(w), job[w].pc # "set_properties",
           PlacedAt(job[w].cmd.op, "appended"),
           job[w].cmd.op \in CreateOps => Created(job[w], cat, ice)
    PROVE  LET found == job[w].reply.found
               k == Asking(job[w], "appended", job[w].obj, Request("append", found.path, found.id))
           IN  JobOK(k, cat, ice) /\ Light(k)
<1> DEFINE j == job[w]
           r == Request("append", j.reply.found.path, j.reply.found.id)
           k == Asking(j, "appended", j.obj, r)
<1>1. Core(j, cat, ice) /\ Shape(j) /\ j.obj \in 0..Len(cat.objects)
  BY Zenon, JobAt DEF Core
<1>2. j.reply.found.path \in Paths /\ j.reply.found.id \in Nat
  BY Zenon, FoundFields
<1>3. ReqOK(r) /\ r.op = "append"
  BY Zenon, <1>2 DEF ReqOK, Request
<1> HIDE DEF r
<1>4. Core(k, cat, ice)
  BY Zenon, <1>1, <1>3, AskingCore
<1>5. Same(k, j) /\ k.pc = "appended" /\ k.req = r
  BY SMTT(20), <1>1, AskingFields
<1> HIDE DEF k
<1>6. Placed(k) /\ Local(k, cat, ice)
  BY Zenon, <1>5 DEF Same, Placed, Local, Created
<1>7. Light(k)
  BY Zenon, <1>3, <1>5 DEF Light
<1>8. QED
  BY Zenon, <1>4, <1>6, <1>7 DEF JobOK, k, r

\* The rows of a CREATE TABLE AS go to the new table.
LEMMA CreateTargetCalm ==
    ASSUME StatementInv, NEW w \in Workers, CreateTarget(w)
    PROVE  Calm(w)
<1>1. job[w].pc = "create_target"
  BY Zenon DEF CreateTarget, At
<1>2. Core(job[w], cat, ice) /\ job[w].cmd.op \in CreateOps
  BY Zenon, <1>1, JobAt DEF CreatePcs
<1>3. Created(job[w], cat, ice)
  BY Zenon, <1>1, <1>2, JobAt DEF Local
<1>4. CASE Fails(w, job[w])
  BY Zenon, <1>2, <1>4, FailsCalm
<1>5. CASE Found(w) /\ Append_(w, "appended")
  <2>1. PlacedAt(job[w].cmd.op, "appended")
    BY Zenon, <1>2 DEF PlacedAt, CreatePcs, CreateOps, TablePcs, TableOps
  <2>2. Follows(cat, cat)
    BY FollowsReflexive DEF StatementInv
  <2>3. QED
    BY Zenon, <1>1, <1>3, <1>5, <2>1, <2>2, AppendCalm, GoCalm DEF Append_
<1>6. QED
  BY Zenon, <1>4, <1>5 DEF CreateTarget, FoundTable

\* They have gone: the statement ends.
LEMMA AppendedCalm ==
    ASSUME StatementInv, NEW w \in Workers, Appended(w)
    PROVE  Calm(w)
<1>1. job[w].pc = "appended"
  BY Zenon DEF Appended, At
<1>2. Core(job[w], cat, ice) /\ (job[w].cmd.op \in CreateOps => Created(job[w], cat, ice))
  BY Zenon, <1>1, JobAt DEF Local
<1>3. QED
  BY Zenon, <1>2, FailsCalm, SucceedsCalm DEF Appended

-----------------------------------------------------------------------------
(* drop_query *)

\* A statement on a table that has just started.
Named(w, cmd, p) == [Started(w, cmd) EXCEPT !.path = p]

\* Its job is well formed and sees Iceberg from here on.
LEMMA StartNamed ==
    ASSUME StatementInv, NEW w, NEW cmd \in menu, cmd.op \in TableOps,
           NEW p, p = resolve_table_ref(cmd.name) \/ p = default_table_ref(cmd.name)
    PROVE  LET j == Named(w, cmd, p)
           IN  /\ Core(j, cat, ice) /\ j.cmd = cmd /\ j.path = p /\ p \in Paths /\ IsCommand(cmd)
               /\ j.pc = "idle" /\ j.req = NoRequest /\ j.floor = ice.next
<1>1. IsCommand(cmd) /\ p \in Paths
  BY Zenon, MenuCommand
<1>2. cmd.op \notin SchemaOps
  BY Zenon DEF TableOps, SchemaOps
<1>3. QED
  BY <1>1, <1>2, StartedCore DEF Named

\* Statements between two awaits that create no table.
LEMMA OtherPlaces ==
    ASSUME StatementInv, NEW w \in Workers
    PROVE  /\ job[w].pc \in TablePcs \ {"appended"} =>
                 job[w].cmd.op \in TableOps \ CreateOps /\ job[w].path \in Paths
           /\ job[w].pc \in {"schema_created", "schema_dropped"} =>
                 job[w].cmd.op \notin CreateOps /\ \E n \in SchemaNames : job[w].path = <<n>>
<1>1. Core(job[w], cat, ice) /\ Placed(job[w]) /\ (job[w].cmd.op \in TableOps => job[w].path \in Paths)
  BY Zenon, JobAt DEF Core
<1>2. job[w].pc \in TablePcs \ {"appended"} => job[w].cmd.op \in TableOps \ CreateOps
  BY Zenon, <1>1 DEF Placed, PlacedAt, TablePcs, CreatePcs
<1>3. job[w].pc \in {"schema_created", "schema_dropped"} => job[w].cmd.op \in SchemaOps
  BY Zenon, <1>1 DEF Placed, PlacedAt
<1>4. SchemaOps \cap CreateOps = {}
  BY Zenon DEF SchemaOps, CreateOps
<1>5. QED
  BY Zenon, <1>1, <1>2, <1>3, <1>4 DEF Core

\* DROP TABLE ends, or takes the entry out of the cache and asks Iceberg to drop.
LEMMA DropNowStep ==
    ASSUME StatementInv, NEW w, NEW j, Core(j, cat, ice), j.cmd.op = "drop_table", j.path \in Paths, DropNow(w, j)
    PROVE  Calm(w) \/ Takes(w)
<1> DEFINE c == schema(cat, j.path[1])
           o == c.cache[j.path[1]]
           t == j.path[2]
           d == mirror_deregister(drop_table_async(c, o, t), o, t)
<1>1. CatOK(cat) /\ j.path[1] \in SchemaNames /\ t \in TableNames /\ j.cmd.op \notin CreateOps
  BY Zenon, PathParts DEF StatementInv, CreateOps
<1>2. Follows(cat, c) /\ o \in 0..Len(c.objects) /\ (o # 0 => c.objects[o].name = j.path[1])
  BY Zenon, <1>1, SchemaFollows
<1>3. \/ cat' = c /\ (End(w, j, "ok") \/ End(w, j, "error"))
      \/ /\ o # 0 /\ AsksIceberg(c, o, t)
         /\ Go(w, drop_table_async(c, o, t), Asking(j, "drop_done", o, Request("drop", Identifier(c, o, t), 0)))
      \/ o # 0 /\ cat' = d /\ End(w, j, "ok")
  BY Zenon DEF DropNow
<1> HIDE DEF c, o
<1>4. CatOK(c) /\ Grows(cat, c) /\ (o # 0 => o \in 1..Len(c.objects))
  BY <1>2 DEF Follows, Grows
<1>5. Core(j, c, ice)
  BY Zenon, <1>1, <1>4, CoreGrows
<1>6. CASE cat' = c /\ (End(w, j, "ok") \/ End(w, j, "error"))
  BY Zenon, <1>1, <1>2, <1>5, <1>6, EndCalm
<1>7. CASE /\ o # 0 /\ AsksIceberg(c, o, t)
           /\ Go(w, drop_table_async(c, o, t), Asking(j, "drop_done", o, Request("drop", Identifier(c, o, t), 0)))
  <2>1. PlacedAt(j.cmd.op, "drop_done")
    BY Zenon DEF PlacedAt, CreatePcs, CreateOps, TablePcs, TableOps
  <2>2. QED
    BY Zenon, <1>2, <1>4, <1>5, <1>7, <2>1, DropTakes
<1>8. CASE o # 0 /\ cat' = d /\ End(w, j, "ok")
  <2>1. Follows(c, d)
    BY Zenon, <1>1, <1>4, <1>8, DropFollows
  <2> HIDE DEF d
  <2>2. Follows(cat, d)
    BY Zenon, <1>1, <1>2, <2>1, FollowsTransitive
  <2>3. Core(j, d, ice)
    BY Zenon, <1>1, <2>2, CoreGrows DEF Follows
  <2>4. QED
    BY Zenon, <1>1, <1>8, <2>2, <2>3, EndCalm
<1>9. QED
  BY Zenon, <1>3, <1>6, <1>7, <1>8

\* DROP VIEW ends, or looks its view up once more.
LEMMA DropViewNowCalm ==
    ASSUME StatementInv, NEW w, NEW j, Core(j, cat, ice), j.cmd.op \in TableOps \ CreateOps, j.path \in Paths,
           DropViewNow(w, j)
    PROVE  Calm(w)
<1> DEFINE n == j.path[1]
           c == schema(cat, n)
<1>1. CatOK(cat) /\ n \in SchemaNames /\ j.path[2] \in TableNames /\ j.cmd.op \notin CreateOps
  BY Zenon, PathParts DEF StatementInv, CreateOps
<1>2. Follows(cat, c)
  BY Zenon, <1>1, SchemaFollows
<1>3. \/ cat' = c /\ (End(w, j, "ok") \/ End(w, j, "error"))
      \/ c.cache[n] # 0 /\ Go(w, c, Loading(j, "view_found", c, c.cache[n], j.path[2]))
  BY Zenon DEF DropViewNow
<1>4. CASE cat' = c /\ (End(w, j, "ok") \/ End(w, j, "error"))
  <2>1. Core(j, c, ice)
    BY Zenon, <1>1, <1>2, CoreGrows DEF Follows
  <2>2. QED
    BY Zenon, <1>1, <1>2, <1>4, <2>1, EndCalm
<1>5. CASE c.cache[n] # 0 /\ Go(w, c, Loading(j, "view_found", c, c.cache[n], j.path[2]))
  <2>1. PlacedAt(j.cmd.op, "view_found")
    BY Zenon DEF PlacedAt, CreatePcs, CreateOps, TablePcs, TableOps
  <2>2. QED
    BY Zenon, <1>1, <1>5, <2>1, LookupCalm
<1>6. QED
  BY Zenon, <1>3, <1>4, <1>5

\* drop_query on a table or a view: the target is looked up first unless IF EXISTS,
LEMMA DropTableOrViewStep ==
    ASSUME StatementInv, NEW w \in Workers, DropTableOrView(w)
    PROVE  Calm(w) \/ Takes(w)
<1>1. PICK cmd \in menu :
          /\ cmd.op \in {"drop_table", "drop_view"}
          /\ LET j == [Started(w, cmd) EXCEPT !.path = resolve_table_ref(cmd.name)]
             IN  \/ cmd.op = "drop_table" /\ DropNow(w, j)
                 \/ cmd.op = "drop_view" /\ DropViewNow(w, j)
                 \/ Planning(w, j, "drop_checked", j.path)
  BY Zenon DEF DropTableOrView, Execute
<1> DEFINE p == resolve_table_ref(cmd.name)
           j == [Started(w, cmd) EXCEPT !.path = p]
<1>2. cmd.op \in TableOps /\ cmd.op \notin CreateOps
  BY Zenon, <1>1 DEF TableOps, CreateOps
<1>3. \/ cmd.op = "drop_table" /\ DropNow(w, j)
      \/ cmd.op = "drop_view" /\ DropViewNow(w, j)
      \/ Planning(w, j, "drop_checked", j.path)
  BY Zenon, <1>1
<1>4. j = Named(w, cmd, p) /\ p = resolve_table_ref(cmd.name)
  BY Zenon DEF Named
<1> HIDE DEF j, p
<1>5. Core(j, cat, ice) /\ j.cmd = cmd /\ j.path \in Paths
  BY <1>2, <1>4, StartNamed
<1>6. "drop_checked" \in FreePcs /\ PlacedAt(j.cmd.op, "drop_checked")
  BY Zenon, <1>1, <1>5 DEF FreePcs, PlacedAt, CreatePcs, CreateOps, TablePcs, TableOps
<1>7. QED
  BY Zenon, <1>2, <1>3, <1>5, <1>6, DropNowStep, DropViewNowCalm, PlanningCalm

\* and dropped when it is there.
LEMMA DropCheckedStep ==
    ASSUME StatementInv, NEW w \in Workers, DropChecked(w)
    PROVE  Calm(w) \/ Takes(w)
<1>1. job[w].pc = "drop_checked"
  BY Zenon DEF DropChecked, At
<1>2. Core(job[w], cat, ice) /\ job[w].path \in Paths /\ job[w].cmd.op \in TableOps \ CreateOps
  BY Zenon, <1>1, JobAt, OtherPlaces DEF TablePcs
<1>3. QED
  BY Zenon, <1>1, <1>2, DropNowStep, DropViewNowCalm, FailsCalm DEF DropChecked

\* Iceberg has answered the drop, or the view is looked up: the statement ends.
LEMMA DropDoneCalm ==
    ASSUME StatementInv, NEW w \in Workers, DropDone(w) \/ ViewFound(w)
    PROVE  Calm(w)
<1> DEFINE j == job[w]
           o == j.obj
           t == j.path[2]
<1>1. j.pc \in {"drop_done", "view_found"}
  BY Zenon DEF DropDone, ViewFound, At
<1>2. Core(j, cat, ice) /\ j.path \in Paths /\ j.cmd.op \notin CreateOps
  BY Zenon, <1>1, JobAt, OtherPlaces DEF TablePcs
<1>3. o \in 0..Len(cat.objects) /\ o # 0
  BY Zenon, <1>1, JobAt DEF Local, Core
<1>4. CatOK(cat) /\ t \in TableNames /\ o \in 1..Len(cat.objects)
  BY <1>2, <1>3, PathParts DEF StatementInv
<1>5. PICK c \in {cat, mirror_deregister(cat, o, t), deregister_table(cat, o, t)}, answer \in {"ok", "error"} :
          cat' = c /\ End(w, j, answer)
  BY Zenon DEF DropDone, ViewFound, Fails
<1>6. Follows(cat, mirror_deregister(cat, o, t))
  BY Zenon, <1>4, NamesFollow
<1>7. Follows(cat, deregister_table(cat, o, t))
  BY Zenon, <1>4, DropFollows
<1>8. Follows(cat, c)
  BY Zenon, <1>4, <1>6, <1>7, FollowsReflexive
<1>9. Core(j, c, ice)
  BY Zenon, <1>2, <1>4, <1>8, CoreGrows DEF Follows
<1>10. QED
  BY Zenon, <1>2, <1>5, <1>8, <1>9, EndCalm

-----------------------------------------------------------------------------
(* Schemas, databases, views, ALTER TABLE *)

\* Asking Iceberg for a namespace or for its end.
LEMMA NamespaceCalm ==
    ASSUME StatementInv, NEW w, NEW c, Follows(cat, c), NEW j, Core(j, cat, ice), NEW n \in SchemaNames, j.path = <<n>>,
           j.cmd.op \in SchemaOps,
           \/ Go(w, c, Asking(j, "schema_created", 0, Request("create_namespace", j.path, 0)))
           \/ Go(w, c, Asking(j, "schema_dropped", 0, Request("drop_namespace", j.path, 0)))
    PROVE  Calm(w)
<1>1. PICK pc \in {"schema_created", "schema_dropped"}, op \in {"create_namespace", "drop_namespace"} :
          Go(w, c, Asking(j, pc, 0, Request(op, j.path, 0)))
  BY Zenon
<1> DEFINE r == Request(op, j.path, 0)
           k == Asking(j, pc, 0, r)
<1>2. ReqOK(r) /\ r.op = op
  BY Zenon DEF ReqOK, Request
<1>3. CatOK(cat) /\ CatOK(c) /\ Grows(cat, c)
  BY Zenon DEF StatementInv, Follows, Grows
<1>4. Core(j, c, ice) /\ 0 \in 0..Len(c.objects) /\ Shape(j)
  <2>1. Core(j, c, ice)
    BY Zenon, <1>3, CoreGrows
  <2>2. QED
    BY <1>3, <2>1, CatFields DEF Core
<1> HIDE DEF r
<1>5. Core(k, c, ice)
  BY Zenon, <1>2, <1>4, AskingCore
<1>6. Same(k, j) /\ k.pc = pc /\ k.req = r
  BY <1>4, AskingFields
<1>7. Go(w, c, k)
  BY Zenon, <1>1 DEF r
<1> HIDE DEF k
<1>8. k.pc \in FreePcs /\ PlacedAt(k.cmd.op, k.pc)
  BY Zenon, <1>6 DEF Same, FreePcs, PlacedAt, CreatePcs, TablePcs, CreateOps, SchemaOps
<1>9. Light(k)
  BY Zenon, <1>2, <1>6 DEF Light
<1>10. QED
  BY Zenon, <1>5, <1>7, <1>8, <1>9, FreeOK, GoCalm

\* A statement on a schema that has just started.
LEMMA StartSchema ==
    ASSUME StatementInv, NEW w, NEW cmd \in menu, cmd.op \in SchemaOps,
           NEW n \in {cmd.name[1], Lower[cmd.name[1]]}
    PROVE  LET j == [Started(w, cmd) EXCEPT !.path = <<n>>]
           IN  n \in SchemaNames /\ Core(j, cat, ice) /\ j.cmd = cmd /\ j.path = <<n>> /\ j.cmd.op \notin CreateOps
<1>1. IsCommand(cmd)
  BY Zenon, MenuCommand
<1>2. n \in SchemaNames
  BY Zenon, <1>1, NamesAssumption DEF IsCommand
<1>3. cmd.op \notin TableOps /\ cmd.op \notin CreateOps
  BY Zenon DEF TableOps, SchemaOps, CreateOps
<1>4. LET j == [Started(w, cmd) EXCEPT !.path = <<n>>]
      IN  Core(j, cat, ice) /\ j.cmd = cmd /\ j.path = <<n>>
  BY <1>1, <1>2, <1>3, StartedCore
<1>5. QED
  BY Zenon, <1>2, <1>3, <1>4

\* DROP SCHEMA asks Iceberg to drop the namespace.
LEMMA DropSchemaCalm ==
    ASSUME StatementInv, NEW w \in Workers, DropSchema(w)
    PROVE  Calm(w)
<1>1. PICK cmd \in menu :
          /\ cmd.op = "drop_schema"
          /\ LET j == [Started(w, cmd) EXCEPT !.path = <<cmd.name[1]>>]
                 c == IF cmd.mode = "if_exists" THEN cat ELSE schema(cat, cmd.name[1])
             IN  \/ Go(w, c, Asking(j, "schema_dropped", 0, Request("drop_namespace", j.path, 0)))
                 \/ Fails(w, j)
  BY Zenon DEF DropSchema, Execute
<1> DEFINE n == cmd.name[1]
           j == [Started(w, cmd) EXCEPT !.path = <<n>>]
           c == IF cmd.mode = "if_exists" THEN cat ELSE schema(cat, n)
<1>2. cmd.op \in SchemaOps
  BY Zenon, <1>1 DEF SchemaOps
<1>3. n \in SchemaNames /\ Core(j, cat, ice) /\ j.cmd = cmd /\ j.path = <<n>>
  BY Zenon, <1>2, StartSchema
<1>4. CatOK(cat)
  BY Zenon DEF StatementInv
<1>5. Follows(cat, c)
  BY Zenon, <1>3, <1>4, FollowsReflexive, SchemaFollows
<1> HIDE DEF j, c
<1>6. Go(w, c, Asking(j, "schema_dropped", 0, Request("drop_namespace", j.path, 0))) \/ Fails(w, j)
  BY Zenon, <1>1 DEF j, c
<1>7. QED
  BY Zenon, <1>2, <1>3, <1>5, <1>6, NamespaceCalm, FailsCalm

\* CREATE SCHEMA, in the catalog after Iceberg has it.
LEMMA CreateSchemaCalm ==
    ASSUME StatementInv, NEW w \in Workers, CreateSchema(w)
    PROVE  Calm(w)
<1>1. PICK cmd \in menu :
          /\ cmd.op = "create_schema"
          /\ LET n == Lower[cmd.name[1]]
                 j == [Started(w, cmd) EXCEPT !.path = <<n>>]
                 c == schema(cat, n)
             IN  \/ Fails(w, j)
                 \/ cat' = c /\ (End(w, j, "ok") \/ End(w, j, "error"))
                 \/ Go(w, c, Asking(j, "schema_created", 0, Request("create_namespace", j.path, 0)))
  BY Zenon DEF CreateSchema, Execute
<1> DEFINE n == Lower[cmd.name[1]]
           j == [Started(w, cmd) EXCEPT !.path = <<n>>]
           c == schema(cat, n)
<1>2. cmd.op \in SchemaOps
  BY Zenon, <1>1 DEF SchemaOps
<1>3. n \in SchemaNames /\ Core(j, cat, ice) /\ j.cmd = cmd /\ j.path = <<n>> /\ j.cmd.op \notin CreateOps
  BY Zenon, <1>2, StartSchema
<1>4. Follows(cat, c) /\ CatOK(cat)
  BY Zenon, <1>3, SchemaFollows DEF StatementInv
<1> HIDE DEF j, c, n
<1>5. \/ Fails(w, j)
      \/ cat' = c /\ (End(w, j, "ok") \/ End(w, j, "error"))
      \/ Go(w, c, Asking(j, "schema_created", 0, Request("create_namespace", j.path, 0)))
  BY Zenon, <1>1 DEF j, c, n
<1>6. Core(j, c, ice)
  BY Zenon, <1>3, <1>4, CoreGrows DEF Follows
<1>7. QED
  BY Zenon, <1>2, <1>3, <1>4, <1>5, <1>6, NamespaceCalm, FailsCalm, EndCalm

\* Iceberg has answered for the namespace.
LEMMA SchemaDoneCalm ==
    ASSUME StatementInv, NEW w \in Workers, SchemaDropped(w) \/ SchemaCreated(w)
    PROVE  Calm(w)
<1> DEFINE j == job[w]
<1>1. j.pc \in {"schema_dropped", "schema_created"}
  BY Zenon DEF SchemaDropped, SchemaCreated, At
<1>2. PICK n \in SchemaNames : j.path = <<n>>
  BY Zenon, <1>1, OtherPlaces
<1>3. Core(j, cat, ice) /\ j.cmd.op \notin CreateOps /\ CatOK(cat) /\ j.path[1] = n
  BY <1>1, <1>2, JobAt, OtherPlaces DEF StatementInv
<1>4. PICK c \in {cat, drop_namespace_async(cat, n), create_namespace_async(cat, n)}, answer \in {"ok", "error"} :
          cat' = c /\ End(w, j, answer)
  BY Zenon, <1>3 DEF SchemaDropped, SchemaCreated, Fails
<1>5. Follows(cat, c)
  BY Zenon, <1>3, <1>4, NamesFollow, FollowsReflexive
<1>6. Core(j, c, ice)
  BY Zenon, <1>3, <1>5, CoreGrows DEF Follows
<1>7. QED
  BY Zenon, <1>3, <1>4, <1>5, <1>6, EndCalm

\* A statement that concerns no table has just started.
LEMMA DropDatabaseCalm ==
    ASSUME StatementInv, NEW w \in Workers, DropDatabase(w) \/ StatusOnly(w) \/ NotSupported(w)
    PROVE  Calm(w)
<1>1. PICK cmd \in menu, c \in {cat, drop_catalog(cat)}, answer \in {"ok", "error"} :
          /\ cmd.op \in {"drop_database", "begin", "commit", "rollback", "update", "create_database", "create_volume",
                         "create_external_table"}
          /\ cat' = c /\ End(w, Started(w, cmd), answer)
  BY Zenon DEF DropDatabase, StatusOnly, NotSupported, Execute, Fails, Succeeds
<1>2. cmd.op \notin TableOps \cup SchemaOps /\ cmd.op \notin CreateOps
  BY Zenon, <1>1 DEF TableOps, SchemaOps, CreateOps
<1> DEFINE j == Started(w, cmd)
<1>3. IsCommand(cmd)
  BY Zenon, MenuCommand
<1>4. Core(j, cat, ice) /\ j.cmd = cmd
  BY Zenon, <1>2, <1>3, PlainStartedCore
<1>5. CatOK(cat)
  BY Zenon DEF StatementInv
<1>6. Follows(cat, c)
  BY Zenon, <1>5, NamesFollow, FollowsReflexive
<1> HIDE DEF j
<1>7. Core(j, c, ice)
  BY Zenon, <1>4, <1>5, <1>6, CoreGrows DEF Follows
<1>8. End(w, j, answer)
  BY Zenon, <1>1 DEF j
<1>9. QED
  BY Zenon, <1>1, <1>2, <1>4, <1>6, <1>7, <1>8, EndCalm

\* CREATE VIEW: its query is planned,
LEMMA CreateViewCalm ==
    ASSUME StatementInv, NEW w \in Workers, CreateView(w)
    PROVE  Calm(w)
<1>1. PICK cmd \in menu :
          /\ cmd.op = "create_view"
          /\ LET j == [Started(w, cmd) EXCEPT !.path = default_table_ref(cmd.name)]
             IN  Planning(w, j, "view_planned", resolve_table_ref(cmd.from)) \/ Fails(w, j)
  BY Zenon DEF CreateView, Execute
<1> DEFINE p == default_table_ref(cmd.name)
           j == [Started(w, cmd) EXCEPT !.path = p]
<1>2. cmd.op \in TableOps
  BY Zenon, <1>1 DEF TableOps
<1>3. Planning(w, j, "view_planned", resolve_table_ref(cmd.from)) \/ Fails(w, j)
  BY Zenon, <1>1
<1>4. j = Named(w, cmd, p) /\ p = default_table_ref(cmd.name)
  BY Zenon DEF Named
<1> HIDE DEF j, p
<1>5. Core(j, cat, ice) /\ j.cmd = cmd
  BY <1>2, <1>4, StartNamed
<1>6. resolve_table_ref(cmd.from) \in Paths
  BY Zenon, <1>1, MenuCommand DEF IsCommand
<1>7. "view_planned" \in FreePcs /\ PlacedAt(j.cmd.op, "view_planned")
  BY Zenon, <1>1, <1>5 DEF FreePcs, PlacedAt, CreatePcs, CreateOps, TablePcs, TableOps
<1>8. QED
  BY Zenon, <1>3, <1>5, <1>6, <1>7, PlanningCalm, FailsCalm

\* its target looked up,
LEMMA ViewPlannedCalm ==
    ASSUME StatementInv, NEW w \in Workers, ViewPlanned(w)
    PROVE  Calm(w)
<1> DEFINE j == job[w]
           n == j.path[1]
<1>1. j.pc = "view_planned"
  BY Zenon DEF ViewPlanned, At
<1>2. Core(j, cat, ice) /\ j.path \in Paths /\ j.cmd.op = "create_view"
  BY Zenon, <1>1, JobAt, OtherPlaces DEF TablePcs, Placed, PlacedAt
<1>3. n \in SchemaNames /\ j.path[2] \in TableNames
  BY Zenon, <1>2, PathParts
<1>4. "view_target" \in FreePcs /\ PlacedAt(j.cmd.op, "view_target") /\ "view_target" # "view_found"
  BY Zenon, <1>2 DEF FreePcs, PlacedAt, CreatePcs, TablePcs, TableOps, CreateOps
<1>5. \/ Fails(w, j)
      \/ /\ schema(cat, n).cache[n] # 0
         /\ Go(w, schema(cat, n), Loading(j, "view_target", schema(cat, n), schema(cat, n).cache[n], j.path[2]))
  BY Zenon DEF ViewPlanned, schema_id
<1> HIDE DEF j, n
<1>6. QED
  BY Zenon, <1>2, <1>3, <1>4, <1>5, FailsCalm, LookupCalm

\* and it is registered in the cache of its schema.
LEMMA ViewTargetCalm ==
    ASSUME StatementInv, NEW w \in Workers, ViewTarget(w)
    PROVE  Calm(w)
<1> DEFINE j == job[w]
           c == schema(cat, j.path[1])
           o == c.cache[j.path[1]]
           t == j.path[2]
           e == [NoEntry EXCEPT !.kind = "view", !.name = t, !.source = default_table_ref(j.cmd.from)]
<1>1. j.pc = "view_target"
  BY Zenon DEF ViewTarget, At
<1>2. Core(j, cat, ice) /\ j.path \in Paths /\ j.cmd.op \notin CreateOps
  BY Zenon, <1>1, JobAt, OtherPlaces DEF TablePcs
<1>3. CatOK(cat) /\ j.path[1] \in SchemaNames /\ t \in TableNames
  BY Zenon, <1>2, PathParts DEF StatementInv
<1>4. \/ Fails(w, j)
      \/ o # 0 /\ cat' = register_table(deregister_table(c, o, t), o, t, e) /\ End(w, j, "ok")
      \/ o # 0 /\ cat' = register_table(c, o, t, e) /\ End(w, j, "ok")
  BY Zenon DEF ViewTarget
<1>5. Follows(cat, c) /\ o \in 0..Len(c.objects)
  BY Zenon, <1>3, SchemaFollows
<1>6. EntryOK(e) /\ e.kind = "view"
  <2>0. j.cmd.op = "create_view" /\ IsCommand(j.cmd) /\ vars.schema \in SchemaNames \cup {""}
    BY Zenon, <1>1, <1>2, JobAt DEF Placed, PlacedAt, Core, StatementInv, RestOK
  <2>1. default_table_ref(j.cmd.from) \in Paths
    BY Zenon, <2>0, NamesResolve DEF IsCommand
  <2>2. QED
    BY Zenon, <1>3, <2>1 DEF EntryOK, Entries, NoEntry
<1> HIDE DEF c, o, e
<1>7. CatOK(c)
  BY Zenon, <1>5 DEF Follows, Grows
<1>8. CASE Fails(w, j)
  BY Zenon, <1>2, <1>8, FailsCalm
<1>9. CASE o # 0 /\ End(w, j, "ok") /\ cat' \in {register_table(deregister_table(c, o, t), o, t, e), register_table(c, o, t, e)}
  <2>1. o \in 1..Len(c.objects)
    BY <1>5, <1>9
  <2>2. Follows(c, deregister_table(c, o, t)) /\ Len(deregister_table(c, o, t).objects) = Len(c.objects)
    BY Zenon, <1>3, <1>7, <2>1, DropFollows
  <2>3. PICK d \in {c, deregister_table(c, o, t)} : cat' = register_table(d, o, t, e)
    BY Zenon, <1>9
  <2>4. Follows(c, d) /\ Len(d.objects) = Len(c.objects)
    BY Zenon, <1>7, <2>2, <2>3, FollowsReflexive
  <2>5. CatOK(d) /\ o \in 1..Len(d.objects)
    BY Zenon, <2>1, <2>4 DEF Follows, Grows
  <2>6. Follows(d, cat')
    BY Zenon, <1>3, <1>6, <2>3, <2>5, RegisterGrows
  <2>7. Follows(cat, cat')
    BY Zenon, <1>3, <1>5, <1>7, <2>4, <2>6, FollowsTransitive
  <2>8. Core(j, cat', ice)
    BY Zenon, <1>2, <1>3, <2>7, CoreGrows DEF Follows
  <2>9. QED
    BY Zenon, <1>2, <1>9, <2>7, <2>8, EndCalm
<1>10. QED
  BY Zenon, <1>4, <1>8, <1>9

\* ALTER TABLE looks its table up
LEMMA AlterCalm ==
    ASSUME StatementInv, NEW w \in Workers, AlterTable(w)
    PROVE  Calm(w)
<1>1. PICK cmd \in menu :
          /\ cmd.op = "alter_table"
          /\ LET j == [Started(w, cmd) EXCEPT !.path = resolve_table_ref(cmd.name)]
             IN  \/ cat' = schema(cat, j.path[1]) /\ End(w, j, "ok")
                 \/ Planning(w, j, "alter_checked", j.path)
  BY Zenon DEF AlterTable, Execute
<1> DEFINE p == resolve_table_ref(cmd.name)
           j == [Started(w, cmd) EXCEPT !.path = p]
<1>2. cmd.op \in TableOps /\ cmd.op \notin CreateOps
  BY Zenon, <1>1 DEF TableOps, CreateOps
<1>3. (cat' = schema(cat, j.path[1]) /\ End(w, j, "ok")) \/ Planning(w, j, "alter_checked", j.path)
  BY Zenon, <1>1
<1>4. j = Named(w, cmd, p) /\ p = resolve_table_ref(cmd.name)
  BY DEF Named
<1> HIDE DEF j, p
<1>5. Core(j, cat, ice) /\ j.cmd = cmd /\ j.path \in Paths
  BY <1>2, <1>4, StartNamed
<1>6. "alter_checked" \in FreePcs /\ PlacedAt(j.cmd.op, "alter_checked")
  BY Zenon, <1>1, <1>5 DEF FreePcs, PlacedAt, CreatePcs, CreateOps, TablePcs, TableOps
<1>7. CatOK(cat) /\ j.path[1] \in SchemaNames
  BY Zenon, <1>5, PathParts DEF StatementInv
<1>8. Follows(cat, schema(cat, j.path[1]))
  BY Zenon, <1>7, SchemaFollows
<1>9. Core(j, schema(cat, j.path[1]), ice)
  BY Zenon, <1>5, <1>7, <1>8, CoreGrows DEF Follows
<1>10. QED
  BY Zenon, <1>2, <1>3, <1>5, <1>6, <1>8, <1>9, PlanningCalm, EndCalm

\* and ends: nothing is altered.
LEMMA AlterCheckedCalm ==
    ASSUME StatementInv, NEW w \in Workers, AlterChecked(w)
    PROVE  Calm(w)
<1>1. job[w].pc = "alter_checked"
  BY Zenon DEF AlterChecked, At
<1>2. Core(job[w], cat, ice) /\ job[w].cmd.op \notin CreateOps
  BY Zenon, <1>1, JobAt, OtherPlaces DEF TablePcs
<1>3. QED
  BY Zenon, <1>2, FailsCalm, SucceedsCalm DEF AlterChecked

-----------------------------------------------------------------------------
(* SELECT, INSERT, SHOW and DESCRIBE *)

\* SELECT, INSERT and PIVOT are planned from a lookup.
LEMMA SelectCalm ==
    ASSUME StatementInv, NEW w \in Workers, Select(w)
    PROVE  Calm(w)
<1>1. PICK cmd \in menu, pc \in {"pivot_planned", "select_planned"} :
          /\ cmd.op \in {"select", "insert"}
          /\ LET j == [Started(w, cmd) EXCEPT !.path = resolve_table_ref(cmd.name)]
             IN  Planning(w, j, pc, j.path)
  BY Zenon DEF Select, Execute
<1> DEFINE p == resolve_table_ref(cmd.name)
           j == [Started(w, cmd) EXCEPT !.path = p]
<1>2. cmd.op \in TableOps
  BY Zenon, <1>1 DEF TableOps
<1>3. Planning(w, j, pc, j.path)
  BY Zenon, <1>1
<1>4. j = Named(w, cmd, p) /\ p = resolve_table_ref(cmd.name)
  BY Zenon DEF Named
<1> HIDE DEF j, p
<1>5. Core(j, cat, ice) /\ j.cmd = cmd /\ j.path \in Paths
  BY <1>2, <1>4, StartNamed
<1>6. pc \in FreePcs /\ PlacedAt(j.cmd.op, pc)
  BY Zenon, <1>1, <1>5 DEF FreePcs, PlacedAt, CreatePcs, CreateOps, TablePcs, TableOps
<1>7. QED
  BY Zenon, <1>3, <1>5, <1>6, PlanningCalm

\* The own query of a PIVOT has run: the statement is planned.
LEMMA PivotPlannedCalm ==
    ASSUME StatementInv, NEW w \in Workers, PivotPlanned(w)
    PROVE  Calm(w)
<1>1. job[w].pc = "pivot_planned" /\ Planning(w, job[w], "select_planned", job[w].path)
  BY Zenon DEF PivotPlanned, At
<1>2. Core(job[w], cat, ice) /\ job[w].path \in Paths /\ job[w].cmd.op \in TableOps \ CreateOps
  BY Zenon, <1>1, JobAt, OtherPlaces DEF TablePcs
<1>3. "select_planned" \in FreePcs /\ PlacedAt(job[w].cmd.op, "select_planned")
  BY Zenon, <1>2 DEF FreePcs, PlacedAt, CreatePcs, TablePcs
<1>4. QED
  BY Zenon, <1>1, <1>2, <1>3, PlanningCalm

\* The plan is there: a SELECT has its rows, an INSERT appends.
LEMMA SelectPlannedCalm ==
    ASSUME StatementInv, NEW w \in Workers, SelectPlanned(w)
    PROVE  Calm(w)
<1> DEFINE j == job[w]
           found == j.reply.found
<1>1. j.pc = "select_planned"
  BY Zenon DEF SelectPlanned, At
<1>2. Core(j, cat, ice) /\ j.cmd.op \in TableOps /\ j.cmd.op \notin CreateOps /\ Shape(j)
  BY Zenon, <1>1, JobAt, OtherPlaces DEF TablePcs, Core
<1>3. Follows(cat, cat)
  BY Zenon, FollowsReflexive DEF StatementInv
<1>4. CASE Fails(w, j)
  BY Zenon, <1>2, <1>4, FailsCalm
<1>5. CASE Found(w) /\ rewrite_view_source(w)
  <2> DEFINE p == found.path
             n == p[1]
             k == [j EXCEPT !.path = p]
  <2>1. p \in Paths
    BY Zenon, <1>5, FoundFields
  <2>2. n \in SchemaNames /\ p[2] \in TableNames
    BY Zenon, <2>1, PathParts
  <2>3. \/ Fails(w, j)
        \/ /\ schema(cat, n).cache[n] # 0
           /\ Go(w, schema(cat, n), Loading(k, "select_planned", schema(cat, n), schema(cat, n).cache[n], p[2]))
    BY Zenon, <1>5 DEF rewrite_view_source
  <2>4. /\ Shape(k) /\ k.cmd = j.cmd /\ k.path = p /\ k.floor = j.floor /\ k.listed = j.listed
        /\ k.answer = j.answer /\ k.obj = j.obj /\ k.req = j.req /\ k.reply = j.reply
    BY Zenon, <1>2 DEF Shape, IdleJob
  <2> HIDE DEF k, p, n
  <2>5. j.cmd.op \notin SchemaOps
    BY Zenon, <1>2 DEF TableOps, SchemaOps
  <2>6. Core(k, cat, ice)
    BY Zenon, <1>2, <2>1, <2>4, <2>5 DEF Core
  <2>7. "select_planned" \in FreePcs /\ PlacedAt(k.cmd.op, "select_planned") /\ "select_planned" # "view_found"
    BY Zenon, <1>2, <2>4 DEF FreePcs, PlacedAt, CreatePcs, TablePcs
  <2>8. QED
    BY Zenon, <1>2, <2>2, <2>3, <2>6, <2>7, FailsCalm, LookupCalm
<1>6. CASE Found(w) /\ Append_(w, "appended")
  <2>1. PlacedAt(j.cmd.op, "appended")
    BY Zenon, <1>2 DEF PlacedAt, CreatePcs, TablePcs
  <2>2. QED
    BY Zenon, <1>1, <1>2, <1>3, <1>6, <2>1, AppendCalm, GoCalm DEF Append_
<1>7. CASE FoundTable(w) /\ cat' = cat /\ End(w, [j EXCEPT !.listed = {found}], "ok")
  <2> DEFINE k == [j EXCEPT !.listed = {found}]
  <2>1. /\ Shape(k) /\ k.cmd = j.cmd /\ k.path = j.path /\ k.floor = j.floor /\ k.listed = {found}
        /\ k.answer = j.answer /\ k.obj = j.obj /\ k.req = j.req /\ k.reply = j.reply
    BY Zenon, <1>2 DEF Shape, IdleJob
  <2>2. FoundOK(found, ice, j.floor) /\ (found.view \/ found.id # 0) /\ ~found.view
    BY Zenon, <1>7, FoundFields DEF FoundTable
  <2>3. End(w, k, "ok") /\ cat' = cat
    BY Zenon, <1>7
  <2> HIDE DEF k
  <2>4. Core(k, cat, ice)
    BY Zenon, <1>2, <2>1, <2>2 DEF Core
  <2>5. QED
    BY Zenon, <1>2, <1>3, <2>1, <2>3, <2>4, EndCalm
<1>8. QED
  BY Zenon, <1>4, <1>5, <1>6, <1>7 DEF SelectPlanned, FoundTable

\* Going on with the same statement, at a place about which nothing is to be known.
LEMMA MakeTablesNext ==
    ASSUME StatementInv, NEW w, NEW c, Follows(cat, c), NEW j, Core(j, cat, ice), j.cmd.op \in ShowOps,
           j.req = NoRequest, Go(w, c, [j EXCEPT !.pc = "make_tables"])
    PROVE  Calm(w)
<1> DEFINE k == [j EXCEPT !.pc = "make_tables"]
<1>1. Same(k, j) /\ k.pc = "make_tables" /\ k.obj = j.obj /\ k.req = j.req /\ k.reply = j.reply
  BY Zenon DEF Same, Core, Shape, IdleJob
<1>2. Go(w, c, k)
  BY Zenon
<1>3. Core(j, c, ice)
  BY Zenon, CoreGrows DEF StatementInv, Follows
<1> HIDE DEF k
<1>4. Core(k, c, ice)
  BY Zenon, <1>1, <1>3, AlikeCore
<1>5. k.pc \in FreePcs /\ PlacedAt(k.cmd.op, k.pc)
  BY Zenon, <1>1 DEF Same, FreePcs, PlacedAt, CreatePcs, TablePcs, ShowOps, TableOps, CreateOps
<1>6. Light(k)
  BY <1>1 DEF Light, NoRequest, Request
<1>7. QED
  BY Zenon, <1>2, <1>4, <1>5, <1>6, FreeOK, GoCalm

\* SHOW and DESCRIBE go over information_schema.
LEMMA ShowCalm ==
    ASSUME StatementInv, NEW w \in Workers, Show(w) \/ DescribeTable(w)
    PROVE  Calm(w)
<1>1. PICK cmd \in menu :
          /\ cmd.op \in ShowOps
          /\ \E c \in {cat, schema(cat, resolve_table_ref(cmd.name)[1])} :
             LET j == [Started(w, cmd) EXCEPT !.path = resolve_table_ref(cmd.name)]
             IN  \/ Go(w, c, [j EXCEPT !.pc = "make_tables"])
                 \/ cat' = c /\ End(w, j, "error")
  <2>1. CASE Show(w)
    BY Zenon, <2>1 DEF Show, Execute, ShowOps
  <2>2. CASE DescribeTable(w)
    <3>1. PICK cmd \in menu :
              /\ cmd.op = "describe"
              /\ Go(w, cat, [Started(w, cmd) EXCEPT !.path = resolve_table_ref(cmd.name), !.pc = "make_tables"])
      BY Zenon, <2>2 DEF DescribeTable, Execute
    <3>2. [Started(w, cmd) EXCEPT !.path = resolve_table_ref(cmd.name), !.pc = "make_tables"]
            = [[Started(w, cmd) EXCEPT !.path = resolve_table_ref(cmd.name)] EXCEPT !.pc = "make_tables"]
      BY Zenon
    <3>3. QED
      BY Zenon, <3>1, <3>2 DEF ShowOps
  <2>3. QED
    BY Zenon, <2>1, <2>2
<1> DEFINE p == resolve_table_ref(cmd.name)
           j == [Started(w, cmd) EXCEPT !.path = p]
<1>2. cmd.op \in TableOps /\ cmd.op \notin CreateOps
  BY Zenon, <1>1 DEF TableOps, CreateOps, ShowOps
<1>3. PICK c \in {cat, schema(cat, p[1])} :
          Go(w, c, [j EXCEPT !.pc = "make_tables"]) \/ (cat' = c /\ End(w, j, "error"))
  BY Zenon, <1>1
<1>4. j = Named(w, cmd, p) /\ p = resolve_table_ref(cmd.name)
  BY Zenon DEF Named
<1> HIDE DEF j, p
<1>5. Core(j, cat, ice) /\ j.cmd = cmd /\ p \in Paths /\ j.req = NoRequest
  BY <1>2, <1>4, StartNamed
<1>6. CatOK(cat) /\ p[1] \in SchemaNames
  BY Zenon, <1>5, PathParts DEF StatementInv
<1>7. Follows(cat, c)
  BY Zenon, <1>1, <1>6, FollowsReflexive, SchemaFollows DEF p
<1>8. Core(j, c, ice)
  BY Zenon, <1>5, <1>6, <1>7, CoreGrows DEF Follows
<1>9. QED
  BY Zenon, <1>1, <1>2, <1>5, <1>3, <1>7, <1>8, MakeTablesNext, EndCalm

\* Each schema is looked up in its turn, with the names of its tables
LEMMA MakeTablesCalm ==
    ASSUME StatementInv, NEW w \in Workers, MakeTables(w)
    PROVE  Calm(w)
<1> DEFINE j == job[w]
           c == schema(cat, j.path[1])
           o == c.cache[j.path[1]]
           names == table_names(c, o)
           k == [j EXCEPT !.pc = "fetch", !.obj = o, !.todo = names]
<1>1. j.pc = "make_tables" /\ j.req = NoRequest
  BY Zenon DEF MakeTables, At
<1>2. Core(j, cat, ice) /\ j.path \in Paths /\ j.cmd.op \in ShowOps /\ j.cmd.op \notin CreateOps
  BY Zenon, <1>1, JobAt, OtherPlaces DEF TablePcs, Placed, PlacedAt
<1>3. CatOK(cat) /\ j.path[1] \in SchemaNames
  BY Zenon, <1>2, PathParts DEF StatementInv
<1>4. Follows(cat, c) /\ o \in 0..Len(c.objects)
  BY Zenon, <1>3, SchemaFollows
<1>5. Succeeds(w, j) \/ (o # 0 /\ Go(w, c, k))
  BY Zenon DEF MakeTables
<1>6. names \subseteq TableNames
  BY Zenon DEF table_names
<1> HIDE DEF c, o, names
<1>7. Same(k, j) /\ k.pc = "fetch" /\ k.obj = o /\ k.req = j.req /\ k.reply = j.reply /\ k.todo = names
  BY Zenon, <1>2 DEF Same, Core, Shape, IdleJob
<1> HIDE DEF k
<1>8. CASE Succeeds(w, j)
  BY Zenon, <1>2, <1>8, SucceedsCalm
<1>9. CASE o # 0 /\ Go(w, c, k)
  <2>1. Core(j, c, ice)
    BY Zenon, <1>2, <1>3, <1>4, CoreGrows DEF Follows
  <2>2. /\ ReqOK(k.req) /\ DOMAIN k.reply = {"ok", "found"} /\ k.reply.ok \in BOOLEAN
        /\ FoundOK(k.reply.found, ice, k.floor)
    BY Zenon, <1>7, <2>1 DEF Core, Same
  <2>3. Core(k, c, ice)
    BY Zenon, <1>4, <1>7, <2>1, <2>2, CoreSame
  <2>4. Placed(k)
    BY Zenon, <1>2, <1>7 DEF Same, Placed, PlacedAt, CreatePcs, TablePcs, ShowOps, TableOps
  <2>5. Local(k, c, ice)
    BY Zenon, <1>1, <1>6, <1>7, <1>9 DEF Local
  <2>6. Light(k)
    BY <1>1, <1>7 DEF Light, NoRequest, Request
  <2>7. QED
    BY Zenon, <1>4, <1>9, <2>3, <2>4, <2>5, <2>6, GoCalm DEF JobOK
<1>10. QED
  BY Zenon, <1>5, <1>8, <1>9

\* and each table in its turn.
LEMMA FetchCalm ==
    ASSUME StatementInv, NEW w \in Workers, Fetch(w)
    PROVE  Calm(w)
<1> DEFINE j == job[w]
           o == j.obj
<1>1. j.pc = "fetch"
  BY Zenon DEF Fetch
<1>2. Core(j, cat, ice) /\ j.cmd.op # "select" /\ j.cmd.op \notin CreateOps /\ Shape(j) /\ o \in 0..Len(cat.objects)
  BY Zenon, <1>1, JobAt, OtherPlaces DEF TablePcs, Core, Placed, PlacedAt, ShowOps
<1>3. j.req = NoRequest /\ o # 0 /\ j.todo \subseteq TableNames
  BY Zenon, <1>1, JobAt DEF Local
<1>4. CatOK(cat) /\ ice \in IcebergStates /\ Follows(cat, cat) /\ o \in 1..Len(cat.objects)
  BY SMTT(20), <1>2, <1>3, FollowsReflexive DEF StatementInv
<1>5. CASE Succeeds(w, j)
  BY Zenon, <1>2, <1>5, SucceedsCalm
<1>6. ASSUME NEW t \in j.todo, NEW listed, \A f \in listed : FoundOK(f, ice, j.floor) /\ (f.view \/ f.id # 0),
             Go(w, cat, [j EXCEPT !.todo = @ \ {t}, !.listed = listed])
      PROVE  Calm(w)
  <2> DEFINE k == [j EXCEPT !.todo = @ \ {t}, !.listed = listed]
  <2>1. /\ Shape(k) /\ k.cmd = j.cmd /\ k.path = j.path /\ k.floor = j.floor /\ k.listed = listed /\ k.pc = j.pc
        /\ k.answer = j.answer /\ k.obj = j.obj /\ k.req = j.req /\ k.reply = j.reply /\ k.todo = j.todo \ {t}
    BY Zenon, <1>2 DEF Shape, IdleJob
  <2>2. Go(w, cat, k)
    BY Zenon, <1>6
  <2> HIDE DEF k
  <2>3. Core(k, cat, ice)
    BY SMTT(20), <1>2, <1>6, <2>1 DEF Core
  <2>4. Placed(k)
    BY Zenon, <2>1, JobAt DEF Placed
  <2>5. Local(k, cat, ice)
    BY Zenon, <1>1, <1>3, <2>1 DEF Local
  <2>6. Light(k)
    BY SMTT(20), <1>1, <1>3, <2>1 DEF Light, NoRequest, Request
  <2>7. QED
    BY Zenon, <1>4, <2>2, <2>3, <2>4, <2>5, <2>6, GoCalm DEF JobOK
<1>7. \A f \in j.listed : FoundOK(f, ice, j.floor) /\ (f.view \/ f.id # 0)
  BY Zenon, <1>2 DEF Core
<1>8. ASSUME NEW t \in j.todo, fetch_table_providers(w, t)
      PROVE  Calm(w)
  <2> DEFINE found == IF FromCache(cat, o, t) THEN View(Cached(cat, o, t).source)
                      ELSE Table(ice, load_fresh_iceberg_table(cat, o, t))
             listed == IF IsThere(found) /\ Shown(j, t, found) THEN j.listed \cup {found} ELSE j.listed
  <2>1. Go(w, cat, [j EXCEPT !.todo = @ \ {t}, !.listed = listed])
    BY Zenon, <1>8 DEF fetch_table_providers
  <2>2. t \in TableNames
    BY Zenon, <1>3
  <2>3. /\ load_fresh_iceberg_table(cat, o, t) \in Paths
        /\ FromCache(cat, o, t) => Cached(cat, o, t).source \in Paths
    BY Zenon, <1>4, <2>2, LookupTyped
  <2>4. FoundOK(found, ice, j.floor)
    <3>1. CASE FromCache(cat, o, t)
      BY Zenon, <2>3, <3>1 DEF FoundOK, View
    <3>2. CASE ~FromCache(cat, o, t)
      BY Zenon, <1>4, <2>3, <3>2, TableFound
    <3>3. QED
      BY Zenon, <3>1, <3>2
  <2>5. \A f \in listed : FoundOK(f, ice, j.floor) /\ (f.view \/ f.id # 0)
    <3> HIDE DEF found
    <3> QED
      BY Zenon, <1>7, <2>4 DEF IsThere
  <2> HIDE DEF listed
  <2>6. QED
    BY Zenon, <1>6, <2>1, <2>5
<1>9. ASSUME NEW t \in j.todo, Go(w, cat, [job[w] EXCEPT !.todo = @ \ {t}])
      PROVE  Calm(w)
  <2>1. [j EXCEPT !.todo = @ \ {t}] = [j EXCEPT !.todo = @ \ {t}, !.listed = j.listed]
    BY Zenon, <1>2 DEF Shape, IdleJob
  <2>2. QED
    BY Zenon, <1>6, <1>7, <1>9, <2>1
<1>10. QED
  BY Zenon, <1>5, <1>8, <1>9 DEF Fetch

\* SHOW SCHEMAS goes over the schemas that are there
LEMMA ShowSchemasCalm ==
    ASSUME StatementInv, NEW w \in Workers, ShowSchemas(w)
    PROVE  Calm(w)
<1>1. PICK cmd \in menu :
          /\ cmd.op = "show_schemas"
          /\ \/ Go(w, schema_names(cat), [Started(w, cmd) EXCEPT !.pc = "make_schemata", !.todo = cat.schemas])
             \/ Succeeds(w, Started(w, cmd))
  BY Zenon DEF ShowSchemas, Execute
<1> DEFINE j == Started(w, cmd)
           c == schema_names(cat)
           k == [j EXCEPT !.pc = "make_schemata", !.todo = cat.schemas]
<1>2. cmd.op \notin TableOps \cup SchemaOps /\ cmd.op \notin CreateOps
  BY Zenon, <1>1 DEF TableOps, SchemaOps, CreateOps
<1>3. IsCommand(cmd)
  BY Zenon, MenuCommand
<1>4. Core(j, cat, ice) /\ j.cmd = cmd
  BY Zenon, <1>2, <1>3, PlainStartedCore
<1>5. CatOK(cat) /\ cat.schemas \subseteq SchemaNames
  BY Zenon, CatFields DEF StatementInv
<1>6. Follows(cat, c)
  BY Zenon, <1>5, NamesFollow
<1>7. /\ Same(k, j) /\ k.pc = "make_schemata" /\ k.obj = j.obj /\ k.req = j.req /\ k.reply = j.reply
      /\ k.todo = cat.schemas /\ k.req = NoRequest
  BY Zenon DEF Same, Started, Shape, IdleJob
<1>8. Go(w, c, k) \/ Succeeds(w, j)
  BY Zenon, <1>1
<1> HIDE DEF j, k, c
<1>9. CASE Succeeds(w, j)
  BY Zenon, <1>2, <1>4, <1>9, SucceedsCalm
<1>10. CASE Go(w, c, k)
  <2>1. Core(j, c, ice)
    BY Zenon, <1>4, <1>5, <1>6, CoreGrows DEF Follows
  <2>2. Core(k, c, ice)
    BY Zenon, <1>7, <2>1, AlikeCore
  <2>3. Placed(k) /\ Local(k, c, ice)
    BY Zenon, <1>1, <1>2, <1>4, <1>5, <1>7 DEF Same, Placed, PlacedAt, CreatePcs, TablePcs, Local
  <2>4. Light(k)
    BY <1>7 DEF Light, NoRequest, Request
  <2>5. QED
    BY Zenon, <1>6, <1>10, <2>2, <2>3, <2>4, GoCalm DEF JobOK
<1>11. QED
  BY Zenon, <1>8, <1>9, <1>10

\* one by one.
LEMMA MakeSchemataCalm ==
    ASSUME StatementInv, NEW w \in Workers, MakeSchemata(w)
    PROVE  Calm(w)
<1> DEFINE j == job[w]
<1>1. j.pc = "make_schemata" /\ j.req = NoRequest
  BY Zenon DEF MakeSchemata, At
<1>2. Core(j, cat, ice) /\ Placed(j) /\ j.todo \subseteq SchemaNames /\ Shape(j)
  BY Zenon, <1>1, JobAt DEF Local, Core
<1>3. j.cmd.op \notin CreateOps
  BY Zenon, <1>1, <1>2 DEF Placed, PlacedAt, CreatePcs
<1>4. CASE Succeeds(w, j)
  BY Zenon, <1>2, <1>3, <1>4, SucceedsCalm
<1>5. ASSUME NEW n \in j.todo, Go(w, schema(cat, n), [j EXCEPT !.todo = @ \ {n}])
      PROVE  Calm(w)
  <2> DEFINE c == schema(cat, n)
             k == [j EXCEPT !.todo = @ \ {n}]
  <2>1. CatOK(cat) /\ n \in SchemaNames
    BY Zenon, <1>2 DEF StatementInv
  <2>2. Follows(cat, c)
    BY Zenon, <2>1, SchemaFollows
  <2>3. /\ Same(k, j) /\ k.pc = "make_schemata" /\ k.obj = j.obj /\ k.req = j.req /\ k.reply = j.reply
        /\ k.todo = j.todo \ {n}
    BY Zenon, <1>1, <1>2 DEF Same, Shape, IdleJob
  <2>4. Go(w, c, k)
    BY Zenon, <1>5
  <2> HIDE DEF c, k
  <2>5. Core(j, c, ice)
    BY Zenon, <1>2, <2>1, <2>2, CoreGrows DEF Follows
  <2>6. Core(k, c, ice)
    BY Zenon, <2>3, <2>5, AlikeCore
  <2>7. Placed(k) /\ Local(k, c, ice)
    BY Zenon, <1>1, <1>2, <2>3 DEF Same, Placed, Local
  <2>8. Light(k)
    BY <1>1, <2>3 DEF Light, NoRequest, Request
  <2>9. QED
    BY Zenon, <2>2, <2>4, <2>6, <2>7, <2>8, GoCalm DEF JobOK
<1>6. QED
  BY Zenon, <1>4, <1>5 DEF MakeSchemata

-----------------------------------------------------------------------------
(* COPY INTO and SET *)

\* COPY INTO looks its target up.
LEMMA CopyIntoCalm ==
    ASSUME StatementInv, NEW w \in Workers, CopyInto(w)
    PROVE  Calm(w)
<1>1. PICK cmd \in menu :
          /\ cmd.op = "copy_into"
          /\ LET j == [Started(w, cmd) EXCEPT !.path = resolve_table_ref(cmd.name)]
             IN  Fails(w, j) \/ Planning(w, j, "copy_loaded", j.path)
  BY Zenon DEF CopyInto, Execute
<1> DEFINE p == resolve_table_ref(cmd.name)
           j == [Started(w, cmd) EXCEPT !.path = p]
<1>2. cmd.op \in TableOps
  BY Zenon, <1>1 DEF TableOps
<1>3. Fails(w, j) \/ Planning(w, j, "copy_loaded", j.path)
  BY Zenon, <1>1
<1>4. j = Named(w, cmd, p) /\ p = resolve_table_ref(cmd.name)
  BY DEF Named
<1> HIDE DEF j, p
<1>5. Core(j, cat, ice) /\ j.cmd = cmd /\ j.path \in Paths
  BY <1>2, <1>4, StartNamed
<1>6. "copy_loaded" \in FreePcs /\ PlacedAt(j.cmd.op, "copy_loaded")
  BY Zenon, <1>1, <1>5 DEF FreePcs, PlacedAt, CreatePcs, CreateOps, TablePcs, TableOps
<1>7. QED
  BY Zenon, <1>3, <1>5, <1>6, PlanningCalm, FailsCalm

\* SET (a, b) = ... plans a value for each of its names.
LEMMA SetTupleCalm ==
    ASSUME StatementInv, NEW w \in Workers, SetTuple(w)
    PROVE  Calm(w)
<1>1. PICK cmd \in menu :
          /\ cmd.op = "set"
          /\ \/ Fails(w, Started(w, cmd))
             \/ Go(w, cat, [Started(w, cmd) EXCEPT !.pc = "set_values", !.todo = DOMAIN cmd.arg])
  BY Zenon DEF SetTuple, Execute
<1> DEFINE j == Started(w, cmd)
           k == [j EXCEPT !.pc = "set_values", !.todo = DOMAIN cmd.arg]
<1>2. cmd.op \notin TableOps \cup SchemaOps
  BY Zenon, <1>1 DEF TableOps, SchemaOps
<1>3. IsCommand(cmd)
  BY Zenon, <1>1, MenuCommand
<1>4. Core(j, cat, ice) /\ j.cmd = cmd
  BY Zenon, <1>2, <1>3, PlainStartedCore
<1>5. Follows(cat, cat)
  BY Zenon, FollowsReflexive DEF StatementInv
<1>6. /\ Same(k, j) /\ k.pc = "set_values" /\ k.obj = j.obj /\ k.req = j.req /\ k.reply = j.reply
      /\ k.todo = DOMAIN cmd.arg /\ k.req = NoRequest
  BY Zenon DEF Same, Started, Shape, IdleJob
<1>7. Go(w, cat, k) \/ Fails(w, j)
  BY Zenon, <1>1
<1> HIDE DEF j, k
<1>8. Core(k, cat, ice)
  BY Zenon, <1>4, <1>6, AlikeCore
<1>9. Placed(k) /\ Local(k, cat, ice)
  BY Zenon, <1>1, <1>4, <1>6 DEF Same, Placed, PlacedAt, CreatePcs, TablePcs, CreateOps, Local
<1>10. Light(k)
  BY <1>6 DEF Light, NoRequest, Request
<1>11. QED
  BY Zenon, <1>4, <1>5, <1>7, <1>8, <1>9, <1>10, GoCalm, FailsCalm DEF JobOK

-----------------------------------------------------------------------------
(* The invariant is kept *)

\* A step of one statement, as far as the jobs and the catalog are concerned.
LEMMA JobsKept ==
    ASSUME StatementInv, NEW w \in Workers, Grows(cat, cat'), ice' = ice,
           NEW j, job' = [job EXCEPT ![w] = j], JobOK(j, cat', ice)
    PROVE  /\ CatOK(cat') /\ ice' \in IcebergStates
           /\ DOMAIN job' = Workers /\ \A v \in Workers : JobOK(job'[v], cat', ice')
<1>1. CatOK(cat) /\ ice \in IcebergStates /\ DOMAIN job = Workers /\ \A v \in Workers : JobOK(job[v], cat, ice)
  BY Zenon DEF StatementInv
<1>2. Moves(ice, ice)
  BY Zenon, <1>1, MovesReflexive
<1>3. \A v \in Workers : JobOK(job[v], cat', ice)
  BY Zenon, <1>1, <1>2, JobStays
<1>4. \A v \in Workers : job'[v] = IF v = w THEN j ELSE job[v]
  BY Zenon, <1>1
<1>5. QED
  BY Zenon, <1>1, <1>3, <1>4 DEF Grows

\* A step that sets no variable.
LEMMA TupleKept ==
    ASSUME StatementInv, NEW w \in Workers, NEW j, job' = [job EXCEPT ![w] = j],
           vars'.a = vars.a, vars'.b = vars.b, j.pc # "set_properties", job[w].pc # "set_properties"
    PROVE  TupleInv'
<1>1. TupleInv /\ DOMAIN job = Workers
  BY Zenon DEF StatementInv
<1>2. \A v \in Workers : job'[v] = IF v = w THEN j ELSE job[v]
  BY Zenon, <1>1
<1>3. \A v \in Workers : job'[v].pc = "set_properties" => job[v].pc = "set_properties" /\ job'[v] = job[v]
  BY Zenon, <1>2
<1>4. \A v \in Workers : job[v].pc = "set_properties" => job'[v] = job[v]
  BY Zenon, <1>2
<1>5. \A v \in Workers, x \in Variables : job'[v].pc = "set_properties" =>
          NewValue(job'[v], x) = NewValue(job[v], x)
  BY Zenon, <1>3
<1>6. vars'["a"] = vars["a"] /\ vars'["b"] = vars["b"]
  BY Zenon
<1>7. TupleSetsAreAtomic'
  BY Zenon, <1>1, <1>4 DEF TupleInv, TupleSetsAreAtomic, Unlocked
<1>8. \A u, v \in Workers : job'[u].pc = "set_properties" /\ job'[v].pc = "set_properties" => u = v
  BY Zenon, <1>1, <1>3 DEF TupleInv
<1>9. ASSUME NEW v \in Workers, job'[v].pc = "set_properties"
      PROVE  /\ \A x \in Variables \ job'[v].todo : vars'[x] = NewValue(job'[v], x)
             /\ Variables \subseteq job'[v].todo => vars'.a = vars'.b
  BY <1>1, <1>3, <1>5, <1>6, <1>9 DEF TupleInv, Variables
<1>10. QED
  BY Zenon, <1>7, <1>8, <1>9 DEF TupleInv

\* The bounds are counted down.
Lefts == [statements : 0..MaxStatements, faults : 0..MaxFaults, writes : 0..MaxWrites]

\* They stay within their types.
LEMMA LeftKept ==
    ASSUME left \in Lefts
    PROVE  /\ \A w, cmd, ops : Execute(w, cmd, ops) => left' \in Lefts
           /\ \A w, pc : At(w, pc) => left' \in Lefts
           /\ left.faults > 0 /\ left' = [left EXCEPT !.faults = @ - 1] => left' \in Lefts
           /\ left.writes > 0 /\ left' = [left EXCEPT !.writes = @ - 1] => left' \in Lefts
BY SMTT(20), BoundsAssumption DEF Lefts, Execute, At

\* Calm steps, takings and registrations keep the invariant.
LEMMA UsualStep ==
    ASSUME StatementInv, NEW w \in Workers, Calm(w) \/ Takes(w) \/ Makes(w), job[w].pc # "set_properties",
           left' \in Lefts
    PROVE  StatementInv'
<1>1. /\ UNCHANGED <<ice, vars, stores, late, staged, menu>> /\ Grows(cat, cat')
      /\ \E j : job' = [job EXCEPT ![w] = j] /\ JobOK(j, cat', ice) /\ j.pc # "set_properties"
  BY Zenon DEF Calm, Takes, Makes, Light, Follows
<1>2. PICK j : job' = [job EXCEPT ![w] = j] /\ JobOK(j, cat', ice) /\ j.pc # "set_properties"
  BY Zenon, <1>1
<1>3. TupleInv'
  BY Zenon, <1>1, <1>2, TupleKept
<1>4. RestOK'
  BY Zenon, <1>1 DEF StatementInv, RestOK, Lefts
<1>5. /\ CatOK(cat') /\ ice' \in IcebergStates
      /\ DOMAIN job' = Workers /\ \A v \in Workers : JobOK(job'[v], cat', ice')
  BY Zenon, <1>1, <1>2, JobsKept
<1>6. QED
  BY Zenon, <1>3, <1>4, <1>5 DEF StatementInv

-----------------------------------------------------------------------------
(* The steps that set variables or register stores and stages *)

\* A job that asks for no drop and registers no table next.
HoldsNone(j) == j.req.op # "drop" /\ (j.pc = "create_done" => j.req # NoRequest)

\* A step that leaves Iceberg and its requests alone and takes hold of no table.
Rests(w) ==
    /\ UNCHANGED <<ice, late, staged>> /\ Follows(cat, cat')
    /\ \E j : job' = [job EXCEPT ![w] = j] /\ JobOK(j, cat', ice) /\ HoldsNone(j)

\* A calm step rests.
LEMMA CalmRests ==
    ASSUME NEW w, Calm(w)
    PROVE  Rests(w)
BY Zenon DEF Calm, Rests, Light, HoldsNone

\* A step that rests keeps the invariant when the rest of the state is in order.
LEMMA RestsKeeps ==
    ASSUME StatementInv, NEW w \in Workers, Rests(w), RestOK', TupleInv'
    PROVE  StatementInv'
<1>1. PICK j : job' = [job EXCEPT ![w] = j] /\ JobOK(j, cat', ice)
  BY Zenon DEF Rests
<1>2. Grows(cat, cat') /\ ice' = ice
  BY Zenon DEF Rests, Follows
<1>3. QED
  BY Zenon, <1>1, <1>2, JobsKept DEF StatementInv

\* Taking the lock.
LEMMA LockTaken ==
    ASSUME StatementInv, NEW w \in Workers, Unlocked, NEW j, job' = [job EXCEPT ![w] = j],
           j.pc = "set_properties", Variables \subseteq j.todo, vars' = vars
    PROVE  TupleInv'
<1>1. TupleInv /\ DOMAIN job = Workers
  BY Zenon DEF StatementInv
<1>2. \A v \in Workers : job'[v] = IF v = w THEN j ELSE job[v]
  BY Zenon, <1>1
<1>3. \A v \in Workers : job'[v].pc = "set_properties" => v = w
  BY Zenon, <1>2 DEF Unlocked
<1>4. vars'.a = vars'.b
  BY Zenon, <1>1 DEF TupleInv, TupleSetsAreAtomic
<1>5. TupleSetsAreAtomic'
  BY Zenon, <1>4 DEF TupleSetsAreAtomic
<1>6. Variables \subseteq job'[w].todo
  BY Zenon, <1>2
<1>7. QED
  BY Zenon, <1>3, <1>4, <1>5, <1>6 DEF TupleInv

\* SET has its values and takes the lock of the variables.
LEMMA SetValuesKeeps ==
    ASSUME StatementInv, NEW w \in Workers, SetValues(w)
    PROVE  StatementInv' /\ Rests(w)
<1> DEFINE j == job[w]
           k == [j EXCEPT !.pc = "set_properties"]
<1>1. j.pc = "set_values" /\ j.req = NoRequest /\ left' = left
  BY Zenon DEF SetValues, At
<1>2. Core(j, cat, ice) /\ Placed(j) /\ Shape(j) /\ j.cmd.op = "set"
      /\ Variables \subseteq j.todo /\ j.todo \subseteq Variables \cup Options
  BY Zenon, <1>1, JobAt DEF Core, Local, IsCommand
<1>3. CASE Fails(w, j)
  <2>1. Calm(w)
    BY Zenon, <1>2, <1>3, FailsCalm
  <2>2. left' \in Lefts
    BY Zenon, <1>1 DEF StatementInv, RestOK, Lefts
  <2>3. QED
    BY Zenon, <1>1, <2>1, <2>2, CalmRests, UsualStep
<1>4. CASE Unlocked /\ Go(w, cat, k)
  <2>1. /\ Same(k, j) /\ k.pc = "set_properties" /\ k.obj = j.obj /\ k.req = j.req /\ k.reply = j.reply
        /\ k.todo = j.todo
    BY Zenon, <1>2 DEF Same, Shape, IdleJob
  <2>2. cat' = cat /\ job' = [job EXCEPT ![w] = k] /\ UNCHANGED <<ice, vars, stores, late, staged, menu>>
    BY Zenon, <1>4 DEF Go, Set
  <2> HIDE DEF k
  <2>3. Core(k, cat, ice)
    BY Zenon, <1>2, <2>1, AlikeCore
  <2>4. Placed(k) /\ Local(k, cat, ice)
    BY Zenon, <1>2, <2>1 DEF Same, Placed, PlacedAt, CreatePcs, TablePcs, CreateOps, Local
  <2>5. HoldsNone(k)
    BY <1>1, <2>1 DEF HoldsNone, NoRequest, Request
  <2>6. Follows(cat, cat')
    BY Zenon, <2>2, FollowsReflexive DEF StatementInv
  <2>7. Rests(w)
    BY Zenon, <2>2, <2>3, <2>4, <2>5, <2>6 DEF Rests, JobOK
  <2>8. TupleInv'
    <3>1. Variables \subseteq k.todo
      BY Zenon, <1>2, <2>1
    <3>2. QED
      BY Zenon, <1>4, <2>1, <2>2, <3>1, LockTaken
  <2>9. RestOK'
    BY Zenon, <1>1, <2>2 DEF StatementInv, RestOK
  <2>10. QED
    BY Zenon, <2>7, <2>8, <2>9, RestsKeeps
<1>5. QED
  BY Zenon, <1>3, <1>4 DEF SetValues

\* ALTER SESSION UNSET takes it at once.
LEMMA UnsetKeeps ==
    ASSUME StatementInv, NEW w \in Workers, AlterSessionUnset(w)
    PROVE  StatementInv' /\ Rests(w)
<1>1. PICK cmd \in menu :
          /\ Unlocked /\ cmd.op = "unset" /\ Execute(w, cmd, {"unset"})
          /\ Go(w, cat, [Started(w, cmd) EXCEPT !.pc = "set_properties", !.todo = DOMAIN cmd.arg])
  BY Zenon DEF AlterSessionUnset, Execute
<1> DEFINE j == Started(w, cmd)
           k == [j EXCEPT !.pc = "set_properties", !.todo = DOMAIN cmd.arg]
<1>2. cmd.op \notin TableOps \cup SchemaOps
  BY Zenon, <1>1 DEF TableOps, SchemaOps
<1>3. IsCommand(cmd) /\ Variables \subseteq DOMAIN cmd.arg /\ DOMAIN cmd.arg \subseteq Variables \cup Options
  BY Zenon, <1>1, MenuCommand DEF IsCommand
<1>4. Core(j, cat, ice) /\ j.cmd = cmd
  BY Zenon, <1>2, <1>3, PlainStartedCore
<1>5. /\ Same(k, j) /\ k.pc = "set_properties" /\ k.obj = j.obj /\ k.req = j.req /\ k.reply = j.reply
      /\ k.todo = DOMAIN cmd.arg /\ k.req = NoRequest
  BY Zenon DEF Same, Started, Shape, IdleJob
<1>6. cat' = cat /\ job' = [job EXCEPT ![w] = k] /\ UNCHANGED <<ice, vars, stores, late, staged, menu>>
  BY Zenon, <1>1 DEF Go, Set
<1> HIDE DEF j, k
<1>7. Core(k, cat, ice)
  BY Zenon, <1>4, <1>5, AlikeCore
<1>8. Placed(k) /\ Local(k, cat, ice)
  BY Zenon, <1>1, <1>3, <1>4, <1>5 DEF Same, Placed, PlacedAt, CreatePcs, TablePcs, CreateOps, Local
<1>9. HoldsNone(k)
  BY <1>5 DEF HoldsNone, NoRequest, Request
<1>10. Follows(cat, cat')
  BY Zenon, <1>6, FollowsReflexive DEF StatementInv
<1>11. Rests(w)
  BY Zenon, <1>6, <1>7, <1>8, <1>9, <1>10 DEF Rests, JobOK
<1>12. TupleInv'
  BY Zenon, <1>1, <1>3, <1>5, <1>6, LockTaken
<1>13. left' \in Lefts
  BY Zenon, <1>1, LeftKept DEF StatementInv, RestOK, Lefts
<1>14. RestOK'
  BY Zenon, <1>6, <1>13 DEF StatementInv, RestOK, Lefts
<1>15. QED
  BY Zenon, <1>11, <1>12, <1>14, RestsKeeps

\* One variable is set under the lock, or the lock is given back.
LEMMA SetPropertiesKeeps ==
    ASSUME StatementInv, NEW w \in Workers, SetProperties(w)
    PROVE  StatementInv' /\ Rests(w)
<1> DEFINE j == job[w]
<1>1. j.pc = "set_properties" /\ j.req = NoRequest /\ left' = left
  BY Zenon DEF SetProperties, At
<1>2. /\ Core(j, cat, ice) /\ Placed(j) /\ Shape(j) /\ j.cmd.op \in {"set", "unset"}
      /\ j.todo \subseteq Variables \cup Options /\ (j.todo \cap Options = {} \/ Variables \subseteq j.todo)
      /\ IsCommand(j.cmd)
  BY Zenon, <1>1, JobAt DEF Core, Local
<1>3. DOMAIN job = Workers /\ DOMAIN vars = {"database", "schema"} \cup Variables \cup Options /\ TupleInv
  BY Zenon DEF StatementInv, RestOK
<1>4. \A v \in Workers : v # w => job[v].pc # "set_properties"
  BY Zenon, <1>1, <1>3 DEF TupleInv
<1>5. \A x \in Variables \ j.todo : vars[x] = NewValue(j, x)
  BY Zenon, <1>1, <1>3 DEF TupleInv
<1>6. CASE j.todo = {} /\ Succeeds(w, j)
  <2>1. j.cmd.op \notin CreateOps
    BY Zenon, <1>2 DEF CreateOps
  <2>2. Calm(w)
    BY Zenon, <1>2, <1>6, <2>1, SucceedsCalm
  <2>3. Rests(w)
    BY Zenon, <2>2, CalmRests
  <2>4. /\ job' = [job EXCEPT ![w] = Finished(j, "ok")] /\ Finished(j, "ok").pc = "idle"
        /\ UNCHANGED <<vars, stores, late, staged, menu>>
    BY SMTT(20), <1>2, <1>6, FinishedFields DEF Succeeds, End, Set
  <2>5. \A v \in Workers : job'[v].pc # "set_properties"
    BY Zenon, <1>3, <1>4, <2>4
  <2>6. vars["a"] = NewValue(j, "a") /\ vars["b"] = NewValue(j, "b")
    BY Zenon, <1>5, <1>6 DEF Variables
  <2>7. NewValue(j, "a") = NewValue(j, "b")
    BY Zenon, <1>2 DEF NewValue, IsCommand, Variables
  <2>8. vars'.a = vars'.b
    BY Zenon, <2>4, <2>6, <2>7
  <2>9. TupleInv'
    BY Zenon, <2>5, <2>8 DEF TupleInv, TupleSetsAreAtomic
  <2>10. RestOK'
    BY Zenon, <1>1, <2>4 DEF StatementInv, RestOK
  <2>11. QED
    BY <2>3, <2>9, <2>10, RestsKeeps
<1>7. ASSUME NEW x \in j.todo, x \in Options \/ j.todo \cap Options = {}, SetKey(w, x)
      PROVE  StatementInv' /\ Rests(w)
  <2>0. /\ vars' = [vars EXCEPT ![x] = NewValue(j, x)] /\ Set(w, [j EXCEPT !.todo = @ \ {x}])
        /\ UNCHANGED <<cat, ice, stores, late, staged, menu>>
    BY Zenon, <1>7 DEF SetKey
  <2> DEFINE k == [j EXCEPT !.todo = @ \ {x}]
  <2>1. /\ Same(k, j) /\ k.pc = "set_properties" /\ k.obj = j.obj /\ k.req = j.req /\ k.reply = j.reply
        /\ k.todo = j.todo \ {x}
    BY Zenon, <1>1, <1>2 DEF Same, Shape, IdleJob
  <2>2. job' = [job EXCEPT ![w] = k]
    BY Zenon, <2>0 DEF Set
  <2> HIDE DEF k
  <2>3. Core(k, cat, ice)
    BY Zenon, <1>2, <2>1, AlikeCore
  <2>4. Placed(k) /\ Local(k, cat, ice)
    <3>1. Local(j, cat, ice)
      BY Zenon, <1>1, JobAt
    <3>2. x \in Options => x \notin Variables
      BY DEF Options, Variables
    <3>3. /\ k.todo \subseteq Variables \cup Options
          /\ k.todo \cap Options = {} \/ Variables \subseteq k.todo
      BY Zenon, <1>2, <1>7, <2>1, <3>2
    <3>4. QED
      BY Zenon, <1>1, <1>2, <2>1, <3>1, <3>3 DEF Same, Placed, Local
  <2>5. HoldsNone(k)
    BY <1>1, <2>1 DEF HoldsNone, NoRequest, Request
  <2>6. Follows(cat, cat')
    BY Zenon, <2>0, FollowsReflexive DEF StatementInv
  <2>7. Rests(w)
    BY Zenon, <2>0, <2>2, <2>3, <2>4, <2>5, <2>6 DEF Rests, JobOK
  <2>8. \A v \in Workers : job'[v] = IF v = w THEN k ELSE job[v]
    BY Zenon, <1>3, <2>2
  <2>9. \A y \in {"database", "schema"} \cup Variables \cup Options :
           vars'[y] = IF y = x THEN NewValue(j, x) ELSE vars[y]
    BY Zenon, <1>3, <2>0
  <2>10. \A y \in Variables \ k.todo : vars'[y] = NewValue(k, y)
    BY Zenon, <1>5, <2>1, <2>9 DEF NewValue, Same
  <2>11. Variables \subseteq k.todo => vars'.a = vars'.b
    <3>1. SUFFICES ASSUME Variables \subseteq k.todo PROVE vars'["a"] = vars'["b"]
      BY Zenon
    <3>2. Variables \subseteq j.todo /\ x \notin Variables
      BY Zenon, <2>1, <3>1
    <3>3. vars["a"] = vars["b"]
      BY Zenon, <1>1, <1>3, <3>2 DEF TupleInv
    <3>4. vars'["a"] = vars["a"] /\ vars'["b"] = vars["b"]
      BY Zenon, <2>9, <3>2 DEF Variables
    <3>5. QED
      BY Zenon, <3>3, <3>4
  <2>12. TupleSetsAreAtomic'
    BY Zenon, <2>1, <2>8 DEF TupleSetsAreAtomic, Unlocked
  <2>13. \A v \in Workers : job'[v].pc = "set_properties" => v = w /\ job'[v] = k
    BY Zenon, <1>4, <2>8
  <2>14. TupleInv'
    BY Zenon, <2>10, <2>11, <2>12, <2>13 DEF TupleInv
  <2>15. RestOK'
    <3>1. x # "schema"
      BY Zenon, <1>2 DEF Variables, Options
    <3>2. vars'.schema = vars.schema /\ DOMAIN vars' = DOMAIN vars
      BY Zenon, <2>0, <2>9, <3>1
    <3>3. QED
      BY Zenon, <1>1, <2>0, <3>2 DEF StatementInv, RestOK
  <2>16. QED
    BY Zenon, <2>7, <2>14, <2>15, RestsKeeps
<1>8. CASE Fails(w, j) /\ \E x \in j.todo : x \in Options
  <2>1. Variables \subseteq j.todo
    BY Zenon, <1>2, <1>8
  <2>2. Calm(w)
    BY Zenon, <1>2, <1>8, FailsCalm
  <2>3. Rests(w)
    BY Zenon, <2>2, CalmRests
  <2>4. /\ job' = [job EXCEPT ![w] = Finished(j, "error")] /\ Finished(j, "error").pc = "idle"
        /\ UNCHANGED <<vars, stores, late, staged, menu>>
    BY SMTT(20), <1>2, <1>8, FinishedFields DEF Fails, End, Set
  <2>5. \A v \in Workers : job'[v].pc # "set_properties"
    BY Zenon, <1>3, <1>4, <2>4
  <2>6. vars.a = vars.b
    BY Zenon, <1>1, <1>3, <2>1 DEF TupleInv
  <2>7. TupleInv'
    BY Zenon, <2>4, <2>5, <2>6 DEF TupleInv, TupleSetsAreAtomic
  <2>8. RestOK'
    BY Zenon, <1>1, <2>4 DEF StatementInv, RestOK
  <2>9. QED
    BY Zenon, <2>3, <2>7, <2>8, RestsKeeps
<1>9. QED
  BY Zenon, <1>6, <1>7, <1>8 DEF SetProperties

\* Ending a statement that has just started, for the statements that concern no table.
LEMMA PlainEnd ==
    ASSUME StatementInv, NEW w, NEW cmd \in menu, cmd.op \notin TableOps \cup SchemaOps,
           NEW answer \in {"ok", "error"}
    PROVE  LET j == Finished(Started(w, cmd), answer)
           IN  JobOK(j, cat, ice) /\ j.pc = "idle" /\ HoldsNone(j)
<1> DEFINE j == Started(w, cmd)
<1>1. Core(j, cat, ice) /\ j.cmd = cmd
  BY Zenon, MenuCommand, PlainStartedCore
<1>2. cmd.op \notin CreateOps
  BY Zenon DEF TableOps, CreateOps
<1> HIDE DEF j
<1>3. JobOK(Finished(j, answer), cat, ice)
  BY Zenon, <1>1, <1>2, FinishedOK DEF StatementInv
<1>4. Finished(j, answer).pc = "idle" /\ Finished(j, answer).req = NoRequest
  BY SMTT(20), <1>1, FinishedFields DEF Core
<1>5. HoldsNone(Finished(j, answer))
  BY <1>4 DEF HoldsNone, NoRequest, Request
<1>6. QED
  BY Zenon, <1>3, <1>4, <1>5 DEF j

\* USE sets the current schema or database.
LEMMA UseKeeps ==
    ASSUME StatementInv, NEW w \in Workers, UseStatement(w)
    PROVE  StatementInv' /\ Rests(w)
<1>1. PICK cmd \in menu :
          /\ Execute(w, cmd, {"use"}) /\ cat' = cat
          /\ \/ vars' = vars /\ Set(w, Finished(Started(w, cmd), "error"))
             \/ /\ cmd.arg.key # "" /\ vars' = [vars EXCEPT ![cmd.arg.key] = cmd.arg.value]
                /\ Set(w, Finished(Started(w, cmd), "ok"))
          /\ UNCHANGED <<ice, stores, late, staged, menu>>
  BY Zenon DEF UseStatement
<1>2. cmd.op = "use" /\ job[w].pc = "idle" /\ left' \in Lefts
  BY Zenon, <1>1, LeftKept DEF Execute, StatementInv, RestOK, Lefts
<1>3. cmd.op \notin TableOps \cup SchemaOps
  BY Zenon, <1>2 DEF TableOps, SchemaOps
<1>4. IsCommand(cmd)
  BY MenuCommand
<1>5. PICK answer \in {"ok", "error"} : job' = [job EXCEPT ![w] = Finished(Started(w, cmd), answer)]
  BY Zenon, <1>1 DEF Set
<1> DEFINE k == Finished(Started(w, cmd), answer)
<1>6. JobOK(k, cat, ice) /\ k.pc = "idle" /\ HoldsNone(k)
  BY Zenon, <1>3, PlainEnd
<1>7. job' = [job EXCEPT ![w] = k]
  BY Zenon, <1>5
<1> HIDE DEF k
<1>8. Follows(cat, cat')
  BY Zenon, <1>1, FollowsReflexive DEF StatementInv
<1>9. Rests(w)
  BY Zenon, <1>1, <1>6, <1>7, <1>8 DEF Rests
<1>10. /\ DOMAIN vars = {"database", "schema"} \cup Variables \cup Options /\ vars.schema \in SchemaNames \cup {""}
  BY Zenon DEF StatementInv, RestOK
<1>11. /\ DOMAIN vars' = DOMAIN vars /\ vars'.a = vars.a /\ vars'.b = vars.b
       /\ vars'.schema \in SchemaNames \cup {""}
  <2>1. CASE vars' = vars
    BY Zenon, <1>10, <2>1
  <2>2. CASE cmd.arg.key # "" /\ vars' = [vars EXCEPT ![cmd.arg.key] = cmd.arg.value]
    <3>1. cmd.arg.key = "database" \/ (cmd.arg.key = "schema" /\ cmd.arg.value \in SchemaNames)
      BY Zenon, <1>2, <1>4, <2>2 DEF IsCommand
    <3>2. QED
      BY Zenon, <1>10, <2>2, <3>1 DEF Variables
  <2>3. QED
    BY Zenon, <1>1, <2>1, <2>2
<1>12. TupleInv'
  BY Zenon, <1>2, <1>6, <1>7, <1>11, TupleKept
<1>13. RestOK'
  BY Zenon, <1>1, <1>2, <1>11 DEF StatementInv, RestOK, Lefts
<1>14. QED
  BY Zenon, <1>9, <1>12, <1>13, RestsKeeps

\* A step that registers a store or none.
LEMMA StoreStep ==
    ASSUME StatementInv, NEW w \in Workers, UNCHANGED <<cat, ice, vars, late, staged, menu>>,
           stores' \in [Buckets -> {"none", "catalog", "copy", "stage"}], left' \in Lefts,
           job[w].pc # "set_properties",
           NEW k, Set(w, k), JobOK(k, cat, ice), HoldsNone(k), k.pc # "set_properties"
    PROVE  StatementInv' /\ Rests(w)
<1>1. job' = [job EXCEPT ![w] = k]
  BY Zenon DEF Set
<1>2. Follows(cat, cat')
  BY Zenon, FollowsReflexive DEF StatementInv
<1>3. Rests(w)
  BY Zenon, <1>1, <1>2 DEF Rests
<1>4. TupleInv'
  BY Zenon, <1>1, TupleKept
<1>5. RestOK'
  BY Zenon DEF StatementInv, RestOK, Lefts
<1>6. QED
  BY Zenon, <1>3, <1>4, <1>5, RestsKeeps

\* The end of COPY INTO.
LEMMA CopyKeeps ==
    ASSUME StatementInv, NEW w \in Workers, CopyLoaded(w) \/ CopyRegion(w)
    PROVE  StatementInv' /\ Rests(w)
<1> DEFINE j == job[w]
           found == j.reply.found
           ended == Finished(j, "error")
           asks == Asking(j, "appended", j.obj, Request("append", found.path, found.id))
           waits == [j EXCEPT !.pc = "copy_region"]
<1>1. /\ j.pc \in {"copy_loaded", "copy_region"} /\ j.req = NoRequest /\ left' = left
      /\ UNCHANGED <<cat, ice, vars, late, staged, menu>>
      /\ \E u : stores' \in {stores, [stores EXCEPT ![u] = "copy"]}
  BY Zenon DEF CopyLoaded, CopyRegion, At
<1>2. Core(j, cat, ice) /\ Shape(j) /\ j.cmd.op \in TableOps /\ j.cmd.op \notin CreateOps
  BY Zenon, <1>1, JobAt, OtherPlaces DEF TablePcs, Core
<1>3. stores \in [Buckets -> {"none", "catalog", "copy", "stage"}] /\ left' \in Lefts
  BY Zenon, <1>1 DEF StatementInv, RestOK, Lefts
<1>4. stores' \in [Buckets -> {"none", "catalog", "copy", "stage"}]
  BY Zenon, <1>1, <1>3
<1>5. j.pc = "copy_region" => Found(w)
  BY Zenon, JobAt DEF Local, Found
<1>6. \/ Set(w, ended)
      \/ Found(w) /\ Set(w, asks)
      \/ Found(w) /\ Set(w, waits)
  <2>1. CASE CopyLoaded(w)
    BY Zenon, <2>1 DEF CopyLoaded, ListingTable
  <2>2. CASE CopyRegion(w)
    BY Zenon, <1>5, <2>2 DEF CopyRegion, ListingTable, At
  <2>3. QED
    BY Zenon, <2>1, <2>2
<1>7. ASSUME NEW k, Set(w, k), JobOK(k, cat, ice), HoldsNone(k), k.pc # "set_properties"
      PROVE  StatementInv' /\ Rests(w)
  BY Zenon, <1>1, <1>3, <1>4, <1>7, StoreStep
<1>8. CASE Set(w, ended)
  <2>1. JobOK(ended, cat, ice)
    BY Zenon, <1>2, FinishedOK DEF StatementInv
  <2>2. ended.pc = "idle" /\ ended.req = NoRequest
    BY SMTT(20), <1>2, FinishedFields
  <2>3. HoldsNone(ended) /\ ended.pc # "set_properties"
    BY SMTT(20), <2>2 DEF HoldsNone, NoRequest, Request
  <2>4. QED
    BY Zenon, <1>7, <1>8, <2>1, <2>3
<1>9. CASE Found(w) /\ Set(w, asks)
  <2>1. PlacedAt(j.cmd.op, "appended")
    BY Zenon, <1>2 DEF PlacedAt, CreatePcs, TablePcs
  <2>2. JobOK(asks, cat, ice) /\ Light(asks)
    BY Zenon, <1>1, <1>2, <1>9, <2>1, AppendCalm
  <2>3. HoldsNone(asks) /\ asks.pc # "set_properties"
    BY Zenon, <2>2 DEF HoldsNone, Light
  <2>4. QED
    BY Zenon, <1>7, <1>9, <2>2, <2>3
<1>10. CASE Found(w) /\ Set(w, waits)
  <2>1. Same(waits, j) /\ waits.pc = "copy_region" /\ waits.obj = j.obj /\ waits.req = j.req /\ waits.reply = j.reply
    BY Zenon, <1>2 DEF Same, Shape, IdleJob
  <2> HIDE DEF waits
  <2>2. Core(waits, cat, ice)
    BY Zenon, <1>2, <2>1, AlikeCore
  <2>3. Placed(waits)
    BY Zenon, <1>2, <2>1 DEF Same, Placed, PlacedAt, CreatePcs, TablePcs
  <2>4. Local(waits, cat, ice)
    BY Zenon, <1>1, <1>10, <2>1 DEF Local, Found
  <2>5. HoldsNone(waits) /\ waits.pc # "set_properties"
    BY <1>1, <2>1 DEF HoldsNone, NoRequest, Request
  <2>6. QED
    BY Zenon, <1>7, <1>10, <2>2, <2>3, <2>4, <2>5 DEF JobOK
<1>11. QED
  BY Zenon, <1>6, <1>8, <1>9, <1>10

\* CREATE STAGE registers a store and lists its files,
LEMMA CreateStageKeeps ==
    ASSUME StatementInv, NEW w \in Workers, CreateStage(w)
    PROVE  StatementInv' /\ Rests(w)
<1>1. PICK cmd \in menu :
          /\ Execute(w, cmd, {"create_stage"}) /\ UNCHANGED <<cat, ice, vars, late, staged, menu>>
          /\ stores' \in {stores, [stores EXCEPT ![cmd.arg] = "stage"]}
          /\ \/ Set(w, Finished(Started(w, cmd), "error"))
             \/ Set(w, [Started(w, cmd) EXCEPT !.pc = "stage_read", !.path = default_table_ref(cmd.name)])
  BY Zenon DEF CreateStage
<1>2. cmd.op = "create_stage" /\ job[w].pc = "idle" /\ left' \in Lefts
  BY Zenon, <1>1, LeftKept DEF Execute, StatementInv, RestOK, Lefts
<1>3. cmd.op \notin TableOps /\ cmd.op \notin SchemaOps /\ cmd.op \notin CreateOps
  BY Zenon, <1>2 DEF TableOps, SchemaOps, CreateOps
<1>4. stores' \in [Buckets -> {"none", "catalog", "copy", "stage"}]
  BY Zenon, <1>1 DEF StatementInv, RestOK
<1>5. ASSUME NEW k, Set(w, k), JobOK(k, cat, ice), HoldsNone(k), k.pc # "set_properties"
      PROVE  StatementInv' /\ Rests(w)
  BY Zenon, <1>1, <1>2, <1>4, <1>5, StoreStep
<1>6. CASE Set(w, Finished(Started(w, cmd), "error"))
  <2> DEFINE k == Finished(Started(w, cmd), "error")
  <2>1. JobOK(k, cat, ice) /\ k.pc = "idle" /\ HoldsNone(k)
    BY Zenon, <1>3, PlainEnd
  <2>2. Set(w, k)
    BY Zenon, <1>6
  <2> HIDE DEF k
  <2>3. QED
    BY Zenon, <1>5, <2>1, <2>2
<1>7. CASE Set(w, [Started(w, cmd) EXCEPT !.pc = "stage_read", !.path = default_table_ref(cmd.name)])
  <2> DEFINE p == default_table_ref(cmd.name)
             j == [Started(w, cmd) EXCEPT !.path = p]
             k == [Started(w, cmd) EXCEPT !.pc = "stage_read", !.path = p]
  <2>1. IsCommand(cmd) /\ p \in Paths
    BY Zenon, <1>2, MenuCommand DEF IsCommand
  <2>2. Set(w, k)
    BY Zenon, <1>7
  <2> HIDE DEF p
  <2>3. Core(j, cat, ice) /\ j.cmd = cmd /\ j.path = p /\ j.req = NoRequest
    BY <1>3, <2>1, StartedCore
  <2>4. Same(k, j) /\ k.pc = "stage_read" /\ k.obj = j.obj /\ k.req = j.req /\ k.reply = j.reply
    BY Zenon DEF Same, Started, Shape, IdleJob
  <2> HIDE DEF j, k
  <2>5. Core(k, cat, ice)
    BY Zenon, <2>3, <2>4, AlikeCore
  <2>6. Placed(k) /\ Local(k, cat, ice)
    BY Zenon, <1>2, <1>3, <2>1, <2>3, <2>4 DEF Same, Placed, PlacedAt, CreatePcs, TablePcs, Local
  <2>7. HoldsNone(k) /\ k.pc # "set_properties"
    BY <2>3, <2>4 DEF HoldsNone, NoRequest, Request
  <2>8. QED
    BY Zenon, <1>5, <2>2, <2>5, <2>6, <2>7 DEF JobOK
<1>8. QED
  BY Zenon, <1>1, <1>6, <1>7

\* A stage goes into the cache of its schema, under a name that is remembered.
Stages(w) ==
    /\ UNCHANGED <<ice, late>> /\ Grows(cat, cat')
    /\ \E p \in Paths :
          /\ staged' = staged \cup {p}
          /\ \A q \in 1..Len(cat'.objects), u \in TableNames : Cached(cat', q, u).kind \in {"table", "stage"} =>
                \/ Path(cat', q, u) = p /\ Cached(cat', q, u).kind = "stage"
                \/ q <= Len(cat.objects) /\ Cached(cat', q, u) = Cached(cat, q, u)
    /\ \E j : job' = [job EXCEPT ![w] = j] /\ HoldsNone(j)

\* then puts the stage into the cache of its schema.
LEMMA StageReadKeeps ==
    ASSUME StatementInv, NEW w \in Workers, StageRead(w)
    PROVE  StatementInv' /\ (Rests(w) \/ Stages(w))
<1> DEFINE j == job[w]
           c == schema(cat, j.path[1])
           o == c.cache[j.path[1]]
           t == j.path[2]
           e == [NoEntry EXCEPT !.kind = "stage", !.name = t]
           d == register_table(c, o, t, e)
           k == Finished(j, "ok")
<1>1. j.pc = "stage_read" /\ left' = left
  BY Zenon DEF StageRead, At
<1>2. Core(j, cat, ice) /\ j.path \in Paths /\ Placed(j) /\ Shape(j)
  BY Zenon, <1>1, JobAt DEF Local, Core
<1>3. CatOK(cat) /\ j.path[1] \in SchemaNames /\ t \in TableNames /\ j.path = <<j.path[1], t>>
  BY Zenon, <1>2, PathParts DEF StatementInv
<1>4. left' \in Lefts
  BY Zenon, <1>1 DEF StatementInv, RestOK, Lefts
<1>5. CASE Fails(w, j)
  BY Zenon, <1>1, <1>2, <1>4, <1>5, FailsCalm, UsualStep, CalmRests
<1>6. CASE /\ o # 0 /\ cat' = d /\ staged' = staged \cup {j.path} /\ Set(w, k)
           /\ UNCHANGED <<ice, vars, stores, late, menu>>
  <2>1. Follows(cat, c) /\ o \in 0..Len(c.objects) /\ c.objects[o].name = j.path[1]
    BY Zenon, <1>3, <1>6, SchemaFollows
  <2>2. EntryOK(e) /\ e.kind = "stage"
    BY Zenon, <1>3 DEF EntryOK, Entries, NoEntry
  <2> HIDE DEF c, o, e
  <2>3. CatOK(c) /\ Grows(cat, c) /\ o \in 1..Len(c.objects)
    BY SMTT(20), <1>6, <2>1 DEF Follows, Grows
  <2>4. /\ Grows(c, d) /\ Len(d.objects) = Len(c.objects)
        /\ \A q \in 1..Len(c.objects), u \in TableNames :
              Cached(d, q, u) = IF q = o /\ u = t THEN e ELSE Cached(c, q, u)
    BY SMTT(20), <1>3, <2>2, <2>3, RegisterGrows
  <2> HIDE DEF d
  <2>4a. Grows(cat, d)
    BY Zenon, <1>3, <2>3, <2>4, GrowsTransitive
  <2>5. Grows(cat, d) /\ CatOK(d)
    BY Zenon, <2>4a DEF Grows
  <2>6. Core(j, d, ice)
    BY Zenon, <1>2, <1>3, <2>5, CoreGrows
  <2>7. j.cmd.op \notin CreateOps
    BY Zenon, <1>1, <1>2 DEF Placed, PlacedAt, CreatePcs
  <2>8. JobOK(k, d, ice)
    BY Zenon, <2>5, <2>6, <2>7, FinishedOK
  <2>9. k.pc = "idle" /\ k.req = NoRequest
    BY <1>2, FinishedFields
  <2>10. job' = [job EXCEPT ![w] = k]
    BY Zenon, <1>6 DEF Set
  <2> HIDE DEF k
  <2>11. HoldsNone(k)
    BY <2>9 DEF HoldsNone, NoRequest, Request
  <2>12. TupleInv'
    BY Zenon, <1>1, <1>6, <2>9, <2>10, TupleKept
  <2>13. RestOK'
    BY Zenon, <1>2, <1>4, <1>6 DEF StatementInv, RestOK, Lefts
  <2>14. StatementInv'
    BY Zenon, <1>6, <2>5, <2>8, <2>10, <2>12, <2>13, JobsKept DEF StatementInv
  <2>15. Len(cat.objects) \in Nat /\ Len(c.objects) \in Nat
    BY Zenon, <1>3, <2>3, CatFields
  <2>16. d.objects[o].name = j.path[1]
    BY Zenon, <2>1, <2>3, <2>4 DEF Grows
  <2>17. ASSUME NEW q \in 1..Len(d.objects), NEW u \in TableNames, Cached(d, q, u).kind \in {"table", "stage"}
         PROVE  \/ Path(d, q, u) = j.path /\ Cached(d, q, u).kind = "stage" /\ q = o
                \/ q <= Len(cat.objects) /\ Cached(d, q, u) = Cached(cat, q, u)
    <3>1. CASE q = o /\ u = t
      BY Zenon, <1>3, <2>2, <2>4, <2>16, <3>1 DEF Path
    <3>2. CASE ~(q = o /\ u = t)
      BY Zenon, <2>1, <2>4, <2>17, <3>2 DEF Follows
    <3>3. QED
      BY Zenon, <3>1, <3>2
  <2>18. Stages(w)
    <3>1. \A q \in 1..Len(d.objects), u \in TableNames : Cached(d, q, u).kind \in {"table", "stage"} =>
            \/ Path(d, q, u) = j.path /\ Cached(d, q, u).kind = "stage"
            \/ q <= Len(cat.objects) /\ Cached(d, q, u) = Cached(cat, q, u)
      BY Zenon, <2>17
    <3>2. cat' = d /\ staged' = staged \cup {j.path} /\ UNCHANGED <<ice, late>>
      BY Zenon, <1>6
    <3> HIDE DEF j
    <3>3. \E p \in Paths :
            /\ staged' = staged \cup {p}
            /\ \A q \in 1..Len(cat'.objects), u \in TableNames : Cached(cat', q, u).kind \in {"table", "stage"} =>
                  \/ Path(cat', q, u) = p /\ Cached(cat', q, u).kind = "stage"
                  \/ q <= Len(cat.objects) /\ Cached(cat', q, u) = Cached(cat, q, u)
      BY <1>2, <3>1, <3>2
    <3>4. QED
      BY Zenon, <2>5, <2>10, <2>11, <3>2, <3>3 DEF Stages
  <2>19. QED
    BY Zenon, <2>14, <2>18
<1>7. QED
  BY Zenon, <1>5, <1>6 DEF StageRead

=============================================================================

-------------------------- MODULE StatementsProofs --------------------------
(***************************************************************************)
(* What the statement layer promises, for any number of statements, tables,*)
(* schemas, buckets and faults, from any catalog the process can start with.*)
(*                                                                         *)
(*   - StatementInv is an invariant, and with it TypeOK, TupleSetsAreAtomic,*)
(*     ReadsAreFresh and ListsAreFresh.                                    *)
(*   - COPY INTO looks for a store, asks for the bucket's region, and then *)
(*     registers its own without looking again.  While it waits the bucket's*)
(*     store is not the catalog's (RegionInv): it was not when the statement*)
(*     looked, and nobody makes a store the catalog's afterwards.          *)
(*   - A table has at most one of: an entry in a cache, a statement that has*)
(*     it created and will register it next, a statement that asks for its *)
(*     drop, a drop left behind by an aborted statement (HoldInv).  A drop *)
(*     takes the entry out before it asks, a creation is only agreed to when*)
(*     there is no table, and a table with any of the four is there.  So a *)
(*     cached table exists, and what OR REPLACE answers for is a new one.  *)
(*     This needs that a table is reached under one spelling (EagerInv),   *)
(*     which holds when the process starts with register_iceberg_catalog.  *)
(***************************************************************************)
EXTENDS StatementsSteps

-----------------------------------------------------------------------------
(* Iceberg's answers, failures and aborts *)

\* Steps that leave every statement at its place.
LEMMA TupleSame ==
    ASSUME StatementInv, vars' = vars,
           \A v \in Workers : job'[v].pc = job[v].pc /\ job'[v].todo = job[v].todo /\ job'[v].cmd = job[v].cmd
    PROVE  TupleInv'
<1>1. TupleInv
  BY Zenon DEF StatementInv
<1>2. \A v \in Workers, x \in Variables : NewValue(job'[v], x) = NewValue(job[v], x)
  BY Zenon DEF NewValue
<1>3. TupleSetsAreAtomic'
  BY Zenon, <1>1 DEF TupleInv, TupleSetsAreAtomic, Unlocked
<1>4. \A u, v \in Workers : job'[u].pc = "set_properties" /\ job'[v].pc = "set_properties" => u = v
  BY Zenon, <1>1 DEF TupleInv
<1>5. ASSUME NEW v \in Workers, job'[v].pc = "set_properties"
      PROVE  /\ \A x \in Variables \ job'[v].todo : vars'[x] = NewValue(job'[v], x)
             /\ Variables \subseteq job'[v].todo => vars'.a = vars'.b
  BY <1>1, <1>2, <1>5 DEF TupleInv
<1>6. QED
  BY Zenon, <1>3, <1>4, <1>5 DEF TupleInv

\* The fields of a job that was answered.
LEMMA RepliedFields ==
    ASSUME StatementInv, NEW w \in Workers, NEW ok
    PROVE  LET j == job[w]
               k == Replied(w, ok)
           IN  /\ Same(k, j) /\ k.pc = j.pc /\ k.obj = j.obj /\ k.todo = j.todo /\ k.req = NoRequest
               /\ DOMAIN k.reply = {"ok", "found"} /\ k.reply.ok = ok
               /\ k.reply.found = IF ok /\ j.req.op \in {"load", "create"}
                                  THEN Table(Performed(ice, j.req), j.req.path) ELSE Missing
<1>1. Shape(job[w])
  BY Zenon, JobAt DEF Core
<1>2. QED
  BY Zenon, <1>1 DEF Replied, Same, Shape, IdleJob

\* A request on a table names its path.
LEMMA TableRequest ==
    ASSUME NEW r, ReqOK(r), r.op \in {"load", "create", "drop", "append"}
    PROVE  r \in [op : {"load", "create", "drop", "append"}, path : Paths, id : Nat] /\ r.path \in Paths
<1>1. NoRequest.op = "none"
  BY Zenon DEF NoRequest, Request
<1>2. \A n : Request("create_namespace", <<n>>, 0).op = "create_namespace"
            /\ Request("drop_namespace", <<n>>, 0).op = "drop_namespace"
  BY Zenon DEF Request
<1>3. QED
  BY Zenon, <1>1, <1>2 DEF ReqOK

\* Iceberg agrees to a request or does not.
LEMMA AgreesIsBoolean ==
    ASSUME NEW i, NEW r
    PROVE  Agrees(i, r) \in BOOLEAN
BY Zenon DEF Agrees

\* The job is in order when it was answered.
LEMMA RepliedOK ==
    ASSUME StatementInv, NEW w \in Workers, job[w].req # NoRequest, NEW ok \in BOOLEAN,
           NEW i \in {ice, Performed(ice, job[w].req)},
           ok => i = Performed(ice, job[w].req) /\ Agrees(ice, job[w].req)
    PROVE  Moves(ice, i) /\ JobOK(Replied(w, ok), cat, i)
<1> DEFINE j == job[w]
           r == j.req
           k == Replied(w, ok)
<1>1. /\ Same(k, j) /\ k.pc = j.pc /\ k.obj = j.obj /\ k.todo = j.todo /\ k.req = NoRequest
      /\ DOMAIN k.reply = {"ok", "found"} /\ k.reply.ok = ok
      /\ k.reply.found = IF ok /\ r.op \in {"load", "create"} THEN Table(Performed(ice, r), r.path) ELSE Missing
  BY RepliedFields
<1>2. CatOK(cat) /\ ice \in IcebergStates /\ JobOK(j, cat, ice) /\ ReqOK(r)
  BY Zenon, JobAt DEF StatementInv, Core
<1>3. Moves(ice, i)
  BY Zenon, <1>2, PerformedMoves, MovesReflexive
<1>4. Grows(cat, cat)
  BY Zenon, <1>2, FollowsReflexive DEF Follows
<1>5. JobOK(j, cat, i)
  BY Zenon, <1>2, <1>3, <1>4, JobStays
<1> HIDE DEF k
<1>6. FoundOK(k.reply.found, i, k.floor)
  <2>1. CASE ok /\ r.op \in {"load", "create"}
    <3>1. r.path \in Paths
      BY Zenon, <1>2, <2>1, TableRequest
    <3>2. i \in IcebergStates
      BY Zenon, <1>3 DEF Moves
    <3>3. k.reply.found = Table(i, r.path)
      BY Zenon, <1>1, <2>1
    <3>4. QED
      BY Zenon, <3>1, <3>2, <3>3, TableFound
  <2>2. CASE ~(ok /\ r.op \in {"load", "create"})
    <3>1. NoReply.found = Missing
      BY Zenon DEF NoReply
    <3>2. k.reply.found = Missing
      BY Zenon, <1>1, <2>2
    <3>3. QED
      BY Zenon, <3>1, <3>2, NothingFound
  <2>3. QED
    BY Zenon, <2>1, <2>2
<1>7. Core(k, cat, i)
  <2>1. k.obj \in 0..Len(cat.objects) /\ ReqOK(k.req) /\ Core(j, cat, i)
    BY Zenon, <1>1, <1>5 DEF JobOK, Core, ReqOK
  <2>2. QED
    BY Zenon, <1>1, <1>6, <2>1, CoreSame
<1>8. Placed(k)
  BY Zenon, <1>1, <1>5 DEF JobOK, Placed, Same
<1>9. j.pc = "create_done" /\ ok => Created(k, cat, i)
  <2> SUFFICES ASSUME j.pc = "create_done", ok PROVE Created(k, cat, i)
    BY Zenon
  <2> DEFINE p == Identifier(cat, j.obj, j.path[2])
  <2>1. r = Request("create", p, 0) /\ j.obj # 0 /\ cat.objects[j.obj].name = j.path[1]
    BY Zenon, <1>2 DEF JobOK, Local
  <2>2. r.op = "create" /\ r.path = p
    BY <2>1 DEF Request
  <2>3. i = Effect(ice, r)
    BY Zenon DEF Performed
  <2>4. Effect(ice, r).tables[r.path] = [id |-> ice.next, snap |-> ice.next]
    BY Zenon, <1>2, <2>2, EffectTables
  <2>5. i.tables[p].id = ice.next
    BY SMTT(20), <2>2, <2>3, <2>4
  <2>6. j.floor <= ice.next /\ j.obj \in 0..Len(cat.objects)
    BY Zenon, <1>2 DEF JobOK, Core
  <2>7. NewAt(i, p, j.floor)
    BY Zenon, <1>2, <2>5, <2>6 DEF NewAt, IcebergStates, JobOK, Core
  <2>8. j.obj \in 1..Len(cat.objects)
    BY SMTT(20), <2>1, <2>6
  <2>9. QED
    BY Zenon, <1>1, <2>1, <2>7, <2>8 DEF Created, Same, Identifier
<1>10. Local(k, cat, i)
  <2>1. Local(j, cat, i)
    BY Zenon, <1>5 DEF JobOK
  <2>2. k.cmd = j.cmd /\ k.path = j.path /\ k.floor = j.floor /\ k.answer = j.answer
    BY Zenon, <1>1 DEF Same
  <2>3. Created(j, cat, i) => Created(k, cat, i)
    BY Zenon, <2>2 DEF Created
  <2>4. j.pc # "copy_region"
    BY Zenon, <2>1 DEF Local
  <2>5. QED
    BY Zenon, <1>1, <1>9, <2>1, <2>2, <2>3, <2>4 DEF Local
<1>11. QED
  BY Zenon, <1>3, <1>7, <1>8, <1>10 DEF JobOK, k

\* What others know stays true when Iceberg moves on.
LEMMA IcebergStep ==
    ASSUME StatementInv, cat' = cat, Moves(ice, ice'), DOMAIN job' = Workers,
           \A v \in Workers : job'[v] = job[v] \/ JobOK(job'[v], cat, ice')
    PROVE  /\ CatOK(cat') /\ ice' \in IcebergStates
           /\ DOMAIN job' = Workers /\ \A v \in Workers : JobOK(job'[v], cat', ice')
<1>1. CatOK(cat) /\ ice \in IcebergStates /\ \A v \in Workers : JobOK(job[v], cat, ice)
  BY Zenon DEF StatementInv
<1>2. Grows(cat, cat)
  BY Zenon, <1>1, FollowsReflexive DEF Follows
<1>3. \A v \in Workers : JobOK(job[v], cat, ice')
  BY Zenon, <1>1, <1>2, JobStays
<1>4. QED
  BY Zenon, <1>1, <1>3 DEF Moves

\* Iceberg performs a request and answers, or the answer is lost.
LEMMA RemoteKeeps ==
    ASSUME StatementInv, NEW w \in Workers, Remote(w) \/ RemoteFails(w)
    PROVE  StatementInv'
<1>1. PICK ok \in BOOLEAN :
          /\ job[w].req # NoRequest /\ Set(w, Replied(w, ok))
          /\ ice' \in {ice, Performed(ice, job[w].req)}
          /\ ok => ice' = Performed(ice, job[w].req) /\ Agrees(ice, job[w].req)
          /\ UNCHANGED <<cat, vars, stores, late, staged, menu>>
  BY Zenon, AgreesIsBoolean DEF Remote, RemoteFails
<1>2. left' \in Lefts
  BY Zenon, LeftKept DEF Remote, RemoteFails, StatementInv, RestOK, Lefts
<1> DEFINE k == Replied(w, ok)
<1>3. Moves(ice, ice') /\ JobOK(k, cat, ice')
  BY Zenon, <1>1, RepliedOK
<1>4. k.pc = job[w].pc /\ k.todo = job[w].todo /\ k.cmd = job[w].cmd
  BY RepliedFields DEF Same
<1>5. job' = [job EXCEPT ![w] = k] /\ DOMAIN job = Workers
  BY Zenon, <1>1 DEF Set, StatementInv
<1> HIDE DEF k
<1>6. DOMAIN job' = Workers /\ \A v \in Workers : job'[v] = IF v = w THEN k ELSE job[v]
  BY Zenon, <1>5
<1>7. TupleInv'
  BY Zenon, <1>1, <1>4, <1>6, TupleSame
<1>8. RestOK'
  BY Zenon, <1>1, <1>2 DEF StatementInv, RestOK, Lefts
<1>9. /\ CatOK(cat') /\ ice' \in IcebergStates
      /\ DOMAIN job' = Workers /\ \A v \in Workers : JobOK(job'[v], cat', ice')
  BY Zenon, <1>1, <1>3, <1>6, IcebergStep
<1>10. QED
  BY Zenon, <1>7, <1>8, <1>9 DEF StatementInv

\* A statement is aborted; what it asked of Iceberg may happen late.
LEMMA AbortKeeps ==
    ASSUME StatementInv, NEW w \in Workers, Abort(w)
    PROVE  StatementInv'
<1> DEFINE j == job[w]
           k == Finished(j, "aborted")
<1>1. /\ j.pc # "set_properties" /\ late' \in {late, late \cup {j.req}} /\ job' = [job EXCEPT ![w] = k]
      /\ UNCHANGED <<cat, ice, vars, stores, staged, menu>>
  BY Zenon DEF Abort, Set
<1>2. left' \in Lefts
  BY Zenon, LeftKept DEF Abort, StatementInv, RestOK, Lefts
<1>3. Core(j, cat, ice) /\ Shape(j) /\ ReqOK(j.req) /\ CatOK(cat)
  BY Zenon, JobAt DEF Core, StatementInv
<1>4. JobOK(k, cat, ice)
  BY Zenon, <1>3, FinishedOK
<1>5. k.pc = "idle"
  BY <1>3, FinishedFields
<1> HIDE DEF k
<1>6. TupleInv'
  BY Zenon, <1>1, <1>5, TupleKept
<1>7. RestOK'
  BY Zenon, <1>1, <1>2, <1>3 DEF StatementInv, RestOK, Lefts
<1>8. Grows(cat, cat')
  BY Zenon, <1>1, <1>3, FollowsReflexive DEF Follows
<1>9. /\ CatOK(cat') /\ ice' \in IcebergStates
      /\ DOMAIN job' = Workers /\ \A v \in Workers : JobOK(job'[v], cat', ice')
  BY Zenon, <1>1, <1>4, <1>8, JobsKept
<1>10. QED
  BY Zenon, <1>6, <1>7, <1>9 DEF StatementInv

\* A request of an aborted statement happens, or someone else writes.
LEMMA OutsideKeeps ==
    ASSUME StatementInv, LateEffect \/ OutsideWrite
    PROVE  StatementInv'
<1>1. ice \in IcebergStates /\ left \in Lefts /\ (\A r \in late : ReqOK(r)) /\ DOMAIN job = Workers
  BY Zenon DEF StatementInv, RestOK, Lefts
<1>2. /\ UNCHANGED <<cat, job, vars, stores, staged, menu>> /\ Moves(ice, ice') /\ late' \subseteq late /\ left' \in Lefts
  <2>1. CASE LateEffect
    <3>1. PICK r \in late :
              /\ ice' = Performed(ice, r) /\ late' = late \ {r}
              /\ UNCHANGED <<cat, job, vars, stores, staged, menu, left>>
      BY Zenon, <2>1 DEF LateEffect
    <3>2. QED
      BY Zenon, <1>1, <3>1, PerformedMoves
  <2>2. CASE OutsideWrite
    <3>1. PICK p \in Paths :
              /\ left.writes > 0 /\ left' = [left EXCEPT !.writes = @ - 1]
              /\ ice' = Effect(ice, Request("append", p, ice.tables[p].id))
              /\ UNCHANGED <<cat, job, vars, stores, late, staged, menu>>
      BY Zenon, <2>2 DEF OutsideWrite
    <3>2. ice.tables[p].id \in Nat
      BY Zenon, <1>1 DEF IcebergStates
    <3>3. ReqOK(Request("append", p, ice.tables[p].id))
      BY Zenon, <3>2 DEF ReqOK, Request
    <3>4. Moves(ice, ice')
      BY Zenon, <1>1, <3>1, <3>3, EffectTables
    <3>5. left' \in Lefts
      BY Zenon, <1>1, <3>1, LeftKept
    <3>6. QED
      BY Zenon, <3>1, <3>4, <3>5
  <2>3. QED
    BY Zenon, <2>1, <2>2
<1>3. TupleInv'
  BY Zenon, <1>2, TupleSame
<1>4. RestOK'
  BY Zenon, <1>1, <1>2 DEF StatementInv, RestOK, Lefts
<1>5. /\ CatOK(cat') /\ ice' \in IcebergStates
      /\ DOMAIN job' = Workers /\ \A v \in Workers : JobOK(job'[v], cat', ice')
  BY Zenon, <1>1, <1>2, IcebergStep
<1>6. QED
  BY Zenon, <1>3, <1>4, <1>5 DEF StatementInv

-----------------------------------------------------------------------------
(* The catalogs a process starts with *)

\* register_iceberg_catalog starts with no schema object.
LEMMA EagerStart ==
    ASSUME NEW i \in IcebergStates
    PROVE  CatOK(register_iceberg_catalog(i)) /\ register_iceberg_catalog(i).objects = <<>>
<1> DEFINE c == register_iceberg_catalog(i)
<1>1. /\ c.catalogs = {Database} /\ c.schemas = i.namespaces /\ c.tables = {p \in Paths : i.tables[p].id # 0}
      /\ c.cache = [n \in SchemaNames |-> 0] /\ c.objects = <<>>
      /\ DOMAIN c = {"catalogs", "schemas", "tables", "cache", "objects"}
  BY Zenon DEF register_iceberg_catalog, NoCatalog
<1>2. i.namespaces \subseteq SchemaNames
  BY Zenon DEF IcebergStates
<1>3. c \in CatalogStates
  <2> DEFINE zero == [n \in SchemaNames |-> 0]
             there == {p \in Paths : i.tables[p].id # 0}
  <2>1. zero \in [SchemaNames -> Nat] /\ there \in SUBSET Paths /\ <<>> \in Seq(SchemaObjects)
    OBVIOUS
  <2>2. NoCatalog = [catalogs |-> {}, schemas |-> {}, tables |-> {}, cache |-> zero, objects |-> <<>>]
    BY Zenon DEF NoCatalog
  <2>3. c = [NoCatalog EXCEPT !.catalogs = {Database}, !.schemas = i.namespaces, !.tables = there]
    BY Zenon DEF register_iceberg_catalog
  <2> HIDE DEF zero, there, c
  <2>4. NoCatalog \in CatalogStates
    BY Zenon, <2>1, <2>2 DEF CatalogStates, SchemaObjects
  <2>5. ASSUME NEW d \in CatalogStates, NEW x \in SUBSET {Database}, NEW y \in SUBSET SchemaNames, NEW z \in SUBSET Paths
        PROVE  [d EXCEPT !.catalogs = x, !.schemas = y, !.tables = z] \in CatalogStates
    BY Zenon DEF CatalogStates
  <2>6. QED
    BY Zenon, <1>2, <2>1, <2>3, <2>4, <2>5
<1> HIDE DEF c
<1>4. Len(c.objects) = 0
  BY <1>1
<1>5. CatOK(c)
  BY <1>1, <1>3, <1>4 DEF CatOK
<1>6. QED
  BY Zenon, <1>1, <1>5 DEF c

\* register_iceberg_catalog_lazy starts with objects for the names it was given.
LEMMA LazyStart ==
    ASSUME NEW i \in IcebergStates, NEW schemas \in SUBSET SchemaNames, NEW path \in Paths
    PROVE  CatOK(register_iceberg_catalog_lazy(i, schemas, path))
<1> DEFINE aliases == case_aliases(path[1])
           cache == [n \in SchemaNames |-> IF n \in Range(aliases)
                                           THEN CHOOSE k \in 1..Len(aliases) : aliases[k] = n ELSE 0]
           objs == [k \in 1..Len(aliases) |-> bootstrap_caching_schema(i, aliases[k], path)]
           c == register_iceberg_catalog_lazy(i, schemas, path)
<1>1. path[1] \in SchemaNames /\ path[2] \in TableNames
  BY Zenon, PathParts
<1>2. aliases \in Seq(SchemaNames)
  BY <1>1, NamesAssumption DEF case_aliases
<1>3. c = [catalogs |-> {Database}, schemas |-> schemas \cup Range(aliases), tables |-> {path},
           cache |-> cache, objects |-> objs]
  BY Zenon DEF register_iceberg_catalog_lazy
<1> HIDE DEF aliases
<1>4. Len(aliases) \in Nat /\ Range(aliases) = {aliases[k] : k \in 1..Len(aliases)}
  BY <1>2 DEF Range
<1>9. \A n \in SchemaNames : /\ cache[n] \in 0..Len(aliases)
                             /\ cache[n] # 0 => aliases[cache[n]] = n
  BY <1>4
<1>10. \A k \in 1..Len(aliases) : aliases[k] \in SchemaNames
  BY <1>2
<1>11. ASSUME NEW alias \in SchemaNames
       PROVE  LET o == bootstrap_caching_schema(i, alias, path)
              IN  /\ o \in SchemaObjects /\ o.name = alias
                  /\ \A t \in TableNames : EntryOK(o.tables[t])
  <2> DEFINE e == [NoEntry EXCEPT !.kind = "table", !.name = path[2], !.seen = i.tables[path].snap]
             tables == [t \in TableNames |-> IF t \in Range(case_aliases(path[2])) THEN e ELSE NoEntry]
             o == bootstrap_caching_schema(i, alias, path)
  <2>1. i.tables[path].snap \in Nat
    BY Zenon DEF IcebergStates
  <2>2. EntryOK(e)
    BY Zenon, <1>1, <2>1 DEF EntryOK, Entries, NoEntry
  <2>3. o = [name |-> alias, namespace |-> path[1], tables |-> tables]
    BY Zenon DEF bootstrap_caching_schema
  <2> HIDE DEF e, o
  <2>4. \A t \in TableNames : EntryOK(tables[t])
    BY Zenon, <2>2, NoEntryOK
  <2>5. tables \in [TableNames -> Entries]
    BY Zenon, <2>2, NoEntryOK DEF EntryOK
  <2> HIDE DEF tables
  <2>6. QED
    BY <1>1, <2>3, <2>4, <2>5 DEF SchemaObjects, o
<1>12. /\ objs \in Seq(SchemaObjects) /\ Len(objs) = Len(aliases)
       /\ \A k \in 1..Len(aliases) : objs[k].name = aliases[k] /\ \A t \in TableNames : EntryOK(objs[k].tables[t])
  <2>1. \A k \in 1..Len(aliases) : /\ objs[k] \in SchemaObjects /\ objs[k].name = aliases[k]
                                   /\ \A t \in TableNames : EntryOK(objs[k].tables[t])
    BY Zenon, <1>10, <1>11
  <2>2. objs \in [1..Len(aliases) -> SchemaObjects] /\ Len(aliases) \in Nat
    BY Zenon, <1>4, <2>1
  <2> HIDE DEF objs
  <2>3. QED
    BY <2>1, <2>2
<1> HIDE DEF objs, cache
<1>13. cache \in [SchemaNames -> Nat]
  BY <1>9 DEF cache
<1>14. c \in CatalogStates
  BY <1>3, <1>4, <1>10, <1>12, <1>13 DEF CatalogStates, SchemaObjects
<1>15. c.objects = objs /\ c.cache = cache
  BY <1>3
<1> HIDE DEF c
<1>16. QED
  BY <1>9, <1>12, <1>14, <1>15 DEF CatOK, c

\* The invariant holds when the process starts.
LEMMA InitInvariant == Init => StatementInv
<1> SUFFICES ASSUME Init PROVE StatementInv
  BY Zenon
<1>1. PICK start \in Starts : cat = start.cat /\ ice = start.ice
  BY Zenon DEF Init
<1>2. ice \in IcebergStates /\ CatOK(cat)
  BY Zenon, <1>1, StartsAssumption, EagerStart, LazyStart
<1>3. \A w \in Workers : job[w] = IdleJob
  BY Zenon DEF Init
<1>4. JobOK(IdleJob, cat, ice)
  <2>1. /\ IdleJob.pc = "idle" /\ IdleJob.cmd = NoCommand /\ IdleJob.obj = 0 /\ IdleJob.req = NoRequest
        /\ IdleJob.reply = NoReply /\ IdleJob.listed = {} /\ IdleJob.floor = 0 /\ IdleJob.answer = "none"
        /\ Shape(IdleJob)
    BY Zenon DEF IdleJob, Shape
  <2>2. IsCommand(NoCommand) /\ NoCommand.op \notin TableOps /\ NoCommand.op \notin SchemaOps /\ NoCommand.op \notin CreateOps
    BY Zenon DEF IsCommand, NoCommand, TableOps, SchemaOps, CreateOps
  <2>3. ReqOK(NoRequest) /\ 0 \in 0..Len(cat.objects) /\ ice.next \in Nat /\ 0 <= ice.next
    BY <1>2, CatFields DEF ReqOK, IcebergStates
  <2>4. DOMAIN NoReply = {"ok", "found"} /\ NoReply.ok \in BOOLEAN /\ FoundOK(NoReply.found, ice, 0)
    BY Zenon, NothingFound
  <2>5. Core(IdleJob, cat, ice)
    BY SMTT(20), <2>1, <2>2, <2>3, <2>4 DEF Core
  <2>6. Placed(IdleJob) /\ Local(IdleJob, cat, ice)
    BY Zenon, <2>1, <2>2 DEF Placed, PlacedAt, CreatePcs, TablePcs, Local
  <2>7. QED
    BY Zenon, <2>5, <2>6 DEF JobOK
<1>5. DOMAIN job = Workers /\ \A w \in Workers : JobOK(job[w], cat, ice)
  BY Zenon, <1>3, <1>4 DEF Init
<1>6. RestOK
  <2>1. DOMAIN vars = {"database", "schema"} \cup Variables \cup Options /\ vars.schema = ""
    BY DEF Init, Variables, Options
  <2>2. left \in [statements : 0..MaxStatements, faults : 0..MaxFaults, writes : 0..MaxWrites]
    <3>1. MaxStatements \in 0..MaxStatements /\ MaxFaults \in 0..MaxFaults /\ MaxWrites \in 0..MaxWrites
      BY BoundsAssumption
    <3>2. left = [statements |-> MaxStatements, faults |-> MaxFaults, writes |-> MaxWrites]
      BY Zenon DEF Init
    <3>3. QED
      BY Zenon, <3>1, <3>2
  <2>3. stores \in [Buckets -> {"none", "catalog", "copy", "stage"}]
    BY Zenon DEF Init
  <2>4. late = {} /\ staged = {} /\ menu \in Menus
    BY Zenon DEF Init
  <2>5. QED
    BY Zenon, <2>1, <2>2, <2>3, <2>4 DEF RestOK
<1>7. TupleInv
  <2>1. \A w \in Workers : job[w].pc # "set_properties"
    BY <1>3 DEF IdleJob
  <2>2. vars.a = vars.b
    BY Zenon DEF Init
  <2>3. QED
    BY Zenon, <2>1, <2>2 DEF TupleInv, TupleSetsAreAtomic
<1>8. QED
  BY Zenon, <1>2, <1>5, <1>6, <1>7 DEF StatementInv

-----------------------------------------------------------------------------
(* Theorems *)

\* Each step of a statement keeps the invariant, and is of one of these kinds.
Kinds(w) == Rests(w) \/ Takes(w) \/ Makes(w) \/ Stages(w)

\* It registers no store, and does not come to wait for the region of a bucket.
Quiet(w) == stores' = stores /\ job'[w].pc # "copy_region"

\* The usual steps are quiet.
LEMMA UsualQuiet ==
    ASSUME StatementInv, NEW w \in Workers, Calm(w) \/ Takes(w) \/ Makes(w)
    PROVE  Quiet(w)
<1>1. DOMAIN job = Workers /\ stores' = stores
  BY Zenon DEF StatementInv, Calm, Takes, Makes
<1>2. CASE Calm(w) \/ Makes(w)
  <2>1. PICK j : job' = [job EXCEPT ![w] = j] /\ Light(j)
    BY Zenon, <1>2 DEF Calm, Makes
  <2>2. QED
    BY Zenon, <1>1, <2>1 DEF Quiet, Light
<1>3. CASE Takes(w)
  <2>1. PICK j : \E p : job' = [job EXCEPT ![w] = j] /\ JobOK(j, cat', ice) /\ j.req = Request("drop", p, 0)
    BY Zenon, <1>3 DEF Takes
  <2>2. j.req # NoRequest
    BY <2>1 DEF NoRequest, Request
  <2>3. QED
    BY Zenon, <1>1, <2>1, <2>2 DEF Quiet, JobOK, Local
<1>4. QED
  BY Zenon, <1>2, <1>3

\* The steps of DDL statements,
LEMMA DdlKeeps ==
    ASSUME StatementInv, NEW w \in Workers, Ddl(w)
    PROVE  StatementInv' /\ Kinds(w) /\ Quiet(w)
<1>1. job[w].pc # "set_properties" /\ left' \in Lefts
  <2>1. left \in Lefts
    BY Zenon DEF StatementInv, RestOK, Lefts
  <2>2. (\E cmd, ops : Execute(w, cmd, ops)) \/ (\E pc : pc # "set_properties" /\ At(w, pc))
    <3>1. CASE CreateTable(w) \/ Truncate(w) \/ DropTableOrView(w) \/ DropSchema(w) \/ DropDatabase(w)
      BY Zenon, <3>1 DEF CreateTable, Truncate, DropTableOrView, DropSchema, DropDatabase
    <3>2. CASE CreateSchema(w) \/ CreateView(w) \/ AlterTable(w)
      BY Zenon, <3>2 DEF CreateSchema, CreateView, AlterTable
    <3>3. CASE CreateSource(w) \/ CreatePlanned(w) \/ CreateDropped(w) \/ CreateDone(w) \/ CreateTarget(w)
      BY Zenon, <3>3 DEF CreateSource, CreatePlanned, CreateDropped, CreateDone, CreateTarget
    <3>4. CASE DropChecked(w) \/ DropDone(w) \/ ViewFound(w) \/ SchemaDropped(w) \/ SchemaCreated(w)
      BY Zenon, <3>4 DEF DropChecked, DropDone, ViewFound, SchemaDropped, SchemaCreated
    <3>5. CASE ViewPlanned(w) \/ ViewTarget(w) \/ AlterChecked(w)
      BY Zenon, <3>5 DEF ViewPlanned, ViewTarget, AlterChecked
    <3>6. QED
      BY Zenon, <3>1, <3>2, <3>3, <3>4, <3>5 DEF Ddl
  <2>3. QED
    BY Zenon, <2>1, <2>2, LeftKept DEF Execute, At
<1>2. Calm(w) \/ Takes(w) \/ Makes(w)
  BY Zenon, CreateTableCalm, TruncateCalm, CreateSourceCalm, CreatePlannedStep, CreateDroppedCalm, CreateDoneStep,
     CreateTargetCalm, DropTableOrViewStep, DropCheckedStep, DropDoneCalm, DropSchemaCalm, SchemaDoneCalm,
     DropDatabaseCalm, CreateSchemaCalm, CreateViewCalm, ViewPlannedCalm, ViewTargetCalm, AlterCalm,
     AlterCheckedCalm DEF Ddl
<1>3. QED
  BY Zenon, <1>1, <1>2, UsualStep, UsualQuiet, CalmRests DEF Kinds

\* of queries,
LEMMA QueriesKeep ==
    ASSUME StatementInv, NEW w \in Workers, Queries(w)
    PROVE  StatementInv' /\ Kinds(w) /\ Quiet(w)
<1>1. job[w].pc # "set_properties" /\ left' \in Lefts
  <2>1. left \in Lefts
    BY Zenon DEF StatementInv, RestOK, Lefts
  <2>2. \/ \E cmd, ops : Execute(w, cmd, ops)
        \/ \E pc : pc # "set_properties" /\ At(w, pc)
        \/ /\ job[w].pc # "set_properties"
           /\ left' = left \/ (left.faults > 0 /\ left' = [left EXCEPT !.faults = @ - 1])
    <3>1. CASE Select(w) \/ Show(w) \/ DescribeTable(w) \/ ShowSchemas(w) \/ StatusOnly(w) \/ NotSupported(w)
      BY Zenon, <3>1 DEF Select, Show, DescribeTable, ShowSchemas, StatusOnly, NotSupported
    <3>2. CASE PivotPlanned(w) \/ SelectPlanned(w) \/ Appended(w) \/ MakeTables(w) \/ MakeSchemata(w)
      BY Zenon, <3>2 DEF PivotPlanned, SelectPlanned, Appended, MakeTables, MakeSchemata
    <3>3. CASE Fetch(w)
      BY Zenon, <3>3 DEF Fetch
    <3>4. QED
      BY Zenon, <3>1, <3>2, <3>3 DEF Queries
  <2>3. QED
    BY Zenon, <2>1, <2>2, LeftKept DEF Execute, At
<1>2. Calm(w)
  BY Zenon, SelectCalm, PivotPlannedCalm, SelectPlannedCalm, AppendedCalm, ShowCalm, MakeTablesCalm, FetchCalm,
     ShowSchemasCalm, MakeSchemataCalm, DropDatabaseCalm DEF Queries
<1>3. QED
  BY Zenon, <1>1, <1>2, UsualStep, UsualQuiet, CalmRests DEF Kinds

\* and of settings, COPY INTO and stages.
LEMMA SettingsKeep ==
    ASSUME StatementInv, NEW w \in Workers, Settings(w)
    PROVE  StatementInv' /\ Kinds(w)
<1>1. CASE SetTuple(w) \/ CopyInto(w)
  <2>1. Calm(w)
    BY Zenon, <1>1, SetTupleCalm, CopyIntoCalm
  <2>2. \E cmd, ops : Execute(w, cmd, ops)
    BY Zenon, <1>1 DEF SetTuple, CopyInto
  <2>3. job[w].pc # "set_properties" /\ left' \in Lefts
    BY Zenon, <2>2, LeftKept DEF Execute, StatementInv, RestOK, Lefts
  <2>4. QED
    BY Zenon, <2>1, <2>3, UsualStep, CalmRests DEF Kinds
<1>2. CASE SetValues(w) \/ AlterSessionUnset(w) \/ SetProperties(w) \/ UseStatement(w)
  BY Zenon, <1>2, SetValuesKeeps, UnsetKeeps, SetPropertiesKeeps, UseKeeps DEF Kinds
<1>3. CASE CopyLoaded(w) \/ CopyRegion(w) \/ CreateStage(w) \/ StageRead(w)
  BY Zenon, <1>3, CopyKeeps, CreateStageKeeps, StageReadKeeps DEF Kinds
<1>4. QED
  BY Zenon, <1>1, <1>2, <1>3 DEF Settings

\* A step that changes nothing.
LEMMA StutterKeeps == StatementInv /\ UNCHANGED allvars => StatementInv'
<1> SUFFICES ASSUME StatementInv, UNCHANGED allvars PROVE StatementInv'
  BY Zenon
<1>1. /\ cat' = cat /\ ice' = ice /\ job' = job /\ vars' = vars /\ stores' = stores /\ late' = late
      /\ staged' = staged /\ menu' = menu /\ left' = left
  BY Zenon DEF allvars
<1>2. TupleInv'
  BY Zenon, <1>1, TupleSame
<1>3. RestOK'
  BY Zenon, <1>1 DEF StatementInv, RestOK
<1>4. QED
  BY Zenon, <1>1, <1>2, <1>3 DEF StatementInv

\* Every step keeps the inductive invariant.
LEMMA NextKeeps == StatementInv /\ [Next]_allvars => StatementInv'
<1> SUFFICES ASSUME StatementInv, [Next]_allvars PROVE StatementInv'
  BY Zenon
<1>1. CASE UNCHANGED allvars
  BY Zenon, <1>1, StutterKeeps
<1>2. ASSUME NEW w \in Workers, Ddl(w) \/ Queries(w) \/ Settings(w) \/ Remote(w) \/ RemoteFails(w) \/ Abort(w)
      PROVE  StatementInv'
  BY Zenon, <1>2, DdlKeeps, QueriesKeep, SettingsKeep, RemoteKeeps, AbortKeeps
<1>3. CASE LateEffect \/ OutsideWrite
  BY Zenon, <1>3, OutsideKeeps
<1>4. QED
  BY Zenon, <1>1, <1>2, <1>3 DEF Next

\* For any statements, in any interleaving, with any faults: the inductive invariant holds.
THEOREM StatementInvariant == Spec => []StatementInv
<1>1. Init => StatementInv
  BY Zenon, InitInvariant
<1>2. StatementInv /\ [Next]_allvars => StatementInv'
  BY Zenon, NextKeeps
<1>3. QED
  BY <1>1, <1>2, PTL DEF Spec

\* Type correctness, for any number of workers, names, stores and faults.
THEOREM TypeCorrect == Spec => []TypeOK
<1>1. StatementInv => TypeOK
  BY Zenon DEF StatementInv, TypeOK, JobOK, Core, CatOK, RestOK
<1>2. QED
  BY <1>1, StatementInvariant, PTL

\* A tuple assignment is never seen half done: the lock that set_session_variable
\* holds while it sets the keys one by one is enough, with UNSET and USE around it.
THEOREM TuplesAtomic == Spec => []TupleSetsAreAtomic
<1>1. StatementInv => TupleSetsAreAtomic
  BY Zenon DEF StatementInv, TupleInv
<1>2. QED
  BY <1>1, StatementInvariant, PTL

\* A SELECT answers from the snapshot that was current when it began or from a
\* later one, whichever caches, views and other writers there are: of a table
\* not written since, it has read the current snapshot.
THEOREM ReadsFresh == Spec => []ReadsAreFresh
<1>1. StatementInv => ReadsAreFresh
  <2> SUFFICES ASSUME StatementInv, NEW w \in Workers, Answered(w, {"select"}), NEW f \in job[w].listed,
                      ice.tables[f.path].id # 0, ice.tables[f.path].snap < job[w].floor
               PROVE  f.id = ice.tables[f.path].id /\ f.snap = ice.tables[f.path].snap
    BY Zenon DEF ReadsAreFresh
  <2>1. /\ FoundOK(f, ice, job[w].floor) /\ (f.view \/ f.id # 0) /\ ~f.view
        /\ job[w].floor \in Nat
    BY Zenon, JobAt DEF Core, Answered
  <2>2. f.path \in Paths /\ ice \in IcebergStates
    BY Zenon, <2>1 DEF FoundOK, StatementInv
  <2>3. ice.tables[f.path].snap \in Nat
    BY Zenon, <2>2 DEF IcebergStates
  <2>4. ice.tables[f.path] = [id |-> f.id, snap |-> f.snap]
    BY SMTT(20), <2>1, <2>3 DEF FoundOK
  <2>5. QED
    BY <2>4
<1>2. QED
  BY <1>1, StatementInvariant, PTL

\* With Iceberg unchanged since the statement began, SHOW and DESCRIBE list no
\* table that is not there, however far the mirror and the caches have drifted.
THEOREM ListsFresh == Spec => []ListsAreFresh
<1>1. StatementInv => ListsAreFresh
  <2> SUFFICES ASSUME StatementInv, NEW w \in Workers, ice.next = job[w].floor, NEW f \in job[w].listed, ~f.view
               PROVE  f.id # 0 /\ ice.tables[f.path].id = f.id
    BY Zenon DEF ListsAreFresh
  <2>1. FoundOK(f, ice, job[w].floor) /\ f.id # 0 /\ job[w].floor \in Nat
    BY Zenon, JobAt DEF Core
  <2>2. ice.tables[f.path] = [id |-> f.id, snap |-> f.snap]
    BY <2>1 DEF FoundOK
  <2>3. QED
    BY <2>1, <2>2
<1>2. QED
  BY <1>1, StatementInvariant, PTL

-----------------------------------------------------------------------------
(* The object stores *)

\* No statement is about to register a store in the place of the catalog's.
RegionInv ==
    \A w \in Workers, u \in Buckets :
        job[w].pc = "copy_region" /\ stores[u] = "catalog" => u # job[w].cmd.arg

\* Only COPY INTO comes to wait for a region, where there is no store, and only
\* it and CREATE STAGE register one.
LEMMA SettingsStores ==
    ASSUME StatementInv, NEW w \in Workers, Settings(w)
    PROVE  Quiet(w) \/ CopyLoaded(w) \/ CopyRegion(w) \/ CreateStage(w)
<1> DEFINE j == job[w]
<1>1. DOMAIN job = Workers /\ Shape(j)
  BY Zenon, JobAt DEF StatementInv, Core
<1>2. ASSUME NEW k, NEW answer, Shape(k), Set(w, Finished(k, answer)), stores' = stores
      PROVE  Quiet(w)
  BY Zenon, <1>1, <1>2, FinishedFields DEF Set, Quiet
<1>3. ASSUME NEW k, Shape(k), Fails(w, k) \/ Succeeds(w, k)
      PROVE  Quiet(w)
  BY Zenon, <1>2, <1>3 DEF Fails, Succeeds, End
<1>4. \A cmd : Shape(Started(w, cmd))
  BY Zenon DEF Started, Shape, IdleJob
<1>5. CASE SetTuple(w) \/ CopyInto(w)
  BY Zenon, <1>5, SetTupleCalm, CopyIntoCalm, UsualQuiet
<1>6. CASE SetValues(w)
  <2>1. [j EXCEPT !.pc = "set_properties"].pc # "copy_region"
    BY Zenon, <1>1 DEF Shape, IdleJob
  <2>2. QED
    BY Zenon, <1>1, <1>3, <1>6, <2>1 DEF SetValues, Go, Set, Quiet
<1>7. CASE AlterSessionUnset(w)
  <2>1. PICK cmd, x : Go(w, cat, [Started(w, cmd) EXCEPT !.pc = "set_properties", !.todo = x])
    BY Zenon, <1>7 DEF AlterSessionUnset
  <2>2. [Started(w, cmd) EXCEPT !.pc = "set_properties", !.todo = x].pc # "copy_region"
    BY Zenon, <1>4 DEF Shape, IdleJob
  <2>3. QED
    BY Zenon, <1>1, <2>1, <2>2 DEF Go, Set, Quiet
<1>8. CASE SetProperties(w)
  <2>1. j.pc = "set_properties"
    BY Zenon, <1>8 DEF SetProperties, At
  <2>2. \A k : [j EXCEPT !.todo = @ \ {k}].pc # "copy_region"
    BY Zenon, <1>1, <2>1 DEF Shape, IdleJob
  <2>3. Succeeds(w, j) \/ Fails(w, j) \/ \E k : Set(w, [j EXCEPT !.todo = @ \ {k}]) /\ stores' = stores
    BY Zenon, <1>8 DEF SetProperties, SetKey
  <2>4. QED
    BY Zenon, <1>1, <1>3, <2>2, <2>3 DEF Set, Quiet
<1>9. CASE UseStatement(w)
  BY Zenon, <1>2, <1>4, <1>9 DEF UseStatement
<1>10. CASE StageRead(w)
  BY Zenon, <1>1, <1>2, <1>3, <1>10 DEF StageRead
<1>11. QED
  BY Zenon, <1>5, <1>6, <1>7, <1>8, <1>9, <1>10 DEF Settings

\* A step keeps RegionInv, and the store it takes the place of, if any, becomes a
\* stage's when it was the catalog's.
LEMMA RegionNext ==
    ASSUME StatementInv, RegionInv, [Next]_allvars
    PROVE  RegionInv' /\ \A u \in Buckets : stores[u] = "catalog" => stores'[u] \in {"catalog", "stage"}
<1> DEFINE Goal == /\ RegionInv'
                   /\ \A u \in Buckets : stores[u] = "catalog" => stores'[u] \in {"catalog", "stage"}
           Stored == \A u \in Buckets : stores'[u] \in {stores[u], "stage", "copy"}
                                       /\ (stores'[u] = "copy" => stores[u] # "catalog")
           Waits(w, j) == \/ j.pc # "copy_region"
                          \/ j.pc = job[w].pc /\ j.cmd = job[w].cmd
                          \/ stores' = stores /\ stores[j.cmd.arg] # "catalog"
<1>1. DOMAIN job = Workers /\ DOMAIN stores = Buckets /\ \A w \in Workers : Shape(job[w])
  BY Zenon, JobAt DEF StatementInv, RestOK, Core
<1>2. ASSUME NEW w \in Workers, NEW j, job' = [job EXCEPT ![w] = j], Stored, Waits(w, j)
      PROVE  Goal
  <2>1. \A v \in Workers : job'[v] = IF v = w THEN j ELSE job[v]
    BY Zenon, <1>1, <1>2
  <2>2. \A u \in Buckets : stores'[u] = "catalog" => stores[u] = "catalog"
    BY Zenon, <1>2
  <2>3. RegionInv'
    BY <1>2, <2>1, <2>2 DEF RegionInv
  <2>4. QED
    BY Zenon, <1>2, <2>3
<1>0. stores' = stores => Stored
  BY Zenon
<1> HIDE DEF Goal, Stored, Waits
<1>3. ASSUME NEW w \in Workers, Kinds(w), Quiet(w)
      PROVE  Goal
  <2>1. PICK j : job' = [job EXCEPT ![w] = j]
    BY Zenon, <1>3 DEF Kinds, Rests, Takes, Makes, Stages
  <2>2. Stored /\ Waits(w, j)
    BY Zenon, <1>0, <1>1, <1>3, <2>1 DEF Quiet, Waits
  <2>3. QED
    BY Zenon, <1>2, <2>1, <2>2
<1>4. ASSUME NEW w \in Workers, NEW k, Set(w, k), stores' = stores,
             k.pc # "copy_region" \/ (k.pc = job[w].pc /\ k.cmd = job[w].cmd)
      PROVE  Goal
  <2>1. Stored /\ Waits(w, k)
    BY Zenon, <1>0, <1>4 DEF Waits
  <2>2. QED
    BY Zenon, <1>2, <1>4, <2>1 DEF Set
<1>5. ASSUME NEW w \in Workers, CopyLoaded(w)
      PROVE  Goal
  <2> DEFINE j == job[w]
             waits == [j EXCEPT !.pc = "copy_region"]
             asks == Asking(j, "appended", j.obj, Request("append", j.reply.found.path, j.reply.found.id))
  <2>1. waits.pc = "copy_region" /\ waits.cmd = j.cmd /\ asks.pc = "appended" /\ Finished(j, "error").pc = "idle"
    BY <1>1, AskingFields, FinishedFields DEF Shape, IdleJob
  <2>2. /\ stores' = stores
        /\ \/ Set(w, Finished(j, "error")) \/ Set(w, asks)
           \/ Set(w, waits) /\ stores[j.cmd.arg] = "none"
    BY Zenon, <1>5 DEF CopyLoaded, ListingTable
  <2> HIDE DEF waits, asks
  <2>3. CASE Set(w, Finished(j, "error")) \/ Set(w, asks)
    BY Zenon, <1>4, <2>1, <2>2, <2>3
  <2>4. CASE Set(w, waits) /\ stores[j.cmd.arg] = "none"
    <3>1. Stored /\ Waits(w, waits)
      BY Zenon, <1>0, <2>1, <2>2, <2>4 DEF Waits
    <3>2. QED
      BY Zenon, <1>2, <2>4, <3>1 DEF Set
  <2>5. QED
    BY Zenon, <2>2, <2>3, <2>4
<1>6. ASSUME NEW w \in Workers, CopyRegion(w)
      PROVE  Goal
  <2> DEFINE j == job[w]
             asks == Asking(j, "appended", j.obj, Request("append", j.reply.found.path, j.reply.found.id))
  <2>1. asks.pc = "appended" /\ Finished(j, "error").pc = "idle"
    BY SMTT(20), <1>1, AskingFields, FinishedFields
  <2>2. /\ Set(w, Finished(j, "error")) \/ Set(w, asks)
        /\ stores' = stores \/ stores' = [stores EXCEPT ![j.cmd.arg] = "copy"]
    BY Zenon, <1>6 DEF CopyRegion, ListingTable
  <2>3. j.pc = "copy_region"
    BY Zenon, <1>6 DEF CopyRegion, At
  <2>4. Stored
    BY Zenon, <1>1, <2>2, <2>3 DEF Stored, RegionInv
  <2> HIDE DEF asks
  <2>5. Waits(w, asks) /\ Waits(w, Finished(j, "error"))
    BY Zenon, <2>1 DEF Waits
  <2>6. QED
    BY Zenon, <1>2, <2>2, <2>4, <2>5 DEF Set
<1>7. ASSUME NEW w \in Workers, CreateStage(w)
      PROVE  Goal
  <2>1. PICK cmd, x :
            /\ \/ Set(w, Finished(Started(w, cmd), "error"))
               \/ Set(w, [Started(w, cmd) EXCEPT !.pc = "stage_read", !.path = x])
            /\ stores' = stores \/ stores' = [stores EXCEPT ![cmd.arg] = "stage"]
    BY Zenon, <1>7 DEF CreateStage
  <2>2. Shape(Started(w, cmd))
    BY Zenon DEF Started, Shape, IdleJob
  <2>3. /\ Waits(w, Finished(Started(w, cmd), "error"))
        /\ Waits(w, [Started(w, cmd) EXCEPT !.pc = "stage_read", !.path = x])
    BY Zenon, <2>2, FinishedFields DEF Waits, Shape, IdleJob
  <2>4. Stored
    BY Zenon, <1>1, <2>1 DEF Stored
  <2>5. QED
    BY Zenon, <1>2, <2>1, <2>3, <2>4 DEF Set
<1>8. ASSUME NEW w \in Workers, Ddl(w) \/ Queries(w) \/ Settings(w)
      PROVE  Goal
  BY Zenon, <1>3, <1>5, <1>6, <1>7, <1>8, DdlKeeps, QueriesKeep, SettingsKeep, SettingsStores
<1>9. ASSUME NEW w \in Workers, Remote(w) \/ RemoteFails(w) \/ Abort(w)
      PROVE  Goal
  <2>1. \A ok : Replied(w, ok).pc = job[w].pc /\ Replied(w, ok).cmd = job[w].cmd
    BY Zenon, <1>1 DEF Replied, Shape, IdleJob
  <2>2. Finished(job[w], "aborted").pc = "idle"
    BY <1>1, FinishedFields
  <2>3. stores' = stores /\ ((\E ok : Set(w, Replied(w, ok))) \/ Set(w, Finished(job[w], "aborted")))
    BY Zenon, <1>9 DEF Remote, RemoteFails, Abort
  <2>4. QED
    BY Zenon, <1>4, <2>1, <2>2, <2>3
<1>10. CASE UNCHANGED <<job, stores>>
  BY Zenon, <1>10 DEF Goal, RegionInv
<1>11. LateEffect \/ OutsideWrite \/ UNCHANGED allvars => UNCHANGED <<job, stores>>
  BY Zenon DEF LateEffect, OutsideWrite, allvars
<1>12. QED
  BY Zenon, <1>8, <1>9, <1>10, <1>11 DEF Next, Goal

\* While COPY INTO waits for the region of its bucket, the store it is about to
\* replace is not the catalog's (copy_into_snowflake_query checks only before it
\* asks for the region).
THEOREM RegionNeverTheCatalogs == Spec => []RegionInv
<1>1. Init => RegionInv
  <2> SUFFICES ASSUME Init PROVE RegionInv
    OBVIOUS
  <2>1. \A w \in Workers : job[w].pc = "idle"
    BY Zenon DEF Init, IdleJob
  <2>2. QED
    BY Zenon, <2>1 DEF RegionInv
<1>2. StatementInv /\ RegionInv /\ [Next]_allvars => RegionInv'
  BY Zenon, RegionNext
<1>3. QED
  BY <1>1, <1>2, StatementInvariant, PTL DEF Spec

\* No step of COPY INTO, nor of any other statement but CREATE STAGE, takes the
\* place of the catalog's own object store.
THEOREM CatalogStoreKept == Spec => CopyKeepsCatalogStore
<1> DEFINE A == \A u \in Buckets : stores[u] = "catalog" /\ stores'[u] # "catalog" => stores'[u] = "stage"
<1>1. StatementInv /\ RegionInv /\ [Next]_allvars => [A]_allvars
  BY Zenon, RegionNext
<1>2. QED
  BY <1>1, StatementInvariant, RegionNeverTheCatalogs, PTL DEF Spec, CopyKeepsCatalogStore

-----------------------------------------------------------------------------
(* Tables in the cache *)

\* Four ways to have a hold on the table at a path: its cache entry, its
\* creation that is not registered yet, a drop that has taken the entry, and
\* such a drop after its statement was aborted.
HasEntry(c, o, p) ==
    c.objects[o].name = p[1] /\ Cached(c, o, p[2]).kind = "table"

\* Its creation is done and not registered yet; its drop is asked for.
HasCreated(j, c, p) ==
    /\ j.pc = "create_done" /\ j.req = NoRequest /\ j.reply.ok
    /\ Identifier(c, j.obj, j.path[2]) = p
HasDrop(j, p) == j.req = Request("drop", p, 0)
Has(j, c, p) == HasCreated(j, c, p) \/ HasDrop(j, p)

\* Whoever has a hold on the table at p is alone with it, and the table is there.
HoldAt(c, i, jobs, pending, p) ==
    /\ \A o \in 1..Len(c.objects) : HasEntry(c, o, p) =>
          /\ i.tables[p].id # 0 /\ Request("drop", p, 0) \notin pending
          /\ \A q \in 1..Len(c.objects) : HasEntry(c, q, p) => q = o
          /\ \A w \in Workers : ~Has(jobs[w], c, p)
    /\ \A w \in Workers : Has(jobs[w], c, p) =>
          /\ i.tables[p].id # 0 /\ Request("drop", p, 0) \notin pending
          /\ \A v \in Workers : Has(jobs[v], c, p) => v = w
    /\ Request("drop", p, 0) \in pending => i.tables[p].id # 0

\* A stage in a cache is remembered; the other tables are held by one at most.
HoldInv ==
    /\ \A o \in 1..Len(cat.objects), t \in TableNames :
          Cached(cat, o, t).kind = "stage" => Path(cat, o, t) \in staged
    /\ \A p \in Paths \ staged : HoldAt(cat, ice, job, late, p)

\* Eager registration: every schema leads to the namespace of its name.
EagerInv == \A o \in 1..Len(cat.objects) : cat.objects[o].name = cat.objects[o].namespace

-----------------------------------------------------------------------------
(* Who has a hold on a table *)

\* Fewer holds on a table that is still there.
LEMMA HoldsLess ==
    ASSUME NEW p, NEW c, NEW i, NEW jobs, NEW pending, HoldAt(c, i, jobs, pending, p),
           NEW d, NEW k, NEW others, NEW remaining,
           \A o \in 1..Len(d.objects) : HasEntry(d, o, p) => o \in 1..Len(c.objects) /\ HasEntry(c, o, p),
           \A v \in Workers : Has(others[v], d, p) => Has(jobs[v], c, p),
           Request("drop", p, 0) \in remaining => Request("drop", p, 0) \in pending,
           i.tables[p].id # 0 => k.tables[p].id # 0
    PROVE  HoldAt(d, k, others, remaining, p)
BY SMTT(20) DEF HoldAt

\* Nobody has a hold on a table that is not there.
LEMMA NoneHeld ==
    ASSUME NEW p, NEW c, NEW i, NEW jobs, NEW pending, HoldAt(c, i, jobs, pending, p), i.tables[p].id = 0
    PROVE  /\ \A o \in 1..Len(c.objects) : ~HasEntry(c, o, p)
           /\ \A v \in Workers : ~Has(jobs[v], c, p)
           /\ Request("drop", p, 0) \notin pending
BY DEF HoldAt

\* The schemas of the catalog keep their namespaces, and so do the holds of the statements.
LEMMA HoldsStay ==
    ASSUME StatementInv, Grows(cat, cat'), NEW v \in Workers, NEW p, Has(job[v], cat', p)
    PROVE  Has(job[v], cat, p)
<1>1. Local(job[v], cat, ice) /\ job[v].obj \in 0..Len(cat.objects)
  BY Zenon, JobAt DEF Core
<1>2. job[v].pc = "create_done" => job[v].obj \in 1..Len(cat.objects)
  BY <1>1 DEF Local
<1>3. job[v].pc = "create_done" => Identifier(cat', job[v].obj, job[v].path[2]) = Identifier(cat, job[v].obj, job[v].path[2])
  BY Zenon, <1>2 DEF Grows, Identifier
<1>4. QED
  BY Zenon, <1>3 DEF Has, HasCreated

\* A job that asks for no drop and registers nothing has no hold.
LEMMA HoldsNoneHas ==
    ASSUME NEW j, HoldsNone(j), NEW c, NEW p
    PROVE  ~Has(j, c, p)
<1>1. Request("drop", p, 0).op = "drop"
  BY Zenon DEF Request
<1>2. QED
  BY Zenon, <1>1 DEF HoldsNone, Has, HasCreated, HasDrop

\* The entries of a catalog that has grown.
LEMMA EntryStays ==
    ASSUME Grows(cat, cat'), NEW p, NEW o \in 1..Len(cat.objects), HasEntry(cat', o, p),
           Cached(cat', o, p[2]) = Cached(cat, o, p[2])
    PROVE  HasEntry(cat, o, p)
BY DEF Grows, HasEntry

\* A catalog without new tables has no new entries,
LEMMA FollowsEntries ==
    ASSUME CatOK(cat), Follows(cat, cat'), NEW p \in Paths, NEW o \in 1..Len(cat'.objects), HasEntry(cat', o, p)
    PROVE  o \in 1..Len(cat.objects) /\ HasEntry(cat, o, p)
<1>1. Grows(cat, cat') /\ p[2] \in TableNames
  BY Zenon, PathParts DEF Follows
<1>2. o <= Len(cat.objects) /\ Cached(cat', o, p[2]) = Cached(cat, o, p[2])
  BY Zenon, <1>1 DEF Follows, HasEntry
<1>3. QED
  BY <1>1, <1>2, EntryStays

\* and no new stages.
LEMMA FollowsStages ==
    ASSUME CatOK(cat), HoldInv, Follows(cat, cat')
    PROVE  \A o \in 1..Len(cat'.objects), t \in TableNames :
              Cached(cat', o, t).kind = "stage" => Path(cat', o, t) \in staged
<1> SUFFICES ASSUME NEW o \in 1..Len(cat'.objects), NEW t \in TableNames, Cached(cat', o, t).kind = "stage"
             PROVE  Path(cat', o, t) \in staged
  BY Zenon
<1>1. o <= Len(cat.objects) /\ Cached(cat', o, t) = Cached(cat, o, t) /\ Grows(cat, cat')
  BY Zenon DEF Follows
<1>2. Path(cat', o, t) = Path(cat, o, t)
  BY <1>1 DEF Grows, Path
<1>3. QED
  BY <1>1, <1>2 DEF HoldInv

\* A step that rests adds no hold.
LEMMA RestsHold ==
    ASSUME StatementInv, HoldInv, NEW w \in Workers, Rests(w)
    PROVE  HoldInv'
<1>1. CatOK(cat) /\ Follows(cat, cat') /\ Grows(cat, cat') /\ ice' = ice /\ late' = late /\ staged' = staged
  BY Zenon DEF StatementInv, Rests, Follows
<1>2. PICK j : job' = [job EXCEPT ![w] = j] /\ HoldsNone(j)
  BY Zenon DEF Rests
<1>3. \A v \in Workers : job'[v] = IF v = w THEN j ELSE job[v]
  BY Zenon, <1>2 DEF StatementInv
<1>4. ASSUME NEW p \in Paths \ staged PROVE HoldAt(cat', ice, job', late, p)
  <2>1. \A v \in Workers : Has(job'[v], cat', p) => Has(job[v], cat, p)
    BY Zenon, <1>1, <1>2, <1>3, HoldsNoneHas, HoldsStay
  <2>2. \A o \in 1..Len(cat'.objects) : HasEntry(cat', o, p) => o \in 1..Len(cat.objects) /\ HasEntry(cat, o, p)
    BY Zenon, <1>1, FollowsEntries
  <2>3. HoldAt(cat, ice, job, late, p)
    BY Zenon DEF HoldInv
  <2>4. QED
    BY <2>1, <2>2, <2>3, HoldsLess
<1>5. QED
  BY Zenon, <1>1, <1>4, FollowsStages DEF HoldInv

\* The entry a drop has taken out is its hold on the table.
LEMMA TakesHold ==
    ASSUME StatementInv, HoldInv, EagerInv, NEW w \in Workers, Takes(w)
    PROVE  HoldInv'
<1>1. CatOK(cat) /\ Follows(cat, cat') /\ Grows(cat, cat') /\ ice' = ice /\ late' = late /\ staged' = staged
  BY Zenon DEF StatementInv, Takes, Follows
<1>2. PICK o \in 1..Len(cat.objects), t \in TableNames :
          /\ AsksIceberg(cat, o, t) /\ Cached(cat', o, t) = NoEntry
          /\ \E k : /\ job' = [job EXCEPT ![w] = k]
                    /\ k.req = Request("drop", Identifier(cat, o, t), 0) /\ k.pc # "create_done"
  BY Zenon DEF Takes
<1>3. PICK j : job' = [job EXCEPT ![w] = j] /\ j.req = Request("drop", Identifier(cat, o, t), 0) /\ j.pc # "create_done"
  BY Zenon, <1>2
<1>4. \A v \in Workers : job'[v] = IF v = w THEN j ELSE job[v]
  BY Zenon, <1>3 DEF StatementInv
<1> DEFINE taken == Identifier(cat, o, t)
<1>5. taken = Path(cat, o, t) /\ taken[1] = cat.objects[o].name /\ taken[2] = t
  BY Zenon DEF EagerInv, Identifier, Path
<1>6. taken \notin staged => HasEntry(cat, o, taken)
  BY Zenon, <1>2, <1>5 DEF AsksIceberg, HoldInv, HasEntry
<1> HIDE DEF taken
<1>7. ~HasEntry(cat', o, taken)
  <2>1. NoEntry.kind = "none" /\ Cached(cat', o, t) = NoEntry
    BY Zenon, <1>2 DEF NoEntry
  <2>2. QED
    BY Zenon, <1>5, <2>1 DEF HasEntry
<1>8. \A p : Has(j, cat', p) => p = taken
  BY <1>3 DEF Has, HasCreated, HasDrop, Request, taken
<1>9. ASSUME NEW p \in Paths \ staged PROVE HoldAt(cat', ice, job', late, p)
  <2>1. \A v \in Workers : v # w /\ Has(job'[v], cat', p) => Has(job[v], cat, p)
    BY Zenon, <1>1, <1>4, HoldsStay
  <2>2. \A q \in 1..Len(cat'.objects) : HasEntry(cat', q, p) => q \in 1..Len(cat.objects) /\ HasEntry(cat, q, p)
    BY Zenon, <1>1, FollowsEntries
  <2>3. HoldAt(cat, ice, job, late, p)
    BY Zenon DEF HoldInv
  <2>4. CASE p = taken
    <3>1. HasEntry(cat, o, p)
      BY Zenon, <1>6, <2>4
    <3>2. /\ ice.tables[p].id # 0 /\ Request("drop", p, 0) \notin late
          /\ \A q \in 1..Len(cat.objects) : HasEntry(cat, q, p) => q = o
          /\ \A v \in Workers : ~Has(job[v], cat, p)
      BY Zenon, <2>3, <3>1 DEF HoldAt
    <3>3. \A q \in 1..Len(cat'.objects) : ~HasEntry(cat', q, p)
      BY Zenon, <1>7, <2>2, <2>4, <3>2
    <3>4. \A v \in Workers : Has(job'[v], cat', p) => v = w
      BY Zenon, <2>1, <3>2
    <3>5. QED
      BY Zenon, <3>2, <3>3, <3>4 DEF HoldAt
  <2>5. CASE p # taken
    <3>1. ~Has(job'[w], cat', p)
      BY Zenon, <1>4, <1>8, <2>5
    <3>2. QED
      BY SMTT(20), <2>1, <2>2, <2>3, <3>1, HoldsLess
  <2>6. QED
    BY Zenon, <2>4, <2>5
<1>10. QED
  BY Zenon, <1>1, <1>9, FollowsStages DEF HoldInv

\* The creation's hold becomes the entry.
LEMMA MakesHold ==
    ASSUME StatementInv, HoldInv, EagerInv, NEW w \in Workers, Makes(w)
    PROVE  HoldInv'
<1> DEFINE o == job[w].obj
           t == job[w].path[2]
           made == Identifier(cat, o, t)
<1>1. CatOK(cat) /\ Grows(cat, cat') /\ ice' = ice /\ late' = late /\ staged' = staged
  BY Zenon DEF StatementInv, Makes
<1>2. /\ job[w].pc = "create_done" /\ job[w].req = NoRequest /\ job[w].reply.ok
      /\ \A q \in 1..Len(cat'.objects), u \in TableNames : Cached(cat', q, u).kind \in {"table", "stage"} =>
            /\ q <= Len(cat.objects)
            /\ \/ q = o /\ u = t /\ Cached(cat', q, u).kind = "table"
               \/ Cached(cat', q, u) = Cached(cat, q, u)
  BY Zenon DEF Makes
<1>3. PICK j : job' = [job EXCEPT ![w] = j] /\ HoldsNone(j)
  BY Zenon DEF Makes, Light, HoldsNone
<1>4. \A v \in Workers : job'[v] = IF v = w THEN j ELSE job[v]
  BY Zenon, <1>3 DEF StatementInv
<1>5. o \in 1..Len(cat.objects)
  BY SMTT(20), <1>2, JobAt DEF Local, Core
<1>6. made = Path(cat, o, t) /\ Has(job[w], cat, made)
  BY Zenon, <1>2, <1>5 DEF EagerInv, Identifier, Path, Has, HasCreated
<1> HIDE DEF made
<1>7. ASSUME NEW p \in Paths \ staged PROVE HoldAt(cat', ice, job', late, p)
  <2>1. \A v \in Workers : Has(job'[v], cat', p) => v # w /\ Has(job[v], cat, p)
    BY Zenon, <1>1, <1>3, <1>4, HoldsNoneHas, HoldsStay
  <2>2. p[2] \in TableNames /\ p = <<p[1], p[2]>>
    BY Zenon, PathParts
  <2>3. ASSUME NEW q \in 1..Len(cat'.objects), HasEntry(cat', q, p)
        PROVE  q \in 1..Len(cat.objects) /\ (HasEntry(cat, q, p) \/ (q = o /\ p = made))
    <3>1. q \in 1..Len(cat.objects) /\ (Cached(cat', q, p[2]) = Cached(cat, q, p[2]) \/ (q = o /\ p[2] = t))
      BY <1>1, <1>2, <2>2, <2>3 DEF HasEntry, CatOK, CatalogStates
    <3>2. q = o /\ p[2] = t => p = made
      BY Zenon, <1>1, <1>5, <1>6, <2>2, <2>3 DEF HasEntry, Path, Grows
    <3>3. QED
      BY Zenon, <1>1, <2>3, <3>1, <3>2, EntryStays
  <2>4. HoldAt(cat, ice, job, late, p)
    BY Zenon DEF HoldInv
  <2>5. CASE p = made
    <3>1. /\ ice.tables[p].id # 0 /\ Request("drop", p, 0) \notin late
          /\ \A v \in Workers : Has(job[v], cat, p) => v = w
          /\ \A q \in 1..Len(cat.objects) : ~HasEntry(cat, q, p)
      BY Zenon, <1>6, <2>4, <2>5 DEF HoldAt
    <3>2. QED
      BY Zenon, <2>1, <2>3, <3>1 DEF HoldAt
  <2>6. CASE p # made
    BY SMTT(20), <2>1, <2>3, <2>4, <2>6, HoldsLess
  <2>7. QED
    BY Zenon, <2>5, <2>6
<1>8. ASSUME NEW q \in 1..Len(cat'.objects), NEW u \in TableNames, Cached(cat', q, u).kind = "stage"
      PROVE  Path(cat', q, u) \in staged
  <2>1. q <= Len(cat.objects) /\ Cached(cat', q, u) = Cached(cat, q, u)
    BY Zenon, <1>2, <1>8
  <2>2. Path(cat', q, u) = Path(cat, q, u)
    BY SMTT(20), <1>1, <2>1 DEF Grows, Path
  <2>3. QED
    BY <1>8, <2>1, <2>2 DEF HoldInv
<1>9. QED
  BY Zenon, <1>1, <1>7, <1>8 DEF HoldInv

\* A stage is remembered.
LEMMA StagesHold ==
    ASSUME StatementInv, HoldInv, NEW w \in Workers, Stages(w)
    PROVE  HoldInv'
<1>1. CatOK(cat) /\ Grows(cat, cat') /\ ice' = ice /\ late' = late
  BY Zenon DEF StatementInv, Stages
<1>2. PICK s \in Paths :
          /\ staged' = staged \cup {s}
          /\ \A q \in 1..Len(cat'.objects), u \in TableNames : Cached(cat', q, u).kind \in {"table", "stage"} =>
                \/ Path(cat', q, u) = s /\ Cached(cat', q, u).kind = "stage"
                \/ q <= Len(cat.objects) /\ Cached(cat', q, u) = Cached(cat, q, u)
  BY Zenon DEF Stages
<1>3. PICK j : job' = [job EXCEPT ![w] = j] /\ HoldsNone(j)
  BY Zenon DEF Stages
<1>4. \A v \in Workers : job'[v] = IF v = w THEN j ELSE job[v]
  BY Zenon, <1>3 DEF StatementInv
<1>5. ASSUME NEW p \in Paths \ staged' PROVE HoldAt(cat', ice, job', late, p)
  <2>1. \A v \in Workers : Has(job'[v], cat', p) => Has(job[v], cat, p)
    BY Zenon, <1>1, <1>3, <1>4, HoldsNoneHas, HoldsStay
  <2>2. p[2] \in TableNames
    BY Zenon, PathParts
  <2>3. \A q \in 1..Len(cat'.objects) : HasEntry(cat', q, p) => q \in 1..Len(cat.objects) /\ HasEntry(cat, q, p)
    BY <1>1, <1>2, <2>2, EntryStays DEF HasEntry
  <2>4. HoldAt(cat, ice, job, late, p)
    BY Zenon, <1>2 DEF HoldInv
  <2>5. QED
    BY <2>1, <2>3, <2>4, HoldsLess
<1>6. ASSUME NEW q \in 1..Len(cat'.objects), NEW u \in TableNames, Cached(cat', q, u).kind = "stage"
      PROVE  Path(cat', q, u) \in staged'
  <2>1. CASE Path(cat', q, u) = s
    BY Zenon, <1>2, <2>1
  <2>2. CASE q <= Len(cat.objects) /\ Cached(cat', q, u) = Cached(cat, q, u)
    <3>1. Path(cat', q, u) = Path(cat, q, u)
      BY SMTT(20), <1>1, <2>2 DEF Grows, Path
    <3>2. QED
      BY SMTT(20), <1>2, <1>6, <2>2, <3>1 DEF HoldInv
  <2>3. QED
    BY Zenon, <1>2, <1>6, <2>1, <2>2
<1>7. QED
  BY Zenon, <1>1, <1>5, <1>6 DEF HoldInv

\* What a request that was performed does to the table at p.
LEMMA PerformedIds ==
    ASSUME StatementInv, NEW r, ReqOK(r), NEW p \in Paths
    PROVE  /\ r # Request("drop", p, 0) /\ ice.tables[p].id # 0 => Performed(ice, r).tables[p].id # 0
           /\ r = Request("create", p, 0) /\ Agrees(ice, r) =>
                 ice.tables[p].id = 0 /\ Performed(ice, r).tables[p].id # 0
<1>1. ice \in IcebergStates /\ ice.next \in Nat \ {0}
  BY Zenon DEF StatementInv, IcebergStates
<1>2. /\ r.op \notin {"create", "drop"} => \A q \in Paths : Effect(ice, r).tables[q].id = ice.tables[q].id
      /\ \A q \in Paths : q # r.path => Effect(ice, r).tables[q] = ice.tables[q]
      /\ r.op = "create" => Effect(ice, r).tables[r.path].id = ice.next
  <2>1. r.op = "create" => Effect(ice, r).tables[r.path] = [id |-> ice.next, snap |-> ice.next]
    BY Zenon, <1>1, EffectTables
  <2>2. r.op \notin {"create", "drop"} => \A q \in Paths : Effect(ice, r).tables[q].id = ice.tables[q].id
    BY Zenon, <1>1, EffectTables
  <2>3. \A q \in Paths : q # r.path => Effect(ice, r).tables[q] = ice.tables[q]
    BY Zenon, <1>1, EffectTables
  <2>4. QED
    BY SMTT(20), <2>1, <2>2, <2>3
<1>3. r.op = "drop" => r = Request("drop", r.path, 0)
  BY TableRequest DEF ReqOK, Request, NoRequest
<1>4. Performed(ice, r) \in {ice, Effect(ice, r)} /\ (Agrees(ice, r) => Performed(ice, r) = Effect(ice, r))
  BY Zenon DEF Performed
<1>5. Request("create", p, 0).op = "create" /\ Request("create", p, 0).path = p
  BY Zenon DEF Request
<1>6. r = Request("create", p, 0) /\ Agrees(ice, r) => ice.tables[p].id = 0
  BY Zenon, <1>5 DEF Agrees
<1>7. ASSUME r # Request("drop", p, 0), ice.tables[p].id # 0 PROVE Effect(ice, r).tables[p].id # 0
  BY Zenon, <1>1, <1>2, <1>3, <1>7
<1>8. r = Request("create", p, 0) => Effect(ice, r).tables[p].id # 0
  BY Zenon, <1>1, <1>2, <1>5
<1>9. QED
  BY Zenon, <1>4, <1>6, <1>7, <1>8

\* Iceberg answers: a table that was created is held by its creator, and a
\* table that was dropped had been held by its dropper alone.
LEMMA RemoteHold ==
    ASSUME StatementInv, HoldInv, NEW w \in Workers, Remote(w) \/ RemoteFails(w)
    PROVE  HoldInv'
<1> DEFINE r == job[w].req
<1>1. PICK ok \in BOOLEAN :
          /\ Set(w, Replied(w, ok)) /\ r # NoRequest
          /\ ice' \in {ice, Performed(ice, r)}
          /\ ok => ice' = Performed(ice, r) /\ Agrees(ice, r)
          /\ UNCHANGED <<cat, late, staged>>
  BY Zenon, AgreesIsBoolean DEF Remote, RemoteFails
<1> DEFINE k == Replied(w, ok)
<1>2. k.pc = job[w].pc /\ k.obj = job[w].obj /\ k.path = job[w].path /\ k.req = NoRequest /\ k.reply.ok = ok
  BY RepliedFields DEF Same
<1>3. job' = [job EXCEPT ![w] = k]
  BY Zenon, <1>1 DEF Set
<1> HIDE DEF k
<1>4. \A v \in Workers : job'[v] = IF v = w THEN k ELSE job[v]
  BY Zenon, <1>3 DEF StatementInv
<1>5. ReqOK(r) /\ Local(job[w], cat, ice)
  BY Zenon, JobAt DEF Core
<1>6. ASSUME NEW p, Has(k, cat, p)
      PROVE  r = Request("create", p, 0) /\ Agrees(ice, r) /\ ice' = Performed(ice, r)
  <2>1. k.req.op # "drop" /\ Request("drop", p, 0).op = "drop"
    BY <1>2 DEF NoRequest, Request
  <2>2. HasCreated(k, cat, p)
    BY Zenon, <1>6, <2>1 DEF Has, HasDrop
  <2>3. r = Request("create", Identifier(cat, job[w].obj, job[w].path[2]), 0)
    BY Zenon, <1>1, <1>2, <1>5, <2>2 DEF HasCreated, Local
  <2>4. QED
    BY Zenon, <1>1, <1>2, <2>2, <2>3 DEF HasCreated
<1>7. ASSUME NEW p \in Paths \ staged PROVE HoldAt(cat, ice', job', late, p)
  <2>1. HoldAt(cat, ice, job, late, p)
    BY Zenon DEF HoldInv
  <2>2. \A v \in Workers : v # w /\ Has(job'[v], cat, p) => Has(job[v], cat, p)
    BY Zenon, <1>4
  <2>3. /\ r # Request("drop", p, 0) /\ ice.tables[p].id # 0 => ice'.tables[p].id # 0
        /\ r = Request("create", p, 0) /\ Agrees(ice, r) /\ ice' = Performed(ice, r) =>
              ice.tables[p].id = 0 /\ ice'.tables[p].id # 0
    BY Zenon, <1>1, <1>5, PerformedIds
  <2>4. CASE Has(k, cat, p)
    <3>1. ice.tables[p].id = 0 /\ ice'.tables[p].id # 0
      BY Zenon, <1>6, <2>3, <2>4
    <3>2. /\ \A o \in 1..Len(cat.objects) : ~HasEntry(cat, o, p)
          /\ \A v \in Workers : ~Has(job[v], cat, p)
          /\ Request("drop", p, 0) \notin late
      BY Zenon, <2>1, <3>1, NoneHeld
    <3>3. QED
      BY Zenon, <2>2, <3>1, <3>2 DEF HoldAt
  <2>5. CASE ~Has(k, cat, p) /\ r = Request("drop", p, 0)
    <3>1. Has(job[w], cat, p)
      BY Zenon, <2>5 DEF Has, HasDrop
    <3>2. /\ \A o \in 1..Len(cat.objects) : ~HasEntry(cat, o, p)
          /\ \A v \in Workers : Has(job[v], cat, p) => v = w
          /\ Request("drop", p, 0) \notin late
      BY Zenon, <2>1, <3>1 DEF HoldAt
    <3>3. \A v \in Workers : ~Has(job'[v], cat, p)
      BY Zenon, <1>4, <2>2, <2>5, <3>2
    <3>4. QED
      BY Zenon, <3>2, <3>3 DEF HoldAt
  <2>6. CASE ~Has(k, cat, p) /\ r # Request("drop", p, 0)
    <3>1. \A v \in Workers : Has(job'[v], cat, p) => Has(job[v], cat, p)
      BY Zenon, <1>4, <2>6
    <3>2. ice.tables[p].id # 0 => ice'.tables[p].id # 0
      BY Zenon, <2>3, <2>6
    <3>3. QED
      BY Zenon, <2>1, <3>1, <3>2, HoldsLess
  <2>7. QED
    BY Zenon, <2>4, <2>5, <2>6
<1>8. cat' = cat /\ late' = late /\ staged' = staged
  BY Zenon, <1>1
<1>9. QED
  BY Zenon, <1>7, <1>8 DEF HoldInv

\* A drop that is aborted keeps its hold until it has had its effect.
LEMMA AbortHold ==
    ASSUME StatementInv, HoldInv, NEW w \in Workers, Abort(w)
    PROVE  HoldInv'
<1> DEFINE j == job[w]
           k == Finished(j, "aborted")
<1>1. late' \in {late, late \cup {j.req}} /\ job' = [job EXCEPT ![w] = k] /\ UNCHANGED <<cat, ice, staged>>
  BY Zenon DEF Abort, Set
<1>2. Shape(j)
  BY Zenon, JobAt DEF Core
<1>3. k.pc = "idle" /\ k.req = NoRequest
  BY SMTT(20), <1>2, FinishedFields
<1> HIDE DEF k
<1>4. HoldsNone(k)
  BY <1>3 DEF HoldsNone, NoRequest, Request
<1>5. \A v \in Workers : job'[v] = IF v = w THEN k ELSE job[v]
  BY Zenon, <1>1 DEF StatementInv
<1>6. ASSUME NEW p \in Paths \ staged PROVE HoldAt(cat, ice, job', late', p)
  <2>1. HoldAt(cat, ice, job, late, p)
    BY Zenon DEF HoldInv
  <2>2. \A v \in Workers : Has(job'[v], cat, p) => v # w /\ Has(job[v], cat, p)
    BY Zenon, <1>4, <1>5, HoldsNoneHas
  <2>3. CASE Request("drop", p, 0) \in late' => Request("drop", p, 0) \in late
    BY Zenon, <2>1, <2>2, <2>3, HoldsLess
  <2>4. CASE j.req = Request("drop", p, 0)
    <3>1. Has(job[w], cat, p)
      BY Zenon, <2>4 DEF Has, HasDrop
    <3>2. QED
      BY Zenon, <2>1, <2>2, <3>1 DEF HoldAt
  <2>5. QED
    BY Zenon, <1>1, <2>3, <2>4
<1>7. QED
  BY Zenon, <1>1, <1>6 DEF HoldInv

\* The effect of a request nobody waits for; another client's rows.
LEMMA OutsideHold ==
    ASSUME StatementInv, HoldInv, LateEffect \/ OutsideWrite
    PROVE  HoldInv'
<1>1. cat' = cat /\ job' = job /\ staged' = staged
  BY Zenon DEF LateEffect, OutsideWrite
<1>2. ASSUME NEW p \in Paths \ staged PROVE HoldAt(cat, ice', job, late', p)
  <2>1. HoldAt(cat, ice, job, late, p)
    BY Zenon DEF HoldInv
  <2>2. CASE LateEffect
    <3>1. PICK r \in late : ice' = Performed(ice, r) /\ late' = late \ {r}
      BY Zenon, <2>2 DEF LateEffect
    <3>2. ReqOK(r)
      BY Zenon DEF StatementInv, RestOK
    <3>3. CASE r = Request("drop", p, 0)
      BY Zenon, <2>1, <3>1, <3>3 DEF HoldAt
    <3>4. CASE r # Request("drop", p, 0)
      <4>1. ice.tables[p].id # 0 => ice'.tables[p].id # 0
        BY Zenon, <3>1, <3>2, <3>4, PerformedIds
      <4>2. QED
        BY Zenon, <2>1, <3>1, <4>1, HoldsLess
    <3>5. QED
      BY Zenon, <3>3, <3>4
  <2>3. CASE OutsideWrite
    <3>1. PICK q \in Paths : ice' = Effect(ice, Request("append", q, ice.tables[q].id)) /\ late' = late
      BY Zenon, <2>3 DEF OutsideWrite
    <3> DEFINE r == Request("append", q, ice.tables[q].id)
    <3>2. ice \in IcebergStates /\ ice.tables[q].id \in Nat
      BY Zenon DEF StatementInv, IcebergStates
    <3>3. ReqOK(r) /\ r.op = "append"
      BY Zenon, <3>2 DEF ReqOK, Request
    <3> HIDE DEF r
    <3>4. Effect(ice, r).tables[p].id = ice.tables[p].id
      BY Zenon, <3>2, <3>3, EffectTables
    <3>5. QED
      BY Zenon, <2>1, <3>1, <3>4, HoldsLess DEF r
  <2>4. QED
    BY Zenon, <2>2, <2>3
<1>3. QED
  BY Zenon, <1>1, <1>2 DEF HoldInv

-----------------------------------------------------------------------------
(* Eager registration *)

\* The process starts with register_iceberg_catalog: without lazily registered names.
Eager == \A start \in Starts : start.cat = register_iceberg_catalog(start.ice)

\* The inductive invariant of a process that starts so.
EagerHolds == StatementInv /\ EagerInv /\ HoldInv

\* It holds at the start,
LEMMA EagerInit ==
    ASSUME Eager, Init
    PROVE  EagerHolds
<1>1. StatementInv
  BY Zenon, InitInvariant
<1>2. PICK start \in Starts : cat = register_iceberg_catalog(start.ice) /\ ice = start.ice
  BY Zenon DEF Init, Eager
<1>3. Len(cat.objects) = 0
  BY <1>1, <1>2, EagerStart DEF StatementInv
<1>4. \A w \in Workers : job[w] = IdleJob
  BY Zenon DEF Init
<1>5. HoldsNone(IdleJob)
  BY Zenon DEF HoldsNone, IdleJob, NoRequest, Request
<1>6. \A w \in Workers : \A p : ~Has(job[w], cat, p)
  BY Zenon, <1>4, <1>5, HoldsNoneHas
<1>7. late = {}
  BY Zenon DEF Init
<1>8. \A p \in Paths : HoldAt(cat, ice, job, late, p)
  BY SMTT(20), <1>3, <1>6, <1>7 DEF HoldAt
<1>9. QED
  BY <1>1, <1>3, <1>8 DEF EagerHolds, EagerInv, HoldInv

\* and names stay where they are as the catalog grows.
LEMMA EagerGrows ==
    ASSUME StatementInv, EagerInv, Grows(cat, cat')
    PROVE  EagerInv'
<1>1. Len(cat.objects) \in Nat /\ Len(cat'.objects) \in Nat
  BY DEF StatementInv, Grows, CatOK, CatalogStates
<1>2. QED
  BY SMTT(20), <1>1 DEF EagerInv, Grows

\* Every step keeps the holds apart.
LEMMA EagerNext ==
    ASSUME EagerHolds, [Next]_allvars
    PROVE  EagerHolds'
<1>1. StatementInv /\ EagerInv /\ HoldInv
  BY Zenon DEF EagerHolds
<1>2. StatementInv'
  BY Zenon, <1>1, NextKeeps
<1>3. CASE UNCHANGED allvars
  BY Zenon, <1>1, <1>2, <1>3 DEF EagerHolds, EagerInv, HoldInv, allvars
<1>4. ASSUME NEW w \in Workers, Ddl(w) \/ Queries(w) \/ Settings(w)
      PROVE  EagerHolds'
  <2>1. Kinds(w)
    BY Zenon, <1>1, <1>4, DdlKeeps, QueriesKeep, SettingsKeep
  <2>2. HoldInv'
    BY Zenon, <1>1, <2>1, RestsHold, TakesHold, MakesHold, StagesHold DEF Kinds
  <2>3. Grows(cat, cat')
    BY Zenon, <2>1 DEF Kinds, Rests, Takes, Makes, Stages, Follows
  <2>4. QED
    BY Zenon, <1>1, <1>2, <2>2, <2>3, EagerGrows DEF EagerHolds
<1>5. ASSUME NEW w \in Workers, Remote(w) \/ RemoteFails(w) \/ Abort(w)
      PROVE  EagerHolds'
  <2>1. cat' = cat
    BY Zenon, <1>5 DEF Remote, RemoteFails, Abort
  <2>2. EagerInv'
    BY Zenon, <1>1, <2>1 DEF EagerInv
  <2>3. QED
    BY Zenon, <1>1, <1>2, <1>5, <2>2, RemoteHold, AbortHold DEF EagerHolds
<1>6. CASE LateEffect \/ OutsideWrite
  <2>1. cat' = cat
    BY Zenon, <1>6 DEF LateEffect, OutsideWrite
  <2>2. EagerInv'
    BY Zenon, <1>1, <2>1 DEF EagerInv
  <2>3. QED
    BY Zenon, <1>1, <1>2, <1>6, <2>2, OutsideHold DEF EagerHolds
<1>7. QED
  BY Zenon, <1>3, <1>4, <1>5, <1>6 DEF Next

\* A table is held by one at most: by a cache, by the statement that created it
\* or by a drop that took it, which may be of an aborted statement.
THEOREM OneHold ==
    ASSUME Eager
    PROVE  Spec => []EagerHolds
<1>1. Init => EagerHolds
  BY Zenon, EagerInit
<1>2. EagerHolds /\ [Next]_allvars => EagerHolds'
  BY Zenon, EagerNext
<1>3. QED
  BY <1>1, <1>2, PTL DEF Spec

\* A base table in a schema's cache exists in Iceberg, whatever was lost, failed or aborted.
THEOREM CachedExist ==
    ASSUME Eager
    PROVE  Spec => []CachedTablesExist
<1>1. EagerHolds => CachedTablesExist
  <2> SUFFICES ASSUME EagerHolds, NEW o \in 1..Len(cat.objects), NEW t \in TableNames,
                      Cached(cat, o, t).kind = "table", Path(cat, o, t) \notin staged
               PROVE  ice.tables[Path(cat, o, t)].id # 0
    BY Zenon DEF CachedTablesExist
  <2>1. Path(cat, o, t) \in Paths
    <3>1. cat.objects \in Seq(SchemaObjects)
      BY Zenon DEF EagerHolds, StatementInv, CatOK, CatalogStates, SchemaObjects
    <3>2. cat.objects[o] \in SchemaObjects
      BY Zenon, <3>1, SequenceIsFunction
    <3>3. cat.objects[o].name \in SchemaNames
      BY Zenon, <3>2 DEF SchemaObjects
    <3>4. QED
      BY Zenon, <3>3 DEF Path, Paths
  <2>2. HasEntry(cat, o, Path(cat, o, t))
    BY Zenon DEF HasEntry, Path
  <2>3. HoldAt(cat, ice, job, late, Path(cat, o, t))
    BY Zenon, <2>1 DEF EagerHolds, HoldInv
  <2>4. QED
    BY Zenon, <2>2, <2>3 DEF HoldAt
<1>2. QED
  BY <1>1, OneHold, PTL

\* CREATE OR REPLACE TABLE and TRUNCATE leave nothing of the table that was there.
THEOREM ReplacedIsNew ==
    ASSUME Eager
    PROVE  Spec => []ReplaceIsNew
<1>1. EagerHolds => ReplaceIsNew
  <2> SUFFICES ASSUME EagerHolds, NEW w \in Workers, Answered(w, {"create_table", "truncate"}),
                      job[w].cmd.mode = "or_replace"
               PROVE  NewAt(ice, job[w].path, job[w].floor)
    BY Zenon DEF ReplaceIsNew, NewAt
  <2>1. StatementInv /\ EagerInv
    BY Zenon DEF EagerHolds
  <2>2. Created(job[w], cat, ice) /\ job[w].path \in Paths
    BY Zenon, <2>1, JobAt DEF Answered, Local, CreateOps, Core, TableOps
  <2>3. PICK o \in 1..Len(cat.objects) :
            cat.objects[o].name = job[w].path[1] /\ NewAt(ice, <<cat.objects[o].namespace, job[w].path[2]>>, job[w].floor)
    BY Zenon, <2>2 DEF Created
  <2>4. <<cat.objects[o].namespace, job[w].path[2]>> = job[w].path
    BY Zenon, <2>1, <2>2, <2>3, PathParts DEF EagerInv
  <2>5. QED
    BY Zenon, <2>3, <2>4
<1>2. QED
  BY <1>1, OneHold, PTL

=============================================================================

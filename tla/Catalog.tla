------------------------------ MODULE Catalog ------------------------------
(***************************************************************************)
(* The catalog list the sessions of a process share                        *)
(* (crates/catalog/src/{catalog_list,catalog,schema,table}.rs).            *)
(*                                                                         *)
(* An Iceberg catalog - a remote service - holds the namespaces and the    *)
(* tables.  The process keeps three things beside it:                      *)
(*   - catalogs, the registered databases (EmbucketCatalogList.catalogs);  *)
(*   - a mirror of the names, so that existence can be answered without a  *)
(*     remote call (DataFusionIcebergCatalog, a library);                  *)
(*   - schemas_cache: per schema name the current CachingSchema object,    *)
(*     each with its own tables_cache.  A statement holds on to the object *)
(*     it looked up, so objects outlive their place in schemas_cache.      *)
(* All three are the record c here, the remote catalog is the record i;    *)
(* the operators below are the methods, as functions of c and i.           *)
(***************************************************************************)
EXTENDS Naturals, Sequences, Functions

CONSTANTS Database,       \* the one database an embucket process registers
          SchemaNames,    \* names a namespace or a schema can have
          TableNames,     \* names a table, a view or a stage can have
          Lower, Upper    \* to_ascii_lowercase and to_ascii_uppercase, on both

Paths == SchemaNames \X TableNames

\* Writing a name in another case gives a name again.
ASSUME NamesAssumption ==
    /\ \A n \in SchemaNames : Lower[n] \in SchemaNames /\ Upper[n] \in SchemaNames
    /\ \A t \in TableNames : Lower[t] \in TableNames /\ Upper[t] \in TableNames

\* The value of tables_cache for a name: a CachingTable around a base table, a
\* view, or the CSV file of a stage.  name is CachingTable.name, the name the
\* table has in Iceberg; source the table a view selects from; seen the
\* snapshot the wrapped provider was made with.
NoEntry == [kind |-> "none", name |-> "", source |-> <<>>, seen |-> 0]
Entries ==
    [kind : {"none", "table", "view", "stage"}, name : TableNames \cup {""},
     source : Paths \cup {<<>>}, seen : Nat]

\* What Iceberg knows of a table: which creation it is, and its snapshot.
NoTable == [id |-> 0, snap |-> 0]

CatalogStates ==
    [catalogs : SUBSET {Database}, schemas : SUBSET SchemaNames, tables : SUBSET Paths,
     cache : [SchemaNames -> Nat],
     objects : Seq([name : SchemaNames, namespace : SchemaNames, tables : [TableNames -> Entries]])]
IcebergStates ==
    [namespaces : SUBSET SchemaNames, tables : [Paths -> [id : Nat, snap : Nat]], next : Nat \ {0}]

-----------------------------------------------------------------------------
(* CachingCatalog *)

EmptyCache == [t \in TableNames |-> NoEntry]

\* A new CachingSchema under name, put into schemas_cache.
CachingSchema(c, name, namespace) ==
    [c EXCEPT !.objects = Append(@, [name |-> name, namespace |-> namespace, tables |-> EmptyCache]),
              !.cache = [@ EXCEPT ![name] = Len(c.objects) + 1]]

\* CachingCatalog::schema: the cached object, else a new one when the mirror
\* knows the name.  schema_id is the object the call answers, 0 for None.
schema(c, name) ==
    IF c.cache[name] = 0 /\ name \in c.schemas THEN CachingSchema(c, name, name) ELSE c
schema_id(c, name) == schema(c, name).cache[name]

\* CachingCatalog::schema_names: the mirror's names; cached schemas that are
\* not among them are evicted.
schema_names(c) == [c EXCEPT !.cache = [n \in SchemaNames |-> IF n \in c.schemas THEN @[n] ELSE 0]]

\* create_namespace_async and drop_namespace_async, after Iceberg agreed.
create_namespace_async(c, name) ==
    CachingSchema([c EXCEPT !.schemas = @ \cup {name}], name, name)
drop_namespace_async(c, name) ==
    [c EXCEPT !.schemas = @ \ {name}, !.tables = {p \in @ : p[1] # name},
              !.cache = [@ EXCEPT ![name] = 0]]

-----------------------------------------------------------------------------
(* CachingSchema; o is the object, a position in c.objects *)

Path(c, o, t) == <<c.objects[o].name, t>>
Identifier(c, o, t) == <<c.objects[o].namespace, t>>
Cached(c, o, t) == c.objects[o].tables[t]
Put(c, o, t, entry) == [c EXCEPT !.objects[o].tables[t] = entry]

table_names(c, o) ==
    {t \in TableNames : Path(c, o, t) \in c.tables \/ Cached(c, o, t) # NoEntry}

table_exist(c, o, t) == Cached(c, o, t) # NoEntry \/ Path(c, o, t) \in c.tables

\* What a provider leads to: a view's source, or a table as Iceberg has it.
View(source) == [view |-> TRUE, path |-> source, id |-> 0, snap |-> 0]
Table(i, path) == [view |-> FALSE, path |-> path, id |-> i.tables[path].id, snap |-> i.tables[path].snap]
Missing == [view |-> FALSE, path |-> <<>>, id |-> 0, snap |-> 0]
IsThere(found) == found.view \/ found.id # 0

\* The identifier load_fresh_iceberg_table asks for: the name comes from the
\* cache entry when there is one, the namespace from the schema.
load_fresh_iceberg_table(c, o, t) ==
    Identifier(c, o, IF Cached(c, o, t) = NoEntry THEN t ELSE Cached(c, o, t).name)

\* CachingSchema::table: only views come from the cache.
FromCache(c, o, t) == Cached(c, o, t).kind = "view"

\* The mirror is keyed by the schema's name; registering does not fail.
mirror_register(c, o, t) == [c EXCEPT !.tables = @ \cup {Path(c, o, t)}]
mirror_deregister(c, o, t) == [c EXCEPT !.tables = @ \ {Path(c, o, t)}]

register_table(c, o, t, entry) == Put(mirror_register(c, o, t), o, t, entry)

\* A view leaves the cache but not the mirror.
deregister_table(c, o, t) ==
    IF Cached(c, o, t).kind \in {"table", "stage"}
    THEN mirror_deregister(Put(c, o, t, NoEntry), o, t)
    ELSE Put(c, o, t, NoEntry)

\* Mutant: the entry is named after the namespace.
create_iceberg_table_async_named(c, o, t, snap) ==
    register_table(c, o, t, [NoEntry EXCEPT !.kind = "table", !.name = c.objects[o].namespace, !.seen = snap])

\* create_iceberg_table_async after Iceberg answered.
create_iceberg_table_async(c, o, t, snap) ==
    register_table(c, o, t, [NoEntry EXCEPT !.kind = "table", !.name = t, !.seen = snap])

\* Mutant: the entry stays until Iceberg has answered.
drop_table_async_keeps(c, o, t) == c

\* drop_table_async up to its remote call: the cache entry goes first, and
\* Iceberg is only asked when there was one and it was no view.
drop_table_async(c, o, t) == Put(c, o, t, NoEntry)
AsksIceberg(c, o, t) == Cached(c, o, t).kind \in {"table", "stage"}

-----------------------------------------------------------------------------
(* EmbucketCatalogList *)

NoCatalog ==
    [catalogs |-> {}, schemas |-> {}, tables |-> {},
     cache |-> [n \in SchemaNames |-> 0], objects |-> <<>>]

drop_catalog(c) == [c EXCEPT !.catalogs = {}]

\* Eager registration: the mirror has everything Iceberg lists, no cache is filled.
register_iceberg_catalog(i) ==
    [NoCatalog EXCEPT !.catalogs = {Database}, !.schemas = i.namespaces,
                      !.tables = {p \in Paths : i.tables[p].id # 0}]

case_aliases(n) ==
    LET push(aliases, alias) == IF alias \in Range(aliases) THEN aliases ELSE Append(aliases, alias)
    IN  push(push(<<n>>, Lower[n]), Upper[n])

\* The object bootstrap_caching_schema makes for one alias of a namespace, with
\* every alias of the table leading to the table's own name.
bootstrap_caching_schema(i, alias, path) ==
    [name |-> alias, namespace |-> path[1],
     tables |-> [t \in TableNames |->
                    IF t \in Range(case_aliases(path[2]))
                    THEN [NoEntry EXCEPT !.kind = "table", !.name = path[2], !.seen = i.tables[path].snap]
                    ELSE NoEntry]]

\* Lazy registration: only the given schemas, and the one bootstrap table, are known.
register_iceberg_catalog_lazy(i, bootstrap_schemas, path) ==
    LET aliases == case_aliases(path[1])
    IN  [catalogs |-> {Database},
         schemas |-> bootstrap_schemas \cup Range(aliases),
         tables |-> {path},
         cache |-> [n \in SchemaNames |-> IF n \in Range(aliases)
                                          THEN CHOOSE k \in 1..Len(aliases) : aliases[k] = n ELSE 0],
         objects |-> [k \in 1..Len(aliases) |-> bootstrap_caching_schema(i, aliases[k], path)]]

-----------------------------------------------------------------------------
(* The Iceberg catalog: what one request does to it and whether it agrees.  *)

Request(op, path, id) == [op |-> op, path |-> path, id |-> id]

Agrees(i, r) ==
    CASE r.op = "create" -> r.path[1] \in i.namespaces /\ i.tables[r.path].id = 0
      [] r.op = "drop" -> i.tables[r.path].id # 0
      [] r.op = "append" -> i.tables[r.path].id = r.id
      [] r.op = "create_namespace" -> r.path[1] \notin i.namespaces
      [] r.op = "drop_namespace" ->
            r.path[1] \in i.namespaces /\ \A p \in Paths : p[1] = r.path[1] => i.tables[p].id = 0
      [] OTHER -> TRUE

Effect(i, r) ==
    CASE r.op = "create" -> [i EXCEPT !.tables[r.path] = [id |-> i.next, snap |-> i.next], !.next = @ + 1]
      [] r.op = "drop" -> [i EXCEPT !.tables[r.path] = NoTable, !.next = @ + 1]
      [] r.op = "append" -> [i EXCEPT !.tables[r.path].snap = i.next, !.next = @ + 1]
      [] r.op = "create_namespace" -> [i EXCEPT !.namespaces = @ \cup {r.path[1]}]
      [] r.op = "drop_namespace" -> [i EXCEPT !.namespaces = @ \ {r.path[1]}]
      [] OTHER -> i

Performed(i, r) == IF Agrees(i, r) THEN Effect(i, r) ELSE i
=============================================================================

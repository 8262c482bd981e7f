------------------------------ MODULE Metastore ------------------------------
(***************************************************************************)
(* InMemoryMetastore (catalog-metastore/src/metastore.rs): volumes,        *)
(* databases, schemas and tables behind one tokio RwLock, and the cache of *)
(* object stores beside it.                                                *)
(*                                                                         *)
(* An operation that is one critical section is one action; a call that    *)
(* fails without changing anything is a stuttering step and is not written *)
(* down.  create_table and update_table keep the write lock while they put *)
(* metadata into the object store, and volume_object_store reads the cache *)
(* and the map of volumes apart: these are the calls of Tasks.             *)
(*                                                                         *)
(* Databases and volumes are filed under the name the caller gives;        *)
(* schemas and tables under the lower-cased one, while some operations     *)
(* look for them under the name as given.                                  *)
(***************************************************************************)
EXTENDS Naturals

CONSTANTS
    VolumeIdents, DatabaseIdents, SchemaNames, TableNames,
    Lower,   \* to_ascii_lowercase
    Tasks,   \* concurrent callers of the operations that are several steps
    None

ASSUME LowerAssumption ==
    /\ \A d \in DatabaseIdents : Lower[d] \in DatabaseIdents
    /\ \A s \in SchemaNames : Lower[s] \in SchemaNames
    /\ \A n \in TableNames : Lower[n] \in TableNames

TableIdents == DatabaseIdents \X SchemaNames \X TableNames

ASSUME NoneAssumption == None \notin VolumeIdents \cup Tasks \cup TableIdents

schema_key(d, s) == <<Lower[d], Lower[s]>>
table_key(i) == <<Lower[i[1]], Lower[i[2]], Lower[i[3]]>>

VARIABLES
    volumes,     \* MetastoreState.volumes
    databases,   \* MetastoreState.databases: the volume of each
    schemas,     \* keys of MetastoreState.schemas
    tables,      \* MetastoreState.tables: the volume_ident of each
    cache,       \* keys of object_store_cache
    writer,      \* the task that keeps the write lock across an await
    pc, ident, volume,  \* of each task: where it is, and its arguments
    updated,     \* history: the databases update_database has changed
    registered   \* history: the tables register_table has stored

state == <<volumes, databases, schemas, tables>>
taskVars == <<pc, ident, volume>>
history == <<updated, registered>>
vars == <<state, cache, writer, taskVars, history>>

TypeOK ==
    /\ volumes \in SUBSET VolumeIdents
    /\ databases \in [DatabaseIdents -> VolumeIdents \cup {None}]
    /\ schemas \in SUBSET (DatabaseIdents \X SchemaNames)
    /\ tables \in [TableIdents -> VolumeIdents \cup {None}]
    /\ cache \in SUBSET VolumeIdents
    /\ writer \in Tasks \cup {None}
    /\ pc \in [Tasks -> {"idle", "cache", "read", "insert", "update",
                         "update_put", "create_read", "create_put"}]
    /\ ident \in [Tasks -> TableIdents \cup {None}]
    /\ volume \in [Tasks -> VolumeIdents \cup {None}]
    /\ updated \in SUBSET DatabaseIdents
    /\ registered \in SUBSET TableIdents

Init ==
    /\ volumes = {}
    /\ databases = [d \in DatabaseIdents |-> None]
    /\ schemas = {}
    /\ tables = [i \in TableIdents |-> None]
    /\ cache = {}
    /\ writer = None
    /\ pc = [t \in Tasks |-> "idle"]
    /\ ident = [t \in Tasks |-> None]
    /\ volume = [t \in Tasks |-> None]
    /\ updated = {}
    /\ registered = {}

\* The lock can be had, for reading or for writing.
LockFree == writer = None

-----------------------------------------------------------------------------
(* Volumes *)

\* Mutant: the store is left to be cached by the first lookup.
create_volume_lazily(v) ==
    /\ LockFree /\ v \notin volumes
    /\ volumes' = volumes \cup {v}
    /\ UNCHANGED <<databases, schemas, tables, cache, writer, taskVars, history>>

create_volume(v) ==
    /\ LockFree /\ v \notin volumes
    /\ volumes' = volumes \cup {v}
    /\ cache' = cache \cup {v}
    /\ UNCHANGED <<databases, schemas, tables, writer, taskVars, history>>

update_volume(v) ==
    /\ LockFree /\ v \in volumes
    /\ cache' = cache \cup {v}
    /\ UNCHANGED <<state, writer, taskVars, history>>

\* The state without the databases ds, their schemas and their tables.
RemoveDatabases(ds) ==
    /\ databases' = [d \in DatabaseIdents |-> IF d \in ds THEN None ELSE databases[d]]
    /\ schemas' = {k \in schemas : k[1] \notin ds}
    /\ tables' = [i \in TableIdents |-> IF i[1] \in ds THEN None ELSE tables[i]]

delete_volume(v, cascade) ==
    LET in_use == {d \in DatabaseIdents : databases[d] = v} IN
    /\ LockFree
    /\ cascade \/ in_use = {}
    /\ RemoveDatabases(in_use)
    /\ volumes' = volumes \ {v}
    /\ cache' = IF v \in volumes THEN cache \ {v} ELSE cache
    /\ UNCHANGED <<writer, taskVars, history>>

-----------------------------------------------------------------------------
(* Databases and schemas *)

create_database(d, v) ==
    /\ LockFree /\ v \in volumes /\ databases[d] = None
    /\ databases' = [databases EXCEPT ![d] = v]
    /\ updated' = updated \ {d}
    /\ UNCHANGED <<volumes, schemas, tables, cache, writer, taskVars, registered>>

\* The volume is not looked up.
update_database(d, v) ==
    /\ LockFree /\ databases[d] # None
    /\ databases' = [databases EXCEPT ![d] = v]
    /\ updated' = updated \cup {d}
    /\ UNCHANGED <<volumes, schemas, tables, cache, writer, taskVars, registered>>

delete_database(d, cascade) ==
    /\ LockFree
    /\ cascade \/ \A k \in schemas : k[1] # d
    /\ RemoveDatabases({d})
    /\ UNCHANGED <<volumes, cache, writer, taskVars, history>>

create_schema(d, s) ==
    /\ LockFree
    /\ schema_key(d, s) \notin schemas /\ databases[d] # None
    /\ schemas' = schemas \cup {schema_key(d, s)}
    /\ UNCHANGED <<volumes, databases, tables, cache, writer, taskVars, history>>

\* Its tables are looked for under the names as given.
delete_schema(d, s, cascade) ==
    LET inside == {i \in TableIdents : i[1] = d /\ i[2] = s} IN
    /\ LockFree
    /\ cascade \/ \A i \in inside : tables[i] = None
    /\ tables' = [i \in TableIdents |-> IF i \in inside THEN None ELSE tables[i]]
    /\ schemas' = schemas \ {schema_key(d, s)}
    /\ UNCHANGED <<volumes, databases, cache, writer, taskVars, history>>

-----------------------------------------------------------------------------
(* Tables *)

\* Nothing is checked; an existing table is replaced.  Its caller always names
\* a volume.
register_table(i, v) ==
    /\ LockFree
    /\ tables' = [tables EXCEPT ![table_key(i)] = v]
    /\ registered' = registered \cup {table_key(i)}
    /\ UNCHANGED <<volumes, databases, schemas, cache, writer, taskVars, updated>>

delete_table(i) ==
    /\ LockFree
    /\ tables' = [tables EXCEPT ![table_key(i)] = None]
    /\ UNCHANGED <<volumes, databases, schemas, cache, writer, taskVars, history>>

Call(t, to, i, v) ==
    /\ pc' = [pc EXCEPT ![t] = to]
    /\ ident' = [ident EXCEPT ![t] = i]
    /\ volume' = [volume EXCEPT ![t] = v]

Return(t) == Call(t, "idle", None, None)

\* Mutant: the lock is given back while the metadata is put.
create_table_unlocked(t, i, v) ==
    LET vol == IF v # None THEN v ELSE databases[i[1]] IN
    /\ pc[t] = "idle" /\ LockFree
    /\ schema_key(i[1], i[2]) \in schemas
    /\ tables[table_key(i)] = None
    /\ vol \in volumes
    /\ Call(t, "create_put", i, vol)
    /\ UNCHANGED <<state, cache, writer, history>>

\* create_table takes the write lock and finds its volume: the request's v, or
\* the database's when v is None.  volume_object_store answers from the cache,
\* or asks for the read lock, which the task itself keeps anyone from getting.
create_table(t, i, v) ==
    LET vol == IF v # None THEN v ELSE databases[i[1]] IN
    /\ pc[t] = "idle" /\ LockFree
    /\ schema_key(i[1], i[2]) \in schemas
    /\ tables[table_key(i)] = None
    /\ vol \in volumes
    /\ writer' = t
    /\ Call(t, IF vol \in cache THEN "create_put" ELSE "create_read", i, vol)
    /\ UNCHANGED <<state, cache, history>>

\* put_metadata ends; if it succeeds the table is inserted.
create_table_put(t) ==
    /\ pc[t] = "create_put"
    /\ \/ /\ tables' = [tables EXCEPT ![table_key(ident[t])] = volume[t]]
          /\ registered' = registered \ {table_key(ident[t])}
       \/ UNCHANGED <<tables, registered>>
    /\ writer' = None
    /\ Return(t)
    /\ UNCHANGED <<volumes, databases, schemas, cache, updated>>

-----------------------------------------------------------------------------
(* Object stores, and the tables that are committed to them *)

\* volume_for_table: the table's volume, or the database's.
volume_for_table(i) ==
    IF tables[table_key(i)] # None THEN tables[table_key(i)] ELSE databases[Lower[i[1]]]

\* volume_object_store(v), called on its own.
volume_object_store(t, v) ==
    /\ pc[t] = "idle"
    /\ Call(t, "cache", None, v)
    /\ UNCHANGED <<state, cache, writer, history>>

\* update_table and table_object_store: the volume is found under the read lock.
update_table(t, i) ==
    /\ pc[t] = "idle" /\ LockFree
    /\ volume_for_table(i) \in volumes
    /\ Call(t, "cache", i, volume_for_table(i))
    /\ UNCHANGED <<state, cache, writer, history>>

\* volume_object_store has its store: update_table goes on with it.
HaveStore(t) ==
    IF ident[t] = None
    THEN Return(t)
    ELSE pc' = [pc EXCEPT ![t] = "update"] /\ UNCHANGED <<ident, volume>>

CacheLookup(t) ==
    /\ pc[t] = "cache"
    /\ IF volume[t] \in cache
       THEN HaveStore(t)
       ELSE pc' = [pc EXCEPT ![t] = "read"] /\ UNCHANGED <<ident, volume>>
    /\ UNCHANGED <<state, cache, writer, history>>

\* A miss: get_volume, under the read lock.
get_volume(t) ==
    /\ pc[t] = "read" /\ LockFree
    /\ IF volume[t] \in volumes
       THEN pc' = [pc EXCEPT ![t] = "insert"] /\ UNCHANGED <<ident, volume>>
       ELSE Return(t)
    /\ UNCHANGED <<state, cache, writer, history>>

\* The store built for it is cached, under no lock.
CacheInsert(t) ==
    /\ pc[t] = "insert"
    /\ cache' = cache \cup {volume[t]}
    /\ HaveStore(t)
    /\ UNCHANGED <<state, writer, history>>

\* Mutant: the table is found, and the lock is not kept.
update_table_unlocked(t) ==
    /\ pc[t] = "update" /\ LockFree
    /\ IF tables[table_key(ident[t])] # None
       THEN pc' = [pc EXCEPT ![t] = "update_put"] /\ UNCHANGED <<ident, volume>>
       ELSE Return(t)
    /\ UNCHANGED <<state, cache, writer, history>>

\* update_table takes the write lock and looks the table up; it returns when
\* the table is gone, or when a requirement or an update fails.
update_table_lock(t) ==
    /\ pc[t] = "update" /\ LockFree
    /\ \/ /\ tables[table_key(ident[t])] # None
          /\ pc' = [pc EXCEPT ![t] = "update_put"]
          /\ writer' = t
          /\ UNCHANGED <<ident, volume>>
       \/ Return(t) /\ UNCHANGED writer
    /\ UNCHANGED <<state, cache, history>>

\* put_metadata ends, and the new metadata is stored if it succeeded.  What
\* metadata a table has is not modelled.
update_table_put(t) ==
    /\ pc[t] = "update_put"
    /\ writer' = None
    /\ Return(t)
    /\ UNCHANGED <<state, cache, history>>

\* The caller's future is dropped where it waits for the lock.
DropCall(t) ==
    /\ pc[t] \in {"read", "update"}
    /\ Return(t)
    /\ UNCHANGED <<state, cache, writer, history>>

-----------------------------------------------------------------------------
VolumeStep(v) ==
    \/ create_volume(v) \/ update_volume(v)
    \/ \E cascade \in BOOLEAN : delete_volume(v, cascade)

DatabaseStep(d) ==
    \/ \E v \in VolumeIdents : create_database(d, v) \/ update_database(d, v)
    \/ \E cascade \in BOOLEAN : delete_database(d, cascade)

SchemaStep(d, s) ==
    \/ create_schema(d, s)
    \/ \E cascade \in BOOLEAN : delete_schema(d, s, cascade)

TableStep(i) ==
    \/ \E v \in VolumeIdents : register_table(i, v)
    \/ delete_table(i)

CallStep(t) ==
    \/ \E i \in TableIdents :
          \/ \E v \in VolumeIdents \cup {None} : create_table(t, i, v)
          \/ update_table(t, i)
    \/ \E v \in VolumeIdents : volume_object_store(t, v)

TaskStep(t) ==
    \/ create_table_put(t) \/ CacheLookup(t) \/ get_volume(t) \/ CacheInsert(t)
    \/ update_table_lock(t) \/ update_table_put(t)

Next ==
    \/ \E v \in VolumeIdents : VolumeStep(v)
    \/ \E d \in DatabaseIdents : DatabaseStep(d)
    \/ \E d \in DatabaseIdents, s \in SchemaNames : SchemaStep(d, s)
    \/ \E i \in TableIdents : TableStep(i)
    \/ \E t \in Tasks : CallStep(t) \/ TaskStep(t) \/ DropCall(t)

Spec == Init /\ [][Next]_vars

\* tokio's RwLock is fair, so a waiting task gets the lock although others
\* keep coming; puts end.
FairSpec == Spec /\ \A t \in Tasks : SF_vars(TaskStep(t))

-----------------------------------------------------------------------------
(* Safety *)

\* create_table holds the write lock when it asks for its object store, and a
\* cache miss would make it wait for its own lock: that never happens, because
\* create_volume and update_volume fill the cache under the same lock and only
\* delete_volume empties it (table_object_store_from_request).
NoSelfDeadlock == \A t \in Tasks : pc[t] # "create_read"

\* What create_table and update_table checked before their put still holds when
\* the put ends, whatever the other calls do: the schema and the volume are
\* there, the table is not there yet, or is still there.
CommitSafe ==
    \A t \in Tasks :
        /\ pc[t] = "create_put" =>
              /\ schema_key(ident[t][1], ident[t][2]) \in schemas
              /\ tables[table_key(ident[t])] = None
              /\ volume[t] \in volumes
        /\ pc[t] = "update_put" => tables[table_key(ident[t])] # None

\* The only spelling of the name n in use is the lower-case one.
Plain(n, names) == \A m \in names : Lower[m] = n <=> m = n

\* The hierarchy: a schema's database, a table's schema and a database's volume
\* exist, through all creations, deletions and cascades.  For names with an
\* upper-case spelling the code does not keep it (delete_database and
\* delete_schema compare the name as given with lower-cased keys), nor for
\* what update_database and register_table stored without a look.
HierarchyKept ==
    /\ \A d \in DatabaseIdents \ updated : databases[d] # None => databases[d] \in volumes
    /\ \A k \in schemas : Plain(k[1], DatabaseIdents) => databases[k[1]] # None
    /\ \A i \in TableIdents \ registered :
          tables[i] # None /\ Plain(i[1], DatabaseIdents) /\ Plain(i[2], SchemaNames) =>
              <<i[1], i[2]>> \in schemas

-----------------------------------------------------------------------------
(* The inductive invariant *)

\* Who has the write lock, and the arguments of each call.
LockInv ==
    \A t \in Tasks :
        /\ writer = t <=> pc[t] \in {"create_put", "update_put"}
        /\ pc[t] \in {"update", "update_put", "create_put"} => ident[t] \in TableIdents
        /\ pc[t] \in {"cache", "read", "insert", "create_put"} => volume[t] \in VolumeIdents

\* Every step of the metastore's operations preserves it.
MetastoreInv ==
    /\ TypeOK /\ LockInv /\ volumes \subseteq cache
    /\ NoSelfDeadlock /\ CommitSafe /\ HierarchyKept

-----------------------------------------------------------------------------
(* Liveness *)

\* Every call of volume_object_store, create_table and update_table returns.
CallsReturn == \A t \in Tasks : pc[t] # "idle" ~> pc[t] = "idle"

=============================================================================

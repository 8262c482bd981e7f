--------------------------- MODULE MetastoreProofs ---------------------------
(***************************************************************************)
(* Proofs about Metastore for all sets of names, any lower-casing and any  *)
(* number of concurrent calls: MetastoreInv is inductive.  An operation    *)
(* that is one critical section runs while no task has the write lock, so  *)
(* it cannot disturb what a put relies on (NobodyWrites); what is left is  *)
(* the hierarchy, action by action.                                        *)
(***************************************************************************)
EXTENDS Metastore, TLAPS

USE NoneAssumption

\* Keys are identifiers again.
LEMMA KeyType ==
  ASSUME NEW i \in TableIdents
  PROVE  /\ table_key(i) \in TableIdents
         /\ table_key(i)[1] = Lower[i[1]] /\ table_key(i)[2] = Lower[i[2]]
         /\ schema_key(i[1], i[2]) = <<table_key(i)[1], table_key(i)[2]>>
         /\ schema_key(i[1], i[2]) \in DatabaseIdents \X SchemaNames
BY LowerAssumption DEF TableIdents, table_key, schema_key

\* A new metastore is empty, and no call is under way.
LEMMA InitInv == Init => MetastoreInv
BY DEF Init, MetastoreInv, TypeOK, LockInv, NoSelfDeadlock, CommitSafe, HierarchyKept

\* A critical section runs while no task is in a put, so what the tasks rely
\* on still holds after it.
LEMMA NobodyWrites ==
  ASSUME MetastoreInv, LockFree, UNCHANGED <<writer, taskVars>>
  PROVE  LockInv' /\ NoSelfDeadlock' /\ CommitSafe'
<1>1. \A t \in Tasks : pc[t] \notin {"create_put", "update_put"}
  BY DEF MetastoreInv, LockInv, LockFree
<1> QED
  BY <1>1 DEF MetastoreInv, LockInv, NoSelfDeadlock, CommitSafe, taskVars

\* Creating and updating a volume keeps it cached.
LEMMA CreateVolumeInv ==
  ASSUME MetastoreInv, NEW v \in VolumeIdents, create_volume(v) \/ update_volume(v)
  PROVE  MetastoreInv'
<1>1. LockInv' /\ NoSelfDeadlock' /\ CommitSafe'
  BY NobodyWrites DEF create_volume, update_volume
<1>2. TypeOK' /\ volumes' \subseteq cache'
  BY DEF create_volume, update_volume, MetastoreInv, TypeOK, state, taskVars, history
<1>3. HierarchyKept'
  BY DEF create_volume, update_volume, MetastoreInv, HierarchyKept, state, history
<1> QED
  BY <1>1, <1>2, <1>3 DEF MetastoreInv

\* Removing databases with all their schemas and tables leaves no orphan.
LEMMA RemoveDatabasesHierarchy ==
  ASSUME TypeOK, HierarchyKept, NEW ds \in SUBSET DatabaseIdents, RemoveDatabases(ds)
  PROVE  /\ \A k \in schemas' : Plain(k[1], DatabaseIdents) => databases'[k[1]] # None
         /\ \A i \in TableIdents \ registered :
               tables'[i] # None /\ Plain(i[1], DatabaseIdents) /\ Plain(i[2], SchemaNames) =>
                   <<i[1], i[2]>> \in schemas'
         /\ databases' \in [DatabaseIdents -> VolumeIdents \cup {None}]
         /\ schemas' \in SUBSET (DatabaseIdents \X SchemaNames)
         /\ tables' \in [TableIdents -> VolumeIdents \cup {None}]
<1>1. \A k \in schemas' : Plain(k[1], DatabaseIdents) => databases'[k[1]] # None
  BY DEF RemoveDatabases, TypeOK, HierarchyKept
<1>2. ASSUME NEW i \in TableIdents \ registered, tables'[i] # None,
             Plain(i[1], DatabaseIdents), Plain(i[2], SchemaNames)
      PROVE  <<i[1], i[2]>> \in schemas'
  <2>1. i[1] \notin ds /\ tables[i] # None
    BY <1>2 DEF RemoveDatabases
  <2>2. <<i[1], i[2]>> \in schemas
    BY <1>2, <2>1 DEF HierarchyKept
  <2> QED
    BY <2>1, <2>2 DEF RemoveDatabases
<1>3. /\ databases' \in [DatabaseIdents -> VolumeIdents \cup {None}]
      /\ schemas' \in SUBSET (DatabaseIdents \X SchemaNames)
      /\ tables' \in [TableIdents -> VolumeIdents \cup {None}]
  BY DEF RemoveDatabases, TypeOK
<1> QED
  BY <1>1, <1>2, <1>3

\* Deleting a volume takes its databases along, or finds none.
LEMMA DeleteVolumeInv ==
  ASSUME MetastoreInv, NEW v \in VolumeIdents, NEW cascade \in BOOLEAN, delete_volume(v, cascade)
  PROVE  MetastoreInv'
<1> DEFINE in_use == {d \in DatabaseIdents : databases[d] = v}
<1>1. LockInv' /\ NoSelfDeadlock' /\ CommitSafe'
  BY NobodyWrites DEF delete_volume
<1>2. RemoveDatabases(in_use)
  BY DEF delete_volume
<1>3. /\ volumes' = volumes \ {v} /\ UNCHANGED <<writer, taskVars, history>>
      /\ cache' \in SUBSET VolumeIdents /\ volumes' \subseteq cache'
  BY DEF delete_volume, MetastoreInv, TypeOK
<1>4. TypeOK'
  BY <1>2, <1>3, RemoveDatabasesHierarchy DEF MetastoreInv, TypeOK, taskVars, history
<1>5. \A d \in DatabaseIdents \ updated' : databases'[d] # None => databases'[d] \in volumes'
  BY <1>2, <1>3 DEF RemoveDatabases, MetastoreInv, TypeOK, HierarchyKept, history
<1>6. HierarchyKept'
  BY <1>2, <1>3, <1>5, RemoveDatabasesHierarchy DEF MetastoreInv, HierarchyKept, history, Plain
<1> QED
  BY <1>1, <1>3, <1>4, <1>6 DEF MetastoreInv

\* A database is created on an existing volume; an updated one is no longer
\* vouched for.
LEMMA CreateDatabaseInv ==
  ASSUME MetastoreInv, NEW d \in DatabaseIdents, NEW v \in VolumeIdents,
         create_database(d, v) \/ update_database(d, v)
  PROVE  MetastoreInv'
<1>1. LockInv' /\ NoSelfDeadlock' /\ CommitSafe'
  BY NobodyWrites DEF create_database, update_database
<1>2. TypeOK' /\ volumes' \subseteq cache'
  BY DEF create_database, update_database, MetastoreInv, TypeOK, taskVars
<1>3. HierarchyKept'
  BY DEF create_database, update_database, MetastoreInv, TypeOK, HierarchyKept, Plain
<1> QED
  BY <1>1, <1>2, <1>3 DEF MetastoreInv

\* Deleting a database takes its schemas and tables along.
LEMMA DeleteDatabaseInv ==
  ASSUME MetastoreInv, NEW d \in DatabaseIdents, NEW cascade \in BOOLEAN,
         delete_database(d, cascade)
  PROVE  MetastoreInv'
<1>1. LockInv' /\ NoSelfDeadlock' /\ CommitSafe'
  BY NobodyWrites DEF delete_database
<1>2. RemoveDatabases({d}) /\ UNCHANGED <<volumes, cache, writer, taskVars, history>>
  BY DEF delete_database
<1>3. TypeOK' /\ volumes' \subseteq cache'
  BY <1>2, RemoveDatabasesHierarchy DEF MetastoreInv, TypeOK, taskVars, history
<1>4. \A e \in DatabaseIdents \ updated' : databases'[e] # None => databases'[e] \in volumes'
  BY <1>2 DEF RemoveDatabases, MetastoreInv, TypeOK, HierarchyKept, history
<1>5. HierarchyKept'
  BY <1>2, <1>4, RemoveDatabasesHierarchy DEF MetastoreInv, HierarchyKept, history, Plain
<1> QED
  BY <1>1, <1>3, <1>5 DEF MetastoreInv

\* A schema is filed under the lower-cased name of a database that exists
\* under the name as given: the same one, when the name is plain.
LEMMA CreateSchemaInv ==
  ASSUME MetastoreInv, NEW d \in DatabaseIdents, NEW s \in SchemaNames, create_schema(d, s)
  PROVE  MetastoreInv'
<1>1. LockInv' /\ NoSelfDeadlock' /\ CommitSafe'
  BY NobodyWrites DEF create_schema
<1>2. TypeOK' /\ volumes' \subseteq cache'
  BY LowerAssumption DEF create_schema, schema_key, MetastoreInv, TypeOK, taskVars, history
<1>3. Plain(Lower[d], DatabaseIdents) => databases[Lower[d]] # None
  BY DEF create_schema, Plain
<1>4. \A k \in schemas' : Plain(k[1], DatabaseIdents) => databases'[k[1]] # None
  BY <1>3 DEF create_schema, schema_key, MetastoreInv, HierarchyKept
<1>5. HierarchyKept'
  BY <1>4 DEF create_schema, MetastoreInv, HierarchyKept, history, Plain
<1> QED
  BY <1>1, <1>2, <1>5 DEF MetastoreInv

\* delete_schema removes the tables filed under the names as given: all of the
\* schema's, when the names are plain.
LEMMA DeleteSchemaInv ==
  ASSUME MetastoreInv, NEW d \in DatabaseIdents, NEW s \in SchemaNames, NEW cascade \in BOOLEAN,
         delete_schema(d, s, cascade)
  PROVE  MetastoreInv'
<1>1. LockInv' /\ NoSelfDeadlock' /\ CommitSafe'
  BY NobodyWrites DEF delete_schema
<1>2. TypeOK' /\ volumes' \subseteq cache'
  BY DEF delete_schema, MetastoreInv, TypeOK, taskVars, history
<1>3. ASSUME NEW i \in TableIdents \ registered, tables'[i] # None,
             Plain(i[1], DatabaseIdents), Plain(i[2], SchemaNames)
      PROVE  <<i[1], i[2]>> \in schemas'
  <2>1. tables[i] # None /\ ~(i[1] = d /\ i[2] = s)
    BY <1>3 DEF delete_schema
  <2>2. <<i[1], i[2]>> \in schemas
    BY <1>3, <2>1 DEF MetastoreInv, HierarchyKept
  <2>3. <<i[1], i[2]>> # schema_key(d, s)
    BY <1>3, <2>1 DEF schema_key, Plain
  <2> QED
    BY <2>2, <2>3 DEF delete_schema
<1>4. HierarchyKept'
  BY <1>3 DEF delete_schema, MetastoreInv, HierarchyKept, history, Plain
<1> QED
  BY <1>1, <1>2, <1>4 DEF MetastoreInv

\* A registered table is not vouched for; a deleted one is gone.
LEMMA RegisterTableInv ==
  ASSUME MetastoreInv, NEW i \in TableIdents,
         (\E v \in VolumeIdents : register_table(i, v)) \/ delete_table(i)
  PROVE  MetastoreInv'
<1>1. LockInv' /\ NoSelfDeadlock' /\ CommitSafe'
  BY NobodyWrites DEF register_table, delete_table
<1>2. table_key(i) \in TableIdents
  BY KeyType
<1>3. TypeOK' /\ volumes' \subseteq cache'
  BY <1>2 DEF register_table, delete_table, MetastoreInv, TypeOK, taskVars, history
<1>4. HierarchyKept'
  BY <1>2 DEF register_table, delete_table, MetastoreInv, TypeOK, HierarchyKept, history, Plain
<1> QED
  BY <1>1, <1>3, <1>4 DEF MetastoreInv

-----------------------------------------------------------------------------
\* A step that moves one task and leaves state, cache and history alone keeps
\* the types and the hierarchy.
LEMMA CallKeepsState ==
  ASSUME MetastoreInv, UNCHANGED <<state, cache, history>>
  PROVE  HierarchyKept' /\ volumes' \subseteq cache'
BY DEF MetastoreInv, HierarchyKept, state, history, Plain

\* create_table finds its store in the cache, since all volumes are there.
LEMMA CreateTableInv ==
  ASSUME MetastoreInv, NEW t \in Tasks, NEW i \in TableIdents,
         NEW v \in VolumeIdents \cup {None}, create_table(t, i, v)
  PROVE  MetastoreInv'
<1> DEFINE vol == IF v # None THEN v ELSE databases[i[1]]
<1>1. HierarchyKept' /\ volumes' \subseteq cache'
  BY CallKeepsState DEF create_table
<1>2. vol \in volumes /\ vol \in cache /\ vol \in VolumeIdents
  BY DEF create_table, MetastoreInv, TypeOK
<1>3. /\ writer = None /\ writer' = t
      /\ pc' = [pc EXCEPT ![t] = "create_put"]
      /\ ident' = [ident EXCEPT ![t] = i]
      /\ volume' = [volume EXCEPT ![t] = vol]
      /\ UNCHANGED <<state, cache, history>>
  BY <1>2 DEF create_table, Call, LockFree
<1>4. TypeOK'
  BY <1>2, <1>3 DEF MetastoreInv, TypeOK, state, history
<1>5. LockInv'
  BY <1>2, <1>3 DEF MetastoreInv, TypeOK, LockInv
<1>6. NoSelfDeadlock'
  BY <1>3 DEF MetastoreInv, TypeOK, NoSelfDeadlock
<1>7. CommitSafe'
  <2>1. \A u \in Tasks \ {t} : pc'[u] \notin {"create_put", "update_put"}
    BY <1>3 DEF MetastoreInv, TypeOK, LockInv
  <2>2. schema_key(i[1], i[2]) \in schemas /\ tables[table_key(i)] = None
    BY DEF create_table
  <2> QED
    BY <1>2, <1>3, <2>1, <2>2 DEF MetastoreInv, TypeOK, CommitSafe, state
<1> QED
  BY <1>1, <1>4, <1>5, <1>6, <1>7 DEF MetastoreInv

\* The writer's put ends: the table goes into the schema that was checked, and
\* no other task is in a put.
LEMMA CreateTablePutInv ==
  ASSUME MetastoreInv, NEW t \in Tasks, create_table_put(t)
  PROVE  MetastoreInv'
<1> DEFINE key == table_key(ident[t])
<1>1. /\ pc[t] = "create_put" /\ writer = t
      /\ ident[t] \in TableIdents /\ volume[t] \in VolumeIdents
      /\ schema_key(ident[t][1], ident[t][2]) \in schemas
  BY DEF create_table_put, MetastoreInv, LockInv, CommitSafe
<1>2. key \in TableIdents /\ <<key[1], key[2]>> \in schemas
  BY <1>1, KeyType
<1>3. /\ pc' = [pc EXCEPT ![t] = "idle"]
      /\ ident' = [ident EXCEPT ![t] = None]
      /\ volume' = [volume EXCEPT ![t] = None]
      /\ writer' = None
      /\ UNCHANGED <<volumes, databases, schemas, cache, updated>>
      /\ \/ tables' = [tables EXCEPT ![key] = volume[t]] /\ registered' = registered \ {key}
         \/ UNCHANGED <<tables, registered>>
  BY DEF create_table_put, Return, Call
<1>4. TypeOK' /\ volumes' \subseteq cache'
  BY <1>1, <1>2, <1>3 DEF MetastoreInv, TypeOK
<1>5. \A u \in Tasks : pc'[u] \notin {"create_put", "update_put"}
  BY <1>1, <1>3 DEF MetastoreInv, TypeOK, LockInv
<1>6. LockInv' /\ NoSelfDeadlock' /\ CommitSafe'
  BY <1>3, <1>5 DEF MetastoreInv, TypeOK, LockInv, NoSelfDeadlock, CommitSafe
<1>7. HierarchyKept'
  BY <1>2, <1>3 DEF MetastoreInv, TypeOK, HierarchyKept, Plain
<1> QED
  BY <1>4, <1>6, <1>7 DEF MetastoreInv

\* The steps before update_table's put, and volume_object_store's own, touch
\* at most the cache, and only add to it.
LEMMA ObjectStoreInv ==
  ASSUME MetastoreInv, NEW t \in Tasks,
         \/ \E v \in VolumeIdents : volume_object_store(t, v)
         \/ \E i \in TableIdents : update_table(t, i)
         \/ CacheLookup(t) \/ get_volume(t) \/ CacheInsert(t) \/ DropCall(t)
  PROVE  MetastoreInv'
<1> DEFINE Before == {"idle", "cache", "read", "insert", "update"}
<1>1. /\ pc[t] \in Before
      /\ \E to \in Before : pc' = [pc EXCEPT ![t] = to]
      /\ UNCHANGED <<state, writer, history>>
      /\ cache' \in SUBSET VolumeIdents /\ cache \subseteq cache'
  BY DEF volume_object_store, update_table, CacheLookup, get_volume, CacheInsert, DropCall,
         HaveStore, Return, Call, MetastoreInv, TypeOK, LockInv
<1>2. /\ ident' \in [Tasks -> TableIdents \cup {None}]
      /\ volume' \in [Tasks -> VolumeIdents \cup {None}]
      /\ \A u \in Tasks \ {t} : ident'[u] = ident[u] /\ volume'[u] = volume[u]
  BY DEF volume_object_store, update_table, CacheLookup, get_volume, CacheInsert, DropCall,
         HaveStore, Return, Call, MetastoreInv, TypeOK
<1>3. /\ pc'[t] = "update" => ident'[t] \in TableIdents
      /\ pc'[t] \in {"cache", "read", "insert"} => volume'[t] \in VolumeIdents
  BY DEF volume_object_store, update_table, CacheLookup, get_volume, CacheInsert, DropCall,
         HaveStore, Return, Call, MetastoreInv, TypeOK, LockInv
<1>4. TypeOK' /\ volumes' \subseteq cache'
  BY <1>1, <1>2 DEF MetastoreInv, TypeOK, state, history
<1>5. LockInv'
  BY <1>1, <1>2, <1>3 DEF MetastoreInv, TypeOK, LockInv
<1>6. NoSelfDeadlock' /\ CommitSafe'
  BY <1>1, <1>2 DEF MetastoreInv, TypeOK, NoSelfDeadlock, CommitSafe, state
<1>7. HierarchyKept'
  BY <1>1 DEF MetastoreInv, HierarchyKept, state, history, Plain
<1> QED
  BY <1>4, <1>5, <1>6, <1>7 DEF MetastoreInv

\* update_table keeps the lock from its look at the table to the end of its put.
LEMMA UpdateTableInv ==
  ASSUME MetastoreInv, NEW t \in Tasks, update_table_lock(t) \/ update_table_put(t)
  PROVE  MetastoreInv'
<1>1. HierarchyKept' /\ volumes' \subseteq cache'
  BY CallKeepsState DEF update_table_lock, update_table_put
<1>2. TypeOK'
  BY DEF update_table_lock, update_table_put, Return, Call, MetastoreInv, TypeOK, state, history
<1>3. LockInv' /\ NoSelfDeadlock'
  BY DEF update_table_lock, update_table_put, Return, Call, LockFree, MetastoreInv, TypeOK,
         LockInv, NoSelfDeadlock
<1>4. \A u \in Tasks \ {t} : pc[u] \notin {"create_put", "update_put"}
  BY DEF update_table_lock, update_table_put, LockFree, MetastoreInv, LockInv
<1>5. CommitSafe'
  BY <1>4 DEF update_table_lock, update_table_put, Return, Call, MetastoreInv, TypeOK,
         CommitSafe, state
<1> QED
  BY <1>1, <1>2, <1>3, <1>5 DEF MetastoreInv

-----------------------------------------------------------------------------
\* Every step preserves the invariant.
LEMMA StepInv == MetastoreInv /\ [Next]_vars => MetastoreInv'
<1> SUFFICES ASSUME MetastoreInv, [Next]_vars PROVE MetastoreInv'
  OBVIOUS
<1>1. ASSUME NEW v \in VolumeIdents, VolumeStep(v) PROVE MetastoreInv'
  BY <1>1, CreateVolumeInv, DeleteVolumeInv DEF VolumeStep
<1>2. ASSUME NEW d \in DatabaseIdents, DatabaseStep(d) PROVE MetastoreInv'
  BY <1>2, CreateDatabaseInv, DeleteDatabaseInv DEF DatabaseStep
<1>3. ASSUME NEW d \in DatabaseIdents, NEW s \in SchemaNames, SchemaStep(d, s)
      PROVE  MetastoreInv'
  BY <1>3, CreateSchemaInv, DeleteSchemaInv DEF SchemaStep
<1>4. ASSUME NEW i \in TableIdents, TableStep(i) PROVE MetastoreInv'
  BY <1>4, RegisterTableInv DEF TableStep
<1>5. ASSUME NEW t \in Tasks, CallStep(t) PROVE MetastoreInv'
  BY <1>5, CreateTableInv, ObjectStoreInv DEF CallStep
<1>6. ASSUME NEW t \in Tasks, TaskStep(t) \/ DropCall(t) PROVE MetastoreInv'
  BY <1>6, CreateTablePutInv, ObjectStoreInv, UpdateTableInv DEF TaskStep
<1>7. CASE UNCHANGED vars
  BY <1>7 DEF vars, state, taskVars, history, MetastoreInv, TypeOK, LockInv, NoSelfDeadlock,
              CommitSafe, HierarchyKept, Plain
<1> QED
  BY <1>1, <1>2, <1>3, <1>4, <1>5, <1>6, <1>7 DEF Next

\* The metastore's inductive invariant, for any names and any number of calls.
THEOREM MetastoreInvariant == Spec => []MetastoreInv
BY InitInv, StepInv, PTL DEF Spec

\* create_table never waits for the read lock under its own write lock.
THEOREM CreateTableNeverBlocksItself == Spec => []NoSelfDeadlock
<1>1. MetastoreInv => NoSelfDeadlock
  BY DEF MetastoreInv
<1> QED
  BY <1>1, MetastoreInvariant, PTL

\* What create_table and update_table checked holds until their put ends.
THEOREM PutsAreSafe == Spec => []CommitSafe
<1>1. MetastoreInv => CommitSafe
  BY DEF MetastoreInv
<1> QED
  BY <1>1, MetastoreInvariant, PTL

\* Creations, deletions and cascades leave no orphan under a plain name.
THEOREM HierarchyIsKept == Spec => []HierarchyKept
<1>1. MetastoreInv => HierarchyKept
  BY DEF MetastoreInv
<1> QED
  BY <1>1, MetastoreInvariant, PTL

=============================================================================

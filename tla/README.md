# TLA+ models of Embucket's query service

Embucket (`crates/`) is a Snowflake-compatible SQL server: a REST front end
hands statements to an execution service, which runs them with DataFusion
against Iceberg catalogs. This directory holds TLA+ models of the parts of it
where several tasks share state, of its SQL functions, of its plan rules and of
the results it sends, the TLC configurations that check them on small instances,
and TLAPS proofs of their central properties for every instance. `PROJECT.json` is the machine-readable index: components, runs,
mutants, the map from definitions to source lines, findings, hazards and
theorems.

## 1. The system and its parts

| Part | Source | State | Operations | Here |
|---|---|---|---|---|
| Query life cycle | `executor/src/service.rs`, `running_queries.rs`, `query_task_result.rs` | two concurrent maps (`queries`, `requests_ids`); per query a watch channel, a cancellation token, a oneshot start gate, a join handle | `submit`, `wait`, `query`, `abort`, the query task, its nested task, the discard task | `QueryLifecycle` |
| REST query and abort handlers | `api-snowflake-rest/src/server/logic.rs`, `handlers.rs` | none of their own | query-request (first attempt, retry), abort-request | `QueryLifecycle` |
| Session registry | `executor/src/service.rs`, `executor/src/session.rs` | `df_sessions` behind an RwLock, an atomic expiry per session | create, refresh, get, delete, purge | `Sessions` |
| Session extractor and session handlers | `api-snowflake-rest-sessions/src/session.rs`, `handlers.rs` | none | login, heartbeat, session delete, the resolution before every query | `Sessions` |
| Idle shutdown | `service.rs` (`timeout_signal`), `embucketd/src/main.rs` (`shutdown_signal`) | `idle_since` | periodic sample, stop | `IdleShutdown` |
| Metastore | `catalog-metastore/src/metastore.rs` | volumes, databases, schemas, tables behind one RwLock, an object store cache | create, get, update, delete, list | `Metastore` |
| Catalog list and caches | `catalog/src/` | registered catalogs, a mirror of names, cached schemas and tables over a remote Iceberg catalog | bootstrap, lookup, create, drop | `Catalog` |
| Statements | `executor/src/query.rs`, `catalog/src/information_schema/` | the session's variables, object stores; a statement's place between two awaits | one handler per statement kind | `Statements` |
| Session variables | `functions/src/session_params.rs`, `executor/src/session.rs` | the variable map behind a lock | SET, UNSET, ALTER SESSION, USE | `Statements` |
| MERGE | `executor/src/query.rs`, `executor/src/datafusion/{logical,physical}_plan/merge.rs` | snapshots of the table; per statement a stream, its counters and its files | plan, poll, commit | `Merge` |
| Functions | `functions/src/` | none (accumulators in aggregates) | scalar, aggregate and table functions | the function modules, `Aggregates` |
| Query results | `executor/src/utils.rs`, `models.rs`, `api-snowflake-rest/src/server/helpers.rs` | none | conversion of record batches for JSON and Arrow | `QueryResults` |
| Optimizer rules | `executor/src/datafusion/*_optimizer/` | none | rewrites of plans | `PlanRules` |
| Upload, bootstrap files, syntax rewrites, error mapping, JWT/SPCS, CLI, history, tooling | several | none that is shared | - | not modelled, see section 6 |

How they interact. Every request except login and abort passes the extractor,
which refreshes or creates the session. A query-request then calls
`ExecutionService::query`, that is `submit` followed by `wait`; `submit` takes
the session out of `df_sessions`, spawns the query task, enters the query in
the registry and opens the gate the task waits at. The expiry task looks at
`df_sessions` and at the registry; the idle sampler looks at both, one after
the other. An abort-request and `SYSTEM$CANCEL_QUERY` reach a query through
the registry only. A statement plans and runs against the catalog list, which
all sessions share; DDL changes Iceberg, the mirror and the caches one after
the other. What a query answers is converted for the client at the end.

What is hard about it: tasks interleave at every access to a shared map; the
handler's future can be dropped at any await (closed connection, HTTP
timeout) while the query task goes on; clients retry; statements hang;
cancellation, timeout and completion can be ready together; the expiry task
works with a clock it read before it got the lock; idleness is only sampled;
the catalog's caches run behind a remote service that other clients write to;
writers of one table commit against snapshots they read earlier; rows of a
group reach an aggregate in any cut into batches and partitions.
The hazards are listed with their lines in `PROJECT.json`.

## 2. Modules

| Module | Role |
|---|---|
| `QueryLifecycle` | handlers, registry, query tasks |
| `QueryPromise` | what a caller may rely on; `QueryLifecycle` implements it |
| `QueryLifecycleProofs` | the inductive invariant, the safety theorems, the refinement |
| `Sessions` / `SessionsProofs` | the session registry and its proofs |
| `IdleShutdown` / `IdleShutdownProofs` | the idle sampler and its proofs |
| `Metastore` / `MetastoreProofs` | the hierarchy of volumes, databases, schemas and tables, and its proofs |
| `Catalog` / `Statements` | the catalog list and the statements that run over it |
| `StatementsSteps` / `StatementsProofs` | their inductive invariant with a lemma per step; the theorems |
| `Merge` / `MergeProofs` | MERGE as copy-on-write by concurrent writers, and its proofs |
| `Aggregates` | the aggregate functions as accumulators over batches and partitions |
| `Variant`, `Columnar` | values: JSON variants, and the typed cells, literals and columns of a function call |
| `ArrayFunctions`, `SemiStructured`, `Flatten` | arrays, objects, paths, encoding, `FLATTEN` |
| `StringFunctions`, `ConditionalFunctions`, `RegexpFunctions`, `Encryption` | functions of texts, booleans and numbers |
| `ConversionFunctions`, `DatetimeFunctions` | conversions, dates and times |
| `Calendar` | the Gregorian calendar of the chrono crate (external) |
| `CalendarProofs` | the laws of the calendar functions, for every date |
| `QueryResults`, `PlanRules` | results on their way to the client; optimizer rules |
| `Calls`, `VariantCalls`, `StringCalls`, `TemporalCalls`, `PlanCalls`, `SqlFunctions` | the calls of all these, and their laws |
| `MC...` | instances for TLC |

### QueryLifecycle

Every HTTP request carries a fresh UUID as its query id, so one name stands
for a request and for the query it may submit. `pc[h]` is where the handler
is, `target[h]` the query it deals with, `reply[h]` what it answered.
`queries` and `requests_ids` are the two maps of `RunningQueriesRegistry`;
`status`, `token`, `started`, `task`, `subtask`, `outcome` and `discard` are
the watch channel, the cancellation token, the start gate, the two tasks, the
result that `select!` chose and the discard task of each query.

One action is one step between two points where another thread can see the
difference. `add` is two actions because it inserts into two maps; `wait` is
four (subscribe, be notified, remove, join); `abort` is three after its
lookup. `DropHandler` drops a handler's future at an await. `select!` polls
its branches in any order, so `SelectFinished`, `SelectCancelled` and
`SelectTimeout` are alternatives. The nested task that loses the `select!` is
asked to abort and abandoned: it ends at one of its awaits or completes, later
and unobserved, so `abandoned` says nothing of its end. The query task
publishes its status (`TaskNotify`) before it spawns the discard task and
returns (`TaskReturn`). `get_session` failing is a
nondeterministic outcome of `SubmitCheck`; when it can happen is the subject
of `Sessions`.

Data left out: rows, SQL text, query statistics, error texts. Time is left
out: the query timeout and the discard delay may fire at any moment after
they are armed, which includes the order the delays give.

`retry_disable` (a cargo feature) is a variable that `Init` chooses and no
step changes, so each run covers both builds.

### Sessions

`sessions` is `df_sessions`, `ttl[o]` what is left of the expiry of the
`UserSession` object `o`, `sweep` and `expired` the expiry task and the clock
it read. Each critical section of the RwLock is an action: `create_session`
has two, `delete_expired_sessions` reads the clock in one step
(`SweepReadClock`) and works under the lock in another (`SweepRetain`). A
handler serves one request after another, of any kind. `sinceUse` and
`loggedOut` are history variables for the properties.

Time is discrete and relative. The HTTP `TimeoutLayer` of embucketd drops a
handler that has been in session resolution for `HttpTimeout`; `Tick` waits
for that. The Lambda front end has no such layer, but Lambda bounds the
invocation itself. Objects come from a pool: `CreateLookup` takes one that
nobody holds, always the same one of several. A query that runs is not bounded in time here.

### IdleShutdown

`present` is the set of sessions and running queries there are; how they come
and go is the business of the other two modules. `ReadSessions` and
`CountQueries` are the two reads of one sample, `IdleSince` is the `match` on
`(idle_now, idle_since)`. `age` and `sinceLong` are history variables. `Tick`
assumes that a tick of the interval is served before more time passes.

### Metastore

`volumes`, `databases`, `schemas` and `tables` are the four maps of
`MetastoreState`, reduced to their keys and to the volume each database and
table names; `cache` is the key set of `object_store_cache`. An operation that
is one critical section is one action, and a call that fails is a stuttering
step. `create_table` and `update_table` keep the write lock across an await,
and `volume_object_store` looks at the cache and at the map of volumes
separately: these are the calls of `Tasks`, with `writer` the task that has the
write lock. `table_object_store` on its own is `update_table` up to the lock,
dropped there.

Databases and volumes are filed under the name as given, schemas and tables
under the lower-cased name. `Lower` is that conversion, any function on the
names. `updated` and `registered` are history variables: what
`update_database` and `register_table` stored without looking.

Abstracted: volume settings, properties (all that `update_schema` changes) and
Iceberg metadata (all that `update_table` changes); the list and get
operations only read.

### Catalog and Statements

`Catalog` has the catalog list as a record (`catalogs`, the mirror, the cache of
`CachingSchema` objects with their tables) and the remote Iceberg catalog as
another; its operators are the methods. A statement keeps the schema object it
looked up, so objects outlive their place in the cache.

`Statements` runs statements on `Workers`. A statement is uninterrupted from
one await to the next; at an await its job holds the request, `Remote`
performs it, and the action named after the job's `pc` continues. A request
may fail with or without its effect (`RemoteFails`), a statement may be
dropped at an await (`Abort`) and its request performed later or never
(`LateEffect`), and other clients write to the tables (`OutsideWrite`).
`UserQuery::execute` dispatches on more than is here: `MERGE` has a module of
its own, and `EXPLAIN` and the SHOW statements for databases, functions and
variables, which only read, are left out. On two threads, two statements may
also interleave inside such a stretch, between two accesses to the concurrent
maps; the model does not split stretches that far.

`SET` and `UNSET` name session variables and options of DataFusion together:
`set_session_variable` sets the options first, one by one, stops at the first
that is refused, and leaves the earlier ones set; the variables follow.

Abstracted: a table's contents are one snapshot number; a view is the table it
selects from; DataFusion plans and executes queries. Settings that
only format a result are left out.

### Merge

A table is a set of immutable files under manifests. Each writer plans against
the snapshot it reads (`Plan`), is polled for one batch at a time (`PollBatch`,
`PollError`, `PollEnd`), and commits (`Commit`). The catalog, external, refuses
a commit whose snapshot is not the current one. Rows are functions from
columns; the condition of a clause compares one column with a literal. A source
that is a partitioned table bounds the scan of the target
(`target_filter_expression`); a partition field has its column and its
transform, and the bounds are those of the transformed values. The
reference (`SQLMerge`) is SQL's definition on the bag of rows, written without
files or batches.

### Functions, results and plans

Scalar functions keep no state: a call and its answer are one step, and
`SqlFunctions` lets TLC make every call with the arguments of `MCSqlFunctions`.
Each function is an operator with the arms of its source for literals, columns
and NULLs, and its errors. Texts are short sequences of characters, some of
them two bytes long; the calendar is the Gregorian one, on dates around leap
days and year ends, but a day has eight seconds and a second eight ticks, so
that intervals and timestamps overflow within TLC's reach; a time zone is an
offset that changes once. External: format strings (a text is given with what
each format reads in it), the regex crate (patterns are alternatives of
literals), the cipher (what was sealed opens under the same key, IV and data)
and digests.

`Aggregates` runs one aggregate over a group: `Update` with the next rows
of a partition (`update_batch`), `Emit` of its state (`state`), `Merge` of up to
`MaxStates` states in any order (`merge_batch`), then `Evaluate`.

`QueryResults` converts columns of each type for the two formats; a second has
few nanoseconds, and an instant's range is small, so that each edge is met.
`PlanRules` has plans as trees, and aggregates as terms over the rows of a
group, so that two plans answer alike exactly when every term is over the same
rows.

## 3. Runs

| Run | Instance | What it checks |
|---|---|---|
| `query_safety` | one query, one retry, one abort, two request ids, limit 1 | the status channel never breaks under a waiter, the result handle has one claimant, answers match what the statement did, abort answers after the query has an outcome and its status is published, the inductive invariant, `QueryPromise` is implemented |
| `query_liveness` | one query and a request that is its retry or its abort | every registry entry goes, every handler answers, `QueryPromise` with fairness is implemented (every query finishes) |
| `concurrency_limit` | two queries, limit 1 | violation: the limit is exceeded |
| `retry_reexecutes` | a query and its retry, limit 2 | violation: the statement runs twice |
| `sessions` | one session id, three objects, two handlers, TTL 3, HTTP timeout 1 | queries keep their session, the window slides, a missing session is a logout's doing, an expired session that nobody uses is deleted, the inductive invariant |
| `session_replaced` | as `sessions` | violation: a session is replaced under a running query |
| `idle` | two sessions, one query, interval 2, idle timeout 5 | a stop means quiet; a quiet server stops |
| `metastore` | two volumes, one database, one schema, a table name in two spellings, two tasks | `create_table` never waits for its own lock, what a put relies on holds until it ends, cascades leave no orphan, every call returns |
| `statements` | two workers, fifteen menus of statements, three start states, one fault, one outside write | cached tables exist, reads and listings are fresh, OR REPLACE replaces, a tuple SET sets all its variables or none, COPY keeps the catalog's object store |
| `merge` | two writers, nineteen statements, batches of at most two rows | a commit is SQL's MERGE of the current rows, no unmatched row is lost, counts are exact, a repeated upsert changes nothing |
| `merge_pruning` | as `merge`, sources partitioned by a transform of the key | violation: the scan of the target skips a file whose rows match |
| `functions` | every call with the arguments of `MCSqlFunctions`; groups of at most two partitions or three rows | the laws of the functions, results and plan rules, and that aggregates do not depend on the schedule |

The properties of `functions` are conjunctions of laws, one definition per law,
each with a comment that says what it leaves out and why.

Bounds. Three handlers are enough for a query, a second waiter for its result
and an abort to meet at one registry entry; a fourth adds no new pair of
conflicting steps, since every property relates at most one query and two
handlers. With limit 1 both answers of the concurrency check occur. For
sessions, two handlers meet in both critical sections of `create_session`,
and three objects allow one in the map and one in each handler's hands. TTL 3
is the least TTL above two HTTP timeouts of one tick; the code has 4 hours
and 20 minutes. An idle timeout that is not a multiple of the interval makes
the sample that ends the server come late, as it does in the code. For the
metastore, two tasks compete for the lock while the one-section operations
come at any time; two volumes tell a cached store from another, and more
databases only repeat the cascade. Two concurrent statements are the least that
can interleave, and a third one may follow them; a menu per behaviour keeps
statements together that touch the same object. One fault is enough to lose an
answer, keep an effect or abort at each await. Two writers of MERGE give every
order of plan and commit; batches of two rows cut files and source-only rows in
many ways. For functions, the arguments are chosen for the edges of each
function: NULL, empty and one-element inputs, indices at and past both ends,
the largest and smallest numbers, literals beside columns. The proofs
below remove these bounds for the safety properties they name.

`CHECK_DEADLOCK FALSE` in the query runs, in `idle` and in `statements`:
the requests and statements are finitely many and each is served once, and a
stopped server does nothing.

Symmetry is used in `query_safety` (request ids) and `statements` (workers),
never with liveness.

Fairness. Weak fairness of the steps of handlers, of query tasks and of the
discard timer: tokio polls every task that is ready, and timers fire. The end
of a statement is not fair, because a statement may hang; clients are not
fair. In `Sessions`, queries end (the query timeout, `QueryLifecycle`), the
expiry task is scheduled and time passes. In `IdleShutdown` the sampler is
scheduled and time passes. In `Metastore` the steps of a call are strongly
fair: tokio's RwLock is first come, first served, and puts end.

Each property of a passing run is paired in `PROJECT.json` with a mutant: an
operator beside the original, marked `Mutant:`, that changes the code's
behaviour the way a plausible bug would and under which TLC finds the
property violated.

## 4. What is proved

TLAPS checks the following for all values of the constants, under named
assumptions in the modules that declare them: `ConstantsAssumption` (the roles
are subsets of the requests, the limit is a natural number, `None` is no value),
`TimeAssumption` (`2 * HttpTimeout < TTL`), `IdleAssumption` (the interval is
positive), `LowerAssumption` and `NamesAssumption` (a name in another case is a
name), `NoneAssumption`, `ContextAssumption`, `BoundsAssumption`,
`StartsAssumption` (a process starts with what one of the two registrations
makes of Iceberg), `MenusAssumption` (statements have the names and arguments
their kind has), and for `Merge` `ColumnsAssumption`, `BatchAssumption`,
`TablesAssumption` and `WorkloadsAssumption` (tables, sources and clauses are
over the table's columns). TLC evaluates each on the instances.

**QueryLifecycle.** `LifecycleInv` is inductive. Alone, the safety properties
are not: that a waiter never sees a broken channel needs `WaiterInv` (a
handler at the channel has its query in the registry or its status
published), which needs `EntryInv` (a started query without a status is in
the registry; the gate is closed until the entry is there), and truthful
answers need `OutcomeInv` (what an outcome says of the nested task). There is
one lemma per action. From the invariant follow type correctness,
`NotifyFindsEntry`, `NoBrokenStatusChannel`, `ResultClaimedOnce`,
`AnswerMatchesExecution`, `AbortWaitsForEnd`, `TargetHasRequestId`, the action
property `RemovedOnlyFinished`, and the refinement of `QueryPromise`: only
`AddQuery`, `WaitRemove`, `DiscardFire` and `TaskNotify` change what the
refinement mapping sees, and each maps to `Submit`, `Take`, `Take` or a
stutter, and `Finish`.

**Sessions.** `SessionInv` is inductive. Its core, `FreshInv`, says how old
the session under a handler's id can be at each point: the handler's own age
in resolution bounds what the session has lost, and a session that another
handler inserted meanwhile is at most one HTTP timeout older. The expiry task
can therefore not take a session from a request it cannot see yet.
`WindowInv` relates the remaining lifetime to the time since the last use.
From them follow `MissingOnlyAfterLogout`, `SweepSparesQueries`,
`SlidingWindow` and `ExtractorRefreshes`.

**IdleShutdown.** `IdleInv` is inductive: while the idle window is open,
whatever is present began after the last sample (`SeenInv`), so nothing
longer than an interval has been there since the window opened
(`LastLongInv`). `StopsOnlyWhenQuiet` follows.

**Metastore.** `MetastoreInv` is inductive. Every volume is cached
(`volumes \subseteq cache`), because `create_volume` fills the cache under the
lock and only `delete_volume` empties it, so `create_table` never gets to the
read lock it could not have (`NoSelfDeadlock`). `LockInv` says that only the
writer is in a put; every other operation that changes the maps finds the lock
free, so it cannot disturb `CommitSafe` (lemma `NobodyWrites`), and
`create_table` inserts into a schema that is still there. `HierarchyKept` then
follows action by action, for names whose only spelling is lower case.

**Statements.** A statement stops at every await, and what it learnt before may
be out of date after. `StatementInv` says what is still true of it: its schema
object is one of the catalog's and keeps its name; what it has read is what
Iceberg has, or Iceberg has written that table since the statement began
(`floor` is the snapshot counter at that time); a table that it has created is
still that creation, a later one, or gone; at most one statement is setting
variables. `StatementsSteps` has one lemma per action. The steps of other
statements preserve these facts because catalogs only grow and Iceberg only
moves forward (`JobStays`); the statement's own step is calm, takes an entry out
of a cache, or registers a table, and one lemma covers each of these three
(`UsualStep`). `TypeOK`, `ReadsAreFresh`, `ListsAreFresh` and
`TupleSetsAreAtomic` follow. That a refused option leaves the variables alone
rests on the order of `set_session_variable`; the options themselves are not
atomic.

`CopyKeepsCatalogStore` needs `RegionInv`: a statement that waits for a bucket's
region does so for a bucket whose store is not the catalog's. It was not when
the statement looked, and no statement makes a store the catalog's later.

`CachedTablesExist` and `ReplaceIsNew` need `HoldInv`: a table has at most one of
an entry in a cache, a statement that has created it and registers it next, a
statement that asks for its drop, and a drop left behind by an aborted
statement; and a table with any of the four exists. A drop takes the entry out
before it asks, a creation is agreed to only when there is no table, and so
nobody drops a table that another has a hold on. This rests on `EagerInv`: a
table is reached through one schema object name. It holds when the process
starts with `register_iceberg_catalog`, and the two theorems have that as their
hypothesis (`Eager`). With lazy registration the bootstrap table is reached
under several spellings, each with an entry of its own; there the two
properties are checked by TLC only.

**Merge.** `MergeInv` is inductive, for any tables, statements, number of writers
and batch size. Three parts are joined in it. Replacing the files that hold a
matched row by the rows of the full join is SQL's MERGE (`ReplacingIsMerging`):
the joined rows of SQL's definition are those of the plan and those of the
files left alone, and rows before and after are in a bijection. However the
stream cuts its rows into batches, the files and counts collected are those of
the rows handed over (`BatchMoves`). A writer whose snapshot is the current one
has read the current table (`ReadsSnapshot`), because every commit raises the
snapshot, so a commit replaces files of the current table or ends in a conflict
(`CommitCases`). `NoTargetRowLost`, `CommitIsSQLMerge` and `CountsAreExact`
follow, the first for every MERGE the planner accepts, the others for the
statements of `Supported`. One of its conditions is `KeyBounds`: a source table
that is partitioned is partitioned by the key itself, because any other bounds
may skip a file that matches (run `merge_pruning`). With it the pruning does no
harm: a skipped file has no row that a source row matches.

`RepeatIsIdempotent` needs more, for it relates two executions. `Settled` is
what an upsert by key leaves behind: a target row that an UPDATE would claim for
its only source row is equal to it already, and no INSERT would claim an
unmatched source row. `UpsertSettles` shows that SQL's MERGE establishes it,
`SettledIsMerged` that merging a settled table changes no row, and `RepeatInv`
carries it from the commit of one writer to its next, as long as nobody else has
run.

Facts on finite sets and least elements are needed for the counts and the
batches. Induction cannot be instantiated by the provers, so these facts are
proved from a smallest counterexample (`WFMin` on finite subsets).

**The calendar.** `DatetimeFunctions` has dates as integers, and
`CalendarProofs` proves the laws of its functions for every integer, before and
after 1970. The base is lemmas about the external calendar: year, month and day
are in range and compose the date (`DateParts`), and no others do
(`PartsOfDate`), because the year guessed from the mean length of a year is at
most one off (`YearGuess`) and months fill the year without gaps (`MonthsFill`).
From them follow that `DATEDIFF` in months and years undoes `DATEADD` of an
amount that fits the i32 the code converts it to, that `ADD_MONTHS` keeps the
end of a month, `DATE_FROM_PARTS` composes what the parts were taken from,
`NEXT_DAY` and `PREVIOUS_DAY` bracket the date (`PREVIOUS_DAY` refuses Sunday),
the end of a week in `LAST_DAY` is the one that `DAYOFWEEK` numbers last, and
week numbers under policy 1 change on the first day of a week and on January 1
only.
`ConvertBack` says that `CONVERT_TIMEZONE` there and back is the identity or
fails, for any two zones with one change of offset. The theorems are about the
functions of one row; that a call applies them to every row of a literal or a
column is part of what the `functions` run checks (`CalendarFunctionsAgree`,
`ConversionsKeepTheValue`).

Only model-checked:

* the liveness properties and the fair refinement (`RegistryDrains`,
  `EveryHandlerAnswers`, `ImplementsFairPromise`, `ExpiredSessionsGo`,
  `EventuallyStops`, `CallsReturn`), since the prover does not reason about
  fairness;
* `CachedTablesExist` and `ReplaceIsNew` under lazy registration;
* the invariants of the `functions` run: most functions are recursive over their
  input, and what a recursive definition computes for every input needs an
  induction the provers do not have. `AggregatesIgnoreTheSchedule` is of this
  kind too: it compares a schedule of batches with a fold over all rows.

## 5. What the code does not promise

Four statements of the repository are refuted by runs (`findings` in
`PROJECT.json`):

* `max_concurrency_level` is checked before the query is added, without a
  lock: concurrent submits exceed it.
* A retry that arrives before its first attempt is registered executes the
  statement again.
* Two first requests of one session each create it; the second replaces the
  `UserSession` in which the first's statement already runs.
* The bounds that a partitioned source puts on the scan of a MERGE's target are
  those of the transformed partition values, compared with the column itself
  (`query.rs:3428`): a file that matches is skipped, and MERGE inserts what it
  should update. The comment at 3387 says that partitions without relevant data
  are pruned.

Smaller observations made while modelling, without a run of their own:

* Of two listeners of one query only the first to remove the entry gets the
  result; the other gets `QueryIsntRunning` (`executor/README.md:66` speaks of
  all listeners, with a history that this code path no longer has).
* Login goes past the extractor and does not refresh a session that it finds
  (`api-snowflake-rest-sessions/README.md:20`: "refreshed on each request").
* The registry of running queries is shared by all sessions, so the expiry
  task keeps every expired session while any query of any session runs.
* Activity shorter than the sampling interval does not postpone the idle
  shutdown (`service.rs:682`: "stayed idle long enough").
* The documentation says that sessions expire after 60 seconds of inactivity
  (`docs/src/content/docs/reference/architecture.mdx:63`); the code has four
  hours.

* The metastore compares names as given with lower-cased keys in
  `delete_database`, `delete_volume` and `delete_schema`: a database spelled
  with capitals is deleted although its schemas exist, and they stay
  (`catalog-metastore/src/error.rs:125` has "in use by schema(s)" for this
  case). `HierarchyKept` is therefore stated for lower-case names.
* `update_database` does not look for the new volume, and `register_table`
  checks nothing.
* A `volume_object_store` that misses the cache may insert the store of the
  volume as it was before an `update_volume`.

* A `DROP TABLE` of a table that was not looked up before takes nothing out of
  Iceberg and answers success (`catalog/src/schema.rs:244`; the comment at 235
  says it drops the Iceberg table).
* `CREATE OR REPLACE TABLE` with a `PARTITION BY` that is refused has dropped
  the old table by then (`query.rs:947`, `967`).
* `CREATE STAGE` replaces the catalog's object store of its bucket
  (`query.rs:1171`), which `COPY INTO` is careful not to do (comment at
  `query.rs:1254`).
* Tables whose lookup fails are left out of listings (`catalog/src/utils.rs:29`;
  the comment at 12 says that errors of the schema provider are propagated).
* `SET` of several options of DataFusion keeps the ones before the first that is
  refused (`executor/src/session.rs:196`).
* `UPDATE` answers success and does nothing (`query.rs:423`); `CREATE VIEW`
  takes a bare name to be in `public`, whatever schema `USE` set; `DROP SCHEMA
  IF EXISTS` asks Iceberg without looking, and answers its refusal.
* A source row that no INSERT clause of a MERGE claims is written as a row of
  NULLs (`query.rs:1561`), and an INSERT clause resets what earlier clauses say
  of the columns it does not list (`query.rs:3235`).
* `BOOLOR_AGG` reads no batch after one that left it FALSE
  (`boolor_agg.rs:75`; the comment at 13 says TRUE if at least one record is
  TRUE). `merge_batch` of the three Boolean aggregates reads the first state
  only, `LISTAGG(DISTINCT)` loses values when partitions are merged, and
  `PERCENTILE_CONT` merges percentiles. `ARRAY_UNIQUE_AGG` of NULLs only fails
  where the comment says an empty array (`array_unique_agg.rs:27`).
* `DATEDIFF` subtracts quarters without their year and answers 0 weeks
  backwards (`date_diff.rs:103`, `189`; comment at 207). `PREVIOUS_DAY` knows no
  Sunday. Under `WEEK_OF_YEAR_POLICY` 0, for a week that starts neither on the
  default day nor on Monday, four or more days before the first whole week of a
  year move the year's first week a week later (`date_part_extract.rs:320`),
  where the comment at 297 gives a week with four days to the year. The comment
  at 262 says that `DAYOFWEEK` is 0 to 6; the code and its tests have 1 to 7
  for a week start that is set. `DATEADD` and `ADD_MONTHS` convert their amount
  to an i32, clamped or wrapped.
* JSON timestamps carry the offset their zone has now, Arrow timestamps the one
  at the instant (`executor/src/utils.rs:427`, `561`); the fraction of a JSON
  timestamp has no leading zeroes (1.005 s is written 1.5), and before 1970 it
  counts from the second before (-0.5 s is written -1.500).
* A group with a NULL key is lost when its aggregates are split by their ORDER
  BY (`split_ordered_aggregates.rs:183`), and a grouping column with capitals in
  its name makes the rewritten plan fail (144).
* A function of a literal beside a column does not always use the literal for
  every row: `INSERT` stops at the shortest argument (`insert.rs:132`), `STRTOK`
  and the `*_FROM_PARTS` functions read past the literal's end
  (`strtok.rs:154`, `timestamp_from_parts.rs:401`), and `SUBSTR` of a literal
  text and position is simplified without its column of lengths
  (`substr.rs:186`).
* `REGEXP_INSTR` and `REGEXP_SUBSTR` count positions in bytes where their
  comments say characters (`regexp_instr.rs:32`, `regexp_substr.rs:32`).
* `FLATTEN` with `OUTER` gives a row for a value without elements only when
  nothing else expands (comment at `table/flatten/func.rs:43`), and `PATH` does
  not quote a key that has a dot in it.
* The first row of a column of texts chooses the unit of all its timestamps
  (`to_timestamp.rs:396`), and `TRY_TO_TIMESTAMP` of a local time that was
  skipped answers the epoch (557).
* A map or run-end-encoded value is encoded by a recursion without end
  (`functions/src/json.rs:772`).
* `ARRAY_SLICE` and `ARRAY_REMOVE_AT` fail for a NULL array where their comments
  say NULL (`array_remove_at.rs:134`, `array_slice.rs:150`); `EQUAL_NULL` of
  one NULL is NULL where its comment says FALSE (`equal_null.rs:21`);
  `DECRYPT_RAW` answers NULL for a NULL optional argument where its comment says
  a default (`decrypt_raw.rs:244`).

## 6. Not modelled

* `upload_data_to_table` is called by no route of the server, only by tests.
* Metastore bootstrap: a YAML file is read and applied before any client is
  served. Which settings a cached object store was built from is not modelled
  either.
* Rewrites of the syntax tree (`functions/src/visitors`), the analyzer rules
  and the adapters for case-insensitive schemas and list metadata: they rename
  and move parts of sqlparser's and DataFusion's own data types, and a faithful
  model would be those types.
* The geospatial functions are disabled in the build, the list of function
  names is generated, and `refresh` and the registration of non-Iceberg
  catalogs are called by nothing.
* JWT and SPCS headers, OAuth tokens for the REST catalog, error mapping, CLI,
  the columns of information schema views, query history (SQL through Diesel),
  the DynamoDB state store (not a workspace member), build and test tooling.
* What DataFusion, Iceberg and object stores do is external and enters the
  models only as nondeterministic outcomes or as the definition a library
  documents.
* `Sessions`, `QueryLifecycle` and `Statements` are not composed into one
  specification. They meet in the session id and in the registry's count;
  `Sessions` and `IdleShutdown` have submission and end of a query as actions of
  their own in place of `QueryLifecycle`'s.

--------------------------- MODULE QueryLifecycle ---------------------------
(***************************************************************************)
(* The life of a query in the execution service: the REST handlers that    *)
(* submit, retry and abort it (api-snowflake-rest/src/server), the service *)
(* calls they make (executor/src/service.rs: submit, wait, query, abort),  *)
(* the registry of running queries (executor/src/running_queries.rs) and   *)
(* the tokio tasks that execute, notify and discard it.                    *)
(*                                                                         *)
(* Every HTTP request gets a fresh UUID as the id of the query it may      *)
(* submit (QueryContext::default), so a request and the query it submits   *)
(* share one name here: the members of Requests name both.                 *)
(*                                                                         *)
(* One action is one step of one task between two points where another     *)
(* thread can see the difference: each access to a shared map, to the      *)
(* watch channel or to the cancellation token is a step of its own.        *)
(***************************************************************************)
EXTENDS Naturals, FiniteSets

CONSTANTS
    Requests,              \* HTTP requests, and the ids of the queries they submit
    QueryRequests,         \* the requests that can be query-requests
    RetryRequests,         \* the query-requests that carry retry_count > 0
    AbortRequests,         \* the requests that can be abort-requests
    RequestIds,            \* the requestId values that clients send
    max_concurrency_level, \* Config::max_concurrency_level
    None                   \* the absent Option value

VARIABLES
    retry_disable, \* whether the cargo feature "retry-disable" is on; rigid
    pc,            \* where the handler of each request is
    request_id,    \* the requestId a request carries
    target,        \* the query a handler submits, waits for or aborts
    reply,         \* what the handler answered
    queries,       \* keys of RunningQueriesRegistry.queries
    requests_ids,  \* RunningQueriesRegistry.requests_ids
    status,        \* value of the query's watch channel (tx / rx)
    token,         \* whether the query's cancellation token is cancelled
    started,       \* whether start_tx.send has happened
    task,          \* the query task spawned by submit
    subtask,       \* the nested task that executes the statement
    outcome,       \* ExecutionTaskResult chosen by select!
    discard        \* the task that discards an unclaimed result

handlerVars  == <<pc, request_id, target, reply>>
registryVars == <<queries, requests_ids>>
taskVars     == <<started, task, subtask, outcome, discard>>
vars == <<handlerVars, registryVars, status, token, taskVars>>

-----------------------------------------------------------------------------
(* Types *)

HandlerPCs == {"idle", "submit", "add_request", "add_query", "start",
               "subscribe", "watch", "remove", "join",
               "cancel", "abort_subscribe", "abort_watch", "done"}

\* ExecutionTaskResult: what a query task ends with.
Outcomes == {"success", "fail", "incident", "cancelled", "timeout"}

\* ExecutionStatus as published on the watch channel.
Statuses == {"Success", "Fail", "Incident"}

Replies == Outcomes \cup
    {"limit", "no_session", "not_running", "status_recv_error", "lost",
     "retry_disabled", "not_implemented", "unknown_request", "aborted", "dropped"}

ASSUME ConstantsAssumption ==
    /\ QueryRequests \subseteq Requests /\ AbortRequests \subseteq Requests
    /\ RetryRequests \subseteq QueryRequests
    /\ max_concurrency_level \in Nat
    /\ None \notin Requests \cup RequestIds \cup Outcomes \cup Statuses \cup Replies

\* retry_disable is chosen by Init and never changes.
TypeOK ==
    /\ pc \in [Requests -> HandlerPCs]
    /\ request_id \in [Requests -> RequestIds \cup {None}]
    /\ target \in [Requests -> Requests \cup {None}]
    /\ reply \in [Requests -> Replies \cup {None}]
    /\ queries \in SUBSET Requests
    /\ requests_ids \in [RequestIds -> Requests \cup {None}]
    /\ status \in [Requests -> Statuses \cup {None}]
    /\ token \in [Requests -> BOOLEAN]
    /\ started \in [Requests -> BOOLEAN]
    /\ task \in [Requests -> {"none", "gated", "running", "selected", "notified", "lost", "done"}]
    /\ subtask \in [Requests -> {"none", "executing", "abandoned", "ok", "err", "panicked"}]
    /\ outcome \in [Requests -> Outcomes \cup {None}]
    /\ discard \in [Requests -> {"none", "sleeping", "done"}]

Init ==
    /\ retry_disable \in BOOLEAN
    /\ pc = [h \in Requests |-> "idle"]
    /\ request_id = [h \in Requests |-> None]
    /\ target = [h \in Requests |-> None]
    /\ reply = [h \in Requests |-> None]
    /\ queries = {}
    /\ requests_ids = [r \in RequestIds |-> None]
    /\ status = [q \in Requests |-> None]
    /\ token = [q \in Requests |-> FALSE]
    /\ started = [q \in Requests |-> FALSE]
    /\ task = [q \in Requests |-> "none"]
    /\ subtask = [q \in Requests |-> "none"]
    /\ outcome = [q \in Requests |-> None]
    /\ discard = [q \in Requests |-> "none"]

-----------------------------------------------------------------------------
(* Handler helpers *)

Goto(h, from, to) ==
    /\ pc[h] = from
    /\ pc' = [pc EXCEPT ![h] = to]

\* The handler returns: its future is complete and the response is sent.
Respond(h, from, answer) ==
    /\ Goto(h, from, "done")
    /\ reply' = [reply EXCEPT ![h] = answer]

-----------------------------------------------------------------------------
(* POST /queries/v1/query-request *)

\* handle_query_request up to its choice between wait and query.  A request
\* with async_exec, or a retry under retry-disable, is refused here.
ArriveQuery(h, r) ==
    /\ h \in QueryRequests
    /\ request_id' = [request_id EXCEPT ![h] = r]
    /\ \/ /\ Respond(h, "idle", "not_implemented")
          /\ UNCHANGED target
       \/ /\ h \in RetryRequests /\ retry_disable
          /\ Respond(h, "idle", "retry_disabled")
          /\ UNCHANGED target
       \/ /\ h \in RetryRequests /\ ~retry_disable /\ requests_ids[r] # None
          /\ Goto(h, "idle", "subscribe")
          /\ target' = [target EXCEPT ![h] = requests_ids[r]]
          /\ UNCHANGED reply
       \/ /\ h \notin RetryRequests \/ (~retry_disable /\ requests_ids[r] = None)
          /\ Goto(h, "idle", "submit")
          /\ target' = [target EXCEPT ![h] = h]
          /\ UNCHANGED reply
    /\ UNCHANGED <<registryVars, status, token, taskVars>>

\* submit: get_session fails when the session was deleted; then come the
\* concurrency check and the spawn of the query task, which waits on start_rx
\* before it does anything.
SubmitCheck(h) ==
    /\ \/ /\ Respond(h, "submit", "no_session")
          /\ UNCHANGED task
       \/ /\ Cardinality(queries) >= max_concurrency_level
          /\ Respond(h, "submit", "limit")
          /\ UNCHANGED task
       \/ /\ Cardinality(queries) < max_concurrency_level
          /\ Goto(h, "submit", "add_request")
          /\ task' = [task EXCEPT ![h] = "gated"]
          /\ UNCHANGED reply
    /\ UNCHANGED <<request_id, target, registryVars, status, token,
                   started, subtask, outcome, discard>>

\* RunningQueriesRegistry::add inserts into requests_ids first ...
AddRequestId(h) ==
    /\ Goto(h, "add_request", "add_query")
    /\ requests_ids' = [requests_ids EXCEPT ![request_id[h]] = h]
    /\ UNCHANGED <<request_id, target, reply, queries, status, token, taskVars>>

\* ... and into queries second.
AddQuery(h) ==
    /\ Goto(h, "add_query", "start")
    /\ queries' = queries \cup {h}
    /\ UNCHANGED <<request_id, target, reply, requests_ids, status, token, taskVars>>

\* submit: start_tx.send, then query() goes on to wait().
SubmitStart(h) ==
    /\ Goto(h, "start", "subscribe")
    /\ started' = [started EXCEPT ![h] = TRUE]
    /\ UNCHANGED <<request_id, target, reply, registryVars, status, token,
                   task, subtask, outcome, discard>>

\* RunningQueriesRegistry::wait_query_finished clones the receiver of a query
\* that is in the registry.
Subscribe(h, from, to) ==
    /\ \/ /\ Goto(h, from, to)
          /\ target[h] \in queries
          /\ UNCHANGED reply
       \/ /\ Respond(h, from, "not_running")
          /\ target[h] \notin queries
    /\ UNCHANGED <<request_id, target, registryVars, status, token, taskVars>>

\* The sender lives in the registry entry; it is gone once the entry is.
SenderDropped(q) == q \notin queries

\* RunningQuery::wait_query_finished: return on a published status, fail when
\* the sender is dropped without one.
WaitSubscribe(h) == Subscribe(h, "subscribe", "watch")

\* Mutant: the first change seen ends the wait, published status or not.
WaitNotifiedEager(h) ==
    /\ \/ /\ Goto(h, "watch", "remove")
          /\ UNCHANGED reply
       \/ /\ Respond(h, "watch", "status_recv_error")
          /\ status[target[h]] = None
          /\ SenderDropped(target[h])
    /\ UNCHANGED <<request_id, target, registryVars, status, token, taskVars>>

WaitNotified(h) ==
    /\ \/ /\ Goto(h, "watch", "remove")
          /\ status[target[h]] # None
          /\ UNCHANGED reply
       \/ /\ Respond(h, "watch", "status_recv_error")
          /\ status[target[h]] = None
          /\ SenderDropped(target[h])
    /\ UNCHANGED <<request_id, target, registryVars, status, token, taskVars>>

\* Mutant: wait reads the entry and leaves it in the registry.
WaitRemoveKeeps(h) ==
    /\ \/ /\ Goto(h, "remove", "join")
          /\ target[h] \in queries
          /\ UNCHANGED reply
       \/ /\ Respond(h, "remove", "not_running")
          /\ target[h] \notin queries
    /\ UNCHANGED <<request_id, target, registryVars, status, token, taskVars>>

\* wait: take the entry, and with it the result handle, out of the registry.
WaitRemove(h) ==
    /\ \/ /\ Goto(h, "remove", "join")
          /\ target[h] \in queries
          /\ queries' = queries \ {target[h]}
          /\ UNCHANGED reply
       \/ /\ Respond(h, "remove", "not_running")
          /\ target[h] \notin queries
          /\ UNCHANGED queries
    /\ UNCHANGED <<request_id, target, requests_ids, status, token, taskVars>>

\* wait: await the result handle.
WaitJoin(h) ==
    /\ \/ /\ pc[h] = "join"
          /\ task[target[h]] = "done"
          /\ Respond(h, "join", outcome[target[h]])
       \/ /\ pc[h] = "join"
          /\ task[target[h]] = "lost"
          /\ Respond(h, "join", "lost")
    /\ UNCHANGED <<request_id, target, registryVars, status, token, taskVars>>

-----------------------------------------------------------------------------
(* POST /queries/v1/abort-request, and SYSTEM$CANCEL_QUERY *)

ArriveAbort(h, r) ==
    /\ h \in AbortRequests
    /\ request_id' = [request_id EXCEPT ![h] = r]
    /\ \/ /\ requests_ids[r] # None
          /\ Goto(h, "idle", "cancel")
          /\ target' = [target EXCEPT ![h] = requests_ids[r]]
          /\ UNCHANGED reply
       \/ /\ requests_ids[r] = None
          /\ Respond(h, "idle", "unknown_request")
          /\ UNCHANGED target
    /\ UNCHANGED <<registryVars, status, token, taskVars>>

\* RunningQueriesRegistry::abort.
AbortCancel(h) ==
    /\ \/ /\ Goto(h, "cancel", "abort_subscribe")
          /\ target[h] \in queries
          /\ token' = [token EXCEPT ![target[h]] = TRUE]
          /\ UNCHANGED reply
       \/ /\ Respond(h, "cancel", "not_running")
          /\ target[h] \notin queries
          /\ UNCHANGED token
    /\ UNCHANGED <<request_id, target, registryVars, status, taskVars>>

AbortSubscribe(h) == Subscribe(h, "abort_subscribe", "abort_watch")

\* Mutant: abort answers without waiting for the query to end.
AbortNotifiedEager(h) ==
    /\ Respond(h, "abort_watch", "aborted")
    /\ UNCHANGED <<request_id, target, registryVars, status, token, taskVars>>

AbortNotified(h) ==
    /\ \/ /\ Respond(h, "abort_watch", "aborted")
          /\ status[target[h]] # None
       \/ /\ Respond(h, "abort_watch", "status_recv_error")
          /\ status[target[h]] = None
          /\ SenderDropped(target[h])
    /\ UNCHANGED <<request_id, target, registryVars, status, token, taskVars>>

\* SessionContextExprRewriter::cancel_query: a statement of some session
\* cancels q.  An unknown q only changes the text the statement returns.
CancelQuery(q) ==
    /\ q \in queries
    /\ token' = [token EXCEPT ![q] = TRUE]
    /\ UNCHANGED <<handlerVars, registryVars, status, taskVars>>

-----------------------------------------------------------------------------
(* The connection is closed, or the HTTP TimeoutLayer fires: the handler's *)
(* future is dropped at the await point where it is suspended.             *)

DropHandler(h) ==
    /\ \E at \in {"submit", "watch", "join", "abort_watch"} : Respond(h, at, "dropped")
    /\ UNCHANGED <<request_id, target, registryVars, status, token, taskVars>>

-----------------------------------------------------------------------------
(* The query task *)

\* Mutant: no start gate.
TaskStartUngated(q) ==
    /\ task[q] = "gated"
    /\ task' = [task EXCEPT ![q] = "running"]
    /\ subtask' = [subtask EXCEPT ![q] = "executing"]
    /\ UNCHANGED <<handlerVars, registryVars, status, token, started, outcome, discard>>

\* Mutant: the discard timer runs from the start of the query.
TaskStartDiscards(q) ==
    /\ task[q] = "gated" /\ started[q]
    /\ task' = [task EXCEPT ![q] = "running"]
    /\ subtask' = [subtask EXCEPT ![q] = "executing"]
    /\ discard' = [discard EXCEPT ![q] = "sleeping"]
    /\ UNCHANGED <<handlerVars, registryVars, status, token, started, outcome>>

\* start_rx resolves; the statement is spawned as a nested task.
TaskStart(q) ==
    /\ task[q] = "gated" /\ started[q]
    /\ task' = [task EXCEPT ![q] = "running"]
    /\ subtask' = [subtask EXCEPT ![q] = "executing"]
    /\ UNCHANGED <<handlerVars, registryVars, status, token, started, outcome, discard>>

\* The statement ends: with rows, with an error, or by a panic.
SubtaskEnd(q) ==
    /\ subtask[q] = "executing"
    /\ \E end \in {"ok", "err", "panicked"} : subtask' = [subtask EXCEPT ![q] = end]
    /\ UNCHANGED <<handlerVars, registryVars, status, token, started, task, outcome, discard>>

Selected(q, result) ==
    /\ task[q] = "running"
    /\ task' = [task EXCEPT ![q] = "selected"]
    /\ outcome' = [outcome EXCEPT ![q] = result]

\* subtask_abort_handle.abort() asks the runtime to drop the statement at its
\* next await point and does not wait for that.  select! has dropped the handle
\* to the result, so an abandoned statement is one of which nothing is learned
\* any more: it may run on, reach that point, end before it or have ended.
AbortSubtask(q) == subtask' = [subtask EXCEPT ![q] = "abandoned"]

\* Mutant: a panicked statement is reported as a statement error.
OutcomeOfPanic(end) == IF end = "ok" THEN "success" ELSE "fail"

\* from_query_result and from_failed_query_task: the outcome of a subtask.
OutcomeOf(end) ==
    CASE end = "ok" -> "success" [] end = "err" -> "fail" [] end = "panicked" -> "incident"

SelectFinished(q) ==
    /\ subtask[q] \in {"ok", "err", "panicked"}
    /\ Selected(q, OutcomeOf(subtask[q]))
    /\ UNCHANGED <<handlerVars, registryVars, status, token, started, subtask, discard>>

SelectCancelled(q) ==
    /\ token[q]
    /\ Selected(q, "cancelled")
    /\ AbortSubtask(q)
    /\ UNCHANGED <<handlerVars, registryVars, status, token, started, discard>>

\* Mutant: the timeout is looked at only when the statement has ended.
SelectTimeoutLate(q) ==
    /\ subtask[q] # "executing"
    /\ Selected(q, "timeout")
    /\ AbortSubtask(q)
    /\ UNCHANGED <<handlerVars, registryVars, status, token, started, discard>>

SelectTimeout(q) ==
    /\ Selected(q, "timeout")
    /\ AbortSubtask(q)
    /\ UNCHANGED <<handlerVars, registryVars, status, token, started, discard>>

\* ExecutionTaskResult::execution_status
StatusOf(result) ==
    CASE result = "success" -> "Success"
      [] result = "incident" -> "Incident"
      [] result \in {"fail", "cancelled", "timeout"} -> "Fail"

\* notify_query_finished.  When the query is not in the registry the `?` makes
\* the task return an error, with no discard task.
TaskNotify(q) ==
    /\ task[q] = "selected"
    /\ \/ /\ q \in queries
          /\ status' = [status EXCEPT ![q] = StatusOf(outcome[q])]
          /\ task' = [task EXCEPT ![q] = "notified"]
       \/ /\ q \notin queries
          /\ task' = [task EXCEPT ![q] = "lost"]
          /\ UNCHANGED status
    /\ UNCHANGED <<handlerVars, registryVars, token, started, subtask, outcome, discard>>

\* Mutant: no discard task is spawned.
TaskReturnOnly(q) ==
    /\ task[q] = "notified"
    /\ task' = [task EXCEPT ![q] = "done"]
    /\ UNCHANGED <<handlerVars, registryVars, status, token, started, subtask, outcome, discard>>

\* The discard task is spawned and the query task returns its result.
TaskReturn(q) ==
    /\ task[q] = "notified"
    /\ task' = [task EXCEPT ![q] = "done"]
    /\ discard' = [discard EXCEPT ![q] = "sleeping"]
    /\ UNCHANGED <<handlerVars, registryVars, status, token, started, subtask, outcome>>

\* TIMEOUT_DISCARD_INTERVAL_SECONDS after the notification the entry is
\* removed, if nobody claimed it.
DiscardFire(q) ==
    /\ discard[q] = "sleeping"
    /\ discard' = [discard EXCEPT ![q] = "done"]
    /\ queries' = queries \ {q}
    /\ UNCHANGED <<handlerVars, requests_ids, status, token, started, task, subtask, outcome>>

-----------------------------------------------------------------------------
HandlerStep(h) ==
    \/ SubmitCheck(h) \/ AddRequestId(h) \/ AddQuery(h) \/ SubmitStart(h)
    \/ WaitSubscribe(h) \/ WaitNotified(h) \/ WaitRemove(h) \/ WaitJoin(h)
    \/ AbortCancel(h) \/ AbortSubscribe(h) \/ AbortNotified(h)

ClientStep(h) ==
    \/ \E r \in RequestIds : ArriveQuery(h, r) \/ ArriveAbort(h, r)
    \/ DropHandler(h)
    \/ CancelQuery(h)

TaskStep(q) ==
    \/ TaskStart(q)
    \/ SelectFinished(q) \/ SelectCancelled(q) \/ SelectTimeout(q)
    \/ TaskNotify(q) \/ TaskReturn(q)

Next ==
    /\ \E h \in Requests :
          HandlerStep(h) \/ ClientStep(h) \/ TaskStep(h) \/ SubtaskEnd(h) \/ DiscardFire(h)
    /\ UNCHANGED retry_disable

Spec == Init /\ [][Next]_<<vars, retry_disable>>

\* The runtime polls every ready task and fires every timer.  Clients owe the
\* server nothing, and a statement may run for ever.
Fairness ==
    \A h \in Requests :
        WF_vars(HandlerStep(h)) /\ WF_vars(TaskStep(h)) /\ WF_vars(DiscardFire(h))

FairSpec == Spec /\ Fairness

-----------------------------------------------------------------------------
(* Safety *)

\* The query task always finds its registry entry when it has a result to
\* announce: the start gate keeps fast statements from finishing before add,
\* and nothing removes an entry before its status is published (the `?` after
\* notify_query_finished in submit is never taken).
NotifyFindsEntry == \A q \in Requests : task[q] # "lost"

\* No caller of wait or abort is told that the status channel broke: the
\* sender outlives every receiver that still waits (ExecutionStatusRecv).
NoBrokenStatusChannel == \A h \in Requests : reply[h] # "status_recv_error"

\* The handler holds, or has answered with, the result handle of q.
Claims(h, q) == target[h] = q /\ (pc[h] = "join" \/ reply[h] \in Outcomes)

\* The result of a query is handed out at most once, whatever waiters,
\* retries and the discard task do concurrently: the entry is either still in
\* the registry, or with one claimant (RunningQueriesRegistry::remove).
ResultClaimedOnce ==
    \A q, h \in Requests :
        Claims(h, q) =>
            /\ q \notin queries
            /\ \A h2 \in Requests : Claims(h2, q) => h2 = h

\* A handler answers with rows only if the statement ran to completion, and
\* with a statement error or an incident only if that is how it ended: a
\* cancelled or timed out query is never reported with another's outcome.
AnswerMatchesExecution ==
    \A h \in Requests :
        /\ reply[h] = "success" => subtask[target[h]] = "ok"
        /\ reply[h] = "fail" => subtask[target[h]] = "err"
        /\ reply[h] = "incident" => subtask[target[h]] = "panicked"
        /\ reply[h] = "cancelled" => token[target[h]]

\* abort answers only when the query it was asked to abort has an outcome and
\* has published its status (abort waits after it cancels the token).  The
\* statement itself is only abandoned by then: abort does not wait for the
\* await point where it is dropped.
AbortWaitsForEnd ==
    \A h \in Requests :
        reply[h] = "aborted" => /\ status[target[h]] # None
                                /\ token[target[h]]
                                /\ task[target[h]] \in {"notified", "done"}

\* A retry or an abort only ever touches a query that was submitted with the
\* same requestId (locate_query_id).
TargetHasRequestId ==
    \A h \in Requests :
        target[h] # None => request_id[target[h]] = request_id[h]

\* Action property: an entry leaves the registry only after its query's
\* status was published, so no listener can miss it (wait, discard task).
RemovedOnlyFinished ==
    [][\A q \in queries \ queries' : status[q] # None]_vars

-----------------------------------------------------------------------------
(* The inductive invariant behind the safety properties *)

\* A handler that is under way has a request id and a target, and a query
\* task past select! has an outcome.
Assigned ==
    /\ \A h \in Requests : pc[h] \notin {"idle", "done"} =>
          target[h] \in Requests /\ request_id[h] \in RequestIds
    /\ \A h \in Requests : target[h] # None => pc[h] # "idle"
    /\ \A q \in Requests : (outcome[q] # None) <=> (task[q] \in {"selected", "notified", "done", "lost"})
    /\ \A h \in Requests : (reply[h] # None) <=> (pc[h] = "done")

\* What the query task, its registry entry and its status say of each other.
EntryInv ==
    \A q \in Requests :
        /\ pc[q] \in {"idle", "submit", "add_request", "add_query"} => ~started[q]
        /\ pc[q] = "start" => q \in queries /\ ~started[q]
        /\ ~started[q] => task[q] \in {"none", "gated"}
        /\ started[q] /\ status[q] = None => q \in queries
        /\ (status[q] # None) <=> (task[q] \in {"notified", "done"})
        /\ discard[q] # "none" => status[q] # None
        /\ q \in queries => pc[q] \notin {"idle", "submit", "add_request", "add_query"}
        /\ task[q] # "lost"

\* What a handler relies on at each point of wait and abort.
WaiterInv ==
    \A h \in Requests :
        /\ pc[h] \in {"watch", "abort_watch"} =>
              target[h] \in queries \/ status[target[h]] # None
        /\ pc[h] \in {"remove", "join"} => status[target[h]] # None
        /\ pc[h] \in {"abort_subscribe", "abort_watch"} => token[target[h]]
        /\ reply[h] \in Outcomes \cup {"aborted"} => target[h] \in Requests
        /\ reply[h] \in Outcomes =>
              /\ status[target[h]] # None
              /\ reply[h] = outcome[target[h]]

\* What an outcome says of the statement.
OutcomeInv ==
    \A q \in Requests :
        /\ outcome[q] # None => subtask[q] # "executing"
        /\ outcome[q] = "success" => subtask[q] = "ok"
        /\ outcome[q] = "fail" => subtask[q] = "err"
        /\ outcome[q] = "incident" => subtask[q] = "panicked"
        /\ outcome[q] = "cancelled" => token[q]

\* requests_ids files a query under the id its request carries.
RequestIdInv ==
    /\ \A r \in RequestIds :
          requests_ids[r] # None => /\ request_id[requests_ids[r]] = r
                                    /\ pc[requests_ids[r]] # "idle"
    /\ \A h \in Requests : target[h] # None => pc[target[h]] # "idle"
    /\ TargetHasRequestId

\* The conjunction is preserved by every step of every task and handler of
\* submit, wait, abort and the registry.
LifecycleInv ==
    /\ TypeOK /\ Assigned /\ EntryInv /\ WaiterInv /\ OutcomeInv /\ RequestIdInv
    /\ ResultClaimedOnce /\ NoBrokenStatusChannel /\ AbortWaitsForEnd

-----------------------------------------------------------------------------
(* Liveness *)

\* Every entry leaves the registry, claimed by a waiter or discarded, so that
\* the concurrency limit is always given back (the discard task).
RegistryDrains == \A q \in Requests : q \in queries ~> q \notin queries

\* Every handler answers: no wait or abort is stuck for ever.
EveryHandlerAnswers == \A h \in Requests : pc[h] # "idle" ~> pc[h] = "done"

-----------------------------------------------------------------------------
(* Refinement: the phase of a query as its callers can tell it. *)

phase ==
    [q \in Requests |->
        IF q \in queries
        THEN IF status[q] = None THEN "running" ELSE "finished"
        ELSE IF status[q] = None THEN "absent" ELSE "taken"]

Promise == INSTANCE QueryPromise
    WITH Queries <- Requests, NoStatus <- None, verdict <- status

\* The service implements QueryPromise (safety part).
ImplementsPromise == Promise!Spec

\* The service implements QueryPromise with its fairness.
ImplementsFairPromise == Promise!FairSpec

-----------------------------------------------------------------------------
(* Statements of the repository that the code does not keep *)

\* embucketd/src/cli.rs:69: "Maximum number of running queries at the same
\* time" (max_concurrency_level).
ConcurrencyLimit == Cardinality(queries) <= max_concurrency_level

\* api-snowflake-rest/README.md:19: query-request "supports retry by
\* request_id": a retry does not execute the statement of its request again.
RetryDoesNotReexecute ==
    \A q1, q2 \in Requests :
        (/\ q1 # q2 /\ q2 \in RetryRequests
         /\ request_id[q1] = request_id[q2]
         /\ started[q1]) => ~started[q2]

=============================================================================

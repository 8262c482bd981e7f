------------------------------ MODULE Sessions ------------------------------
(***************************************************************************)
(* The session registry df_sessions of the execution service               *)
(* (executor/src/service.rs), the extractor that resolves the session of a *)
(* query, a heartbeat or a logout                                          *)
(* (api-snowflake-rest-sessions/src/session.rs), the handlers that create, *)
(* use and delete sessions (api-snowflake-rest/src/server; login and abort *)
(* do without the extractor, and abort looks at no session at all), and    *)
(* the task that deletes expired sessions.                                 *)
(*                                                                         *)
(* df_sessions is behind a tokio RwLock: everything done under one guard   *)
(* is one step, and every handler can be suspended, or dropped, between    *)
(* two guards.  Time is relative: ttl is what is left of a session's       *)
(* expiry, and Tick lets one unit of time pass for everybody.              *)
(***************************************************************************)
EXTENDS Naturals, FiniteSets

CONSTANTS
    SessionIds,   \* the session ids clients present
    Objects,      \* UserSession objects (a pool that is large enough)
    Handlers,     \* HTTP handlers that run at the same time
    TTL,          \* SESSION_INACTIVITY_EXPIRATION_SECONDS, in ticks
    HttpTimeout,  \* the HTTP TimeoutLayer, in ticks
    None

\* login-request, query-request, heartbeat (or session without delete) and
\* session?delete=true.
Kinds == {"login", "query", "heartbeat", "logout"}

ASSUME TimeAssumption ==
    /\ TTL \in Nat /\ HttpTimeout \in Nat
    /\ 2 * HttpTimeout < TTL
    /\ None \notin Objects \cup SessionIds \cup Kinds

VARIABLES
    sessions,   \* CoreExecutionService.df_sessions
    ttl,        \* what is left until UserSession.expiry, 0 when expired
    pc,         \* where each handler is
    kind,       \* which request it serves
    sid,        \* the session id of its request
    obj,        \* the UserSession a handler holds
    age,        \* how long the handler has been in session resolution
    queries,    \* handlers whose query is in the running queries registry
    sweep,      \* the expiry task: "asleep", or "locking" df_sessions
    expired,    \* sessions with expiry <= the `now` the task has read
    sinceUse,   \* history: time since a request last resolved a session id
    loggedOut   \* history: a logout deleted the session under this handler

handlerVars == <<pc, kind, sid, obj, age, loggedOut>>
sweepVars == <<sweep, expired>>
vars == <<sessions, ttl, handlerVars, queries, sweepVars, sinceUse>>

\* Session resolution: the part of a request that runs under HttpTimeout and
\* waits for the lock of df_sessions.
Resolving == {"refresh", "lookup", "insert", "get_session", "holding", "delete"}

TypeOK ==
    /\ sessions \in [SessionIds -> Objects \cup {None}]
    /\ ttl \in [Objects -> 0..TTL]
    /\ pc \in [Handlers -> {"idle", "running"} \cup Resolving]
    /\ kind \in [Handlers -> Kinds \cup {None}]
    /\ sid \in [Handlers -> SessionIds \cup {None}]
    /\ obj \in [Handlers -> Objects \cup {None}]
    /\ age \in [Handlers -> 0..HttpTimeout]
    /\ queries \in SUBSET Handlers
    /\ sweep \in {"asleep", "locking"}
    /\ expired \in SUBSET Objects
    /\ sinceUse \in [SessionIds -> 0..TTL]
    /\ loggedOut \in [Handlers -> BOOLEAN]

Init ==
    /\ sessions = [s \in SessionIds |-> None]
    /\ ttl = [o \in Objects |-> 0]
    /\ pc = [h \in Handlers |-> "idle"]
    /\ kind = [h \in Handlers |-> None]
    /\ sid = [h \in Handlers |-> None]
    /\ obj = [h \in Handlers |-> None]
    /\ age = [h \in Handlers |-> 0]
    /\ queries = {}
    /\ sweep = "asleep"
    /\ expired = {}
    /\ sinceUse = [s \in SessionIds |-> 0]
    /\ loggedOut = [h \in Handlers |-> FALSE]

-----------------------------------------------------------------------------
Goto(h, from, to) ==
    /\ pc[h] = from
    /\ pc' = [pc EXCEPT ![h] = to]

\* The handler is done with its request; its slot serves the next one.
Finish(h, from) ==
    /\ Goto(h, from, "idle")
    /\ kind' = [kind EXCEPT ![h] = None]
    /\ sid' = [sid EXCEPT ![h] = None]
    /\ obj' = [obj EXCEPT ![h] = None]
    /\ age' = [age EXCEPT ![h] = 0]
    /\ loggedOut' = [loggedOut EXCEPT ![h] = FALSE]

\* What a handler does with its session once it is resolved.
AfterResolution(h) ==
    CASE kind[h] = "query" -> "get_session"
      [] kind[h] = "logout" -> "delete"
      [] kind[h] \in {"heartbeat", "login"} -> "idle"

Resolved(h, from) ==
    IF AfterResolution(h) = "idle"
    THEN Finish(h, from)
    ELSE Goto(h, from, AfterResolution(h)) /\ UNCHANGED <<kind, sid, obj, age, loggedOut>>

\* A request arrives.  The login handler goes straight to create_session, the
\* others through the TokenizedSession extractor.
Arrive(h, k, s) ==
    /\ Goto(h, "idle", IF k = "login" THEN "lookup" ELSE "refresh")
    /\ kind' = [kind EXCEPT ![h] = k]
    /\ sid' = [sid EXCEPT ![h] = s]
    /\ UNCHANGED <<sessions, ttl, obj, age, loggedOut, queries, sweepVars, sinceUse>>

\* Mutant: the session is found and its expiry is not stored.
UpdateExpiryFinds(h) ==
    /\ pc[h] = "refresh"
    /\ IF sessions[sid[h]] # None
       THEN /\ sinceUse' = [sinceUse EXCEPT ![sid[h]] = 0]
            /\ Resolved(h, "refresh")
       ELSE /\ Goto(h, "refresh", "lookup")
            /\ UNCHANGED <<kind, sid, obj, age, loggedOut, sinceUse>>
    /\ UNCHANGED <<sessions, ttl, queries, sweepVars>>

\* update_session_expiry, under the write lock.
UpdateExpiry(h) ==
    /\ pc[h] = "refresh"
    /\ IF sessions[sid[h]] # None
       THEN /\ ttl' = [ttl EXCEPT ![sessions[sid[h]]] = TTL]
            /\ sinceUse' = [sinceUse EXCEPT ![sid[h]] = 0]
            /\ Resolved(h, "refresh")
       ELSE /\ Goto(h, "refresh", "lookup")
            /\ UNCHANGED <<ttl, kind, sid, obj, age, loggedOut, sinceUse>>
    /\ UNCHANGED <<sessions, queries, sweepVars>>

Unused(o) ==
    /\ \A s \in SessionIds : sessions[s] # o
    /\ \A h \in Handlers : obj[h] # o

\* create_session under the read lock: return the session that is there, or
\* build a new UserSession, whose expiry starts now.  Which of the unused
\* objects stands for it makes no difference.
CreateLookup(h) ==
    /\ pc[h] = "lookup"
    /\ IF sessions[sid[h]] # None
       THEN /\ Resolved(h, "lookup")
            /\ sinceUse' = [sinceUse EXCEPT ![sid[h]] = IF kind[h] = "login" THEN @ ELSE 0]
            /\ UNCHANGED ttl
       ELSE \E o \in Objects :
            /\ Unused(o) /\ o = CHOOSE x \in Objects : Unused(x)
            /\ Goto(h, "lookup", "insert")
            /\ obj' = [obj EXCEPT ![h] = o]
            /\ ttl' = [ttl EXCEPT ![o] = TTL]
            /\ UNCHANGED <<kind, sid, age, loggedOut, sinceUse>>
    /\ UNCHANGED <<sessions, queries, sweepVars>>

\* create_session under the write lock: insert, whatever is there by now.
CreateInsert(h) ==
    /\ pc[h] = "insert"
    /\ sessions' = [sessions EXCEPT ![sid[h]] = obj[h]]
    /\ sinceUse' = [sinceUse EXCEPT ![sid[h]] = 0]
    /\ Resolved(h, "insert")
    /\ UNCHANGED <<ttl, queries, sweepVars>>

\* submit: get_session clones the Arc, or fails with MissingDataFusionSession.
GetSession(h) ==
    /\ IF pc[h] = "get_session" /\ sessions[sid[h]] # None
       THEN /\ Goto(h, "get_session", "holding")
            /\ obj' = [obj EXCEPT ![h] = sessions[sid[h]]]
            /\ UNCHANGED <<kind, sid, age, loggedOut>>
       ELSE Finish(h, "get_session")
    /\ UNCHANGED <<sessions, ttl, queries, sweepVars, sinceUse>>

\* submit: the concurrency limit is reached, and the session is let go.  When
\* that is so is the subject of QueryLifecycle.
LimitReached(h) ==
    /\ Finish(h, "holding")
    /\ UNCHANGED <<sessions, ttl, queries, sweepVars, sinceUse>>

\* submit: the query enters the registry (see QueryLifecycle).
AddQuery(h) ==
    /\ Goto(h, "holding", "running")
    /\ queries' = queries \cup {h}
    /\ age' = [age EXCEPT ![h] = 0]
    /\ UNCHANGED <<sessions, ttl, kind, sid, obj, loggedOut, sweepVars, sinceUse>>

\* The query ends, leaves the registry and is answered.  What a SET or USE
\* statement changed is in the UserSession it ran in.
FinishQuery(h) ==
    /\ Finish(h, "running")
    /\ queries' = queries \ {h}
    /\ UNCHANGED <<sessions, ttl, sweepVars, sinceUse>>

\* delete_session, without any condition.
DeleteSession(h) ==
    /\ pc[h] = "delete"
    /\ sessions' = [sessions EXCEPT ![sid[h]] = None]
    /\ pc' = [pc EXCEPT ![h] = "idle"]
    /\ kind' = [kind EXCEPT ![h] = None]
    /\ sid' = [sid EXCEPT ![h] = None]
    /\ obj' = [obj EXCEPT ![h] = None]
    /\ age' = [age EXCEPT ![h] = 0]
    /\ loggedOut' = [g \in Handlers |-> g # h /\ (loggedOut[g] \/ sid[g] = sid[h])]
    /\ UNCHANGED <<ttl, queries, sweepVars, sinceUse>>

\* The connection closes or the TimeoutLayer fires while a handler waits for
\* the lock, or UserSession::new fails before the insert.
DropHandler(h) ==
    /\ \E at \in Resolving \ {"holding"} : Finish(h, at)
    /\ UNCHANGED <<sessions, ttl, queries, sweepVars, sinceUse>>

-----------------------------------------------------------------------------
\* delete_expired_sessions reads the clock before it waits for the lock ...
SweepReadClock ==
    /\ sweep = "asleep"
    /\ sweep' = "locking"
    /\ expired' = {o \in Objects : ttl[o] = 0}
    /\ UNCHANGED <<sessions, ttl, handlerVars, queries, sinceUse>>

\* Mutant: the sessions to delete are chosen before the lock is taken.
SweptStale(s) == sessions[s] \in expired /\ queries = {}

\* Mutant: the running queries are not looked at.
SweptUnderQuery(s) == sessions[s] \in expired /\ ttl[sessions[s]] = 0

\* Mutant: retain's closure answers the opposite.
SweptInverted(s) == sessions[s] \notin expired /\ queries = {}

\* ... and under the write lock keeps the sessions whose expiry is later than
\* that, and all of them while any query of any session is in the registry.
Swept(s) ==
    /\ sessions[s] \in expired
    /\ ttl[sessions[s]] = 0
    /\ queries = {}

SweepRetain ==
    /\ sweep = "locking"
    /\ sweep' = "asleep"
    /\ expired' = {}
    /\ sessions' = [s \in SessionIds |->
          IF sessions[s] # None /\ Swept(s) THEN None ELSE sessions[s]]
    /\ UNCHANGED <<ttl, handlerVars, queries, sinceUse>>

\* One unit of time.  The TimeoutLayer drops a handler before it is older
\* than HttpTimeout, so time waits for that.
Tick ==
    /\ \A h \in Handlers : pc[h] \in Resolving => age[h] < HttpTimeout
    /\ ttl' = [o \in Objects |-> IF ttl[o] = 0 THEN 0 ELSE ttl[o] - 1]
    /\ age' = [h \in Handlers |-> IF pc[h] \in Resolving THEN age[h] + 1 ELSE 0]
    /\ sinceUse' = [s \in SessionIds |-> IF sinceUse[s] < TTL THEN sinceUse[s] + 1 ELSE TTL]
    /\ UNCHANGED <<sessions, pc, kind, sid, obj, loggedOut, queries, sweepVars>>

-----------------------------------------------------------------------------
HandlerStep(h) ==
    \/ UpdateExpiry(h) \/ CreateLookup(h) \/ CreateInsert(h)
    \/ GetSession(h) \/ LimitReached(h) \/ AddQuery(h) \/ DeleteSession(h)

Next ==
    \/ \E h \in Handlers :
          \/ \E k \in Kinds, s \in SessionIds : Arrive(h, k, s)
          \/ HandlerStep(h) \/ DropHandler(h) \/ FinishQuery(h)
    \/ SweepReadClock \/ SweepRetain \/ Tick

Spec == Init /\ [][Next]_vars

\* Handlers, queries and the expiry task make progress, and time passes.
FairSpec ==
    /\ Spec
    /\ \A h \in Handlers : WF_vars(HandlerStep(h)) /\ WF_vars(FinishQuery(h))
    /\ WF_vars(SweepReadClock) /\ WF_vars(SweepRetain) /\ WF_vars(Tick)

-----------------------------------------------------------------------------
(* Safety *)

\* The expiry task never deletes the session of a query that is being
\* submitted or is running, although it looks only at the registry and
\* submit adds the query after it has left the lock of df_sessions
\* (delete_expired_sessions: "prevent deleting sessions when session is
\* expired but query is running").
SweepSparesQueries ==
    [][SweepRetain =>
          \A h \in Handlers, s \in SessionIds :
              pc[h] \in {"holding", "running"} /\ obj[h] = sessions[s] =>
                  sessions'[s] = sessions[s]]_vars

\* A query whose request resolved its session is refused for a missing session
\* only when a logout deleted it meanwhile: neither expiry nor the creation
\* race can do that (get_or_create_session, get_session).
MissingOnlyAfterLogout ==
    \A h \in Handlers :
        pc[h] = "get_session" /\ sessions[sid[h]] = None => loggedOut[h]

\* The sliding window, with the races of create_session accounted for (an
\* object built by one request is inserted, and found by another, up to an
\* HttpTimeout later each): no session is swept sooner than that after a
\* request resolved it.
SlidingWindow ==
    [][SweepRetain =>
          \A s \in SessionIds :
              sessions'[s] # sessions[s] => sinceUse[s] >= TTL - 2 * HttpTimeout]_vars

\* A request that came through the extractor leaves resolution with a session
\* that has nearly its full lifetime left (update_session_expiry or
\* create_session).
ExtractorRefreshes ==
    [][\A h \in Handlers :
          (/\ kind[h] # "login"
           /\ pc[h] \in {"refresh", "lookup", "insert"}
           /\ pc'[h] \in {"get_session", "delete"}) =>
              /\ sessions'[sid[h]] # None
              /\ ttl'[sessions'[sid[h]]] >= TTL - 2 * HttpTimeout]_vars

-----------------------------------------------------------------------------
(* The inductive invariant behind the safety properties *)

\* A handler past resolution, or past the miss that sends it to create_session,
\* finds under its id a session that is at most HttpTimeout older than itself;
\* the session it holds is no older either.
FreshInv ==
    \A h \in Handlers :
        /\ pc[h] \in Resolving => sid[h] \in SessionIds /\ kind[h] \in Kinds
        /\ pc[h] \in {"insert", "holding", "running"} => obj[h] \in Objects
        /\ pc[h] = "insert" => ttl[obj[h]] + age[h] >= TTL
        /\ pc[h] = "holding" => ttl[obj[h]] + age[h] + HttpTimeout >= TTL
        /\ pc[h] \in {"get_session", "delete"} \/ (kind[h] # "login" /\ pc[h] \in {"lookup", "insert"}) =>
              (sessions[sid[h]] # None =>
                  ttl[sessions[sid[h]]] + age[h] + HttpTimeout >= TTL)
        /\ pc[h] = "running" => h \in queries

\* What is left of a session and the time since it was used add up to nearly
\* its full lifetime.
WindowInv ==
    \A s \in SessionIds :
        sessions[s] # None => ttl[sessions[s]] + sinceUse[s] + 2 * HttpTimeout >= TTL

\* The conjunction is preserved by every step of the handlers, the extractor
\* and the expiry task on df_sessions.
SessionInv == TypeOK /\ FreshInv /\ WindowInv /\ MissingOnlyAfterLogout

-----------------------------------------------------------------------------
(* Liveness *)

\* An expired session that nobody comes back to is deleted (the expiry task),
\* once the registry of running queries stays empty.
ExpiredSessionsGo ==
    \A s \in SessionIds :
        (<>[](queries = {} /\ \A h \in Handlers : sid[h] # s)) =>
            []<>(sessions[s] = None)

-----------------------------------------------------------------------------
(* A statement of the repository that the code does not keep *)

\* executor/README.md:11: "each session is a `UserSession`".  A session is not
\* replaced by another UserSession while a query runs in it: what the query
\* sets would be lost to the client's next query.
NotReplacedUnderQuery ==
    [][\A s \in SessionIds, h \in Handlers :
          pc[h] = "running" /\ obj[h] = sessions[s] =>
              sessions'[s] \in {sessions[s], None}]_vars

=============================================================================

--------------------------- MODULE SessionsProofs ---------------------------
(***************************************************************************)
(* Proofs about Sessions for every set of ids, objects and handlers and    *)
(* every TTL longer than two HTTP timeouts.                                *)
(*                                                                         *)
(* SessionInv is inductive.  Its core is FreshInv: a handler between the   *)
(* extractor and the registry of running queries always has a session      *)
(* whose expiry is ahead, so that the expiry task, which does not know of  *)
(* it yet, cannot take the session away.                                   *)
(***************************************************************************)
EXTENDS Sessions, TLAPS

USE DEF handlerVars, sweepVars

\* df_sessions starts empty.
LEMMA InitInv == Init => SessionInv
  BY TimeAssumption
  DEF Init, SessionInv, TypeOK, FreshInv, WindowInv, MissingOnlyAfterLogout, Resolving

\* Giving a handler's slot back keeps the types of the handler's state.
LEMMA FinishType ==
  ASSUME TypeOK, NEW h \in Handlers, NEW from, Finish(h, from)
  PROVE  /\ pc' \in [Handlers -> {"idle", "running"} \cup Resolving]
         /\ kind' \in [Handlers -> Kinds \cup {None}]
         /\ sid' \in [Handlers -> SessionIds \cup {None}]
         /\ obj' \in [Handlers -> Objects \cup {None}]
         /\ age' \in [Handlers -> 0..HttpTimeout]
         /\ loggedOut' \in [Handlers -> BOOLEAN]
<1>1. pc' \in [Handlers -> {"idle", "running"} \cup Resolving]
  BY DEF Finish, Goto, TypeOK
<1>2. kind' \in [Handlers -> Kinds \cup {None}] /\ sid' \in [Handlers -> SessionIds \cup {None}]
      /\ obj' \in [Handlers -> Objects \cup {None}]
  BY DEF Finish, TypeOK
<1>3. age' \in [Handlers -> 0..HttpTimeout]
  BY TimeAssumption DEF Finish, TypeOK
<1>4. loggedOut' \in [Handlers -> BOOLEAN]
  BY DEF Finish, TypeOK
<1> QED
  BY <1>1, <1>2, <1>3, <1>4

\* The end of session resolution keeps the types of the handler's state.
LEMMA ResolvedType ==
  ASSUME TypeOK, NEW h \in Handlers, kind[h] \in Kinds, NEW from, Resolved(h, from)
  PROVE  /\ pc' \in [Handlers -> {"idle", "running"} \cup Resolving]
         /\ kind' \in [Handlers -> Kinds \cup {None}]
         /\ sid' \in [Handlers -> SessionIds \cup {None}]
         /\ obj' \in [Handlers -> Objects \cup {None}]
         /\ age' \in [Handlers -> 0..HttpTimeout]
         /\ loggedOut' \in [Handlers -> BOOLEAN]
<1>1. AfterResolution(h) \in {"idle", "get_session", "delete"}
  BY DEF AfterResolution, Kinds
<1>2. CASE AfterResolution(h) = "idle"
  BY <1>2, FinishType DEF Resolved
<1>3. CASE AfterResolution(h) # "idle"
  BY <1>1, <1>3 DEF Resolved, Goto, TypeOK, Resolving
<1> QED
  BY <1>2, <1>3

\* A request's arrival preserves the invariant.
LEMMA ArriveInv ==
  ASSUME SessionInv, NEW h \in Handlers, NEW k \in Kinds, NEW s \in SessionIds,
         Arrive(h, k, s)
  PROVE  SessionInv'
  BY TimeAssumption
  DEF Arrive, Goto, SessionInv, TypeOK, FreshInv, WindowInv, MissingOnlyAfterLogout, Resolving

\* update_session_expiry preserves the invariant: it only ever postpones.
LEMMA UpdateExpiryInv ==
  ASSUME SessionInv, NEW h \in Handlers, UpdateExpiry(h)
  PROVE  SessionInv'
<1> USE TimeAssumption DEF UpdateExpiry, Goto, SessionInv
<1>1. TypeOK'
  <2>1. CASE sessions[sid[h]] # None
    <3>1. Resolved(h, "refresh")
      BY <2>1
    <3> QED
      BY <2>1, <3>1, ResolvedType DEF TypeOK, FreshInv, Resolving
  <2>2. CASE sessions[sid[h]] = None
    BY <2>2 DEF TypeOK, Resolving
  <2> QED
    BY <2>1, <2>2
<1>2. FreshInv'
  BY DEF TypeOK, FreshInv, Resolved, AfterResolution, Kinds, Finish, Resolving
<1>3. WindowInv'
  BY DEF TypeOK, FreshInv, WindowInv
<1>4. MissingOnlyAfterLogout'
  BY DEF TypeOK, FreshInv, MissingOnlyAfterLogout, Resolved, AfterResolution, Kinds,
      Finish, Resolving
<1> QED
  BY <1>1, <1>2, <1>3, <1>4

\* create_session under the read lock preserves the invariant: a session found
\* after a miss was inserted since, by a handler no older than HttpTimeout.
LEMMA CreateLookupInv ==
  ASSUME SessionInv, NEW h \in Handlers, CreateLookup(h)
  PROVE  SessionInv'
<1> USE TimeAssumption DEF CreateLookup, Unused, Goto, SessionInv
<1>1. TypeOK'
  <2>1. CASE sessions[sid[h]] # None
    <3>1. Resolved(h, "lookup")
      BY <2>1
    <3> QED
      BY <2>1, <3>1, ResolvedType DEF TypeOK, FreshInv, Resolving
  <2>2. CASE sessions[sid[h]] = None
    BY <2>2 DEF TypeOK, Resolving
  <2> QED
    BY <2>1, <2>2
<1>2. FreshInv'
  BY DEF TypeOK, FreshInv, Resolved, AfterResolution, Kinds, Finish, Resolving
<1>3. WindowInv'
  BY DEF TypeOK, FreshInv, WindowInv, Resolving
<1>4. MissingOnlyAfterLogout'
  BY DEF TypeOK, FreshInv, MissingOnlyAfterLogout, Resolved, AfterResolution, Kinds,
      Finish, Resolving
<1> QED
  BY <1>1, <1>2, <1>3, <1>4

\* create_session under the write lock preserves the invariant, also when it
\* replaces a session another request has just inserted.
LEMMA CreateInsertInv ==
  ASSUME SessionInv, NEW h \in Handlers, CreateInsert(h)
  PROVE  SessionInv'
<1> USE TimeAssumption DEF CreateInsert, Goto, SessionInv
<1>1. TypeOK'
  BY ResolvedType DEF TypeOK, FreshInv, Resolving
<1>2. FreshInv'
  BY DEF TypeOK, FreshInv, Resolved, AfterResolution, Kinds, Finish, Resolving
<1>3. WindowInv'
  BY DEF TypeOK, FreshInv, WindowInv, Resolving
<1>4. MissingOnlyAfterLogout'
  BY DEF TypeOK, FreshInv, MissingOnlyAfterLogout, Resolved, AfterResolution, Kinds,
      Finish, Resolving
<1> QED
  BY <1>1, <1>2, <1>3, <1>4

\* get_session preserves the invariant.
LEMMA GetSessionInv ==
  ASSUME SessionInv, NEW h \in Handlers, GetSession(h)
  PROVE  SessionInv'
<1> USE TimeAssumption DEF GetSession, SessionInv
<1>1. pc[h] = "get_session" /\ sid[h] \in SessionIds
  BY DEF FreshInv, Resolving, Goto, Finish
<1>2. TypeOK'
  <2>1. CASE sessions[sid[h]] # None
    BY <1>1, <2>1 DEF TypeOK, Resolving, Goto
  <2>2. CASE sessions[sid[h]] = None
    <3>1. Finish(h, "get_session")
      BY <2>2
    <3> QED
      BY <3>1, FinishType DEF TypeOK
  <2> QED
    BY <2>1, <2>2
<1>3. FreshInv'
  BY DEF TypeOK, FreshInv, Resolving, Goto, Finish
<1>4. WindowInv' /\ MissingOnlyAfterLogout'
  BY DEF TypeOK, WindowInv, MissingOnlyAfterLogout, Goto, Finish
<1> QED
  BY <1>2, <1>3, <1>4

\* A refusal at the concurrency limit preserves the invariant.
LEMMA LimitReachedInv ==
  ASSUME SessionInv, NEW h \in Handlers, LimitReached(h)
  PROVE  SessionInv'
  BY TimeAssumption
  DEF LimitReached, Finish, Goto, SessionInv, TypeOK, FreshInv, WindowInv,
      MissingOnlyAfterLogout, Resolving

\* Entering the registry of running queries preserves the invariant.
LEMMA AddQueryInv ==
  ASSUME SessionInv, NEW h \in Handlers, AddQuery(h)
  PROVE  SessionInv'
  BY TimeAssumption
  DEF AddQuery, Goto, SessionInv, TypeOK, FreshInv, WindowInv, MissingOnlyAfterLogout, Resolving

\* The end of a query preserves the invariant.
LEMMA FinishQueryInv ==
  ASSUME SessionInv, NEW h \in Handlers, FinishQuery(h)
  PROVE  SessionInv'
  BY TimeAssumption
  DEF FinishQuery, Finish, Goto, SessionInv, TypeOK, FreshInv, WindowInv,
      MissingOnlyAfterLogout, Resolving

\* delete_session preserves the invariant: whoever is left without a session
\* has been logged out.
LEMMA DeleteSessionInv ==
  ASSUME SessionInv, NEW h \in Handlers, DeleteSession(h)
  PROVE  SessionInv'
<1> USE TimeAssumption DEF DeleteSession, SessionInv
<1>1. TypeOK'
  <2>1. loggedOut' \in [Handlers -> BOOLEAN]
    BY DEF TypeOK
  <2>2. sessions' \in [SessionIds -> Objects \cup {None}] /\ ttl' \in [Objects -> 0..TTL]
    BY DEF TypeOK
  <2>3. pc' \in [Handlers -> {"idle", "running"} \cup Resolving]
    BY DEF TypeOK
  <2>4. kind' \in [Handlers -> Kinds \cup {None}] /\ sid' \in [Handlers -> SessionIds \cup {None}]
        /\ obj' \in [Handlers -> Objects \cup {None}]
    BY DEF TypeOK
  <2>5. age' \in [Handlers -> 0..HttpTimeout]
    BY DEF TypeOK
  <2>6. UNCHANGED <<queries, sweep, expired, sinceUse>>
    OBVIOUS
  <2> QED
    BY <2>1, <2>2, <2>3, <2>4, <2>5, <2>6, Zenon DEF TypeOK
<1>2. FreshInv'
  BY DEF TypeOK, FreshInv, Resolving
<1>3. WindowInv' /\ MissingOnlyAfterLogout'
  BY DEF TypeOK, FreshInv, WindowInv, MissingOnlyAfterLogout, Resolving
<1> QED
  BY <1>1, <1>2, <1>3

\* Dropping a handler preserves the invariant.
LEMMA DropHandlerInv ==
  ASSUME SessionInv, NEW h \in Handlers, DropHandler(h)
  PROVE  SessionInv'
  BY TimeAssumption
  DEF DropHandler, Finish, Goto, SessionInv, TypeOK, FreshInv, WindowInv,
      MissingOnlyAfterLogout, Resolving

\* delete_expired_sessions preserves the invariant: what it removes has
\* expired, and no handler relies on an expired session.
LEMMA SweepInv ==
  ASSUME SessionInv, SweepReadClock \/ SweepRetain
  PROVE  SessionInv'
<1>1. CASE SweepReadClock
  BY <1>1, TimeAssumption
  DEF SweepReadClock, SessionInv, TypeOK, FreshInv, WindowInv, MissingOnlyAfterLogout
<1>2. CASE SweepRetain
  <2> USE <1>2, TimeAssumption DEF SweepRetain, Swept, SessionInv
  <2>1. TypeOK'
    BY DEF TypeOK
  <2>2. FreshInv' /\ WindowInv'
    BY DEF TypeOK, FreshInv, WindowInv
  <2>3. MissingOnlyAfterLogout'
    BY DEF TypeOK, FreshInv, MissingOnlyAfterLogout, Resolving
  <2> QED
    BY <2>1, <2>2, <2>3
<1> QED
  BY <1>1, <1>2

\* The passing of time preserves the invariant: what a session loses, the
\* handlers that rely on it gain in age.
LEMMA TickInv ==
  ASSUME SessionInv, Tick
  PROVE  SessionInv'
<1> USE TimeAssumption DEF Tick, SessionInv
<1>1. TypeOK'
  BY DEF TypeOK
<1>2. FreshInv'
  BY DEF TypeOK, FreshInv, Resolving
<1>3. WindowInv' /\ MissingOnlyAfterLogout'
  BY DEF TypeOK, WindowInv, MissingOnlyAfterLogout
<1> QED
  BY <1>1, <1>2, <1>3

-----------------------------------------------------------------------------
\* Every step of the system, and every stuttering step, preserves the
\* invariant.
LEMMA StepInv == SessionInv /\ [Next]_vars => SessionInv'
<1> SUFFICES ASSUME SessionInv, [Next]_vars
             PROVE  SessionInv'
  OBVIOUS
<1>1. CASE UNCHANGED vars
  BY <1>1 DEF vars, SessionInv, TypeOK, FreshInv, WindowInv, MissingOnlyAfterLogout
<1>2. ASSUME NEW h \in Handlers, HandlerStep(h)
      PROVE  SessionInv'
  BY <1>2, UpdateExpiryInv, CreateLookupInv, CreateInsertInv, GetSessionInv,
     LimitReachedInv, AddQueryInv, DeleteSessionInv
  DEF HandlerStep
<1> QED
  BY <1>1, <1>2, ArriveInv, DropHandlerInv, FinishQueryInv, SweepInv, TickInv DEF Next

\* The inductive invariant holds in every reachable state of df_sessions, the
\* handlers and the expiry task.
THEOREM SessionInvariant == Spec => []SessionInv
<1> QED
  BY InitInv, StepInv, PTL DEF Spec

\* Every variable of the registry keeps its type; in particular no expiry is
\* ever more than TTL ahead.
THEOREM TypeCorrect == Spec => []TypeOK
<1>1. SessionInv => TypeOK
  BY DEF SessionInv
<1> QED
  BY <1>1, SessionInvariant, PTL

\* A query of a resolved session misses it only after a logout.
THEOREM OnlyLogoutTakesSession == Spec => []MissingOnlyAfterLogout
<1>1. SessionInv => MissingOnlyAfterLogout
  BY DEF SessionInv
<1> QED
  BY <1>1, SessionInvariant, PTL

\* The expiry task spares the session of every query that is being submitted
\* or is running.
THEOREM QueriesKeepTheirSession == Spec => SweepSparesQueries
<1>1. SessionInv =>
        [SweepRetain =>
          \A h \in Handlers, s \in SessionIds :
              pc[h] \in {"holding", "running"} /\ obj[h] = sessions[s] =>
                  sessions'[s] = sessions[s]]_vars
  BY TimeAssumption DEF SessionInv, TypeOK, FreshInv, SweepRetain, Swept
<1> QED
  BY <1>1, SessionInvariant, PTL DEF SweepSparesQueries

\* No session is swept sooner than TTL - 2 * HttpTimeout after its last use.
THEOREM WindowSlides == Spec => SlidingWindow
<1>1. SessionInv =>
        [SweepRetain =>
          \A s \in SessionIds :
              sessions'[s] # sessions[s] => sinceUse[s] >= TTL - 2 * HttpTimeout]_vars
  BY TimeAssumption DEF SessionInv, TypeOK, WindowInv, SweepRetain, Swept
<1> QED
  BY <1>1, SessionInvariant, PTL DEF SlidingWindow

\* The steps that end a request's session resolution leave it a session with
\* nearly its full lifetime.
LEMMA ResolutionRefreshes ==
  ASSUME SessionInv, NEW h \in Handlers, kind[h] # "login", NEW g \in Handlers,
         UpdateExpiry(g) \/ CreateLookup(g) \/ CreateInsert(g),
         pc[h] \in {"refresh", "lookup", "insert"},
         pc'[h] \in {"get_session", "delete"}
  PROVE  /\ sessions'[sid[h]] # None
         /\ ttl'[sessions'[sid[h]]] >= TTL - 2 * HttpTimeout
<1> USE TimeAssumption DEF SessionInv, TypeOK, FreshInv, Goto, Resolving
<1>1. g = h /\ sid[h] \in SessionIds
  BY DEF UpdateExpiry, CreateLookup, CreateInsert, Resolved, Finish
<1>2. CASE UpdateExpiry(h)
  BY <1>1, <1>2 DEF UpdateExpiry
<1>3. CASE CreateLookup(h)
  BY <1>1, <1>3 DEF CreateLookup
<1>4. CASE CreateInsert(h)
  BY <1>1, <1>4 DEF CreateInsert
<1> QED
  BY <1>1, <1>2, <1>3, <1>4

\* Every request that comes through the extractor leaves it with a session that
\* has nearly its full lifetime ahead.
THEOREM RequestsRefresh == Spec => ExtractorRefreshes
<1>1. SessionInv /\ [Next]_vars =>
        [\A h \in Handlers :
          (/\ kind[h] # "login"
           /\ pc[h] \in {"refresh", "lookup", "insert"}
           /\ pc'[h] \in {"get_session", "delete"}) =>
              /\ sessions'[sid[h]] # None
              /\ ttl'[sessions'[sid[h]]] >= TTL - 2 * HttpTimeout]_vars
  <2> SUFFICES ASSUME SessionInv, Next, NEW h \in Handlers, kind[h] # "login",
                      pc[h] \in {"refresh", "lookup", "insert"},
                      pc'[h] \in {"get_session", "delete"}
               PROVE  /\ sessions'[sid[h]] # None
                      /\ ttl'[sessions'[sid[h]]] >= TTL - 2 * HttpTimeout
    OBVIOUS
  <2>1. PICK g \in Handlers : UpdateExpiry(g) \/ CreateLookup(g) \/ CreateInsert(g)
    BY DEF Next, HandlerStep, SessionInv, TypeOK, Arrive, GetSession, LimitReached, AddQuery, DeleteSession,
       DropHandler, FinishQuery, SweepReadClock, SweepRetain, Tick, Finish, Goto
  <2> QED
    BY <2>1, ResolutionRefreshes
<1> QED
  BY <1>1, SessionInvariant, PTL DEF Spec, ExtractorRefreshes

=============================================================================

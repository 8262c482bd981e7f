---------------------------- MODULE IdleShutdown ----------------------------
(***************************************************************************)
(* The idle shutdown of the server: timeout_signal of the execution        *)
(* service (executor/src/service.rs) wakes up at a fixed interval, looks   *)
(* at df_sessions and then at the registry of running queries, and ends    *)
(* when the service has looked idle for idle_timeout; shutdown_signal of   *)
(* embucketd (embucketd/src/main.rs) waits for it, for Ctrl+C or for       *)
(* SIGTERM and starts the graceful shutdown.                               *)
(*                                                                         *)
(* Sessions and running queries are abstracted to their presence: how they *)
(* come and go is the subject of Sessions and QueryLifecycle.              *)
(***************************************************************************)
EXTENDS Naturals

CONSTANTS
    SessionIds,    \* the entries of df_sessions
    QueryIds,      \* the entries of the registry of running queries
    Interval,      \* TIMEOUT_SIGNAL_INTERVAL_SECONDS, in ticks
    IdleTimeout,   \* IDLE_TIMEOUT_SECONDS, in ticks
    None

ASSUME IdleAssumption ==
    /\ Interval \in Nat \ {0}
    /\ IdleTimeout \in Nat
    /\ None \notin Nat
    /\ SessionIds \cap QueryIds = {}

Activities == SessionIds \cup QueryIds

VARIABLES
    present,        \* the sessions and the running queries there are
    untilTick,      \* time until the interval's next tick
    sampler,        \* timeout_signal: "waiting" for the tick, or between its reads
    sessionsEmpty,  \* its local sessions_empty
    idleFor,        \* idle_since.elapsed(), counted to IdleTimeout
    stopped,        \* shutdown_signal: "no", or why it returned
    age,            \* history: how long each activity has been there
    sinceLong       \* history: time since an activity older than Interval

samplerVars == <<sampler, sessionsEmpty, idleFor>>
history == <<age, sinceLong>>
vars == <<present, untilTick, samplerVars, stopped, history>>

UpTo(n, bound) == IF n < bound THEN n + 1 ELSE bound

TypeOK ==
    /\ present \in SUBSET Activities
    /\ untilTick \in 0..Interval
    /\ sampler \in {"waiting", "counting"}
    /\ sessionsEmpty \in BOOLEAN
    /\ idleFor \in 0..IdleTimeout \cup {None}
    /\ stopped \in {"no", "signal", "idle"}
    /\ age \in [Activities -> 0..(Interval + 1)]
    /\ sinceLong \in 0..IdleTimeout

\* The first tick of the interval is skipped.
Init ==
    /\ present = {}
    /\ untilTick = Interval
    /\ sampler = "waiting" /\ sessionsEmpty = FALSE /\ idleFor = None
    /\ stopped = "no"
    /\ age = [x \in Activities |-> 0]
    /\ sinceLong = IdleTimeout

-----------------------------------------------------------------------------
\* A session is created, or a query is submitted.
Begin(x) ==
    /\ stopped = "no"
    /\ x \notin present
    /\ present' = present \cup {x}
    /\ UNCHANGED <<untilTick, samplerVars, stopped, age, sinceLong>>

\* A session is logged out or expires, or a query ends.
End(x) ==
    /\ x \in present
    /\ present' = present \ {x}
    /\ age' = [age EXCEPT ![x] = 0]
    /\ UNCHANGED <<untilTick, samplerVars, stopped, sinceLong>>

\* The interval ticks and df_sessions is read under its lock ...
ReadSessions ==
    /\ stopped = "no" /\ sampler = "waiting" /\ untilTick = 0
    /\ sampler' = "counting"
    /\ untilTick' = Interval
    /\ sessionsEmpty' = (present \cap SessionIds = {})
    /\ UNCHANGED <<present, idleFor, stopped, history>>

\* Mutant: activity does not reset idle_since.
IdleSinceSticky(idleNow) ==
    /\ stopped' = IF idleNow /\ idleFor # None /\ idleFor = IdleTimeout THEN "idle" ELSE stopped
    /\ idleFor' = IF idleNow /\ idleFor = None THEN 0 ELSE idleFor

\* Mutant: idle_since is set at every idle sample.
IdleSinceMoves(idleNow) ==
    /\ stopped' = IF idleNow /\ idleFor # None /\ idleFor = IdleTimeout THEN "idle" ELSE stopped
    /\ idleFor' = IF idleNow THEN 0 ELSE None

\* The match on (idle_now, idle_since).
IdleSince(idleNow) ==
    CASE idleNow /\ idleFor = None -> idleFor' = 0 /\ UNCHANGED stopped
      [] idleNow /\ idleFor # None ->
            /\ stopped' = IF idleFor = IdleTimeout THEN "idle" ELSE stopped
            /\ UNCHANGED idleFor
      [] ~idleNow -> idleFor' = None /\ UNCHANGED stopped

\* ... then the registry of running queries, a separate lock, is counted.
CountQueries ==
    /\ stopped = "no" /\ sampler = "counting"
    /\ sampler' = "waiting"
    /\ IdleSince(sessionsEmpty /\ present \cap QueryIds = {})
    /\ UNCHANGED <<present, untilTick, sessionsEmpty, history>>

\* Ctrl+C or SIGTERM wins the select! of shutdown_signal.
Signal ==
    /\ stopped = "no"
    /\ stopped' = "signal"
    /\ UNCHANGED <<present, untilTick, samplerVars, history>>

\* One unit of time.  A tick of the interval is served before more time passes.
Tick ==
    /\ stopped = "no" /\ sampler = "waiting" /\ untilTick > 0
    /\ untilTick' = untilTick - 1
    /\ idleFor' = IF idleFor = None THEN None ELSE UpTo(idleFor, IdleTimeout)
    /\ age' = [x \in Activities |-> IF x \in present THEN UpTo(age[x], Interval + 1) ELSE 0]
    /\ sinceLong' = IF \E x \in present : age'[x] > Interval THEN 0 ELSE UpTo(sinceLong, IdleTimeout)
    /\ UNCHANGED <<present, sampler, sessionsEmpty, stopped>>

-----------------------------------------------------------------------------
Next ==
    \/ \E x \in Activities : Begin(x) \/ End(x)
    \/ ReadSessions \/ CountQueries \/ Signal \/ Tick

Spec == Init /\ [][Next]_vars

\* The task is scheduled, the lock of df_sessions is granted, time passes.
FairSpec == Spec /\ WF_vars(ReadSessions) /\ WF_vars(CountQueries) /\ WF_vars(Tick)

-----------------------------------------------------------------------------
\* Sampling misses nothing that lasts: when timeout_signal ends the server, no
\* session and no query that lived longer than the interval was there during
\* the last IdleTimeout, although sessions and queries are read apart and
\* come and go in between.
StopsOnlyWhenQuiet ==
    [][stopped' = "idle" /\ stopped = "no" => sinceLong = IdleTimeout]_vars

\* A server that nobody uses any more stops.
EventuallyStops == <>[](present = {}) => <>(stopped # "no")

-----------------------------------------------------------------------------
(* The inductive invariant *)

\* While the idle window is open, whatever is there began after the last
\* sample; and what a sample in progress can still miss began during it.
SeenInv ==
    \A x \in Activities :
        /\ x \notin present => age[x] = 0
        /\ idleFor # None =>
              IF sampler = "waiting" THEN age[x] + untilTick <= Interval ELSE age[x] <= Interval
        /\ sampler = "counting" /\ x \in SessionIds /\ sessionsEmpty => age[x] = 0

\* Nothing that outlived an interval was there since the window opened.
LastLongInv == idleFor # None => sinceLong >= idleFor

\* Every step of timeout_signal and of the activities it watches preserves it.
IdleInv == TypeOK /\ (sampler = "counting" => untilTick = Interval) /\ SeenInv /\ LastLongInv

=============================================================================

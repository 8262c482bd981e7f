------------------------- MODULE IdleShutdownProofs -------------------------
(***************************************************************************)
(* Proofs about IdleShutdown for every interval and every idle timeout:    *)
(* IdleInv is inductive, and a stop implies that nothing lasting was       *)
(* there for the whole idle timeout.                                       *)
(***************************************************************************)
EXTENDS IdleShutdown, TLAPS

USE IdleAssumption DEF samplerVars, history

\* The service starts with an empty registry and a closed idle window.
LEMMA InitInv == Init => IdleInv
<1> SUFFICES ASSUME Init PROVE IdleInv
  OBVIOUS
<1>1. TypeOK
  <2>1. sessionsEmpty \in BOOLEAN /\ present \in SUBSET Activities
    BY DEF Init
  <2>2. untilTick \in 0..Interval /\ sinceLong \in 0..IdleTimeout
    BY DEF Init
  <2>3. age \in [Activities -> 0..(Interval + 1)]
    BY DEF Init
  <2> QED
    BY <2>1, <2>2, <2>3, Zenon DEF Init, TypeOK
<1>2. SeenInv /\ LastLongInv
  BY DEF Init, SeenInv, LastLongInv
<1> QED
  BY <1>1, <1>2 DEF Init, IdleInv

\* Activities that come and go preserve the invariant: a new one has age 0.
LEMMA ActivityInv ==
  ASSUME IdleInv, NEW x \in Activities, Begin(x) \/ End(x)
  PROVE  IdleInv'
<1> USE DEF IdleInv, TypeOK, SeenInv, LastLongInv
<1>1. CASE Begin(x)
  BY <1>1 DEF Begin
<1>2. CASE End(x)
  BY <1>2 DEF End
<1> QED
  BY <1>1, <1>2

\* The first read of a sample preserves the invariant.
LEMMA ReadSessionsInv ==
  ASSUME IdleInv, ReadSessions
  PROVE  IdleInv'
<1>1. sessionsEmpty' \in BOOLEAN
  BY Zenon DEF ReadSessions
<1>2. \A x \in SessionIds : sessionsEmpty' => x \notin present
  BY DEF ReadSessions
<1>3. untilTick' \in 0..Interval
  BY DEF ReadSessions
<1>4. TypeOK'
  BY <1>1, <1>3, Zenon DEF ReadSessions, IdleInv, TypeOK
<1>5. SeenInv'
  BY <1>2 DEF ReadSessions, IdleInv, TypeOK, SeenInv, Activities
<1> QED
  BY <1>4, <1>5 DEF ReadSessions, IdleInv, TypeOK, LastLongInv

\* The second read of a sample preserves the invariant: an idle sample has
\* seen everything but sessions that began after the first read.
LEMMA CountQueriesInv ==
  ASSUME IdleInv, CountQueries
  PROVE  IdleInv'
<1> DEFINE idleNow == sessionsEmpty /\ present \cap QueryIds = {}
<1> USE DEF CountQueries, IdleInv, TypeOK, SeenInv, LastLongInv, IdleSince, Activities
<1>1. CASE idleNow /\ idleFor = None
  <2>1. idleFor' = 0 /\ UNCHANGED stopped
    BY <1>1
  <2>2. \A x \in Activities : age[x] = 0
    BY <1>1
  <2> QED
    BY <2>1, <2>2
<1>2. CASE idleNow /\ idleFor # None
  <2>1. UNCHANGED idleFor /\ stopped' \in {stopped, "idle"}
    BY <1>2
  <2>2. \A x \in Activities : age[x] = 0
    BY <1>2
  <2> QED
    BY <2>1, <2>2
<1>3. CASE ~idleNow
  BY <1>3
<1> QED
  BY <1>1, <1>2, <1>3

\* The passing of time preserves the invariant: while the window is open no
\* activity outlives the interval before the next sample.
LEMMA TickInv ==
  ASSUME IdleInv, Tick
  PROVE  IdleInv'
<1> USE DEF Tick, IdleInv, TypeOK, SeenInv, UpTo
<1>1. TypeOK'
  OBVIOUS
<1>2. SeenInv'
  OBVIOUS
<1>3. LastLongInv'
  BY DEF LastLongInv
<1> QED
  BY <1>1, <1>2, <1>3

\* Every step, and every stuttering step, preserves the invariant.
LEMMA StepInv == IdleInv /\ [Next]_vars => IdleInv'
<1> SUFFICES ASSUME IdleInv, [Next]_vars
             PROVE  IdleInv'
  OBVIOUS
<1>1. CASE Signal
  BY <1>1 DEF Signal, IdleInv, TypeOK, SeenInv, LastLongInv
<1>2. CASE UNCHANGED vars
  BY <1>2 DEF vars, IdleInv, TypeOK, SeenInv, LastLongInv
<1> QED
  BY <1>1, <1>2, ActivityInv, ReadSessionsInv, CountQueriesInv, TickInv DEF Next

\* The inductive invariant of timeout_signal.
THEOREM IdleInvariant == Spec => []IdleInv
<1> QED
  BY InitInv, StepInv, PTL DEF Spec

\* The server is stopped for idleness only when no session and no query that
\* lived longer than the sampling interval was there for the idle timeout.
THEOREM StopsWhenQuiet == Spec => StopsOnlyWhenQuiet
<1>1. IdleInv /\ [Next]_vars =>
        [stopped' = "idle" /\ stopped = "no" => sinceLong = IdleTimeout]_vars
  <2> SUFFICES ASSUME IdleInv, Next, stopped' = "idle", stopped = "no"
               PROVE  sinceLong = IdleTimeout
    OBVIOUS
  <2>1. CountQueries
    BY DEF Next, Begin, End, ReadSessions, Signal, Tick
  <2>2. idleFor = IdleTimeout
    BY <2>1 DEF CountQueries, IdleSince
  <2> QED
    BY <2>2 DEF IdleInv, TypeOK, LastLongInv
<1> QED
  BY <1>1, IdleInvariant, PTL DEF Spec, StopsOnlyWhenQuiet

=============================================================================

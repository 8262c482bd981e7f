---------------------------- MODULE QueryPromise ----------------------------
(***************************************************************************)
(* What the execution service promises about a submitted query, without    *)
(* registry, channels, tokens or tasks (trait ExecutionService,            *)
(* executor/src/service.rs): it becomes visible once, it finishes once     *)
(* with one status, and its result leaves the service once, and not before *)
(* the query has finished.                                                 *)
(***************************************************************************)
CONSTANTS Queries, Statuses, NoStatus

VARIABLES
    phase,   \* "absent", "running", "finished" or "taken"
    verdict  \* the status a query finished with

vars == <<phase, verdict>>

TypeOK ==
    /\ phase \in [Queries -> {"absent", "running", "finished", "taken"}]
    /\ verdict \in [Queries -> Statuses \cup {NoStatus}]

Init ==
    /\ phase = [q \in Queries |-> "absent"]
    /\ verdict = [q \in Queries |-> NoStatus]

Submit(q) ==
    /\ phase[q] = "absent"
    /\ phase' = [phase EXCEPT ![q] = "running"]
    /\ UNCHANGED verdict

Finish(q) ==
    /\ phase[q] = "running"
    /\ phase' = [phase EXCEPT ![q] = "finished"]
    /\ \E s \in Statuses : verdict' = [verdict EXCEPT ![q] = s]

Take(q) ==
    /\ phase[q] = "finished"
    /\ phase' = [phase EXCEPT ![q] = "taken"]
    /\ UNCHANGED verdict

Next == \E q \in Queries : Submit(q) \/ Finish(q) \/ Take(q)

Spec == Init /\ [][Next]_vars

\* A running query finishes (the query timeout sees to it), and a finished
\* one is consumed or discarded.
FairSpec == Spec /\ \A q \in Queries : WF_vars(Finish(q)) /\ WF_vars(Take(q))

=============================================================================

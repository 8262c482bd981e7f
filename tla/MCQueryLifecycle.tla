-------------------------- MODULE MCQueryLifecycle --------------------------
(* Instances of QueryLifecycle for TLC. *)
EXTENDS QueryLifecycle, TLC

\* Request ids are interchangeable; sound for the runs without liveness.
Symmetry == Permutations(RequestIds)

=============================================================================

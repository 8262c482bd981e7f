--------------------------- MODULE MCIdleShutdown ---------------------------
(* IdleShutdown for TLC.  No symmetry: the run checks a liveness property. *)
EXTENDS IdleShutdown

=============================================================================

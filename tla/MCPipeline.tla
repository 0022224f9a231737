----------------------------- MODULE MCPipeline -----------------------------
(* Small instances of Pipeline for TLC. *)
EXTENDS Pipeline, TLC

\* Jobs are interchangeable; used by the runs without liveness only.
JobSymmetry == Permutations(Jobs)
=============================================================================

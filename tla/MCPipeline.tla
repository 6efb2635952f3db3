----------------------------- MODULE MCPipeline -----------------------------
(* Model values and symmetry for the runs of Pipeline.                     *)
EXTENDS Pipeline, TLC

CONSTANTS w1, w2

WorkerSymmetry == Permutations({w1, w2})

=============================================================================

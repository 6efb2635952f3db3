--------------------------- MODULE MCReconcileSweep ---------------------------
(* Model values for the run of ReconcileSweep.                             *)
EXTENDS ReconcileSweep

CONSTANTS j1, j2, j3

=============================================================================

----------------------------- MODULE MCWorkQueue -----------------------------
(* Model values and symmetry for the runs of WorkQueue.                    *)
EXTENDS WorkQueue, TLC

CONSTANTS w1, w2, t1, t2

Symmetric == Permutations({w1, w2}) \cup Permutations({t1, t2})

=============================================================================

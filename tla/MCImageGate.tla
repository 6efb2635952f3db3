----------------------------- MODULE MCImageGate -----------------------------
(* Model values and symmetry for the runs of ImageGate.                    *)
EXTENDS ImageGate, TLC

CONSTANTS w1, w2, j1, j2, p1, p2

Symmetric == Permutations({w1, w2}) \cup Permutations({j1, j2}) \cup Permutations({p1, p2})

=============================================================================

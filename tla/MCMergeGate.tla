----------------------------- MODULE MCMergeGate -----------------------------
EXTENDS MergeGate, TLC

CONSTANTS r1, r2

TwoRuns == {r1, r2}

\* The runs are interchangeable; no temporal property of the run is about fairness.
Symmetry == Permutations(TwoRuns)

=============================================================================

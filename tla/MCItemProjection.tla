------------------------- MODULE MCItemProjection -------------------------
(***************************************************************************)
(* ItemProjection with two runs of one item, the first of which may be     *)
(* resumed once, and one stage, the merge gate.                            *)
(***************************************************************************)
EXTENDS ItemProjection, TLC

CONSTANTS r1, r2, w1, w2, w3

MCRuns == {r1, r2}
MCWorkers == {w1, w2, w3}
MCRun == (w1 :> r1) @@ (w2 :> r1) @@ (w3 :> r2)
OneStage == {"merge-gate"}

\* The two workers of a run differ in nothing.
MCSymmetry == Permutations({w1, w2})
=============================================================================

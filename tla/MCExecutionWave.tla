--------------------------- MODULE MCExecutionWave ---------------------------
(***************************************************************************)
(* Two stories of a wave, in the order of the plan, with at most two cycles *)
(* of two iterations each (the code's defaults are 3 and 4).                *)
(***************************************************************************)
EXTENDS ExecutionWave, TLC

CONSTANTS s1, s2

TwoStories == {s1, s2}

\* s1 is listed before s2.
InOrder == (s1 :> {}) @@ (s2 :> {s1})
=============================================================================

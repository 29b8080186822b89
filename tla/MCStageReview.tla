---------------------------- MODULE MCStageReview ----------------------------
(* One question of the agent, and the numbers of reviews and rounds of the code. *)
EXTENDS StageReview, TLC

CONSTANT q

OneQuestion == {q}

=============================================================================

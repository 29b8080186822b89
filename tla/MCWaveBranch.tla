----------------------------- MODULE MCWaveBranch -----------------------------
(* Two waves; enough branches for every way in which a branch is given up. *)
EXTENDS WaveBranch, TLC

=============================================================================

--------------------------- MODULE MCWorkerLease ---------------------------
(***************************************************************************)
(* WorkerLease with two API boots, one CLI process and a worker in each,   *)
(* on a clock whose unit is the 30 second heartbeat interval: stale after  *)
(* three units, the second failed beat in a row is fatal, replan window    *)
(* two.                                                                    *)
(***************************************************************************)
EXTENDS WorkerLease, TLC

CONSTANTS a1, a2, c1, w1, w2, w3

MCApi == {a1, a2}
MCCli == {c1}
MCWorkers == {w1, w2, w3}
MCHome == (w1 :> a1) @@ (w2 :> a2) @@ (w3 :> c1)
=============================================================================

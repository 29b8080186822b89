------------------------- MODULE MCWorkerAdmission -------------------------
(***************************************************************************)
(* WorkerAdmission with an API engine that starts two runs afresh and      *)
(* resumes the first of them, beside a CLI process that resumes a third    *)
(* run, which failed earlier.                                              *)
(***************************************************************************)
EXTENDS WorkerAdmission, TLC

CONSTANTS a, c, f1, f2, s1, s2, r1, r2, r3

MCProcesses == {a, c}
MCApi == {a}
MCRequests == {f1, f2, s1, s2}
MCFresh == {f1, f2}
MCRuns == {r1, r2, r3}
MCProc == (f1 :> a) @@ (f2 :> a) @@ (s1 :> a) @@ (s2 :> c)
MCRun == (f1 :> r1) @@ (f2 :> r2) @@ (s1 :> r1) @@ (s2 :> r3)
=============================================================================

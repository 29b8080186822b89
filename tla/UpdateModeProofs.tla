-------------------------- MODULE UpdateModeProofs --------------------------
(***************************************************************************)
(* UpdateMode for every set of operations, every plan of their kinds and   *)
(* every number of faults: its types, that one process at most installs,   *)
(* that an Idempotency-Key runs once, and what a recorded outcome says of  *)
(* the installed release.                                                  *)
(***************************************************************************)
EXTENDS UpdateMode, FiniteSetTheorems, TLAPS

Moved == {"health", "verify", "rollback"}
Early == {"none", "start", "claim", "stop", "backup"}

\* A switcher comes after its operation, which was queued.
SwitcherIsLast ==
    \A o \in Ops : /\ sw[o] # "none" => pc[o] = "ended" /\ IsApply(o) /\ attempt[o] # "none"
                   /\ pc[o] = "prepared" /\ IsApply(o) => attempt[o] # "none"

\* The lock is in the hands of who installs.
HeldByInstaller ==
    ~stolen => \A o \in Installing :
                  /\ lock.op = o
                  /\ lock.by = IF kind[o] = "install" THEN "parent" ELSE "switcher"

OneRowPerKey ==
    \A o, p \in Ops :
        o # p /\ kind[o] = "keyed" /\ kind[p] = "keyed" =>
            attempt[o] = "none" \/ attempt[p] = "none"

\* Where the release of an operation can be, by the phase of its switcher.
Whereabouts ==
    \A o \in Ops : IsApply(o) =>
        /\ sw[o] \in Early => current # o /\ \A p \in Ops : prev[p] # o
        /\ prev[o] # o
        /\ attempt[o] \in {"succeeded", "failed-rolled-back"} => sw[o] \in {"release", "ended"}
        /\ attempt[o] = "failed-rolled-back" => kind[o] # "install"
        /\ ~stolen => /\ sw[o] \in Moved => current = o
                      /\ sw[o] = "rollbackHealth" => current = prev[o]
                      /\ attempt[o] = "failed-rolled-back" =>
                             /\ current # o
                             /\ \A p \in Ops : sw[p] \in Moved \cup {"rollbackHealth"} => prev[p] # o

\* A switcher has a managed install, before and after it.
Managed ==
    \A o \in Ops : /\ sw[o] # "none" => current # NoRelease
                   /\ sw[o] \in Moved \cup {"rollbackHealth"} => prev[o] # NoRelease

Inv == /\ TypeOK /\ Managed /\ SwitcherIsLast /\ HeldByInstaller /\ OneRowPerKey /\ Whereabouts
       /\ \A o \in Ops : attempt[o] # "none" => IsApply(o) \/ attempt[o] = "aborted-dry-run"

-----------------------------------------------------------------------------
(* The lock file. *)

LEMMA LockRecords ==
  ASSUME TypeOK
  PROVE  \A o \in Ops :
           /\ Held(o) \in [op : Ops, by : {"parent", "switcher"}, aged : BOOLEAN]
           /\ Claimed(o) \in [op : Ops, by : {"parent", "switcher"}, aged : BOOLEAN]
           /\ Held(o).op = o /\ Held(o).by = "parent"
           /\ Claimed(o).op = o /\ Claimed(o).by = "switcher"
           /\ NoLock.op # o
BY NameAssumption DEF Held, Claimed, NoLock

-----------------------------------------------------------------------------
(* The steps preserve the invariant, one part after another. *)

LEMMA InitInv == Init => Inv
<1> USE BoundAssumption, PlanAssumption, NameAssumption
<1>1. Cardinality(Ops) \in Nat
  BY FS_CardinalityType
<1>2. 1 \in Engines
  BY <1>1 DEF Engines
<1> SUFFICES ASSUME Init PROVE Inv
  OBVIOUS
<1>3. TypeOK
  <2>1. faults \in 0..MaxFaults
    BY DEF Init
  <2>3. stolen \in BOOLEAN /\ lock = NoLock
    BY DEF Init
  <2>2. /\ prev \in [Ops -> Releases \cup {NoRelease}] /\ current \in Releases \cup {NoRelease}
        /\ runs \in [Engines -> Releases \cup {Checkout}]
    BY DEF Init, Releases
  <2> QED BY <1>2, <2>1, <2>2, <2>3 DEF Init, TypeOK
<1>4. SwitcherIsLast /\ OneRowPerKey
  BY DEF Init, SwitcherIsLast, OneRowPerKey
<1>5. HeldByInstaller
  BY DEF Init, HeldByInstaller, Installing
<1>6. Whereabouts
  BY DEF Init, Whereabouts, NoRelease, Previous, Moved
<1>7. Managed
  BY DEF Init, Managed, Moved
<1> QED BY <1>3, <1>4, <1>5, <1>6, <1>7 DEF Inv, Init

LEMMA BeginStep ==
  ASSUME TypeOK, NEW o \in Ops, Begin(o)
  PROVE  /\ pc[o] = "idle"
         /\ pc' = [pc EXCEPT ![o] = "checked"] \/ pc' = [pc EXCEPT ![o] = "ended"]
         /\ host' \in [Ops -> Engines \cup {0}]
         /\ UNCHANGED <<kind, lock, attempt, sw, prev, current, proc, runs, pidFile, stolen, faults>>
<1> USE DEF TypeOK, Begin, GoesTo, rowVars, swVars, engineVars
<1>1. CASE IsApi(o)
  BY <1>1
<1>2. CASE ~IsApi(o)
  BY <1>2, PlanAssumption DEF IsApi
<1> QED BY <1>1, <1>2

\* What a crash leaves alone.
LEMMA CrashStep ==
  ASSUME TypeOK, Crash
  PROVE  /\ proc' \in [Engines -> {"unborn", "starting", "up", "closing", "dead"}]
         /\ \A o \in Ops : pc'[o] = pc[o] \/ (pc'[o] = "ended" /\ ~IsApi(o) /\ ParentAlive(o))
         /\ \A o \in Ops : sw'[o] = sw[o] \/ (sw'[o] = "ended" /\ sw[o] # "none")
         /\ pc' \in [Ops -> {"idle", "checked", "reclaim", "rewrite", "locked", "prepared",
                             "left", "ended"}]
         /\ sw' \in [Ops -> {"none", "start", "claim", "stop", "backup", "health", "verify",
                             "rollback", "rollbackHealth", "release", "ended"}]
         /\ faults' \in 0..MaxFaults
         /\ UNCHANGED <<kind, host, lock, attempt, prev, current, runs, pidFile, stolen>>
<1> USE DEF TypeOK, GoesTo, SwitchTo, SwitcherAlive, rowVars
<1>1. faults' \in 0..MaxFaults
  BY BoundAssumption DEF Crash, Fault
<1>2. ASSUME NEW i \in Engines, proc' = [proc EXCEPT ![i] = "dead"]
      PROVE  proc' \in [Engines -> {"unborn", "starting", "up", "closing", "dead"}]
  BY <1>2
<1>3. ASSUME NEW o \in Ops, GoesTo(o, "ended")
      PROVE  /\ \A p \in Ops \ {o} : pc'[p] = pc[p]
             /\ pc'[o] = "ended"
             /\ pc' \in [Ops -> {"idle", "checked", "reclaim", "rewrite", "locked", "prepared",
                                "left", "ended"}]
  BY <1>3
<1>4. ASSUME NEW o \in Ops, SwitchTo(o, "ended")
      PROVE  /\ \A p \in Ops \ {o} : sw'[p] = sw[p]
             /\ sw'[o] = "ended"
             /\ sw' \in [Ops -> {"none", "start", "claim", "stop", "backup", "health", "verify",
                                "rollback", "rollbackHealth", "release", "ended"}]
  BY <1>4
<1>5. /\ UNCHANGED <<kind, host, lock, attempt, prev, current, runs, pidFile, stolen>>
      /\ proc \in [Engines -> {"unborn", "starting", "up", "closing", "dead"}]
      /\ pc \in [Ops -> {"idle", "checked", "reclaim", "rewrite", "locked", "prepared",
                         "left", "ended"}]
      /\ sw \in [Ops -> {"none", "start", "claim", "stop", "backup", "health", "verify",
                         "rollback", "rollbackHealth", "release", "ended"}]
  BY DEF Crash
<1> HIDE DEF GoesTo, SwitchTo, TypeOK
<1>6. CASE (\E i \in Engines : proc' = [proc EXCEPT ![i] = "dead"]) /\ UNCHANGED <<pc, sw>>
  BY <1>1, <1>2, <1>5, <1>6
<1>7. CASE /\ \E o \in Ops : ~IsApi(o) /\ ParentAlive(o) /\ GoesTo(o, "ended")
           /\ UNCHANGED <<proc, sw>>
  <2>1. PICK o \in Ops : ~IsApi(o) /\ ParentAlive(o) /\ GoesTo(o, "ended")
    BY <1>7
  <2> QED BY <1>1, <1>3, <1>5, <1>7, <2>1
<1>8. CASE (\E o \in Ops : SwitcherAlive(o) /\ SwitchTo(o, "ended")) /\ UNCHANGED <<proc, pc>>
  <2>1. PICK o \in Ops : SwitcherAlive(o) /\ SwitchTo(o, "ended")
    BY <1>8
  <2> QED BY <1>1, <1>4, <1>5, <1>8, <2>1
<1> QED BY <1>6, <1>7, <1>8 DEF Crash

\* The types.
LEMMA TypeStep ==
  ASSUME Inv, [Next]_vars
  PROVE  TypeOK'
<1> USE DEF Inv, Managed, Moved, TypeOK, Step, GoesTo, Records, SwitchTo, Switches, Released, Fault, opVars, rowVars, swVars, engineVars
<1>1. ASSUME NEW o \in Ops, Begin(o) PROVE TypeOK'
  BY <1>1, BeginStep
<1>2. ASSUME NEW o \in Ops, Acquire(o) PROVE TypeOK'
  BY <1>2, LockRecords DEF Acquire
<1>3. ASSUME NEW o \in Ops, Reclaim(o) PROVE TypeOK'
  BY <1>3 DEF Reclaim, Remove
<1>4. ASSUME NEW o \in Ops, Rewrite(o) PROVE TypeOK'
  BY <1>4, LockRecords DEF Rewrite
<1>5. ASSUME NEW o \in Ops, Prepare(o) PROVE TypeOK'
  BY <1>5 DEF Prepare
<1>6. ASSUME NEW o \in Ops, PrepareFails(o) PROVE TypeOK'
  BY <1>6 DEF PrepareFails
<1>7. ASSUME NEW o \in Ops, EndDryRun(o) PROVE TypeOK'
  BY <1>7 DEF EndDryRun
<1>8. ASSUME NEW o \in Ops, Activate(o) PROVE TypeOK'
  BY <1>8 DEF Activate, Releases
<1>9. ASSUME NEW o \in Ops, EndInstall(o) PROVE TypeOK'
  BY <1>9 DEF EndInstall
<1>10. ASSUME NEW o \in Ops, Leave(o) PROVE TypeOK'
  BY <1>10 DEF Leave
<1>11. ASSUME NEW o \in Ops, HandOff(o) PROVE TypeOK'
  BY <1>11 DEF HandOff
<1>12. ASSUME NEW o \in Ops, HandOffFails(o) PROVE TypeOK'
  BY <1>12 DEF HandOffFails
<1>13. ASSUME NEW o \in Ops, VerifyLock(o) PROVE TypeOK'
  BY <1>13 DEF VerifyLock
<1>14. ASSUME NEW o \in Ops, ClaimLock(o) PROVE TypeOK'
  BY <1>14, LockRecords DEF ClaimLock
<1>15. ASSUME NEW o \in Ops, StopEngine(o) PROVE TypeOK'
  BY <1>15 DEF StopEngine
<1>16. ASSUME NEW o \in Ops, SwitcherFails(o) PROVE TypeOK'
  BY <1>16 DEF SwitcherFails
<1>17. ASSUME NEW o \in Ops, Swap(o) PROVE TypeOK'
  BY <1>17 DEF Swap, Spawn, Releases
<1>18. ASSUME NEW o \in Ops, Healthy(o) PROVE TypeOK'
  BY <1>18 DEF Healthy
<1>19. ASSUME NEW o \in Ops, Unhealthy(o) PROVE TypeOK'
  BY <1>19 DEF Unhealthy
<1>20. ASSUME NEW o \in Ops, Succeed(o) PROVE TypeOK'
  BY <1>20 DEF Succeed
<1>21. ASSUME NEW o \in Ops, Reject(o) PROVE TypeOK'
  BY <1>21 DEF Reject
<1>22. ASSUME NEW o \in Ops, RollBack(o) PROVE TypeOK'
  BY <1>22 DEF RollBack, Spawn, Releases
<1>23. ASSUME NEW o \in Ops, Settle(o) PROVE TypeOK'
  BY <1>23 DEF Settle
<1>24. ASSUME NEW o \in Ops, ReleaseLock(o) PROVE TypeOK'
  BY <1>24 DEF ReleaseLock
<1>25. ASSUME NEW i \in Engines, Listen(i) PROVE TypeOK'
  BY <1>25 DEF Listen
<1>26. ASSUME NEW i \in Engines, BootFails(i) PROVE TypeOK'
  BY <1>26 DEF BootFails
<1>27. ASSUME NEW i \in Engines, Exit(i) PROVE TypeOK'
  BY <1>27 DEF Exit
<1>28. ASSUME NEW i \in Engines, Shutdown(i) PROVE TypeOK'
  BY <1>28, BoundAssumption DEF Shutdown
<1>29. ASSUME UserStarts PROVE TypeOK'
  BY <1>29, BoundAssumption DEF UserStarts, Spawn, Releases
<1>30. ASSUME Age PROVE TypeOK'
  <2>1. lock' \in [op : Ops, by : {"parent", "switcher"}, aged : BOOLEAN]
    BY <1>30 DEF Age
  <2>2. faults' \in 0..MaxFaults
    BY <1>30, BoundAssumption DEF Age
  <2> QED BY <1>30, <2>1, <2>2 DEF Age
<1>31. ASSUME Crash PROVE TypeOK'
  BY <1>31, CrashStep
<1>32. ASSUME UNCHANGED vars PROVE TypeOK'
  BY <1>32 DEF vars
<1> QED
  BY <1>1, <1>2, <1>3, <1>4, <1>5, <1>6, <1>7, <1>8, <1>9, <1>10, <1>11, <1>12, <1>13,
     <1>14, <1>15, <1>16, <1>17, <1>18, <1>19, <1>20, <1>21, <1>22, <1>23, <1>24, <1>25,
     <1>26, <1>27, <1>28, <1>29, <1>30, <1>31, <1>32 DEF Next, OpStep, SwitcherStep,
     EngineStep

\* There is an install to switch.
LEMMA ManagedStep ==
  ASSUME Inv, [Next]_vars
  PROVE  Managed'
<1> USE DEF Inv, Managed, Moved, SwitcherIsLast, TypeOK, Step, GoesTo, Switches, SwitchTo, Releases, opVars, rowVars, swVars, engineVars
<1>1. ASSUME NEW o \in Ops, Begin(o) PROVE Managed'
  BY <1>1, BeginStep
<1>2. ASSUME NEW o \in Ops, Acquire(o) PROVE Managed'
  BY <1>2 DEF Acquire
<1>3. ASSUME NEW o \in Ops, Reclaim(o) PROVE Managed'
  BY <1>3 DEF Reclaim
<1>4. ASSUME NEW o \in Ops, Rewrite(o) PROVE Managed'
  BY <1>4 DEF Rewrite
<1>5. ASSUME NEW o \in Ops, Prepare(o) PROVE Managed'
  BY <1>5 DEF Prepare
<1>6. ASSUME NEW o \in Ops, PrepareFails(o) PROVE Managed'
  BY <1>6 DEF PrepareFails
<1>7. ASSUME NEW o \in Ops, EndDryRun(o) PROVE Managed'
  BY <1>7 DEF EndDryRun
<1>8. ASSUME NEW o \in Ops, Activate(o) PROVE Managed'
  BY <1>8, NameAssumption DEF Activate
<1>9. ASSUME NEW o \in Ops, EndInstall(o) PROVE Managed'
  BY <1>9 DEF EndInstall
<1>10. ASSUME NEW o \in Ops, Leave(o) PROVE Managed'
  BY <1>10 DEF Leave
<1>11. ASSUME NEW o \in Ops, HandOff(o) PROVE Managed'
  BY <1>11 DEF HandOff
<1>12. ASSUME NEW o \in Ops, HandOffFails(o) PROVE Managed'
  BY <1>12 DEF HandOffFails
<1>13. ASSUME NEW o \in Ops, VerifyLock(o) PROVE Managed'
  BY <1>13 DEF VerifyLock
<1>14. ASSUME NEW o \in Ops, ClaimLock(o) PROVE Managed'
  BY <1>14 DEF ClaimLock
<1>15. ASSUME NEW o \in Ops, StopEngine(o) PROVE Managed'
  BY <1>15 DEF StopEngine
<1>16. ASSUME NEW o \in Ops, SwitcherFails(o) PROVE Managed'
  BY <1>16 DEF SwitcherFails
<1>17. ASSUME NEW o \in Ops, Swap(o) PROVE Managed'
  BY <1>17, NameAssumption DEF Swap
<1>18. ASSUME NEW o \in Ops, Healthy(o) PROVE Managed'
  BY <1>18 DEF Healthy
<1>19. ASSUME NEW o \in Ops, Unhealthy(o) PROVE Managed'
  BY <1>19 DEF Unhealthy
<1>20. ASSUME NEW o \in Ops, Succeed(o) PROVE Managed'
  BY <1>20 DEF Succeed
<1>21. ASSUME NEW o \in Ops, Reject(o) PROVE Managed'
  BY <1>21 DEF Reject
<1>22. ASSUME NEW o \in Ops, RollBack(o) PROVE Managed'
  BY <1>22 DEF RollBack
<1>23. ASSUME NEW o \in Ops, Settle(o) PROVE Managed'
  BY <1>23 DEF Settle
<1>24. ASSUME NEW o \in Ops, ReleaseLock(o) PROVE Managed'
  BY <1>24 DEF ReleaseLock
<1>25. ASSUME NEW i \in Engines, Listen(i) PROVE Managed'
  BY <1>25 DEF Listen
<1>26. ASSUME NEW i \in Engines, BootFails(i) PROVE Managed'
  BY <1>26 DEF BootFails
<1>27. ASSUME NEW i \in Engines, Exit(i) PROVE Managed'
  BY <1>27 DEF Exit
<1>28. ASSUME NEW i \in Engines, Shutdown(i) PROVE Managed'
  BY <1>28 DEF Shutdown
<1>29. ASSUME UserStarts PROVE Managed'
  BY <1>29 DEF UserStarts
<1>30. ASSUME Age PROVE Managed'
  BY <1>30 DEF Age
<1>31. ASSUME Crash PROVE Managed'
  BY <1>31, CrashStep
<1>32. ASSUME UNCHANGED vars PROVE Managed'
  BY <1>32 DEF vars
<1> QED
  BY <1>1, <1>2, <1>3, <1>4, <1>5, <1>6, <1>7, <1>8, <1>9, <1>10, <1>11, <1>12, <1>13,
     <1>14, <1>15, <1>16, <1>17, <1>18, <1>19, <1>20, <1>21, <1>22, <1>23, <1>24, <1>25,
     <1>26, <1>27, <1>28, <1>29, <1>30, <1>31, <1>32 DEF Next, OpStep, SwitcherStep,
     EngineStep

\* Operations and switchers.
LEMMA LastStep ==
  ASSUME Inv, [Next]_vars
  PROVE  SwitcherIsLast' /\ (\A q \in Ops : attempt'[q] # "none" => IsApply(q)' \/ attempt'[q] = "aborted-dry-run")
<1> USE DEF Inv, SwitcherIsLast, TypeOK, Step, GoesTo, Records, SwitchTo, Switches, IsApply, IsApi, Spawn, opVars, rowVars, swVars, engineVars
<1>1. ASSUME NEW o \in Ops, Begin(o) PROVE SwitcherIsLast' /\ (\A q \in Ops : attempt'[q] # "none" => IsApply(q)' \/ attempt'[q] = "aborted-dry-run")
  BY <1>1, BeginStep
<1>2. ASSUME NEW o \in Ops, Acquire(o) PROVE SwitcherIsLast' /\ (\A q \in Ops : attempt'[q] # "none" => IsApply(q)' \/ attempt'[q] = "aborted-dry-run")
  BY <1>2 DEF Acquire
<1>3. ASSUME NEW o \in Ops, Reclaim(o) PROVE SwitcherIsLast' /\ (\A q \in Ops : attempt'[q] # "none" => IsApply(q)' \/ attempt'[q] = "aborted-dry-run")
  BY <1>3 DEF Reclaim
<1>4. ASSUME NEW o \in Ops, Rewrite(o) PROVE SwitcherIsLast' /\ (\A q \in Ops : attempt'[q] # "none" => IsApply(q)' \/ attempt'[q] = "aborted-dry-run")
  BY <1>4 DEF Rewrite
<1>5. ASSUME NEW o \in Ops, Prepare(o) PROVE SwitcherIsLast' /\ (\A q \in Ops : attempt'[q] # "none" => IsApply(q)' \/ attempt'[q] = "aborted-dry-run")
  BY <1>5 DEF Prepare
<1>6. ASSUME NEW o \in Ops, PrepareFails(o) PROVE SwitcherIsLast' /\ (\A q \in Ops : attempt'[q] # "none" => IsApply(q)' \/ attempt'[q] = "aborted-dry-run")
  BY <1>6 DEF PrepareFails
<1>7. ASSUME NEW o \in Ops, EndDryRun(o) PROVE SwitcherIsLast' /\ (\A q \in Ops : attempt'[q] # "none" => IsApply(q)' \/ attempt'[q] = "aborted-dry-run")
  BY <1>7 DEF EndDryRun
<1>8. ASSUME NEW o \in Ops, Activate(o) PROVE SwitcherIsLast' /\ (\A q \in Ops : attempt'[q] # "none" => IsApply(q)' \/ attempt'[q] = "aborted-dry-run")
  BY <1>8 DEF Activate
<1>9. ASSUME NEW o \in Ops, EndInstall(o) PROVE SwitcherIsLast' /\ (\A q \in Ops : attempt'[q] # "none" => IsApply(q)' \/ attempt'[q] = "aborted-dry-run")
  BY <1>9 DEF EndInstall
<1>10. ASSUME NEW o \in Ops, Leave(o) PROVE SwitcherIsLast' /\ (\A q \in Ops : attempt'[q] # "none" => IsApply(q)' \/ attempt'[q] = "aborted-dry-run")
  BY <1>10 DEF Leave
<1>11. ASSUME NEW o \in Ops, HandOff(o) PROVE SwitcherIsLast' /\ (\A q \in Ops : attempt'[q] # "none" => IsApply(q)' \/ attempt'[q] = "aborted-dry-run")
  BY <1>11 DEF HandOff
<1>12. ASSUME NEW o \in Ops, HandOffFails(o) PROVE SwitcherIsLast' /\ (\A q \in Ops : attempt'[q] # "none" => IsApply(q)' \/ attempt'[q] = "aborted-dry-run")
  BY <1>12 DEF HandOffFails
<1>13. ASSUME NEW o \in Ops, VerifyLock(o) PROVE SwitcherIsLast' /\ (\A q \in Ops : attempt'[q] # "none" => IsApply(q)' \/ attempt'[q] = "aborted-dry-run")
  BY <1>13 DEF VerifyLock
<1>14. ASSUME NEW o \in Ops, ClaimLock(o) PROVE SwitcherIsLast' /\ (\A q \in Ops : attempt'[q] # "none" => IsApply(q)' \/ attempt'[q] = "aborted-dry-run")
  BY <1>14 DEF ClaimLock
<1>15. ASSUME NEW o \in Ops, StopEngine(o) PROVE SwitcherIsLast' /\ (\A q \in Ops : attempt'[q] # "none" => IsApply(q)' \/ attempt'[q] = "aborted-dry-run")
  BY <1>15 DEF StopEngine
<1>16. ASSUME NEW o \in Ops, SwitcherFails(o) PROVE SwitcherIsLast' /\ (\A q \in Ops : attempt'[q] # "none" => IsApply(q)' \/ attempt'[q] = "aborted-dry-run")
  BY <1>16 DEF SwitcherFails
<1>17. ASSUME NEW o \in Ops, Swap(o) PROVE SwitcherIsLast' /\ (\A q \in Ops : attempt'[q] # "none" => IsApply(q)' \/ attempt'[q] = "aborted-dry-run")
  BY <1>17 DEF Swap
<1>18. ASSUME NEW o \in Ops, Healthy(o) PROVE SwitcherIsLast' /\ (\A q \in Ops : attempt'[q] # "none" => IsApply(q)' \/ attempt'[q] = "aborted-dry-run")
  BY <1>18 DEF Healthy
<1>19. ASSUME NEW o \in Ops, Unhealthy(o) PROVE SwitcherIsLast' /\ (\A q \in Ops : attempt'[q] # "none" => IsApply(q)' \/ attempt'[q] = "aborted-dry-run")
  BY <1>19 DEF Unhealthy
<1>20. ASSUME NEW o \in Ops, Succeed(o) PROVE SwitcherIsLast' /\ (\A q \in Ops : attempt'[q] # "none" => IsApply(q)' \/ attempt'[q] = "aborted-dry-run")
  BY <1>20 DEF Succeed
<1>21. ASSUME NEW o \in Ops, Reject(o) PROVE SwitcherIsLast' /\ (\A q \in Ops : attempt'[q] # "none" => IsApply(q)' \/ attempt'[q] = "aborted-dry-run")
  BY <1>21 DEF Reject
<1>22. ASSUME NEW o \in Ops, RollBack(o) PROVE SwitcherIsLast' /\ (\A q \in Ops : attempt'[q] # "none" => IsApply(q)' \/ attempt'[q] = "aborted-dry-run")
  BY <1>22 DEF RollBack
<1>23. ASSUME NEW o \in Ops, Settle(o) PROVE SwitcherIsLast' /\ (\A q \in Ops : attempt'[q] # "none" => IsApply(q)' \/ attempt'[q] = "aborted-dry-run")
  BY <1>23 DEF Settle
<1>24. ASSUME NEW o \in Ops, ReleaseLock(o) PROVE SwitcherIsLast' /\ (\A q \in Ops : attempt'[q] # "none" => IsApply(q)' \/ attempt'[q] = "aborted-dry-run")
  BY <1>24 DEF ReleaseLock
<1>25. ASSUME NEW i \in Engines, Listen(i) PROVE SwitcherIsLast' /\ (\A q \in Ops : attempt'[q] # "none" => IsApply(q)' \/ attempt'[q] = "aborted-dry-run")
  BY <1>25 DEF Listen
<1>26. ASSUME NEW i \in Engines, BootFails(i) PROVE SwitcherIsLast' /\ (\A q \in Ops : attempt'[q] # "none" => IsApply(q)' \/ attempt'[q] = "aborted-dry-run")
  BY <1>26 DEF BootFails
<1>27. ASSUME NEW i \in Engines, Exit(i) PROVE SwitcherIsLast' /\ (\A q \in Ops : attempt'[q] # "none" => IsApply(q)' \/ attempt'[q] = "aborted-dry-run")
  BY <1>27 DEF Exit
<1>28. ASSUME NEW i \in Engines, Shutdown(i) PROVE SwitcherIsLast' /\ (\A q \in Ops : attempt'[q] # "none" => IsApply(q)' \/ attempt'[q] = "aborted-dry-run")
  BY <1>28 DEF Shutdown
<1>29. ASSUME UserStarts PROVE SwitcherIsLast' /\ (\A q \in Ops : attempt'[q] # "none" => IsApply(q)' \/ attempt'[q] = "aborted-dry-run")
  BY <1>29 DEF UserStarts
<1>30. ASSUME Age PROVE SwitcherIsLast' /\ (\A q \in Ops : attempt'[q] # "none" => IsApply(q)' \/ attempt'[q] = "aborted-dry-run")
  BY <1>30 DEF Age
<1>31. ASSUME Crash PROVE SwitcherIsLast' /\ (\A q \in Ops : attempt'[q] # "none" => IsApply(q)' \/ attempt'[q] = "aborted-dry-run")
  BY <1>31, CrashStep DEF ParentAlive
<1>32. ASSUME UNCHANGED vars PROVE SwitcherIsLast' /\ (\A q \in Ops : attempt'[q] # "none" => IsApply(q)' \/ attempt'[q] = "aborted-dry-run")
  BY <1>32 DEF vars
<1> QED
  BY <1>1, <1>2, <1>3, <1>4, <1>5, <1>6, <1>7, <1>8, <1>9, <1>10, <1>11, <1>12, <1>13,
     <1>14, <1>15, <1>16, <1>17, <1>18, <1>19, <1>20, <1>21, <1>22, <1>23, <1>24, <1>25,
     <1>26, <1>27, <1>28, <1>29, <1>30, <1>31, <1>32 DEF Next, OpStep, SwitcherStep,
     EngineStep

\* The keys.
LEMMA KeyStep ==
  ASSUME Inv, [Next]_vars
  PROVE  OneRowPerKey'
<1> USE DEF Inv, SwitcherIsLast, OneRowPerKey, TypeOK, Step, GoesTo, Records, SwitchTo, Switches, IsApply, IsApi, KeyIsFree, opVars, rowVars, swVars, engineVars
<1>1. ASSUME NEW o \in Ops, Begin(o) PROVE OneRowPerKey'
  BY <1>1, BeginStep
<1>2. ASSUME NEW o \in Ops, Acquire(o) PROVE OneRowPerKey'
  BY <1>2 DEF Acquire
<1>3. ASSUME NEW o \in Ops, Reclaim(o) PROVE OneRowPerKey'
  BY <1>3 DEF Reclaim
<1>4. ASSUME NEW o \in Ops, Rewrite(o) PROVE OneRowPerKey'
  BY <1>4 DEF Rewrite
<1>5. ASSUME NEW o \in Ops, Prepare(o) PROVE OneRowPerKey'
  BY <1>5 DEF Prepare
<1>6. ASSUME NEW o \in Ops, PrepareFails(o) PROVE OneRowPerKey'
  BY <1>6 DEF PrepareFails
<1>7. ASSUME NEW o \in Ops, EndDryRun(o) PROVE OneRowPerKey'
  BY <1>7 DEF EndDryRun
<1>8. ASSUME NEW o \in Ops, Activate(o) PROVE OneRowPerKey'
  BY <1>8 DEF Activate
<1>9. ASSUME NEW o \in Ops, EndInstall(o) PROVE OneRowPerKey'
  BY <1>9 DEF EndInstall
<1>10. ASSUME NEW o \in Ops, Leave(o) PROVE OneRowPerKey'
  BY <1>10 DEF Leave
<1>11. ASSUME NEW o \in Ops, HandOff(o) PROVE OneRowPerKey'
  BY <1>11 DEF HandOff
<1>12. ASSUME NEW o \in Ops, HandOffFails(o) PROVE OneRowPerKey'
  BY <1>12 DEF HandOffFails
<1>13. ASSUME NEW o \in Ops, VerifyLock(o) PROVE OneRowPerKey'
  BY <1>13 DEF VerifyLock
<1>14. ASSUME NEW o \in Ops, ClaimLock(o) PROVE OneRowPerKey'
  BY <1>14 DEF ClaimLock
<1>15. ASSUME NEW o \in Ops, StopEngine(o) PROVE OneRowPerKey'
  BY <1>15 DEF StopEngine
<1>16. ASSUME NEW o \in Ops, SwitcherFails(o) PROVE OneRowPerKey'
  BY <1>16 DEF SwitcherFails
<1>17. ASSUME NEW o \in Ops, Swap(o) PROVE OneRowPerKey'
  BY <1>17 DEF Swap
<1>18. ASSUME NEW o \in Ops, Healthy(o) PROVE OneRowPerKey'
  BY <1>18 DEF Healthy
<1>19. ASSUME NEW o \in Ops, Unhealthy(o) PROVE OneRowPerKey'
  BY <1>19 DEF Unhealthy
<1>20. ASSUME NEW o \in Ops, Succeed(o) PROVE OneRowPerKey'
  BY <1>20 DEF Succeed
<1>21. ASSUME NEW o \in Ops, Reject(o) PROVE OneRowPerKey'
  BY <1>21 DEF Reject
<1>22. ASSUME NEW o \in Ops, RollBack(o) PROVE OneRowPerKey'
  BY <1>22 DEF RollBack
<1>23. ASSUME NEW o \in Ops, Settle(o) PROVE OneRowPerKey'
  BY <1>23 DEF Settle
<1>24. ASSUME NEW o \in Ops, ReleaseLock(o) PROVE OneRowPerKey'
  BY <1>24 DEF ReleaseLock
<1>25. ASSUME NEW i \in Engines, Listen(i) PROVE OneRowPerKey'
  BY <1>25 DEF Listen
<1>26. ASSUME NEW i \in Engines, BootFails(i) PROVE OneRowPerKey'
  BY <1>26 DEF BootFails
<1>27. ASSUME NEW i \in Engines, Exit(i) PROVE OneRowPerKey'
  BY <1>27 DEF Exit
<1>28. ASSUME NEW i \in Engines, Shutdown(i) PROVE OneRowPerKey'
  BY <1>28 DEF Shutdown
<1>29. ASSUME UserStarts PROVE OneRowPerKey'
  BY <1>29 DEF UserStarts
<1>30. ASSUME Age PROVE OneRowPerKey'
  BY <1>30 DEF Age
<1>31. ASSUME Crash PROVE OneRowPerKey'
  BY <1>31, CrashStep
<1>32. ASSUME UNCHANGED vars PROVE OneRowPerKey'
  BY <1>32 DEF vars
<1> QED
  BY <1>1, <1>2, <1>3, <1>4, <1>5, <1>6, <1>7, <1>8, <1>9, <1>10, <1>11, <1>12, <1>13,
     <1>14, <1>15, <1>16, <1>17, <1>18, <1>19, <1>20, <1>21, <1>22, <1>23, <1>24, <1>25,
     <1>26, <1>27, <1>28, <1>29, <1>30, <1>31, <1>32 DEF Next, OpStep, SwitcherStep,
     EngineStep

\* Who installs finds a lock.
LEMMA NoInstaller ==
  ASSUME Inv, ~stolen, lock = NoLock
  PROVE  Installing = {}
<1>1. \A o \in Installing : o \in Ops /\ lock.op = o
  BY DEF Inv, HeldByInstaller, Installing
<1> QED BY <1>1, LockRecords DEF Inv

\* Taking the lock where there is none.
LEMMA TakeStep ==
  ASSUME Inv, NEW o \in Ops, lock = NoLock, lock' = Held(o), GoesTo(o, "locked"),
         UNCHANGED <<kind, host, sw, proc, stolen>>, sw[o] = "none"
  PROVE  HeldByInstaller'
<1> SUFFICES ASSUME ~stolen', NEW q \in Installing'
             PROVE  lock'.op = q /\ lock'.by = IF kind[q] = "install" THEN "parent" ELSE "switcher"
  BY DEF HeldByInstaller
<1>1. Installing = {}
  BY NoInstaller
<1>2. q = o
  BY <1>1 DEF Installing, GoesTo, ParentAlive, IsApi, Inv, TypeOK
<1>3. lock'.op = o /\ lock'.by = "parent"
  BY LockRecords DEF Inv
<1>4. kind[o] = "install"
  BY <1>2 DEF Installing
<1> QED BY <1>2, <1>3, <1>4

\* The lock.
LEMMA HeldStep ==
  ASSUME Inv, [Next]_vars
  PROVE  HeldByInstaller'
<1> USE DEF Inv, SwitcherIsLast, HeldByInstaller, Installing, TypeOK, Step, GoesTo, SwitchTo, Switches, IsApply, IsApi, ParentAlive, Released, opVars, rowVars, swVars, engineVars
<1>1. ASSUME NEW o \in Ops, Begin(o) PROVE HeldByInstaller'
  BY <1>1, BeginStep
<1>2. ASSUME NEW o \in Ops, Acquire(o) PROVE HeldByInstaller'
  <2>1. CASE lock = NoLock
    BY <1>2, <2>1, TakeStep DEF Acquire
  <2>2. CASE lock # NoLock
    BY <1>2, <2>2 DEF Acquire
  <2> QED BY <2>1, <2>2
<1>3. ASSUME NEW o \in Ops, Reclaim(o) PROVE HeldByInstaller'
  <2>1. ASSUME ~stolen' PROVE Installing = {}
    <3>1. ~stolen /\ (lock = NoLock \/ ~HolderAlive)
      BY <1>3, <2>1 DEF Reclaim, Remove
    <3>2. CASE lock = NoLock
      BY <3>1, <3>2, NoInstaller
    <3>3. CASE ~HolderAlive
      BY <3>1, <3>3 DEF HolderAlive, SwitcherAlive
    <3> QED BY <3>1, <3>2, <3>3
  <2>2. Installing' \subseteq Installing
    BY <1>3 DEF Reclaim
  <2> QED BY <2>1, <2>2 DEF Reclaim
<1>4. ASSUME NEW o \in Ops, Rewrite(o) PROVE HeldByInstaller'
  <2>1. CASE lock = NoLock
    BY <1>4, <2>1, TakeStep DEF Rewrite
  <2>2. CASE lock # NoLock
    BY <1>4, <2>2 DEF Rewrite
  <2> QED BY <2>1, <2>2
<1>5. ASSUME NEW o \in Ops, Prepare(o) PROVE HeldByInstaller'
  BY <1>5 DEF Prepare
<1>6. ASSUME NEW o \in Ops, PrepareFails(o) PROVE HeldByInstaller'
  BY <1>6 DEF PrepareFails
<1>7. ASSUME NEW o \in Ops, EndDryRun(o) PROVE HeldByInstaller'
  BY <1>7 DEF EndDryRun
<1>8. ASSUME NEW o \in Ops, Activate(o) PROVE HeldByInstaller'
  BY <1>8 DEF Activate
<1>9. ASSUME NEW o \in Ops, EndInstall(o) PROVE HeldByInstaller'
  BY <1>9 DEF EndInstall
<1>10. ASSUME NEW o \in Ops, Leave(o) PROVE HeldByInstaller'
  BY <1>10 DEF Leave
<1>11. ASSUME NEW o \in Ops, HandOff(o) PROVE HeldByInstaller'
  BY <1>11 DEF HandOff
<1>12. ASSUME NEW o \in Ops, HandOffFails(o) PROVE HeldByInstaller'
  BY <1>12 DEF HandOffFails
<1>13. ASSUME NEW o \in Ops, VerifyLock(o) PROVE HeldByInstaller'
  BY <1>13 DEF VerifyLock
<1>14. ASSUME NEW o \in Ops, ClaimLock(o) PROVE HeldByInstaller'
  <2>1. lock'.op = o /\ lock'.by = "switcher"
    BY <1>14, LockRecords DEF ClaimLock
  <2>2. ASSUME ~stolen', NEW q \in Installing' PROVE q = o
    <3>1. ~stolen /\ (lock.op = o \/ lock = NoLock \/ ~HolderAlive)
      BY <1>14, <2>2 DEF ClaimLock
    <3>2. q = o \/ q \in Installing
      BY <1>14, <2>2 DEF ClaimLock
    <3>3. q \in Installing => lock.op = q /\ lock # NoLock /\ HolderAlive
      <4>1. ASSUME q \in Installing PROVE lock.op = q /\ lock # NoLock
        <5>1. q \in Ops /\ lock.op = q
          BY <3>1, <4>1
        <5> QED BY <5>1, LockRecords
      <4>2. CASE q \in Installing /\ kind[q] = "install"
        BY <3>1, <4>1, <4>2 DEF HolderAlive
      <4>3. CASE q \in Installing /\ kind[q] # "install"
        BY <3>1, <4>1, <4>3 DEF HolderAlive, SwitcherAlive
      <4> QED BY <4>1, <4>2, <4>3
    <3> QED BY <3>1, <3>2, <3>3
  <2>3. kind[o] # "install"
    BY <1>14 DEF ClaimLock
  <2> HIDE DEF Installing
  <2>4. UNCHANGED kind
    BY <1>14 DEF ClaimLock
  <2> QED BY <2>1, <2>2, <2>3, <2>4 DEF ClaimLock
<1>15. ASSUME NEW o \in Ops, StopEngine(o) PROVE HeldByInstaller'
  BY <1>15 DEF StopEngine
<1>16. ASSUME NEW o \in Ops, SwitcherFails(o) PROVE HeldByInstaller'
  BY <1>16 DEF SwitcherFails
<1>17. ASSUME NEW o \in Ops, Swap(o) PROVE HeldByInstaller'
  BY <1>17 DEF Swap
<1>18. ASSUME NEW o \in Ops, Healthy(o) PROVE HeldByInstaller'
  BY <1>18 DEF Healthy
<1>19. ASSUME NEW o \in Ops, Unhealthy(o) PROVE HeldByInstaller'
  BY <1>19 DEF Unhealthy
<1>20. ASSUME NEW o \in Ops, Succeed(o) PROVE HeldByInstaller'
  BY <1>20 DEF Succeed
<1>21. ASSUME NEW o \in Ops, Reject(o) PROVE HeldByInstaller'
  BY <1>21 DEF Reject
<1>22. ASSUME NEW o \in Ops, RollBack(o) PROVE HeldByInstaller'
  BY <1>22 DEF RollBack
<1>23. ASSUME NEW o \in Ops, Settle(o) PROVE HeldByInstaller'
  BY <1>23 DEF Settle
<1>24. ASSUME NEW o \in Ops, ReleaseLock(o) PROVE HeldByInstaller'
  BY <1>24 DEF ReleaseLock
<1>25. ASSUME NEW i \in Engines, Listen(i) PROVE HeldByInstaller'
  BY <1>25 DEF Listen
<1>26. ASSUME NEW i \in Engines, BootFails(i) PROVE HeldByInstaller'
  BY <1>26 DEF BootFails
<1>27. ASSUME NEW i \in Engines, Exit(i) PROVE HeldByInstaller'
  BY <1>27 DEF Exit
<1>28. ASSUME NEW i \in Engines, Shutdown(i) PROVE HeldByInstaller'
  BY <1>28 DEF Shutdown
<1>29. ASSUME UserStarts PROVE HeldByInstaller'
  BY <1>29 DEF UserStarts
<1>30. ASSUME Age PROVE HeldByInstaller'
  BY <1>30 DEF Age
<1>31. ASSUME Crash PROVE HeldByInstaller'
  BY <1>31, CrashStep
<1>32. ASSUME UNCHANGED vars PROVE HeldByInstaller'
  BY <1>32 DEF vars
<1> QED
  BY <1>1, <1>2, <1>3, <1>4, <1>5, <1>6, <1>7, <1>8, <1>9, <1>10, <1>11, <1>12, <1>13,
     <1>14, <1>15, <1>16, <1>17, <1>18, <1>19, <1>20, <1>21, <1>22, <1>23, <1>24, <1>25,
     <1>26, <1>27, <1>28, <1>29, <1>30, <1>31, <1>32 DEF Next, OpStep, SwitcherStep,
     EngineStep

\* The pointer.
LEMMA WhereStep ==
  ASSUME Inv, [Next]_vars
  PROVE  Whereabouts'
<1> USE DEF Inv, SwitcherIsLast, HeldByInstaller, Installing, Whereabouts, Moved, Early, TypeOK, Step, GoesTo, Records, SwitchTo, Switches, IsApply, IsApi, opVars, rowVars, swVars, engineVars
<1>1. ASSUME NEW o \in Ops, Begin(o) PROVE Whereabouts'
  BY <1>1, BeginStep
<1>2. ASSUME NEW o \in Ops, Acquire(o) PROVE Whereabouts'
  BY <1>2 DEF Acquire
<1>3. ASSUME NEW o \in Ops, Reclaim(o) PROVE Whereabouts'
  BY <1>3 DEF Reclaim, Remove
<1>4. ASSUME NEW o \in Ops, Rewrite(o) PROVE Whereabouts'
  BY <1>4 DEF Rewrite
<1>5. ASSUME NEW o \in Ops, Prepare(o) PROVE Whereabouts'
  BY <1>5 DEF Prepare
<1>6. ASSUME NEW o \in Ops, PrepareFails(o) PROVE Whereabouts'
  BY <1>6 DEF PrepareFails
<1>7. ASSUME NEW o \in Ops, EndDryRun(o) PROVE Whereabouts'
  BY <1>7 DEF EndDryRun
<1>8. ASSUME NEW o \in Ops, Activate(o) PROVE Whereabouts'
  BY <1>8 DEF Activate
<1>9. ASSUME NEW o \in Ops, EndInstall(o) PROVE Whereabouts'
  BY <1>9 DEF EndInstall
<1>10. ASSUME NEW o \in Ops, Leave(o) PROVE Whereabouts'
  BY <1>10 DEF Leave
<1>11. ASSUME NEW o \in Ops, HandOff(o) PROVE Whereabouts'
  BY <1>11 DEF HandOff
<1>12. ASSUME NEW o \in Ops, HandOffFails(o) PROVE Whereabouts'
  BY <1>12 DEF HandOffFails
<1>13. ASSUME NEW o \in Ops, VerifyLock(o) PROVE Whereabouts'
  BY <1>13 DEF VerifyLock
<1>14. ASSUME NEW o \in Ops, ClaimLock(o) PROVE Whereabouts'
  BY <1>14 DEF ClaimLock
<1>15. ASSUME NEW o \in Ops, StopEngine(o) PROVE Whereabouts'
  BY <1>15 DEF StopEngine
<1>16. ASSUME NEW o \in Ops, SwitcherFails(o) PROVE Whereabouts'
  BY <1>16 DEF SwitcherFails
<1>17. ASSUME NEW o \in Ops, Swap(o) PROVE Whereabouts'
  BY <1>17 DEF Swap
<1>18. ASSUME NEW o \in Ops, Healthy(o) PROVE Whereabouts'
  BY <1>18 DEF Healthy
<1>19. ASSUME NEW o \in Ops, Unhealthy(o) PROVE Whereabouts'
  BY <1>19 DEF Unhealthy
<1>20. ASSUME NEW o \in Ops, Succeed(o) PROVE Whereabouts'
  BY <1>20 DEF Succeed
<1>21. ASSUME NEW o \in Ops, Reject(o) PROVE Whereabouts'
  BY <1>21 DEF Reject
<1>22. ASSUME NEW o \in Ops, RollBack(o) PROVE Whereabouts'
  BY <1>22 DEF RollBack
<1>23. ASSUME NEW o \in Ops, Settle(o) PROVE Whereabouts'
  BY <1>23 DEF Settle
<1>24. ASSUME NEW o \in Ops, ReleaseLock(o) PROVE Whereabouts'
  BY <1>24 DEF ReleaseLock
<1>25. ASSUME NEW i \in Engines, Listen(i) PROVE Whereabouts'
  BY <1>25 DEF Listen
<1>26. ASSUME NEW i \in Engines, BootFails(i) PROVE Whereabouts'
  BY <1>26 DEF BootFails
<1>27. ASSUME NEW i \in Engines, Exit(i) PROVE Whereabouts'
  BY <1>27 DEF Exit
<1>28. ASSUME NEW i \in Engines, Shutdown(i) PROVE Whereabouts'
  BY <1>28 DEF Shutdown
<1>29. ASSUME UserStarts PROVE Whereabouts'
  BY <1>29 DEF UserStarts
<1>30. ASSUME Age PROVE Whereabouts'
  BY <1>30 DEF Age
<1>31. ASSUME Crash PROVE Whereabouts'
  BY <1>31, CrashStep
<1>32. ASSUME UNCHANGED vars PROVE Whereabouts'
  BY <1>32 DEF vars
<1> QED
  BY <1>1, <1>2, <1>3, <1>4, <1>5, <1>6, <1>7, <1>8, <1>9, <1>10, <1>11, <1>12, <1>13,
     <1>14, <1>15, <1>16, <1>17, <1>18, <1>19, <1>20, <1>21, <1>22, <1>23, <1>24, <1>25,
     <1>26, <1>27, <1>28, <1>29, <1>30, <1>31, <1>32 DEF Next, OpStep, SwitcherStep,
     EngineStep

-----------------------------------------------------------------------------
(* The theorems. *)

LEMMA InvStep == Inv /\ [Next]_vars => Inv'
<1> SUFFICES ASSUME Inv, [Next]_vars PROVE Inv'
  OBVIOUS
<1>1. TypeOK' /\ Managed' /\ OneRowPerKey' /\ HeldByInstaller' /\ Whereabouts'
  BY TypeStep, ManagedStep, KeyStep, HeldStep, WhereStep
<1>2. /\ SwitcherIsLast'
      /\ \A q \in Ops : attempt'[q] # "none" => IsApply(q)' \/ attempt'[q] = "aborted-dry-run"
  BY LastStep
<1> QED BY <1>1, <1>2 DEF Inv

LEMMA Invariance == Spec => []Inv
<1>1. Init => Inv
  BY InitInv
<1>2. Inv /\ [Next]_vars => Inv'
  BY InvStep
<1> QED BY <1>1, <1>2, PTL DEF Spec

\* Every variable keeps its type.
THEOREM TypeCorrect == Spec => []TypeOK
<1>1. Inv => TypeOK
  BY DEF Inv
<1> QED BY <1>1, Invariance, PTL

\* update.lock, handed from process to process, admits one installer: who
\* installs holds it, and only a theft takes it away.
THEOREM LockAdmitsOne == Spec => []OneInstaller
<1>1. Inv => OneInstaller
  BY DEF Inv, HeldByInstaller, OneInstaller
<1> QED BY <1>1, Invariance, PTL

\* One operation of an Idempotency-Key is handed to a switcher.
THEOREM KeyRuns == Spec => []KeyRunsOnce
<1>1. Inv => KeyRunsOnce
  BY DEF Inv, SwitcherIsLast, OneRowPerKey, KeyRunsOnce
<1> QED BY <1>1, Invariance, PTL

\* What was rolled back is not installed.
THEOREM RolledBackGone == Spec => []RolledBackIsGone
<1>1. ASSUME Inv, ~stolen, NEW o \in Ops, attempt[o] = "failed-rolled-back"
      PROVE  current # o
  <2>1. IsApply(o)
    BY <1>1 DEF Inv
  <2> QED BY <1>1, <2>1 DEF Inv, Whereabouts
<1>2. Inv => RolledBackIsGone
  BY <1>1 DEF RolledBackIsGone
<1> QED BY <1>2, Invariance, PTL

\* What is recorded as succeeded runs, and is the installed release.
THEOREM SuccessInstalled == Spec => SuccessIsInstalled
<1> DEFINE Just ==
      \A o \in Ops : attempt[o] # "succeeded" /\ attempt'[o] = "succeeded" =>
                        Serving(o) /\ (current = o \/ stolen)
<1>1. ASSUME Inv, [Next]_vars PROVE [Just]_vars
  <2> SUFFICES ASSUME Next, NEW o \in Ops, attempt[o] # "succeeded", attempt'[o] = "succeeded"
               PROVE  Serving(o) /\ (current = o \/ stolen)
    BY <1>1
  <2> USE DEF Inv, TypeOK, Records, rowVars
  <2>3. ASSUME NEW p \in Ops, Begin(p) PROVE FALSE
    BY <1>1, <2>3, BeginStep
  <2>5. ASSUME NEW p \in Ops, OpStep(p) PROVE FALSE
    BY <1>1, <2>5 DEF OpStep, Acquire, Reclaim, Rewrite, Prepare, PrepareFails, EndDryRun,
          Activate, EndInstall, Leave, HandOff, HandOffFails
  <2>6. ASSUME NEW p \in Ops, SwitcherStep(p) PROVE Succeed(p) /\ p = o
    BY <1>1, <2>6 DEF SwitcherStep, VerifyLock, ClaimLock, StopEngine, SwitcherFails, Swap,
          Healthy, Unhealthy, Succeed, Reject, RollBack, Settle, ReleaseLock
  <2>7. ASSUME (\E i \in Engines : EngineStep(i) \/ Shutdown(i)) \/ UserStarts \/ Age \/ Crash
        PROVE  FALSE
    BY <1>1, <2>7 DEF EngineStep, Listen, BootFails, Exit, Shutdown, UserStarts, Age, Crash
  <2>1. Succeed(o)
    BY <2>3, <2>5, <2>6, <2>7 DEF Next
  <2>2. Serving(o) /\ sw[o] = "verify"
    BY <2>1 DEF Succeed, Valid, Switches
  <2>8. IsApply(o)
    BY <1>1, <2>2 DEF Inv, SwitcherIsLast
  <2>4. ~stolen => current = o
    BY <1>1, <2>2, <2>8 DEF Inv, Whereabouts, Moved
  <2> QED BY <1>1, <2>2, <2>4 DEF Inv, TypeOK
<1>2. SuccessIsInstalled <=> [][Just]_vars
  BY DEF SuccessIsInstalled
<1> HIDE DEF Just
<1> QED BY <1>1, <1>2, Invariance, PTL DEF Spec

=============================================================================

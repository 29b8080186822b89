----------------------- MODULE WorkerAdmissionProofs -----------------------
(***************************************************************************)
(* Proofs about WorkerAdmission: its types, the worker cap for fresh runs  *)
(* and the queue that loses no fresh start, for any number of processes,   *)
(* requests and runs.                                                      *)
(***************************************************************************)
EXTENDS WorkerAdmission, FiniteSetTheorems, TLAPS

\* A fresh request that has not come to its end, or not begun.
Underway(q) ==
    q \in Fresh /\ pc[q] \in {"admitted", "deferred", "pending", "setup", "body"}

\* No other request touches a run before its first start is over.
FreshAlone ==
    /\ \A q \in Fresh : pc[q] = "idle" \/ Underway(q) => ~recovery[run[q]]
    /\ \A q \in Fresh, s \in Requests \ Fresh :
         (pc[q] = "idle" \/ Underway(q)) /\ run[s] = run[q] => pc[s] = "idle"

\* What the row of such a run says.
FreshRow ==
    \A q \in Fresh :
        /\ pc[q] = "idle" => status[run[q]] = "absent"
        /\ pc[q] \in {"admitted", "body"} => status[run[q]] = "running"
        /\ pc[q] \in {"deferred", "pending"} => status[run[q]] = "queued"
        /\ pc[q] = "setup" => status[run[q]] \in {"queued", "running"}
        /\ Underway(q) /\ status[run[q]] = "running" => lessee[run[q]] = proc[q]

\* Whether it is being launched.
FreshSlot ==
    \A q \in Fresh :
        /\ pc[q] \in {"idle", "admitted", "deferred", "pending"}
             => \A p \in Processes : run[q] \notin launching[p]
        /\ pc[q] \in {"setup", "body"} => run[q] \in launching[proc[q]]

\* An entry of the pending map is a request that waits, or one that is being
\* launched and whose run is registered as launching.
PendingMap ==
    \A p \in Processes, r \in Runs :
        pending[p][r] # None =>
            LET q == pending[p][r] IN
            /\ proc[q] = p /\ run[q] = r
            /\ pc[q] \in {"pending", "setup", "body", "refused", "unwinding"}
            /\ pc[q] # "pending" => r \in launching[p]

\* A waiting fresh request is in the map.
FreshPending ==
    \A q \in Fresh : pc[q] = "pending" => pending[proc[q]][run[q]] = q

IInv == TypeOK /\ FreshAlone /\ FreshRow /\ FreshSlot /\ PendingMap /\ FreshPending

-----------------------------------------------------------------------------
\* The number of rows is a number.
LEMMA RowCount == Cardinality(Rows) \in Nat
BY RequestAssumption, FS_Subset, FS_CardinalityType DEF Rows

\* Every step keeps the types of TypeOK.
LEMMA TypeStep == TypeOK /\ [Next]_vars => TypeOK'
<1> SUFFICES ASSUME TypeOK, [Next]_vars PROVE TypeOK'
  OBVIOUS
<1> USE RequestAssumption DEF TypeOK, rowVars, controllerVars, Statuses, PCs
<1>1. ASSUME NEW q \in Requests, AdmitFresh(q) PROVE TypeOK'
  BY <1>1, RowCount DEF AdmitFresh
<1>2. ASSUME NEW q \in Requests, QueueFresh(q) PROVE TypeOK'
  BY <1>2, RowCount DEF QueueFresh
<1>3. ASSUME NEW q \in Requests, PrepareFreshFails(q) PROVE TypeOK'
  BY <1>3, RowCount DEF PrepareFreshFails
<1>4. ASSUME NEW q \in Requests, SeedFails(q) PROVE TypeOK'
  BY <1>4 DEF SeedFails
<1>5. ASSUME NEW q \in Requests, FatalBeat(q) PROVE TypeOK'
  <2>1. pc' \in [Requests -> PCs]
    BY <1>5 DEF FatalBeat
  <2>2. status' \in [Runs -> Statuses]
    BY <1>5 DEF FatalBeat
  <2>3. recovery' \in [Runs -> BOOLEAN]
    BY <1>5 DEF FatalBeat
  <2> QED
    BY <1>5, <2>1, <2>2, <2>3 DEF FatalBeat
<1>6. ASSUME NEW q \in Requests, ReadResume(q) PROVE TypeOK'
  BY <1>6 DEF ReadResume
<1>7. ASSUME NEW q \in Requests, AdmitResume(q) PROVE TypeOK'
  BY <1>7 DEF AdmitResume
<1>8. ASSUME NEW q \in Requests, QueueResume(q) PROVE TypeOK'
  BY <1>8 DEF QueueResume
<1>9. ASSUME NEW q \in Requests, Launch(q) PROVE TypeOK'
  BY <1>9 DEF Launch
<1>10. ASSUME NEW q \in Requests, Enqueue(q) PROVE TypeOK'
  BY <1>10 DEF Enqueue
<1>11. ASSUME NEW q \in Requests, Leave(q) PROVE TypeOK'
  BY <1>11 DEF Leave
<1>12. ASSUME NEW q \in Requests, BeginFresh(q) PROVE TypeOK'
  BY <1>12 DEF BeginFresh
<1>13. ASSUME NEW q \in Requests, BeginFreshFails(q) PROVE TypeOK'
  BY <1>13 DEF BeginFreshFails
<1>14. ASSUME NEW q \in Requests, BeginResume(q) PROVE TypeOK'
  BY <1>14 DEF BeginResume
<1>15. ASSUME NEW q \in Requests, BeginResumeFails(q) PROVE TypeOK'
  BY <1>15 DEF BeginResumeFails
<1>16. ASSUME NEW q \in Requests, End(q) PROVE TypeOK'
  BY <1>16 DEF End
<1>17. ASSUME NEW p \in Processes, Drain(p) PROVE TypeOK'
  BY <1>17 DEF Drain, Waiting
<1>18. ASSUME NEW p \in Processes, Restart(p) PROVE TypeOK'
  BY <1>18 DEF Restart, Running
<1>19. CASE UNCHANGED vars
  BY <1>19 DEF vars
<1> QED
  BY <1>1, <1>2, <1>3, <1>4, <1>5, <1>6, <1>7, <1>8, <1>9,
     <1>10, <1>11, <1>12, <1>13, <1>14, <1>15, <1>16, <1>17, <1>18, <1>19
  DEF Next, Progress

\* Every step keeps the invariant.
LEMMA InvStep == IInv /\ [Next]_vars => IInv'
<1> SUFFICES ASSUME IInv, [Next]_vars PROVE IInv'
  OBVIOUS
<1>0. TypeOK'
  BY TypeStep DEF IInv
<1> USE RequestAssumption DEF IInv, TypeOK, rowVars, controllerVars
<1>1. ASSUME NEW q \in Requests, AdmitFresh(q) PROVE IInv'
  <2>1. FreshAlone'
    BY <1>1, <1>0 DEF AdmitFresh, Underway, FreshAlone, FreshRow, FreshSlot, PendingMap, FreshPending
  <2>2. FreshRow'
    BY <1>1, <1>0 DEF AdmitFresh, Underway, FreshAlone, FreshRow, FreshSlot, PendingMap, FreshPending
  <2>3. FreshSlot'
    BY <1>1, <1>0 DEF AdmitFresh, Underway, FreshAlone, FreshRow, FreshSlot, PendingMap, FreshPending
  <2>4. PendingMap'
    BY <1>1, <1>0 DEF AdmitFresh, Underway, FreshAlone, FreshRow, FreshSlot, PendingMap, FreshPending
  <2>5. FreshPending'
    BY <1>1, <1>0 DEF AdmitFresh, Underway, FreshAlone, FreshRow, FreshSlot, PendingMap, FreshPending
  <2> QED
    BY <1>0, <2>1, <2>2, <2>3, <2>4, <2>5
<1>2. ASSUME NEW q \in Requests, QueueFresh(q) PROVE IInv'
  <2>1. FreshAlone'
    BY <1>2, <1>0 DEF QueueFresh, Underway, FreshAlone, FreshRow, FreshSlot, PendingMap, FreshPending
  <2>2. FreshRow'
    BY <1>2, <1>0 DEF QueueFresh, Underway, FreshAlone, FreshRow, FreshSlot, PendingMap, FreshPending
  <2>3. FreshSlot'
    BY <1>2, <1>0 DEF QueueFresh, Underway, FreshAlone, FreshRow, FreshSlot, PendingMap, FreshPending
  <2>4. PendingMap'
    BY <1>2, <1>0 DEF QueueFresh, Underway, FreshAlone, FreshRow, FreshSlot, PendingMap, FreshPending
  <2>5. FreshPending'
    BY <1>2, <1>0 DEF QueueFresh, Underway, FreshAlone, FreshRow, FreshSlot, PendingMap, FreshPending
  <2> QED
    BY <1>0, <2>1, <2>2, <2>3, <2>4, <2>5
<1>3. ASSUME NEW q \in Requests, PrepareFreshFails(q) PROVE IInv'
  <2>1. FreshAlone'
    BY <1>3, <1>0 DEF PrepareFreshFails, Underway, FreshAlone, FreshRow, FreshSlot, PendingMap, FreshPending
  <2>2. FreshRow'
    BY <1>3, <1>0 DEF PrepareFreshFails, Underway, FreshAlone, FreshRow, FreshSlot, PendingMap, FreshPending
  <2>3. FreshSlot'
    BY <1>3, <1>0 DEF PrepareFreshFails, Underway, FreshAlone, FreshRow, FreshSlot, PendingMap, FreshPending
  <2>4. PendingMap'
    BY <1>3, <1>0 DEF PrepareFreshFails, Underway, FreshAlone, FreshRow, FreshSlot, PendingMap, FreshPending
  <2>5. FreshPending'
    BY <1>3, <1>0 DEF PrepareFreshFails, Underway, FreshAlone, FreshRow, FreshSlot, PendingMap, FreshPending
  <2> QED
    BY <1>0, <2>1, <2>2, <2>3, <2>4, <2>5
<1>4. ASSUME NEW q \in Requests, SeedFails(q) PROVE IInv'
  <2>1. FreshAlone'
    BY <1>4, <1>0 DEF SeedFails, Underway, FreshAlone, FreshRow, FreshSlot, PendingMap, FreshPending
  <2>2. FreshRow'
    BY <1>4, <1>0 DEF SeedFails, Underway, FreshAlone, FreshRow, FreshSlot, PendingMap, FreshPending
  <2>3. FreshSlot'
    BY <1>4, <1>0 DEF SeedFails, Underway, FreshAlone, FreshRow, FreshSlot, PendingMap, FreshPending
  <2>4. PendingMap'
    BY <1>4, <1>0 DEF SeedFails, Underway, FreshAlone, FreshRow, FreshSlot, PendingMap, FreshPending
  <2>5. FreshPending'
    BY <1>4, <1>0 DEF SeedFails, Underway, FreshAlone, FreshRow, FreshSlot, PendingMap, FreshPending
  <2> QED
    BY <1>0, <2>1, <2>2, <2>3, <2>4, <2>5
<1>5. ASSUME NEW q \in Requests, FatalBeat(q) PROVE IInv'
  <2>1. FreshAlone'
    BY <1>5, <1>0 DEF FatalBeat, Underway, FreshAlone, FreshRow, FreshSlot, PendingMap, FreshPending
  <2>2. FreshRow'
    BY <1>5, <1>0 DEF FatalBeat, Underway, FreshAlone, FreshRow, FreshSlot, PendingMap, FreshPending
  <2>3. FreshSlot'
    BY <1>5, <1>0 DEF FatalBeat, Underway, FreshAlone, FreshRow, FreshSlot, PendingMap, FreshPending
  <2>4. PendingMap'
    BY <1>5, <1>0 DEF FatalBeat, Underway, FreshAlone, FreshRow, FreshSlot, PendingMap, FreshPending
  <2>5. FreshPending'
    BY <1>5, <1>0 DEF FatalBeat, Underway, FreshAlone, FreshRow, FreshSlot, PendingMap, FreshPending
  <2> QED
    BY <1>0, <2>1, <2>2, <2>3, <2>4, <2>5
<1>6. ASSUME NEW q \in Requests, ReadResume(q) PROVE IInv'
  <2>1. FreshAlone'
    BY <1>6, <1>0 DEF ReadResume, Readiness, Underway, FreshAlone, FreshRow, FreshSlot, PendingMap, FreshPending
  <2>2. FreshRow'
    BY <1>6, <1>0 DEF ReadResume, Readiness, Underway, FreshAlone, FreshRow, FreshSlot, PendingMap, FreshPending
  <2>3. FreshSlot'
    BY <1>6, <1>0 DEF ReadResume, Readiness, Underway, FreshAlone, FreshRow, FreshSlot, PendingMap, FreshPending
  <2>4. PendingMap'
    BY <1>6, <1>0 DEF ReadResume, Readiness, Underway, FreshAlone, FreshRow, FreshSlot, PendingMap, FreshPending
  <2>5. FreshPending'
    BY <1>6, <1>0 DEF ReadResume, Readiness, Underway, FreshAlone, FreshRow, FreshSlot, PendingMap, FreshPending
  <2> QED
    BY <1>0, <2>1, <2>2, <2>3, <2>4, <2>5
<1>7. ASSUME NEW q \in Requests, AdmitResume(q) PROVE IInv'
  <2>1. FreshAlone'
    BY <1>7, <1>0 DEF AdmitResume, Underway, FreshAlone, FreshRow, FreshSlot, PendingMap, FreshPending
  <2>2. FreshRow'
    BY <1>7, <1>0 DEF AdmitResume, Underway, FreshAlone, FreshRow, FreshSlot, PendingMap, FreshPending
  <2>3. FreshSlot'
    BY <1>7, <1>0 DEF AdmitResume, Underway, FreshAlone, FreshRow, FreshSlot, PendingMap, FreshPending
  <2>4. PendingMap'
    BY <1>7, <1>0 DEF AdmitResume, Underway, FreshAlone, FreshRow, FreshSlot, PendingMap, FreshPending
  <2>5. FreshPending'
    BY <1>7, <1>0 DEF AdmitResume, Underway, FreshAlone, FreshRow, FreshSlot, PendingMap, FreshPending
  <2> QED
    BY <1>0, <2>1, <2>2, <2>3, <2>4, <2>5
<1>8. ASSUME NEW q \in Requests, QueueResume(q) PROVE IInv'
  <2>1. FreshAlone'
    BY <1>8, <1>0 DEF QueueResume, Underway, FreshAlone, FreshRow, FreshSlot, PendingMap, FreshPending
  <2>2. FreshRow'
    BY <1>8, <1>0 DEF QueueResume, Underway, FreshAlone, FreshRow, FreshSlot, PendingMap, FreshPending
  <2>3. FreshSlot'
    BY <1>8, <1>0 DEF QueueResume, Underway, FreshAlone, FreshRow, FreshSlot, PendingMap, FreshPending
  <2>4. PendingMap'
    BY <1>8, <1>0 DEF QueueResume, Underway, FreshAlone, FreshRow, FreshSlot, PendingMap, FreshPending
  <2>5. FreshPending'
    BY <1>8, <1>0 DEF QueueResume, Underway, FreshAlone, FreshRow, FreshSlot, PendingMap, FreshPending
  <2> QED
    BY <1>0, <2>1, <2>2, <2>3, <2>4, <2>5
<1>9. ASSUME NEW q \in Requests, Launch(q) PROVE IInv'
  <2>1. FreshAlone'
    BY <1>9, <1>0 DEF Launch, Underway, FreshAlone, FreshRow, FreshSlot, PendingMap, FreshPending
  <2>2. FreshRow'
    BY <1>9, <1>0 DEF Launch, Underway, FreshAlone, FreshRow, FreshSlot, PendingMap, FreshPending
  <2>3. FreshSlot'
    BY <1>9, <1>0 DEF Launch, Underway, FreshAlone, FreshRow, FreshSlot, PendingMap, FreshPending
  <2>4. PendingMap'
    BY <1>9, <1>0 DEF Launch, Underway, FreshAlone, FreshRow, FreshSlot, PendingMap, FreshPending
  <2>5. FreshPending'
    BY <1>9, <1>0 DEF Launch, Underway, FreshAlone, FreshRow, FreshSlot, PendingMap, FreshPending
  <2> QED
    BY <1>0, <2>1, <2>2, <2>3, <2>4, <2>5
<1>10. ASSUME NEW q \in Requests, Enqueue(q) PROVE IInv'
  <2>1. FreshAlone'
    BY <1>10, <1>0 DEF Enqueue, Underway, FreshAlone, FreshRow, FreshSlot, PendingMap, FreshPending
  <2>2. FreshRow'
    BY <1>10, <1>0 DEF Enqueue, Underway, FreshAlone, FreshRow, FreshSlot, PendingMap, FreshPending
  <2>3. FreshSlot'
    BY <1>10, <1>0 DEF Enqueue, Underway, FreshAlone, FreshRow, FreshSlot, PendingMap, FreshPending
  <2>4. PendingMap'
    BY <1>10, <1>0 DEF Enqueue, Underway, FreshAlone, FreshRow, FreshSlot, PendingMap, FreshPending
  <2>5. FreshPending'
    BY <1>10, <1>0 DEF Enqueue, Underway, FreshAlone, FreshRow, FreshSlot, PendingMap, FreshPending
  <2> QED
    BY <1>0, <2>1, <2>2, <2>3, <2>4, <2>5
<1>11. ASSUME NEW q \in Requests, Leave(q) PROVE IInv'
  <2>1. FreshAlone'
    BY <1>11, <1>0 DEF Leave, Underway, FreshAlone, FreshRow, FreshSlot, PendingMap, FreshPending
  <2>2. FreshRow'
    BY <1>11, <1>0 DEF Leave, Underway, FreshAlone, FreshRow, FreshSlot, PendingMap, FreshPending
  <2>3. FreshSlot'
    BY <1>11, <1>0 DEF Leave, Underway, FreshAlone, FreshRow, FreshSlot, PendingMap, FreshPending
  <2>4. PendingMap'
    BY <1>11, <1>0 DEF Leave, Underway, FreshAlone, FreshRow, FreshSlot, PendingMap, FreshPending
  <2>5. FreshPending'
    BY <1>11, <1>0 DEF Leave, Underway, FreshAlone, FreshRow, FreshSlot, PendingMap, FreshPending
  <2> QED
    BY <1>0, <2>1, <2>2, <2>3, <2>4, <2>5
<1>12. ASSUME NEW q \in Requests, BeginFresh(q) PROVE IInv'
  <2>1. FreshAlone'
    BY <1>12, <1>0 DEF BeginFresh, Underway, FreshAlone, FreshRow, FreshSlot, PendingMap, FreshPending
  <2>2. FreshRow'
    BY <1>12, <1>0 DEF BeginFresh, Underway, FreshAlone, FreshRow, FreshSlot, PendingMap, FreshPending
  <2>3. FreshSlot'
    BY <1>12, <1>0 DEF BeginFresh, Underway, FreshAlone, FreshRow, FreshSlot, PendingMap, FreshPending
  <2>4. PendingMap'
    BY <1>12, <1>0 DEF BeginFresh, Underway, FreshAlone, FreshRow, FreshSlot, PendingMap, FreshPending
  <2>5. FreshPending'
    BY <1>12, <1>0 DEF BeginFresh, Underway, FreshAlone, FreshRow, FreshSlot, PendingMap, FreshPending
  <2> QED
    BY <1>0, <2>1, <2>2, <2>3, <2>4, <2>5
<1>13. ASSUME NEW q \in Requests, BeginFreshFails(q) PROVE IInv'
  <2>1. FreshAlone'
    BY <1>13, <1>0 DEF BeginFreshFails, Underway, FreshAlone, FreshRow, FreshSlot, PendingMap, FreshPending
  <2>2. FreshRow'
    BY <1>13, <1>0 DEF BeginFreshFails, Underway, FreshAlone, FreshRow, FreshSlot, PendingMap, FreshPending
  <2>3. FreshSlot'
    BY <1>13, <1>0 DEF BeginFreshFails, Underway, FreshAlone, FreshRow, FreshSlot, PendingMap, FreshPending
  <2>4. PendingMap'
    BY <1>13, <1>0 DEF BeginFreshFails, Underway, FreshAlone, FreshRow, FreshSlot, PendingMap, FreshPending
  <2>5. FreshPending'
    BY <1>13, <1>0 DEF BeginFreshFails, Underway, FreshAlone, FreshRow, FreshSlot, PendingMap, FreshPending
  <2> QED
    BY <1>0, <2>1, <2>2, <2>3, <2>4, <2>5
<1>14. ASSUME NEW q \in Requests, BeginResume(q) PROVE IInv'
  <2>1. FreshAlone'
    BY <1>14, <1>0 DEF BeginResume, Readiness, Underway, FreshAlone, FreshRow, FreshSlot, PendingMap, FreshPending
  <2>2. FreshRow'
    BY <1>14, <1>0 DEF BeginResume, Readiness, Underway, FreshAlone, FreshRow, FreshSlot, PendingMap, FreshPending
  <2>3. FreshSlot'
    BY <1>14, <1>0 DEF BeginResume, Readiness, Underway, FreshAlone, FreshRow, FreshSlot, PendingMap, FreshPending
  <2>4. PendingMap'
    BY <1>14, <1>0 DEF BeginResume, Readiness, Underway, FreshAlone, FreshRow, FreshSlot, PendingMap, FreshPending
  <2>5. FreshPending'
    BY <1>14, <1>0 DEF BeginResume, Readiness, Underway, FreshAlone, FreshRow, FreshSlot, PendingMap, FreshPending
  <2> QED
    BY <1>0, <2>1, <2>2, <2>3, <2>4, <2>5
<1>15. ASSUME NEW q \in Requests, BeginResumeFails(q) PROVE IInv'
  <2>1. FreshAlone'
    BY <1>15, <1>0 DEF BeginResumeFails, Underway, FreshAlone, FreshRow, FreshSlot, PendingMap, FreshPending
  <2>2. FreshRow'
    BY <1>15, <1>0 DEF BeginResumeFails, Underway, FreshAlone, FreshRow, FreshSlot, PendingMap, FreshPending
  <2>3. FreshSlot'
    BY <1>15, <1>0 DEF BeginResumeFails, Underway, FreshAlone, FreshRow, FreshSlot, PendingMap, FreshPending
  <2>4. PendingMap'
    BY <1>15, <1>0 DEF BeginResumeFails, Underway, FreshAlone, FreshRow, FreshSlot, PendingMap, FreshPending
  <2>5. FreshPending'
    BY <1>15, <1>0 DEF BeginResumeFails, Underway, FreshAlone, FreshRow, FreshSlot, PendingMap, FreshPending
  <2> QED
    BY <1>0, <2>1, <2>2, <2>3, <2>4, <2>5
<1>16. ASSUME NEW q \in Requests, End(q) PROVE IInv'
  <2>1. FreshAlone'
    BY <1>16, <1>0 DEF End, Underway, FreshAlone, FreshRow, FreshSlot, PendingMap, FreshPending
  <2>2. FreshRow'
    BY <1>16, <1>0 DEF End, Underway, FreshAlone, FreshRow, FreshSlot, PendingMap, FreshPending
  <2>3. FreshSlot'
    BY <1>16, <1>0 DEF End, Underway, FreshAlone, FreshRow, FreshSlot, PendingMap, FreshPending
  <2>4. PendingMap'
    BY <1>16, <1>0 DEF End, Underway, FreshAlone, FreshRow, FreshSlot, PendingMap, FreshPending
  <2>5. FreshPending'
    BY <1>16, <1>0 DEF End, Underway, FreshAlone, FreshRow, FreshSlot, PendingMap, FreshPending
  <2> QED
    BY <1>0, <2>1, <2>2, <2>3, <2>4, <2>5
<1>17. ASSUME NEW p \in Processes, Drain(p) PROVE IInv'
  <2>1. FreshAlone'
    BY <1>17, <1>0 DEF Drain, Waiting, Underway, FreshAlone, FreshRow, FreshSlot, PendingMap, FreshPending
  <2>2. FreshRow'
    BY <1>17, <1>0 DEF Drain, Waiting, Underway, FreshAlone, FreshRow, FreshSlot, PendingMap, FreshPending
  <2>3. FreshSlot'
    BY <1>17, <1>0 DEF Drain, Waiting, Underway, FreshAlone, FreshRow, FreshSlot, PendingMap, FreshPending
  <2>4. PendingMap'
    BY <1>17, <1>0 DEF Drain, Waiting, Underway, FreshAlone, FreshRow, FreshSlot, PendingMap, FreshPending
  <2>5. FreshPending'
    BY <1>17, <1>0 DEF Drain, Waiting, Underway, FreshAlone, FreshRow, FreshSlot, PendingMap, FreshPending
  <2> QED
    BY <1>0, <2>1, <2>2, <2>3, <2>4, <2>5
<1>18. ASSUME NEW p \in Processes, Restart(p) PROVE IInv'
  <2>1. FreshAlone'
    BY <1>18, <1>0 DEF Restart, Running, Underway, FreshAlone, FreshRow, FreshSlot, PendingMap, FreshPending
  <2>2. FreshRow'
    BY <1>18, <1>0 DEF Restart, Running, Underway, FreshAlone, FreshRow, FreshSlot, PendingMap, FreshPending
  <2>3. FreshSlot'
    BY <1>18, <1>0 DEF Restart, Running, Underway, FreshAlone, FreshRow, FreshSlot, PendingMap, FreshPending
  <2>4. PendingMap'
    BY <1>18, <1>0 DEF Restart, Running, Underway, FreshAlone, FreshRow, FreshSlot, PendingMap, FreshPending
  <2>5. FreshPending'
    BY <1>18, <1>0 DEF Restart, Running, Underway, FreshAlone, FreshRow, FreshSlot, PendingMap, FreshPending
  <2> QED
    BY <1>0, <2>1, <2>2, <2>3, <2>4, <2>5
<1>19. CASE UNCHANGED vars
  BY <1>19, <1>0 DEF vars, Underway, FreshAlone, FreshRow, FreshSlot, PendingMap, FreshPending
<1> QED
  BY <1>1, <1>2, <1>3, <1>4, <1>5, <1>6, <1>7, <1>8, <1>9,
     <1>10, <1>11, <1>12, <1>13, <1>14, <1>15, <1>16, <1>17, <1>18, <1>19
  DEF Next, Progress

LEMMA InvInit == Init => IInv
<1> SUFFICES ASSUME Init PROVE IInv
  OBVIOUS
<1> USE RequestAssumption DEF Init
<1>1. TypeOK
  BY DEF TypeOK, Statuses, PCs
<1>2. FreshAlone
  BY DEF FreshAlone, Underway
<1>3. FreshRow
  BY DEF FreshRow, Underway
<1>4. FreshSlot
  BY DEF FreshSlot
<1>5. PendingMap
  BY DEF PendingMap
<1>6. FreshPending
  BY DEF FreshPending
<1> QED
  BY <1>1, <1>2, <1>3, <1>4, <1>5, <1>6 DEF IInv

-----------------------------------------------------------------------------
\* The types of the admission model hold in every reachable state.
THEOREM TypeCorrect == Spec => []TypeOK
<1>1. Init => TypeOK
  BY InvInit DEF IInv
<1> QED
  BY <1>1, TypeStep, PTL DEF Spec

THEOREM Invariance == Spec => []IInv
BY InvInit, InvStep, PTL DEF Spec

\* A waiting fresh run is queued, is in the pending map and is not being
\* launched: nothing another request does takes its start away.
THEOREM KeepsStart == Spec => []FreshKeepsItsStart
<1>1. IInv => FreshKeepsItsStart
  BY RequestAssumption
     DEF IInv, TypeOK, FreshKeepsItsStart, FreshRow, FreshSlot, FreshPending
<1> QED
  BY <1>1, Invariance, PTL

-----------------------------------------------------------------------------
(* The cap.  Every fresh run under way is counted by hasCapacity, as a     *)
(* running row or as a reservation of its process.                         *)

LEMMA Counted ==
    ASSUME IInv, NEW p \in Processes
    PROVE  FreshStarted(p) \subseteq Running \cup Reserved(p)
BY RequestAssumption DEF IInv, TypeOK, FreshRow, FreshSlot, FreshStarted, Running, Reserved

LEMMA RoomForOne ==
    ASSUME IInv, NEW p \in Processes, HasCapacity(p), NEW r \in Runs
    PROVE  Cardinality(FreshStarted(p) \cup {r}) <= Cap
<1>1. /\ IsFiniteSet(Running) /\ IsFiniteSet(Reserved(p)) /\ IsFiniteSet(FreshStarted(p))
  <2>1. Running \subseteq Runs /\ Reserved(p) \subseteq Runs /\ FreshStarted(p) \subseteq Runs
    BY DEF IInv, TypeOK, Running, Reserved, FreshStarted
  <2> QED
    BY <2>1, RequestAssumption, FS_Subset
<1>2. Cardinality(FreshStarted(p)) <= Cardinality(Running) + Cardinality(Reserved(p))
  <2>1. /\ IsFiniteSet(Running \cup Reserved(p))
        /\ Cardinality(Running \cup Reserved(p))
             = Cardinality(Running) + Cardinality(Reserved(p))
               - Cardinality(Running \cap Reserved(p))
    BY <1>1, FS_Union
  <2>2. Cardinality(FreshStarted(p)) <= Cardinality(Running \cup Reserved(p))
    BY <2>1, Counted, FS_Subset
  <2>3. IsFiniteSet(Running \cap Reserved(p))
    BY <1>1, FS_Intersection
  <2> QED
    BY <1>1, <2>1, <2>2, <2>3, FS_CardinalityType
<1>3. Cardinality(FreshStarted(p)) < Cap
  BY <1>1, <1>2, CapAssumption, FS_CardinalityType DEF HasCapacity
<1>4. Cardinality(FreshStarted(p) \cup {r}) <= Cardinality(FreshStarted(p)) + 1
  <2>1. Cardinality(FreshStarted(p)) \in Nat
    BY <1>1, FS_CardinalityType
  <2>2. CASE r \in FreshStarted(p)
    <3>1. FreshStarted(p) \cup {r} = FreshStarted(p)
      BY <2>2
    <3> QED
      BY <2>1, <3>1
  <2>3. CASE r \notin FreshStarted(p)
    <3>1. Cardinality(FreshStarted(p) \cup {r}) = Cardinality(FreshStarted(p)) + 1
      BY <1>1, <2>3, FS_AddElement
    <3> QED
      BY <2>1, <3>1
  <2> QED
    BY <2>2, <2>3
<1> QED
  BY <1>1, <1>3, <1>4, CapAssumption, FS_CardinalityType, FS_AddElement

\* If no run joins them, the fresh runs of a process stay within the cap.
LEMMA NoMore ==
    ASSUME IInv, FreshWithinCap, NEW p \in Processes,
           FreshStarted(p)' \subseteq FreshStarted(p)
    PROVE  Cardinality(FreshStarted(p)') <= Cap
<1>1. FreshStarted(p) \subseteq Runs
  BY DEF FreshStarted
<1>2. IsFiniteSet(FreshStarted(p))
  BY <1>1, RequestAssumption, FS_Subset
<1>3. /\ Cardinality(FreshStarted(p)') <= Cardinality(FreshStarted(p))
      /\ IsFiniteSet(FreshStarted(p)')
  BY <1>2, FS_Subset
<1> QED
  BY <1>2, <1>3, CapAssumption, FS_CardinalityType DEF FreshWithinCap

\* One joins, and there was room.
LEMMA OneMore ==
    ASSUME IInv, NEW p \in Processes, HasCapacity(p), NEW r \in Runs,
           FreshStarted(p)' \subseteq FreshStarted(p) \cup {r}
    PROVE  Cardinality(FreshStarted(p)') <= Cap
<1>1. FreshStarted(p) \cup {r} \subseteq Runs
  BY DEF FreshStarted
<1>2. IsFiniteSet(FreshStarted(p) \cup {r})
  BY <1>1, RequestAssumption, FS_Subset
<1>3. /\ Cardinality(FreshStarted(p)') <= Cardinality(FreshStarted(p) \cup {r})
      /\ IsFiniteSet(FreshStarted(p)')
  BY <1>2, FS_Subset
<1> QED
  BY <1>2, <1>3, RoomForOne, CapAssumption, FS_CardinalityType

LEMMA CapStep == IInv /\ FreshWithinCap /\ [Next]_vars => FreshWithinCap'
<1> SUFFICES ASSUME IInv, FreshWithinCap, [Next]_vars, NEW p \in Processes
             PROVE  Cardinality(FreshStarted(p)') <= Cap
  BY DEF FreshWithinCap
<1> DEFINE Shrinks == FreshStarted(p)' \subseteq FreshStarted(p)
<1> USE RequestAssumption DEF IInv, TypeOK, FreshStarted
<1>1. ASSUME NEW q \in Requests, AdmitFresh(q) PROVE Cardinality(FreshStarted(p)') <= Cap
  <2>1. CASE proc[q] = p
    <3>1. FreshStarted(p)' \subseteq FreshStarted(p) \cup {run[q]}
      BY <1>1 DEF AdmitFresh
    <3> QED
      BY <1>1, <2>1, <3>1, OneMore DEF AdmitFresh
  <2>2. CASE proc[q] # p
    <3>1. Shrinks
      BY <1>1, <2>2 DEF AdmitFresh
    <3> QED
      BY <3>1, NoMore
  <2> QED
    BY <2>1, <2>2
<1>2. ASSUME NEW x \in Processes, Drain(x) PROVE Cardinality(FreshStarted(p)') <= Cap
  <2>1. PICK r \in Waiting(x) :
          HasCapacity(x) /\ pc' = [pc EXCEPT ![pending[x][r]] = "setup"]
    BY <1>2 DEF Drain
  <2>2. /\ r \in Runs /\ pending[x][r] \in Requests
        /\ proc[pending[x][r]] = x /\ run[pending[x][r]] = r
    BY <2>1 DEF Waiting, PendingMap
  <2>3. CASE x = p
    <3>1. FreshStarted(p)' \subseteq FreshStarted(p) \cup {r}
      BY <2>1, <2>2
    <3> QED
      BY <2>1, <2>2, <2>3, <3>1, OneMore
  <2>4. CASE x # p
    <3>1. Shrinks
      BY <2>1, <2>2, <2>4
    <3> QED
      BY <3>1, NoMore
  <2> QED
    BY <2>3, <2>4
<1>3. ASSUME NEW q \in Requests, QueueFresh(q) PROVE Shrinks
  BY <1>3 DEF QueueFresh
<1>4. ASSUME NEW q \in Requests, PrepareFreshFails(q) PROVE Shrinks
  BY <1>4 DEF PrepareFreshFails
<1>5. ASSUME NEW q \in Requests, SeedFails(q) PROVE Shrinks
  BY <1>5 DEF SeedFails
<1>6. ASSUME NEW q \in Requests, FatalBeat(q) PROVE Shrinks
  BY <1>6 DEF FatalBeat
<1>7. ASSUME NEW q \in Requests, ReadResume(q) PROVE Shrinks
  BY <1>7 DEF ReadResume
<1>8. ASSUME NEW q \in Requests, AdmitResume(q) PROVE Shrinks
  BY <1>8 DEF AdmitResume
<1>9. ASSUME NEW q \in Requests, QueueResume(q) PROVE Shrinks
  BY <1>9 DEF QueueResume
<1>10. ASSUME NEW q \in Requests, Launch(q) PROVE Shrinks
  BY <1>10 DEF Launch
<1>11. ASSUME NEW q \in Requests, Enqueue(q) PROVE Shrinks
  BY <1>11 DEF Enqueue
<1>12. ASSUME NEW q \in Requests, Leave(q) PROVE Shrinks
  BY <1>12 DEF Leave
<1>13. ASSUME NEW q \in Requests, BeginFresh(q) PROVE Shrinks
  BY <1>13 DEF BeginFresh
<1>14. ASSUME NEW q \in Requests, BeginFreshFails(q) PROVE Shrinks
  BY <1>14 DEF BeginFreshFails
<1>15. ASSUME NEW q \in Requests, BeginResume(q) PROVE Shrinks
  BY <1>15 DEF BeginResume
<1>16. ASSUME NEW q \in Requests, BeginResumeFails(q) PROVE Shrinks
  BY <1>16 DEF BeginResumeFails
<1>17. ASSUME NEW q \in Requests, End(q) PROVE Shrinks
  BY <1>17 DEF End
<1>18. ASSUME NEW x \in Processes, Restart(x) PROVE Shrinks
  BY <1>18 DEF Restart
<1>19. CASE UNCHANGED vars
  <2>1. Shrinks
    BY <1>19 DEF vars
  <2> QED
    BY <2>1, NoMore
<1>20. CASE Shrinks
  BY <1>20, NoMore
<1> QED
  BY <1>1, <1>2, <1>3, <1>4, <1>5, <1>6, <1>7, <1>8, <1>9,
     <1>10, <1>11, <1>12, <1>13, <1>14, <1>15, <1>16, <1>17, <1>18, <1>19, <1>20
  DEF Next, Progress

\* However fresh starts, resumes, refused starts, restarts and freed slots
\* interleave, no process has more fresh runs under way than the worker cap.
THEOREM CapHolds == Spec => []FreshWithinCap
<1>1. Init => FreshWithinCap
  <2> SUFFICES ASSUME Init, NEW p \in Processes PROVE Cardinality(FreshStarted(p)) <= Cap
    BY DEF FreshWithinCap
  <2>1. FreshStarted(p) = {}
    BY RequestAssumption DEF Init, FreshStarted
  <2> QED
    BY <2>1, CapAssumption, FS_EmptySet
<1> QED
  BY <1>1, CapStep, Invariance, PTL DEF Spec
=============================================================================

------------------------ MODULE ItemAndGateProofs ------------------------
(***************************************************************************)
(* Proofs about ItemProjection, for any runs, workers and stages: the      *)
(* types, the owner of the stage that an item shows, the silence of side   *)
(* runs.  And about MergeGate, for any runs and any numbers of starts,     *)
(* merges by hand and lost workers: the types, the way out of every stop,  *)
(* what reaches the base branch and production, and the merge that is      *)
(* resolved by hand.  The two share no state; their names do not meet.     *)
(***************************************************************************)
EXTENDS ItemProjection, MergeGate, TLAPS

\* What is shown of a stage is a column and a phase.
LEMMA ShownType ==
    ASSUME NEW s \in AllStages, NEW outcome \in {"running", "completed", "failed"}
    PROVE  Shown(s, outcome) \in [column : Columns, phase : Phases]
BY DEF AllStages, Implementation, Shown, StageColumn, Columns, Phases

ItemType == item \in [column : Columns, phase : Phases, stage : AllStages \cup {None}]

\* Writing to the item keeps its type.
LEMMA ProjectType ==
    ASSUME TypeOK, NEW r \in Runs, NEW newStage \in AllStages \cup {None},
           NEW shown \in [column : Columns, phase : Phases],
           Project(r, shown, newStage)
    PROVE  ItemType'
BY DEF TypeOK, Project, ItemType

LEMMA ClearType == ASSUME TypeOK, NEW r \in Runs, ClearStage(r) PROVE ItemType'
BY DEF TypeOK, ClearStage, ItemType

LEMMA MarkFailedType == ASSUME TypeOK, NEW r \in Runs, MarkFailed(r) PROVE ItemType'
<1> DEFINE shown ==
      [column |-> IF stage[r] = None THEN item.column ELSE Shown(stage[r], "failed").column,
       phase |-> "failed"]
<1>1. shown \in [column : Columns, phase : Phases]
  <2>1. CASE stage[r] = None
    BY <2>1 DEF TypeOK, Phases
  <2>2. CASE stage[r] # None
    BY <2>2, ShownType DEF TypeOK, Phases
  <2> QED
    BY <2>1, <2>2
<1>2. Project(r, shown, None)
  BY DEF MarkFailed
<1> HIDE DEF shown
<1> QED
  BY <1>1, <1>2, ProjectType

\* Every step keeps the types.
LEMMA TypeStep == TypeOK /\ [Next]_vars => TypeOK'
<1> SUFFICES ASSUME TypeOK, [Next]_vars PROVE TypeOK'
  OBVIOUS
<1> USE WorkerAssumption DEF runVars, workerVars
<1> DEFINE RestOK ==
      /\ status \in [Runs -> Statuses] /\ recovery \in [Runs -> BOOLEAN]
      /\ stage \in [Runs -> AllStages \cup {None}]
      /\ pc \in [Workers -> PCs] /\ open \in [Workers -> AllStages \cup {None}]
<1>1. ASSUME NEW w \in Workers, Create(w) PROVE RestOK' /\ ItemType'
  <2>1. ItemType'
    BY <1>1 DEF Create, CanStart, TypeOK, Columns, Phases, ItemType
  <2>2. RestOK'
    BY <1>1 DEF Create, TypeOK, Statuses, PCs, Active
  <2> QED
    BY <2>1, <2>2
<1>2. ASSUME NEW w \in Workers, Begin(w) PROVE RestOK' /\ ItemType'
  <2>1. ItemType'
    BY <1>2 DEF Begin, TypeOK, ItemType
  <2>2. RestOK'
    BY <1>2 DEF Begin, TypeOK, Statuses, PCs, Active
  <2> QED
    BY <2>1, <2>2
<1>3. ASSUME NEW w \in Workers, Resume(w) PROVE RestOK' /\ ItemType'
  <2>1. ItemType'
    BY <1>3 DEF Resume, TypeOK, ItemType
  <2>2. RestOK'
    BY <1>3 DEF Resume, TypeOK, Statuses, PCs, Active
  <2> QED
    BY <2>1, <2>2
<1>4. ASSUME NEW w \in Workers, Refuse(w) PROVE RestOK' /\ ItemType'
  <2>1. ItemType'
    BY <1>4, MarkFailedType DEF Refuse
  <2>2. RestOK'
    BY <1>4 DEF Refuse, MarkFailed, TypeOK, Statuses, PCs, Active
  <2> QED
    BY <2>1, <2>2
<1>5. ASSUME NEW w \in Workers, StageCompleted(w) PROVE RestOK' /\ ItemType'
  <2>1. ItemType'
    BY <1>5, ShownType, ProjectType DEF StageCompleted, TypeOK
  <2>2. RestOK'
    BY <1>5 DEF StageCompleted, TypeOK, Statuses, PCs, Active
  <2> QED
    BY <2>1, <2>2
<1>6. ASSUME NEW w \in Workers, RunFailed(w) PROVE RestOK' /\ ItemType'
  <2>1. ItemType'
    BY <1>6, ClearType DEF RunFailed
  <2>2. RestOK'
    BY <1>6 DEF RunFailed, TypeOK, Statuses, PCs, Active
  <2> QED
    BY <2>1, <2>2
<1>7. ASSUME NEW w \in Workers, RunBlocked(w) PROVE RestOK' /\ ItemType'
  <2>1. ItemType'
    BY <1>7, ClearType DEF RunBlocked
  <2>2. RestOK'
    BY <1>7 DEF RunBlocked, TypeOK, Statuses, PCs, Active
  <2> QED
    BY <2>1, <2>2
<1>8. ASSUME NEW w \in Workers, Throws(w) PROVE RestOK' /\ ItemType'
  <2>1. ItemType'
    <3>1. CASE open[w] = None
      BY <1>8, <3>1 DEF Throws, TypeOK, ItemType
    <3>2. CASE open[w] # None
      BY <1>8, <3>2, ShownType, ProjectType DEF Throws, TypeOK
    <3> QED
      BY <3>1, <3>2
  <2>2. RestOK'
    BY <1>8 DEF Throws, TypeOK, Statuses, PCs, Active
  <2> QED
    BY <2>1, <2>2
<1>9. ASSUME NEW w \in Workers, Catch(w) PROVE RestOK' /\ ItemType'
  <2>1. ItemType'
    BY <1>9 DEF Catch, TypeOK, ItemType
  <2>2. RestOK'
    BY <1>9 DEF Catch, TypeOK, Statuses, PCs, Active
  <2> QED
    BY <2>1, <2>2
<1>10. ASSUME NEW w \in Workers, FinishedFailed(w) PROVE RestOK' /\ ItemType'
  <2>1. ItemType'
    BY <1>10, ClearType DEF FinishedFailed
  <2>2. RestOK'
    BY <1>10 DEF FinishedFailed, TypeOK, Statuses, PCs, Active
  <2> QED
    BY <2>1, <2>2
<1>11. ASSUME NEW w \in Workers, Return(w) PROVE RestOK' /\ ItemType'
  <2>1. ItemType'
    BY <1>11 DEF Return, TypeOK, ItemType
  <2>2. RestOK'
    BY <1>11 DEF Return, TypeOK, Statuses, PCs, Active
  <2> QED
    BY <2>1, <2>2
<1>12. ASSUME NEW w \in Workers, FinishedCompleted(w) PROVE RestOK' /\ ItemType'
  <2>1. ItemType'
    <3> DEFINE s == IF item.stage = None THEN "documentation" ELSE item.stage
    <3>1. s \in AllStages
      BY DEF TypeOK, AllStages, Implementation
    <3>2. Shown(s, "completed") \in [column : Columns, phase : Phases]
      BY <3>1, ShownType
    <3>3. Project(run[w], Shown(s, "completed"), None)
      BY <1>12 DEF FinishedCompleted
    <3> HIDE DEF s
    <3> QED
      BY <3>2, <3>3, ProjectType
  <2>2. RestOK'
    BY <1>12 DEF FinishedCompleted, TypeOK, Statuses, PCs, Active
  <2> QED
    BY <2>1, <2>2
<1>13. ASSUME NEW w \in Workers, FatalBeat(w) PROVE RestOK' /\ ItemType'
  <2>1. ItemType'
    BY <1>13 DEF FatalBeat, TypeOK, ItemType
  <2>2. pc' \in [Workers -> PCs]
    BY <1>13 DEF FatalBeat, TypeOK, PCs, Active
  <2>3. status' \in [Runs -> Statuses] /\ recovery' \in [Runs -> BOOLEAN]
    BY <1>13 DEF FatalBeat, TypeOK, Statuses
  <2>4. RestOK'
    BY <1>13, <2>2, <2>3 DEF FatalBeat, TypeOK
  <2> QED
    BY <2>1, <2>4
<1>14. ASSUME NEW w \in Workers, Dies(w) PROVE RestOK' /\ ItemType'
  <2>1. ItemType'
    BY <1>14 DEF Dies, TypeOK, ItemType
  <2>2. RestOK'
    BY <1>14 DEF Dies, TypeOK, Statuses, PCs, Active
  <2> QED
    BY <2>1, <2>2
<1>15. ASSUME NEW r \in Runs, QueueResume(r) PROVE RestOK' /\ ItemType'
  <2>1. ItemType'
    BY <1>15 DEF QueueResume, TypeOK, ItemType
  <2>2. RestOK'
    BY <1>15 DEF QueueResume, TypeOK, Statuses, PCs, Active
  <2> QED
    BY <2>1, <2>2
<1>16. ASSUME NEW r \in Runs, Recover(r) PROVE RestOK' /\ ItemType'
  <2>1. ItemType'
    BY <1>16, MarkFailedType DEF Recover
  <2>2. RestOK'
    BY <1>16 DEF Recover, MarkFailed, TypeOK, Statuses, PCs, Active
  <2> QED
    BY <2>1, <2>2
<1>17. ASSUME NEW w \in Workers, NEW s \in StageKeys, StageStarted(w, s) PROVE RestOK' /\ ItemType'
  <2>0. s \in AllStages
    BY StageAssumption
  <2>1. ItemType'
    BY <1>17, <2>0, ShownType, ProjectType DEF StageStarted
  <2>2. RestOK'
    BY <1>17, <2>0 DEF StageStarted, TypeOK
  <2> QED
    BY <2>1, <2>2
<1>18. ASSUME Promote PROVE RestOK' /\ ItemType'
  BY <1>18 DEF Promote, TypeOK, ItemType, Columns, Phases
<1>19. CASE UNCHANGED vars
  BY <1>19 DEF vars, TypeOK
<1>20. CASE Next
  <2>1. RestOK' /\ ItemType'
    BY <1>20, <1>1, <1>2, <1>3, <1>4, <1>5, <1>6, <1>7, <1>8, <1>9, <1>10,
       <1>11, <1>12, <1>13, <1>14, <1>15, <1>16, <1>17, <1>18 DEF Next, Step, WorkerStep
  <2>2. outlived' \subseteq Runs
    BY <1>20 DEF Next, Outlives, TypeOK
  <2> QED
    BY <2>1, <2>2 DEF TypeOK, ItemType
<1> QED
  BY <1>19, <1>20

\* The types of the projection model hold in every reachable state.
THEOREM TypeCorrect == Spec => []TypeOK
<1>1. Init => TypeOK
  BY WorkerAssumption DEF Init, TypeOK, Statuses, PCs, Active, Columns, Phases
<1> QED
  BY <1>1, TypeStep, PTL DEF Spec

-----------------------------------------------------------------------------
(* The owner of the stage.                                                 *)

\* A worker that has not come to a failure itself has a live row, or one that
\* is known to have ended under it.
WorkersLive ==
    \A w \in Workers :
        pc[w] \in Active \ {"throwing", "failing"}
            => status[run[w]] \in Live \/ run[w] \in outlived

IInv == TypeOK /\ WorkersLive /\ StageHasOwner

\* A run that leaves the live ones by a projecting write takes the stage along,
\* or leaves it to a live sibling.
LEMMA LeavesClean ==
    ASSUME TypeOK, Next, StageHasOwner, NEW r \in Runs,
           \A other \in Runs \ {r} : status'[other] = status[other],
           \/ ClearStage(r)
           \/ \E shown : Project(r, shown, None)
    PROVE  StageHasOwner'
<1>1. CASE Alone(r)
  <2>1. item'.stage = None
    BY <1>1 DEF ClearStage, Project, TypeOK
  <2> QED
    BY <2>1 DEF StageHasOwner
<1>2. CASE ~Alone(r)
  <2>1. PICK other \in Runs \ {r} : status[other] \in Live
    BY <1>2 DEF Alone
  <2>2. status'[other] \in Live
    BY <2>1
  <2> QED
    BY <2>2 DEF StageHasOwner
<1> QED
  BY <1>1, <1>2

\* If the stage stays and every run that left the live or queued ones is known
\* to be outlived, the stage keeps an owner.
LEMMA StaysOwned ==
    ASSUME TypeOK, Next, StageHasOwner, item'.stage = item.stage,
           \A r \in Runs : status[r] \in Live \cup {"queued"}
                => status'[r] \in Live \cup {"queued"} \/ r \in outlived'
    PROVE  StageHasOwner'
<1>1. outlived \subseteq outlived'
  BY DEF Next, Outlives
<1> QED
  BY <1>1 DEF StageHasOwner

LEMMA OwnerStep == IInv /\ [Next]_vars => IInv'
<1> SUFFICES ASSUME IInv, [Next]_vars PROVE IInv'
  OBVIOUS
<1>0. TypeOK'
  BY TypeStep DEF IInv
<1>1. CASE UNCHANGED vars
  BY <1>1, <1>0 DEF vars, runVars, workerVars, IInv, WorkersLive, StageHasOwner
<1>2. CASE Next
  <2>1. WorkersLive'
    BY <1>0, <1>2, WorkerAssumption DEF Next, Outlives, WorkersLive, Live
  <2>2. StageHasOwner'
    <3> USE <1>2, WorkerAssumption DEF IInv, runVars, workerVars
    <3>1. ASSUME NEW w \in Workers, Create(w) PROVE StageHasOwner'
      <4>1. item'.stage = item.stage
        BY <3>1 DEF Create, TypeOK
      <4> QED
        BY <3>1, <4>1, StaysOwned DEF Create, TypeOK, Live
    <3>2. ASSUME NEW w \in Workers, Begin(w) PROVE StageHasOwner'
      <4>1. item'.stage = item.stage
        BY <3>2 DEF Begin, TypeOK
      <4> QED
        BY <3>2, <4>1, StaysOwned DEF Begin, TypeOK, Live
    <3>3. ASSUME NEW w \in Workers, Resume(w) PROVE StageHasOwner'
      <4>1. item'.stage = item.stage
        BY <3>3 DEF Resume, TypeOK
      <4> QED
        BY <3>3, <4>1, StaysOwned DEF Resume, TypeOK, Live
    <3>4. ASSUME NEW w \in Workers, Refuse(w) PROVE StageHasOwner'
      BY <3>4, LeavesClean DEF Refuse, MarkFailed, TypeOK
    <3>5. ASSUME NEW w \in Workers, StageCompleted(w) PROVE StageHasOwner'
      <4>1. item'.stage = item.stage
        BY <3>5 DEF StageCompleted, Project, TypeOK
      <4> QED
        BY <3>5, <4>1, StaysOwned DEF StageCompleted
    <3>6. ASSUME NEW w \in Workers, RunFailed(w) PROVE StageHasOwner'
      BY <3>6, LeavesClean DEF RunFailed, TypeOK
    <3>7. ASSUME NEW w \in Workers, RunBlocked(w) PROVE StageHasOwner'
      <4>1. status'[run[w]] \in Live
        BY <3>7 DEF RunBlocked, TypeOK, Live
      <4> QED
        BY <4>1 DEF StageHasOwner
    <3>8. ASSUME NEW w \in Workers, Throws(w) PROVE StageHasOwner'
      <4>1. item'.stage = item.stage
        BY <3>8 DEF Throws, Project, TypeOK
      <4> QED
        BY <3>8, <4>1, StaysOwned DEF Throws
    <3>9. ASSUME NEW w \in Workers, Catch(w) PROVE StageHasOwner'
      <4>1. item'.stage = item.stage
        BY <3>9 DEF Catch, TypeOK
      <4> QED
        BY <3>9, <4>1, StaysOwned DEF Catch, TypeOK, Live
    <3>10. ASSUME NEW w \in Workers, FinishedFailed(w) PROVE StageHasOwner'
      BY <3>10, LeavesClean DEF FinishedFailed, TypeOK
    <3>11. ASSUME NEW w \in Workers, Return(w) PROVE StageHasOwner'
      <4>1. item'.stage = item.stage
        BY <3>11 DEF Return, TypeOK
      <4> QED
        BY <3>11, <4>1, StaysOwned DEF Return, TypeOK, Live
    <3>12. ASSUME NEW w \in Workers, FinishedCompleted(w) PROVE StageHasOwner'
      BY <3>12, LeavesClean DEF FinishedCompleted, TypeOK
    <3>13. ASSUME NEW w \in Workers, FatalBeat(w) PROVE StageHasOwner'
      <4>1. pc'[w] \in Active \ {"throwing", "failing"}
        BY <3>13 DEF FatalBeat, TypeOK, Active
      <4>2. status'[run[w]] \in Live \/ run[w] \in outlived'
        BY <2>1, <4>1 DEF WorkersLive
      <4>3. item'.stage = item.stage
        BY <3>13 DEF FatalBeat
      <4>4. \A r \in Runs \ {run[w]} : status'[r] = status[r]
        BY <3>13 DEF FatalBeat, TypeOK
      <4> QED
        BY <4>2, <4>3, <4>4, StaysOwned
    <3>14. ASSUME NEW w \in Workers, Dies(w) PROVE StageHasOwner'
      <4>1. item'.stage = item.stage
        BY <3>14 DEF Dies, TypeOK
      <4> QED
        BY <3>14, <4>1, StaysOwned DEF Dies, TypeOK, Live
    <3>15. ASSUME NEW r \in Runs, QueueResume(r) PROVE StageHasOwner'
      <4>1. item'.stage = item.stage
        BY <3>15 DEF QueueResume, TypeOK
      <4> QED
        BY <3>15, <4>1, StaysOwned DEF QueueResume, TypeOK, Live
    <3>16. ASSUME NEW r \in Runs, Recover(r) PROVE StageHasOwner'
      BY <3>16, LeavesClean DEF Recover, MarkFailed, TypeOK
    <3>17. ASSUME NEW w \in Workers, NEW s \in StageKeys, StageStarted(w, s) PROVE StageHasOwner'
      <4>1. CASE Alone(run[w])
        <5>1. status[run[w]] \in Live \/ run[w] \in outlived
          BY <3>17 DEF StageStarted, WorkersLive, Active
        <5>2. status' = status /\ outlived \subseteq outlived'
          BY <3>17 DEF StageStarted, Next, Outlives
        <5> QED
          BY <5>1, <5>2 DEF StageHasOwner
      <4>2. CASE ~Alone(run[w])
        <5>1. item'.stage = item.stage
          BY <3>17, <4>2 DEF StageStarted, Project
        <5> QED
          BY <3>17, <5>1, StaysOwned DEF StageStarted
      <4> QED
        BY <4>1, <4>2
    <3>18. ASSUME Promote PROVE StageHasOwner'
      <4>1. item'.stage = item.stage
        BY <3>18 DEF Promote, TypeOK
      <4> QED
        BY <3>18, <4>1, StaysOwned DEF Promote
    <3> QED
      BY <1>2, <3>1, <3>2, <3>3, <3>4, <3>5, <3>6, <3>7, <3>8, <3>9,
         <3>10, <3>11, <3>12, <3>13, <3>14, <3>15, <3>16, <3>17, <3>18 DEF Next, Step, WorkerStep
  <2> QED
    BY <1>0, <2>1, <2>2 DEF IInv
<1> QED
  BY <1>1, <1>2

THEOREM Invariance == Spec => []IInv
<1>1. Init => IInv
  <2> SUFFICES ASSUME Init PROVE WorkersLive /\ StageHasOwner /\ TypeOK
    BY DEF IInv
  <2>1. TypeOK
    BY WorkerAssumption DEF Init, TypeOK, Statuses, PCs, Active, Columns, Phases
  <2>2. WorkersLive /\ StageHasOwner
    BY WorkerAssumption DEF Init, WorkersLive, StageHasOwner, Active
  <2> QED
    BY <2>1, <2>2
<1> QED
  BY <1>1, OwnerStep, PTL DEF Spec

\* The item keeps a stage only for a live or waiting run, or for one that was
\* ended from outside under its worker.
THEOREM StageOwned == Spec => []StageHasOwner
BY Invariance, PTL DEF IInv

-----------------------------------------------------------------------------
(* Side runs.                                                              *)

\* A run that writes to the item has no live sibling.
LEMMA WritesAlone ==
    ASSUME NEW r \in Runs, RunWrites(r), item' # item
    PROVE  Alone(r)
<1> USE WorkerAssumption DEF Project, ClearStage
<1>1. ASSUME Recover(r) PROVE Alone(r)
  BY <1>1 DEF Recover, MarkFailed
<1>2. ASSUME NEW w \in Workers, run[w] = r, Refuse(w) PROVE Alone(r)
  BY <1>2 DEF Refuse, MarkFailed
<1>3. ASSUME NEW w \in Workers, run[w] = r, WorkerStep(w) PROVE Alone(r)
  BY <1>3
  DEF WorkerStep, StageStarted, StageCompleted, RunFailed, RunBlocked, Throws,
      Catch, FinishedFailed, Return, FinishedCompleted
<1> QED
  BY <1>1, <1>2, <1>3 DEF RunWrites

\* Whatever events arrive and however late, no run but the only live one
\* changes what the board shows.
THEOREM SideRunsSilent == Spec => SideRunsKeepOut
<1>1. [Next]_vars =>
        [\A r \in Runs : RunWrites(r) /\ item' # item
            => \A other \in Runs \ {r} : status[other] \notin Live]_vars
  BY WritesAlone DEF Alone
<1> QED
  BY <1>1, PTL DEF Spec, SideRunsKeepOut

-----------------------------------------------------------------------------
(* The merge gate: types.                                                  *)

RowStates == Blocked \cup {"running", "lost", "failed", "completed"}

GateWorkers ==
    [pc : {"off", "start", "opening", "waiting", "answered", "merging", "migrating", "ending"},
     pipe : BOOLEAN, shot : Exact \cup {"none"},
     answer : {"none", "promote", "refused"}, skip : BOOLEAN]

\* Every opening of a gate leaves one row at most.
RowsCounted ==
    \A r \in GateRuns :
        rows[r].stale + (IF rows[r].own THEN 1 ELSE 0)
                      + (IF worker[r].pc \in {"start", "opening"} THEN 1 ELSE 0) <= starts[r]

\* What the rows of the runs, their workers and their prompts keep among themselves.
RunsInv ==
    /\ row \in [GateRuns -> RowStates]
    /\ worker \in [GateRuns -> GateWorkers]
    /\ rows \in [GateRuns -> [own : BOOLEAN, stale : 0..MaxStarts]]
    /\ starts \in [GateRuns -> 1..MaxStarts]
    /\ RowsCounted
    /\ WayOut

GateTypeInv == GateTypeOK /\ RowsCounted /\ WayOut

LEMMA OffType ==
    /\ Off \in GateWorkers /\ Off.pc = "off"
    /\ \A to \in {"start", "opening", "waiting", "answered", "merging", "migrating", "ending"} :
           [Off EXCEPT !.pc = to] \in GateWorkers
BY DEF Off, GateWorkers, Exact

LEMMA TypeIsRuns == GateTypeInv => RunsInv
BY DEF GateTypeInv, GateTypeOK, RunsInv, RowStates, GateWorkers

\* A worker ends, and its row says why.
LEMMA StopKeeps ==
    ASSUME RunsInv, NEW r \in GateRuns, NEW st \in RowStates \ {"running"},
           Stop(r, st), UNCHANGED <<rows, starts>>
    PROVE  RunsInv'
<1> USE DEF RunsInv, Stop
<1>1. row' \in [GateRuns -> RowStates] /\ worker' \in [GateRuns -> GateWorkers]
  BY OffType
<1>2. RowsCounted'
  BY OffType DEF RowsCounted
<1>3. WayOut'
  BY OffType DEF WayOut, HasOpenPrompt, Actionable, Unanswered, Resumable, OpenPromptRefuses, RowStates
<1> QED
  BY <1>1, <1>2, <1>3

\* A worker goes on.
LEMMA MovesKeeps ==
    ASSUME RunsInv, NEW r \in GateRuns, NEW w \in GateWorkers,
           worker[r].pc # "off", w.pc \notin {"off", "waiting"},
           w.pc = "opening" => worker[r].pc \in {"start", "opening"}, w.pc # "start",
           worker' = [worker EXCEPT ![r] = w], UNCHANGED <<row, rows, starts>>
    PROVE  RunsInv'
<1> USE DEF RunsInv
<1>1. worker' \in [GateRuns -> GateWorkers]
  OBVIOUS
<1>2. RowsCounted'
  BY DEF RowsCounted, GateWorkers
<1>3. WayOut'
  BY DEF WayOut, HasOpenPrompt, Actionable, Unanswered, Resumable, OpenPromptRefuses, RowStates
<1> QED
  BY <1>1, <1>2, <1>3

\* The opening of a gate, with the row that it leaves.
LEMMA OpenKeeps ==
    ASSUME RunsInv, NEW r \in GateRuns, NEW w \in GateWorkers, NEW asked \in BOOLEAN,
           worker[r].pc = "opening", w.pc \in {"waiting", "answered"},
           w.pc = "waiting" => asked,
           worker' = [worker EXCEPT ![r] = w], AddRow(r, asked), UNCHANGED <<row, starts>>
    PROVE  RunsInv'
<1> USE DEF RunsInv
<1>1. worker' \in [GateRuns -> GateWorkers]
  OBVIOUS
<1>2. /\ rows[r].stale \in Nat /\ starts[r] \in Nat /\ starts[r] <= MaxStarts
      /\ rows[r].stale + (IF rows[r].own THEN 1 ELSE 0) + 1 <= starts[r]
  BY BoundAssumption DEF RowsCounted
<1>3. rows'[r] = [own |-> asked, stale |-> rows[r].stale + IF rows[r].own THEN 1 ELSE 0]
  BY DEF AddRow
<1>4. rows' \in [GateRuns -> [own : BOOLEAN, stale : 0..MaxStarts]]
  BY <1>2, BoundAssumption DEF AddRow
<1>5. RowsCounted'
  <2> SUFFICES ASSUME NEW q \in GateRuns
               PROVE (rows[q].stale + (IF rows[q].own THEN 1 ELSE 0)
                      + (IF worker[q].pc \in {"start", "opening"} THEN 1 ELSE 0) <= starts[q])'
    BY DEF RowsCounted
  <2>1. CASE q = r
    BY <2>1, <1>2, <1>3 DEF GateWorkers
  <2>2. CASE q # r
    BY <2>2 DEF RowsCounted, AddRow
  <2> QED
    BY <2>1, <2>2
<1>6. WayOut'
  BY <1>3 DEF WayOut, HasOpenPrompt, Actionable, Unanswered, Resumable, OpenPromptRefuses,
              RowStates, AddRow
<1> QED
  BY <1>1, <1>4, <1>5, <1>6

\* An answer takes one row away.
LEMMA AnswerRow ==
    ASSUME rows \in [GateRuns -> [own : BOOLEAN, stale : 0..MaxStarts]],
           NEW r \in GateRuns, Unanswered(r), AnswerNewest(r)
    PROVE  /\ rows' \in [GateRuns -> [own : BOOLEAN, stale : 0..MaxStarts]]
           /\ rows'[r].own = FALSE
           /\ \A q \in GateRuns \ {r} : rows'[q] = rows[q]
           /\ rows'[r].stale + (IF rows'[r].own THEN 1 ELSE 0)
                  <= rows[r].stale + (IF rows[r].own THEN 1 ELSE 0)
<1> USE BoundAssumption
<1>1. rows[r] \in [own : BOOLEAN, stale : 0..MaxStarts]
  OBVIOUS
<1>2. CASE rows[r].own
  <2> DEFINE x == [rows[r] EXCEPT !.own = FALSE]
  <2>1. x \in [own : BOOLEAN, stale : 0..MaxStarts] /\ x.own = FALSE /\ x.stale = rows[r].stale
    BY <1>1
  <2>2. rows' = [rows EXCEPT ![r] = x]
    BY <1>2 DEF AnswerNewest
  <2> HIDE DEF x
  <2> QED
    BY <1>1, <1>2, <2>1, <2>2
<1>3. CASE ~rows[r].own
  <2> DEFINE x == [rows[r] EXCEPT !.stale = @ - 1]
  <2>1. /\ x \in [own : BOOLEAN, stale : 0..MaxStarts] /\ x.own = FALSE
        /\ x.stale = rows[r].stale - 1
    BY <1>1, <1>3 DEF Unanswered
  <2>2. rows' = [rows EXCEPT ![r] = x]
    BY <1>3 DEF AnswerNewest
  <2> HIDE DEF x
  <2> QED
    BY <1>1, <1>3, <2>1, <2>2
<1> QED
  BY <1>2, <1>3

\* An answer takes one of the rows away.
LEMMA AnswerKeeps ==
    ASSUME RunsInv, NEW r \in GateRuns, Unanswered(r), AnswerNewest(r),
           NEW w \in GateWorkers,
           \/ w = worker[r] /\ w.pc # "waiting"
           \/ worker[r].pc = "waiting" /\ w.pc = "answered",
           worker' = [worker EXCEPT ![r] = w], UNCHANGED <<row, starts>>
    PROVE  RunsInv'
<1> USE DEF RunsInv
<1>1. worker' \in [GateRuns -> GateWorkers]
  OBVIOUS
<1>2. /\ rows'[r].own = FALSE
      /\ rows'[r].stale \in 0..MaxStarts
      /\ rows'[r].stale + (IF rows'[r].own THEN 1 ELSE 0)
             <= rows[r].stale + (IF rows[r].own THEN 1 ELSE 0)
  BY AnswerRow
<1>3. rows' \in [GateRuns -> [own : BOOLEAN, stale : 0..MaxStarts]]
  BY AnswerRow
<1>4. RowsCounted'
  <2> SUFFICES ASSUME NEW q \in GateRuns
               PROVE (rows[q].stale + (IF rows[q].own THEN 1 ELSE 0)
                      + (IF worker[q].pc \in {"start", "opening"} THEN 1 ELSE 0) <= starts[q])'
    BY DEF RowsCounted
  <2>1. CASE q = r
    BY <2>1, <1>2, BoundAssumption DEF GateWorkers, RowsCounted
  <2>2. CASE q # r
    BY <2>2, AnswerRow DEF RowsCounted
  <2> QED
    BY <2>1, <2>2
<1>5. WayOut'
  BY <1>2, AnswerRow DEF WayOut, HasOpenPrompt, Actionable, Unanswered, Resumable, OpenPromptRefuses,
              RowStates
<1> QED
  BY <1>1, <1>3, <1>4, <1>5

\* A start of the workflow, after an answer or without one.
LEMMA StartsKeeps ==
    ASSUME RunsInv, NEW r \in GateRuns, NEW pipe \in BOOLEAN,
           NEW shot \in Exact \cup {"none"}, NEW skip \in BOOLEAN,
           row[r] # "running", Starts(r, pipe, shot, skip),
           UNCHANGED rows \/ (Unanswered(r) /\ AnswerNewest(r))
    PROVE  RunsInv'
<1> USE DEF RunsInv
<1>1. worker' \in [GateRuns -> GateWorkers] /\ row' \in [GateRuns -> RowStates]
  BY DEF Starts, Off, GateWorkers, RowStates
<1>2. starts' \in [GateRuns -> 1..MaxStarts] /\ starts'[r] = starts[r] + 1
  BY BoundAssumption DEF Starts
<1>3. /\ rows'[r].own \in BOOLEAN /\ rows[r].own \in BOOLEAN
      /\ rows'[r].stale \in 0..MaxStarts /\ rows[r].stale \in 0..MaxStarts
      /\ rows'[r].stale + (IF rows'[r].own THEN 1 ELSE 0)
             <= rows[r].stale + (IF rows[r].own THEN 1 ELSE 0)
  <2>1. rows[r] \in [own : BOOLEAN, stale : 0..MaxStarts]
    OBVIOUS
  <2>2. CASE UNCHANGED rows
    BY <2>1, <2>2, BoundAssumption
  <2>3. CASE Unanswered(r) /\ AnswerNewest(r)
    BY <2>1, <2>3, AnswerRow, BoundAssumption
  <2> QED
    BY <2>2, <2>3
<1>4. rows' \in [GateRuns -> [own : BOOLEAN, stale : 0..MaxStarts]]
  BY AnswerRow
<1>5. worker[r].pc = "off" /\ worker'[r].pc = "start" /\ row'[r] = "running"
  BY DEF Starts, WayOut, Off
<1>6. RowsCounted'
  <2> SUFFICES ASSUME NEW q \in GateRuns
               PROVE (rows[q].stale + (IF rows[q].own THEN 1 ELSE 0)
                      + (IF worker[q].pc \in {"start", "opening"} THEN 1 ELSE 0) <= starts[q])'
    BY DEF RowsCounted
  <2>1. CASE q = r
    <3>1. rows[r].stale + (IF rows[r].own THEN 1 ELSE 0) <= starts[r]
      BY <1>3, <1>5 DEF RowsCounted
    <3> QED
      BY <2>1, <3>1, <1>2, <1>3, <1>5
  <2>2. CASE q # r
    BY <2>2, AnswerRow DEF RowsCounted, Starts
  <2> QED
    BY <2>1, <2>2
<1>7. WayOut'
  BY <1>5, AnswerRow DEF WayOut, HasOpenPrompt, Actionable, Unanswered, Resumable, OpenPromptRefuses,
              RowStates, Starts
<1> QED
  BY <1>1, <1>2, <1>4, <1>6, <1>7

LEMMA RunsStand == ASSUME RunsInv, UNCHANGED <<row, worker, rows, starts>> PROVE RunsInv'
<1>1. RowsCounted'
  BY DEF RunsInv, RowsCounted
<1>2. WayOut'
  BY DEF RunsInv, WayOut, HasOpenPrompt, Actionable, Unanswered, Resumable, OpenPromptRefuses
<1> QED
  BY <1>1, <1>2 DEF RunsInv

\* What is not the affair of the runs' rows.
RestType ==
    /\ ws \in Workspaces
    /\ root \in [state : {"clean", "conflicted", "staged", "loose"}, of : SUBSET GateRuns]
    /\ base \in SUBSET GateRuns /\ head \in Nat /\ recorded \in [GateRuns -> Nat]
    /\ retained \in SUBSET GateRuns /\ prod \in SUBSET GateRuns /\ decided \in SUBSET GateRuns
    /\ hands \in 0..MaxHands /\ crashes \in 0..MaxCrashes

LEMMA GateTypeParts == GateTypeInv <=> RunsInv /\ RestType
BY DEF GateTypeInv, GateTypeOK, RunsInv, RestType, RowStates, GateWorkers

LEMMA MovedOn ==
    ASSUME RunsInv, NEW r \in GateRuns, worker[r].pc # "off",
           NEW to \in {"merging", "migrating", "ending"},
           GoOn(r, to), UNCHANGED <<rows, starts>>
    PROVE  RunsInv'
<1>1. [Off EXCEPT !.pc = to] \in GateWorkers /\ [Off EXCEPT !.pc = to].pc = to
  BY OffType DEF Off
<1> QED
  BY <1>1, MovesKeeps DEF GoOn

\* The steps of the gate keep the types.
LEMMA GateStepType ==
    ASSUME RunsInv, RestType, NEW r \in GateRuns,
           \/ WorkflowStarts(r) \/ GateOpens(r) \/ AnswerIsRead(r) \/ GateRefuses(r)
           \/ MergeSucceeds(r) \/ MergeConflicts(r) \/ MergeIsRefused(r)
           \/ Migrates(r) \/ Completes(r) \/ WorkerIsLost(r)
    PROVE  RunsInv' /\ RestType'
<1> USE DEF ByEngine
<1>1. CASE WorkflowStarts(r)
  <2>1. RestType'
    BY <1>1 DEF WorkflowStarts, RestType
  <2>2. CASE Stop(r, "workspace")
    BY <1>1, <2>1, <2>2, StopKeeps DEF WorkflowStarts, RowStates, Blocked
  <2>3. CASE worker' = [worker EXCEPT ![r].pc = IF worker[r].skip THEN "ending" ELSE "opening"]
             /\ UNCHANGED row
    <3> DEFINE w == [worker[r] EXCEPT !.pc = IF worker[r].skip THEN "ending" ELSE "opening"]
    <3>1. w \in GateWorkers /\ w.pc \in {"ending", "opening"}
      BY DEF RunsInv, GateWorkers
    <3>2. worker' = [worker EXCEPT ![r] = w]
      BY <2>3
    <3> HIDE DEF w
    <3> QED
      BY <1>1, <2>1, <2>3, <3>1, <3>2, MovesKeeps DEF WorkflowStarts
  <2> QED
    BY <1>1, <2>2, <2>3 DEF WorkflowStarts
<1>2. CASE GateOpens(r)
  <2>1. RestType'
    BY <1>2 DEF GateOpens, Decides, RestType
  <2>2. CASE Stop(r, "workspace") /\ UNCHANGED rows
    BY <1>2, <2>1, <2>2, StopKeeps DEF GateOpens, RowStates, Blocked
  <2>3. ASSUME NEW asked \in BOOLEAN, NEW answer, Gets(r, answer), AddRow(r, asked) PROVE RunsInv'
    <3> DEFINE w == [Off EXCEPT !.pc = "answered",
                                !.answer = IF answer \in Yes THEN "promote" ELSE "refused"]
    <3>1. w \in GateWorkers /\ w.pc = "answered"
      BY DEF Off, GateWorkers, Exact
    <3>2. worker' = [worker EXCEPT ![r] = w] /\ UNCHANGED row
      BY <2>3 DEF Gets
    <3> HIDE DEF w
    <3> QED
      BY <1>2, <2>3, <3>1, <3>2, OpenKeeps DEF GateOpens
  <2>4. CASE GoOn(r, "waiting") /\ AddRow(r, TRUE)
    <3>1. [Off EXCEPT !.pc = "waiting"] \in GateWorkers /\ [Off EXCEPT !.pc = "waiting"].pc = "waiting"
      BY OffType DEF Off
    <3> QED
      BY <1>2, <2>1, <2>4, <3>1, OpenKeeps DEF GateOpens, GoOn
  <2> QED
    BY <1>2, <2>1, <2>2, <2>3, <2>4 DEF GateOpens
<1>3. CASE AnswerIsRead(r)
  BY <1>3, MovedOn, StopKeeps DEF AnswerIsRead, RestType, RowStates, Blocked
<1>4. CASE GateRefuses(r)
  BY <1>4, StopKeeps DEF GateRefuses, RestType, RowStates, Blocked
<1>5. CASE MergeSucceeds(r)
  <2>1. RestType'
    BY <1>5 DEF MergeSucceeds, CheckOut, CheckedOut, RestType
  <2> QED
    BY <1>5, <2>1, MovedOn DEF MergeSucceeds, MayMerge
<1>6. CASE MergeConflicts(r)
  <2>1. RestType'
    BY <1>6 DEF MergeConflicts, RestType
  <2> QED
    BY <1>6, <2>1, StopKeeps DEF MergeConflicts, RowStates, Blocked
<1>7. CASE MergeIsRefused(r)
  <2>1. RestType'
    BY <1>7 DEF MergeIsRefused, CheckOut, CheckedOut, RestType
  <2> QED
    BY <1>7, <2>1, StopKeeps DEF MergeIsRefused, RowStates, Blocked
<1>8. CASE Migrates(r)
  BY <1>8, MovedOn, StopKeeps DEF Migrates, RestType, RowStates, Blocked
<1>9. CASE Completes(r)
  BY <1>9, StopKeeps DEF Completes, RestType, RowStates
<1>10. CASE WorkerIsLost(r)
  BY <1>10, StopKeeps, BoundAssumption DEF WorkerIsLost, RestType, RowStates
<1> QED
  BY <1>1, <1>2, <1>3, <1>4, <1>5, <1>6, <1>7, <1>8, <1>9, <1>10

\* The steps of the operator keep the types.
LEMMA OperatorType ==
    ASSUME RunsInv, RestType, NEW r \in GateRuns,
           \/ Answer(r) \/ AnswerStale(r) \/ AnswerBlocked(r)
           \/ ResumeGate(r) \/ PromoteToBase(r) \/ Confirm(r) \/ MergeByHand(r)
    PROVE  RunsInv' /\ RestType'
<1> USE DEF ByOperator
<1>1. CASE Answer(r)
  <2>1. RestType'
    BY <1>1 DEF Answer, Decides, RestType
  <2>2. Unanswered(r)
    BY <1>1 DEF Answer, RunsInv, WayOut, HasOpenPrompt
  <2>3. PICK a \in Answers : Gets(r, a)
    BY <1>1 DEF Answer
  <2> DEFINE w == [Off EXCEPT !.pc = "answered",
                              !.answer = IF a \in Yes THEN "promote" ELSE "refused"]
  <2>4. w \in GateWorkers /\ w.pc = "answered"
    BY DEF Off, GateWorkers, Exact
  <2>5. worker' = [worker EXCEPT ![r] = w] /\ UNCHANGED row
    BY <2>3 DEF Gets
  <2> HIDE DEF w
  <2> QED
    BY <1>1, <2>1, <2>2, <2>4, <2>5, AnswerKeeps DEF Answer
<1>2. CASE AnswerStale(r)
  <2>1. RestType'
    BY <1>2 DEF AnswerStale, Decides, RestType
  <2>2. worker' = [worker EXCEPT ![r] = worker[r]] /\ worker[r] \in GateWorkers
    BY <1>2 DEF AnswerStale, RunsInv
  <2> QED
    BY <1>2, <2>1, <2>2, AnswerKeeps DEF AnswerStale, HasOpenPrompt
<1>3. CASE AnswerBlocked(r)
  <2>1. RestType'
    BY <1>3 DEF AnswerBlocked, Decides, RestType
  <2>2. Unanswered(r) /\ AnswerNewest(r) /\ row[r] # "running" /\ worker[r].pc # "waiting"
    BY <1>3 DEF AnswerBlocked, HasOpenPrompt, RunsInv, WayOut
  <2>3. CASE UNCHANGED <<row, worker, starts>>
    <3>1. worker' = [worker EXCEPT ![r] = worker[r]] /\ worker[r] \in GateWorkers
      BY <2>3 DEF RunsInv
    <3> QED
      BY <2>1, <2>2, <2>3, <3>1, AnswerKeeps
  <2>4. ASSUME NEW pipe \in BOOLEAN, NEW shot \in Exact \cup {"none"}, Starts(r, pipe, shot, FALSE)
        PROVE  RunsInv'
    BY <2>2, <2>4, StartsKeeps
  <2> QED
    BY <1>3, <2>1, <2>3, <2>4 DEF AnswerBlocked, Shot
<1>4. CASE ResumeGate(r)
  BY <1>4, StartsKeeps DEF ResumeGate, Resumable, Blocked, RestType
<1>5. CASE PromoteToBase(r)
  <2>1. RestType'
    BY <1>5 DEF PromoteToBase, Decides, RestType
  <2> QED
    BY <1>5, <2>1, StartsKeeps DEF PromoteToBase, Exact
<1>6. CASE Confirm(r)
  BY <1>6, StartsKeeps DEF Confirm, RestType
<1>7. CASE MergeByHand(r)
  <2>1. RunsInv'
    BY <1>7, RunsStand DEF MergeByHand, ByHand
  <2>2. RestType'
    BY <1>7, BoundAssumption DEF MergeByHand, ByHand, RestType
  <2> QED
    BY <2>1, <2>2
<1> QED
  BY <1>1, <1>2, <1>3, <1>4, <1>5, <1>6, <1>7

LEMMA GateTypeStep ==
    ASSUME RunsInv, RestType, [GateNext]_gateVars
    PROVE  RunsInv' /\ RestType'
<1>1. CASE StageByHand \/ CommitByHand \/ GiveUpByHand \/ UNCHANGED gateVars
  <2>1. UNCHANGED <<row, worker, rows, starts>>
    BY <1>1 DEF StageByHand, CommitByHand, GiveUpByHand, ByHand, gateVars
  <2>2. RunsInv'
    BY <2>1, RunsStand
  <2>3. RestType'
    <3>1. CASE StageByHand
      BY <3>1 DEF StageByHand, ByHand, RestType
    <3>2. CASE CommitByHand
      BY <3>2 DEF CommitByHand, ByHand, RestType, Clean
    <3>3. CASE GiveUpByHand
      BY <3>3 DEF GiveUpByHand, ByHand, RestType, Clean
    <3> QED
      BY <1>1, <3>1, <3>2, <3>3 DEF gateVars, RestType
  <2> QED
    BY <2>2, <2>3
<1> QED
  BY <1>1, GateStepType, OperatorType DEF GateNext

LEMMA GateBegins ==
    ASSUME GateInit
    PROVE  /\ worker \in [GateRuns -> GateWorkers]
           /\ \A r \in GateRuns : /\ worker[r].pc = "opening" /\ worker[r].shot = "none"
                                 /\ worker[r].answer = "none" /\ worker[r].skip = FALSE
<1> DEFINE Opening(pipe) == [Off EXCEPT !.pc = "opening", !.pipe = pipe]
<1>1. ASSUME NEW pipe \in BOOLEAN
      PROVE  /\ Opening(pipe) \in GateWorkers
             /\ Opening(pipe).pc = "opening" /\ Opening(pipe).shot = "none"
             /\ Opening(pipe).answer = "none" /\ Opening(pipe).skip = FALSE
  BY DEF GateWorkers, Off, Exact
<1>2. PICK pipes \in SUBSET GateRuns : worker = [r \in GateRuns |-> Opening(r \in pipes)]
  BY DEF GateInit
<1>3. \A r \in GateRuns : (r \in pipes) \in BOOLEAN
  OBVIOUS
<1> HIDE DEF Opening
<1> QED
  BY <1>1, <1>2, <1>3, Zenon

LEMMA GateTypes == GateSpec => [](GateTypeInv /\ RunsInv)
<1>1. GateInit => RunsInv /\ RestType
  <2> SUFFICES ASSUME GateInit PROVE RunsInv /\ RestType
    OBVIOUS
  <2>1. RestType
    <3>1. root \in [state : {"clean", "conflicted", "staged", "loose"}, of : SUBSET GateRuns]
      BY DEF GateInit, Clean
    <3>2. hands \in 0..MaxHands /\ crashes \in 0..MaxCrashes
      <4>1. hands = 0 /\ crashes = 0
        BY DEF GateInit
      <4> QED
        BY <4>1, BoundAssumption
    <3>3. recorded \in [GateRuns -> Nat]
      BY DEF GateInit
    <3>4. /\ ws \in Workspaces /\ base = {} /\ head = 0
          /\ retained = {} /\ prod = {} /\ decided = {}
      BY DEF GateInit
    <3> QED
      BY <3>1, <3>2, <3>3, <3>4 DEF RestType
  <2>2. RunsInv
    <3>2. /\ row = [r \in GateRuns |-> "running"]
          /\ rows = [r \in GateRuns |-> [own |-> FALSE, stale |-> 0]]
          /\ starts = [r \in GateRuns |-> 1]
      BY DEF GateInit
    <3>3. worker \in [GateRuns -> GateWorkers] /\ \A r \in GateRuns : worker[r].pc = "opening"
      BY GateBegins
    <3>4. /\ row \in [GateRuns -> RowStates] /\ starts \in [GateRuns -> 1..MaxStarts]
          /\ rows \in [GateRuns -> [own : BOOLEAN, stale : 0..MaxStarts]]
      BY <3>2, BoundAssumption DEF RowStates
    <3>5. RowsCounted
      BY <3>2 DEF RowsCounted
    <3>6. WayOut
      BY <3>2, <3>3 DEF WayOut, Blocked
    <3> QED
      BY <3>3, <3>4, <3>5, <3>6 DEF RunsInv
  <2> QED
    BY <2>1, <2>2
<1>2. RunsInv /\ RestType /\ [GateNext]_gateVars => RunsInv' /\ RestType'
  BY GateTypeStep
<1> QED
  BY <1>1, <1>2, GateTypeParts, PTL DEF GateSpec

\* The types of the merge gate hold in every reachable state.
THEOREM GateTypeCorrect == GateSpec => []GateTypeOK
BY GateTypes, PTL DEF GateTypeInv

\* No run of the gate hangs: its prompt can be answered, it can be resumed, or its worker
\* is there, and a worker that waits has an open prompt of its own.
THEOREM GateHasWayOut == GateSpec => []WayOut
BY GateTypes, PTL DEF GateTypeInv

-----------------------------------------------------------------------------
(* The merge gate: what reaches the base branch and production.            *)

Wanted == decided \cup {r \in GateRuns : AutoPromotes(r)}

\* A worker that is about to merge, or that brings a promotion along, was asked to.
AskedTo(r) ==
    /\ worker[r].shot = "promote" => r \in decided
    /\ worker[r].answer = "promote" \/ worker[r].pc = "merging" => r \in Wanted

\* What a worker has reached where production is protected: its merge before the
\* migration, the migration before the end. Only a gate outside a branching workspace
\* stops at a conflict, so only its end is resumed past the merge.
Reached(r) ==
    /\ worker[r].pc = "migrating" => r \in base
    /\ worker[r].pc = "ending" /\ ws.branching /\ ws.protect => r \in prod
    /\ row[r] = "conflict" \/ worker[r].skip => ~ws.branching

FateInv ==
    /\ PromotedByDecision
    /\ root.of \subseteq decided
    /\ ProductionInStep
    /\ RetainsRecovery
    /\ \A r \in GateRuns : AskedTo(r) /\ Reached(r)

Protected == ws.branching /\ ws.protect

\* A step of one run keeps the invariant when its worker and its row do.
LEMMA AtOneRun ==
    ASSUME RunsInv, FateInv, NEW r \in GateRuns, NEW w, NEW st,
           worker' = [worker EXCEPT ![r] = w], row' = [row EXCEPT ![r] = st],
           ws' = ws, decided \subseteq decided', root'.of \subseteq decided',
           base \subseteq base', base' \subseteq base \cup (Wanted \cap {r}),
           prod \subseteq prod', prod' \subseteq base',
           w.shot = "promote" => r \in decided',
           w.answer = "promote" \/ w.pc = "merging" => r \in Wanted',
           w.pc = "migrating" => r \in base',
           (w.pc = "ending" \/ st = "completed") /\ Protected => r \in prod',
           st = "conflict" \/ w.skip => ~ws.branching,
           st = "failed" => ws.branching
    PROVE  FateInv'
<1> USE DEF FateInv, RunsInv
<1>1. worker'[r] = w /\ row'[r] = st
  OBVIOUS
<1>2. \A q \in GateRuns \ {r} : worker'[q] = worker[q] /\ row'[q] = row[q]
  OBVIOUS
<1>3. Wanted \subseteq Wanted'
  BY DEF Wanted, AutoPromotes
<1>4. PromotedByDecision'
  BY <1>3 DEF PromotedByDecision, Wanted
<1>5. ProductionInStep'
  BY <1>1, <1>2 DEF ProductionInStep, Protected
<1>6. RetainsRecovery'
  BY <1>1, <1>2 DEF RetainsRecovery
<1>7. ASSUME NEW q \in GateRuns PROVE AskedTo(q)' /\ Reached(q)'
  <2>1. CASE q = r
    BY <2>1, <1>1 DEF AskedTo, Reached, Protected
  <2>2. CASE q # r
    BY <2>2, <1>2, <1>3 DEF AskedTo, Reached
  <2> QED
    BY <2>1, <2>2
<1> QED
  BY <1>4, <1>5, <1>6, <1>7

\* A worker stops, or goes on and answers nothing.
LEMMA AfterStop ==
    ASSUME RunsInv, FateInv, NEW r \in GateRuns, NEW st, Stop(r, st),
           UNCHANGED <<ws, base, prod, decided>>, root'.of = root.of,
           st = "conflict" => ~ws.branching, st = "failed" => ws.branching,
           st = "completed" /\ Protected => r \in prod
    PROVE  FateInv'
BY AtOneRun DEF Stop, Off, FateInv, ProductionInStep

LEMMA AfterGoOn ==
    ASSUME RunsInv, FateInv, NEW r \in GateRuns,
           NEW to \in {"waiting", "merging", "migrating", "ending"}, GoOn(r, to),
           UNCHANGED <<ws, decided>>, root'.of = root.of,
           worker[r].pc # "off",
           base \subseteq base', base' \subseteq base \cup (Wanted \cap {r}),
           prod \subseteq prod', prod' \subseteq base',
           to = "merging" => r \in Wanted, to = "migrating" => r \in base',
           to = "ending" /\ Protected => r \in prod'
    PROVE  FateInv'
<1> DEFINE w == [Off EXCEPT !.pc = to]
<1>1. w.pc = to /\ w.shot = "none" /\ w.answer = "none" /\ w.skip = FALSE
  BY DEF Off
<1>2. worker' = [worker EXCEPT ![r] = w] /\ row' = [row EXCEPT ![r] = "running"]
  BY DEF GoOn, RunsInv, WayOut
<1>3. Wanted' = Wanted
  BY DEF Wanted, AutoPromotes
<1> HIDE DEF w
<1> QED
  BY <1>1, <1>2, <1>3, AtOneRun DEF FateInv

LEMMA AfterGets ==
    ASSUME RunsInv, FateInv, NEW r \in GateRuns, NEW answer, Gets(r, answer),
           UNCHANGED <<ws, root, base, prod>>, decided \subseteq decided',
           worker[r].pc # "off",
           answer \in Yes => r \in Wanted'
    PROVE  FateInv'
<1> DEFINE w == [Off EXCEPT !.pc = "answered",
                            !.answer = IF answer \in Yes THEN "promote" ELSE "refused"]
<1>1. /\ w.pc = "answered" /\ w.shot = "none" /\ w.skip = FALSE
      /\ w.answer = "promote" => answer \in Yes
  BY DEF Off
<1>2. worker' = [worker EXCEPT ![r] = w] /\ row' = [row EXCEPT ![r] = "running"]
  BY DEF Gets, RunsInv, WayOut
<1> HIDE DEF w
<1> QED
  BY <1>1, <1>2, AtOneRun DEF FateInv, ProductionInStep

LEMMA AfterStart ==
    ASSUME RunsInv, FateInv, NEW r \in GateRuns, NEW pipe, NEW shot, NEW skip,
           Starts(r, pipe, shot, skip),
           UNCHANGED <<ws, root, base, prod>>, decided \subseteq decided',
           shot = "promote" => r \in decided', skip => ~ws.branching
    PROVE  FateInv'
<1> DEFINE w == [Off EXCEPT !.pc = "start", !.pipe = pipe, !.shot = shot, !.skip = skip]
<1>1. w.pc = "start" /\ w.shot = shot /\ w.answer = "none" /\ w.skip = skip
  BY DEF Off
<1>2. worker' = [worker EXCEPT ![r] = w] /\ row' = [row EXCEPT ![r] = "running"]
  BY DEF Starts
<1> HIDE DEF w
<1> QED
  BY <1>1, <1>2, AtOneRun DEF FateInv, ProductionInStep

LEMMA CheckOutKeeps == ASSUME RestType, CheckOut PROVE root'.of = root.of
BY DEF RestType, CheckOut, CheckedOut

\* The steps of the gate.
LEMMA GateStepFate ==
    ASSUME RunsInv, RestType, FateInv, NEW r \in GateRuns,
           \/ WorkflowStarts(r) \/ GateOpens(r) \/ AnswerIsRead(r) \/ GateRefuses(r)
           \/ MergeSucceeds(r) \/ MergeConflicts(r) \/ MergeIsRefused(r)
           \/ Migrates(r) \/ Completes(r) \/ WorkerIsLost(r)
    PROVE  FateInv'
<1> USE DEF ByEngine
<1>0. AskedTo(r) /\ Reached(r)
  BY DEF FateInv
<1>1. CASE WorkflowStarts(r)
  <2>1. CASE Stop(r, "workspace")
    BY <1>1, <2>1, AfterStop DEF WorkflowStarts
  <2>2. CASE worker' = [worker EXCEPT ![r].pc = IF worker[r].skip THEN "ending" ELSE "opening"]
             /\ UNCHANGED row
    <3> DEFINE w == [worker[r] EXCEPT !.pc = IF worker[r].skip THEN "ending" ELSE "opening"]
    <3>1. /\ w.pc = (IF worker[r].skip THEN "ending" ELSE "opening")
          /\ w.shot = worker[r].shot /\ w.skip = worker[r].skip /\ w.answer = worker[r].answer
      BY DEF RunsInv, GateWorkers
    <3>2. worker' = [worker EXCEPT ![r] = w] /\ row' = [row EXCEPT ![r] = "running"]
      BY <1>1, <2>2 DEF WorkflowStarts, RunsInv, WayOut
    <3>3. Wanted' = Wanted
      BY <1>1 DEF WorkflowStarts, Wanted, AutoPromotes
    <3> HIDE DEF w
    <3> QED
      BY <1>0, <1>1, <3>1, <3>2, <3>3, AtOneRun
      DEF WorkflowStarts, AskedTo, Reached, Protected, FateInv, ProductionInStep
  <2> QED
    BY <1>1, <2>1, <2>2 DEF WorkflowStarts
<1>2. CASE GateOpens(r)
  <2>1. ASSUME Stop(r, "workspace"), UNCHANGED decided PROVE FateInv'
    BY <1>2, <2>1, AfterStop DEF GateOpens
  <2>2. ASSUME NEW answer, Gets(r, answer), Decides(r, answer) PROVE FateInv'
    BY <1>2, <2>2, AfterGets DEF GateOpens, Decides, Wanted
  <2>3. ASSUME Gets(r, "nobody"), UNCHANGED decided PROVE FateInv'
    BY <1>2, <2>3, AfterGets DEF GateOpens, Yes
  <2>4. ASSUME Gets(r, worker[r].shot), worker[r].shot # "none", UNCHANGED decided PROVE FateInv'
    <3>1. worker[r].shot \in Yes => worker[r].shot = "promote"
      BY DEF RunsInv, GateWorkers, Exact, Yes
    <3> QED
      BY <1>0, <1>2, <2>4, <3>1, AfterGets DEF GateOpens, AskedTo, Wanted
  <2>5. ASSUME Gets(r, "promote"), AutoPromotes(r), UNCHANGED decided PROVE FateInv'
    BY <1>2, <2>5, AfterGets DEF GateOpens, Wanted, AutoPromotes
  <2>6. ASSUME GoOn(r, "waiting"), UNCHANGED decided PROVE FateInv'
    BY <1>2, <2>6, AfterGoOn DEF GateOpens, FateInv, ProductionInStep
  <2> QED
    BY <1>2, <2>1, <2>2, <2>3, <2>4, <2>5, <2>6 DEF GateOpens
<1>3. CASE AnswerIsRead(r)
  <2>1. CASE GoOn(r, "merging") /\ worker[r].answer = "promote"
    BY <1>0, <1>3, <2>1, AfterGoOn DEF AnswerIsRead, AskedTo, FateInv, ProductionInStep
  <2>2. CASE Stop(r, "gate")
    BY <1>3, <2>2, AfterStop DEF AnswerIsRead
  <2> QED
    BY <1>3, <2>1, <2>2 DEF AnswerIsRead
<1>4. CASE GateRefuses(r)
  BY <1>4, AfterStop DEF GateRefuses
<1>5. CASE MergeSucceeds(r)
  <2>1. root'.of = root.of /\ r \in Wanted
    BY <1>0, <1>5, CheckOutKeeps DEF MergeSucceeds, MayMerge, AskedTo
  <2>2. prod' = prod /\ prod \subseteq base' /\ base' = base \cup {r}
    BY <1>5 DEF MergeSucceeds, FateInv, ProductionInStep
  <2> QED
    BY <1>5, <2>1, <2>2, AfterGoOn DEF MergeSucceeds, MayMerge, Protected
<1>6. CASE MergeConflicts(r)
  BY <1>6, AfterStop DEF MergeConflicts
<1>7. CASE MergeIsRefused(r)
  <2>1. root'.of = root.of
    BY <1>7, CheckOutKeeps DEF MergeIsRefused
  <2> QED
    BY <1>7, <2>1, AfterStop DEF MergeIsRefused
<1>8. CASE Migrates(r)
  <2>1. CASE Stop(r, "gate") /\ UNCHANGED prod
    BY <1>8, <2>1, AfterStop DEF Migrates
  <2>2. CASE GoOn(r, "ending") /\ prod' = prod \cup {r}
    <3>1. r \in base
      BY <1>0, <1>8 DEF Migrates, Reached
    <3> QED
      BY <1>8, <2>2, <3>1, AfterGoOn DEF Migrates, FateInv, ProductionInStep
  <2> QED
    BY <1>8, <2>1, <2>2 DEF Migrates
<1>9. CASE Completes(r)
  BY <1>0, <1>9, AfterStop DEF Completes, Reached, Protected
<1>10. CASE WorkerIsLost(r)
  BY <1>10, AfterStop DEF WorkerIsLost
<1> QED
  BY <1>1, <1>2, <1>3, <1>4, <1>5, <1>6, <1>7, <1>8, <1>9, <1>10

\* The runs stand, and the operator may want more than before.
LEMMA MoreDecided ==
    ASSUME FateInv, UNCHANGED <<ws, row, worker, base, prod>>,
           decided \subseteq decided', root'.of \subseteq decided'
    PROVE  FateInv'
<1>1. Wanted \subseteq Wanted'
  BY DEF Wanted, AutoPromotes
<1>2. PromotedByDecision' /\ ProductionInStep' /\ RetainsRecovery'
  BY <1>1 DEF FateInv, PromotedByDecision, Wanted, ProductionInStep, RetainsRecovery
<1>3. \A r \in GateRuns : AskedTo(r)' /\ Reached(r)'
  BY <1>1 DEF FateInv, AskedTo, Reached
<1> QED
  BY <1>2, <1>3 DEF FateInv

\* The steps of the operator.
LEMMA OperatorFate ==
    ASSUME RunsInv, RestType, FateInv, NEW r \in GateRuns,
           \/ Answer(r) \/ AnswerStale(r) \/ AnswerBlocked(r)
           \/ ResumeGate(r) \/ PromoteToBase(r) \/ Confirm(r) \/ MergeByHand(r)
    PROVE  FateInv'
<1> USE DEF ByOperator
<1>0. root.of \subseteq decided /\ Reached(r)
  BY DEF FateInv
<1>1. CASE Answer(r)
  BY <1>1, AfterGets DEF Answer, Decides, Wanted
<1>2. CASE AnswerStale(r)
  BY <1>0, <1>2, MoreDecided DEF AnswerStale, Decides
<1>3. CASE AnswerBlocked(r)
  <2>1. PICK a \in Answers :
            /\ Decides(r, a)
            /\ \/ UNCHANGED <<row, worker, starts>>
               \/ Starts(r, FALSE, Shot(a), FALSE)
               \/ \E pipe \in BOOLEAN : Starts(r, pipe, "none", FALSE)
    BY <1>3 DEF AnswerBlocked
  <2>2. Shot(a) = "promote" => r \in decided'
    BY <2>1 DEF Shot, Decides, Yes
  <2>3. CASE UNCHANGED <<row, worker, starts>>
    BY <1>0, <1>3, <2>1, <2>3, MoreDecided DEF AnswerBlocked, Decides
  <2>4. ASSUME NEW pipe, NEW shot \in {Shot(a), "none"}, Starts(r, pipe, shot, FALSE)
        PROVE  FateInv'
    BY <1>3, <2>1, <2>2, <2>4, AfterStart DEF AnswerBlocked, Decides
  <2> QED
    BY <2>1, <2>3, <2>4
<1>4. CASE ResumeGate(r)
  BY <1>4, AfterStart DEF ResumeGate
<1>5. CASE PromoteToBase(r)
  BY <1>5, AfterStart DEF PromoteToBase, Decides, Yes
<1>6. CASE Confirm(r)
  BY <1>0, <1>6, AfterStart DEF Confirm, Reached
<1>7. CASE MergeByHand(r)
  BY <1>7, MoreDecided DEF MergeByHand, ByHand
<1> QED
  BY <1>1, <1>2, <1>3, <1>4, <1>5, <1>6, <1>7

LEMMA FateStep ==
    ASSUME RunsInv, RestType, FateInv, [GateNext]_gateVars
    PROVE  FateInv'
<1>1. CASE StageByHand
  <2>1. root'.of = root.of
    BY <1>1 DEF StageByHand, RestType
  <2> QED
    BY <1>1, <2>1, MoreDecided DEF StageByHand, ByHand, FateInv
<1>2. CASE CommitByHand
  <2>1. base \subseteq base' /\ base' \subseteq base \cup decided
    BY <1>2 DEF CommitByHand, FateInv
  <2>2. UNCHANGED <<ws, row, worker, prod, decided>> /\ root'.of = {}
    BY <1>2 DEF CommitByHand, ByHand, Clean
  <2>3. PromotedByDecision'
    BY <2>1, <2>2 DEF FateInv, PromotedByDecision, AutoPromotes
  <2>4. ProductionInStep' /\ RetainsRecovery'
    BY <2>1, <2>2 DEF FateInv, ProductionInStep, RetainsRecovery
  <2>5. \A r \in GateRuns : AskedTo(r)' /\ Reached(r)'
    BY <2>1, <2>2 DEF FateInv, AskedTo, Reached, Wanted, AutoPromotes
  <2> QED
    BY <2>2, <2>3, <2>4, <2>5 DEF FateInv
<1>3. CASE GiveUpByHand
  BY <1>3, MoreDecided DEF GiveUpByHand, ByHand, Clean
<1>4. CASE UNCHANGED gateVars
  BY <1>4, MoreDecided DEF gateVars, FateInv
<1> QED
  BY <1>1, <1>2, <1>3, <1>4, GateStepFate, OperatorFate DEF GateNext

LEMMA Fates == GateSpec => []FateInv
<1>1. GateInit => FateInv
  <2> SUFFICES ASSUME GateInit PROVE FateInv
    OBVIOUS
  <2>1. /\ base = {} /\ prod = {} /\ root.of = {}
        /\ row = [r \in GateRuns |-> "running"]
    BY DEF GateInit, Clean
  <2>2. \A r \in GateRuns : /\ worker[r].pc = "opening" /\ worker[r].shot = "none"
                           /\ worker[r].answer = "none" /\ worker[r].skip = FALSE
    BY GateBegins
  <2> QED
    BY <2>1, <2>2
    DEF FateInv, PromotedByDecision, ProductionInStep, RetainsRecovery, AskedTo, Reached
<1>2. RunsInv /\ RestType /\ FateInv /\ [GateNext]_gateVars => FateInv'
  BY FateStep
<1> QED
  BY <1>1, <1>2, GateTypes, GateTypeParts, PTL DEF GateSpec

\* Nothing is in the base branch that nobody wanted there, however many items, starts,
\* lost workers and merges by hand there are.
THEOREM GatePromotesByDecision == GateSpec => []PromotedByDecision
BY Fates, PTL DEF FateInv

\* Production never runs ahead of the base branch, and where it is protected no run
\* completes before its migrations.
THEOREM GateProductionInStep == GateSpec => []ProductionInStep
BY Fates, PTL DEF FateInv

\* Outside a branching workspace no run ends at the gate without a recovery.
THEOREM GateRetainsRecovery == GateSpec => []RetainsRecovery
BY Fates, PTL DEF FateInv

\* A merge by hand that is not yet staged ends by the hand of the operator: no step of a
\* gate touches the checkout meanwhile.
THEOREM GateKeepsUnresolved == GateSpec => UnresolvedKept
<1>1. [GateNext]_gateVars => [root.state = "conflicted" /\ root' # root => UNCHANGED worker]_root
  <2> SUFFICES ASSUME [GateNext]_gateVars, root.state = "conflicted", root' # root
               PROVE  UNCHANGED worker
    OBVIOUS
  <2>1. ASSUME NEW r \in GateRuns,
               \/ WorkflowStarts(r) \/ GateOpens(r) \/ AnswerIsRead(r) \/ GateRefuses(r)
               \/ MergeSucceeds(r) \/ MergeConflicts(r) \/ MergeIsRefused(r)
               \/ Migrates(r) \/ Completes(r) \/ WorkerIsLost(r)
        PROVE  FALSE
    BY <2>1
    DEF WorkflowStarts, GateOpens, AnswerIsRead, GateRefuses, MergeSucceeds, MergeConflicts,
        MergeIsRefused, Migrates, Completes, WorkerIsLost, CheckOut
  <2>2. ASSUME NEW r \in GateRuns,
               \/ Answer(r) \/ AnswerStale(r) \/ AnswerBlocked(r)
               \/ ResumeGate(r) \/ PromoteToBase(r) \/ Confirm(r)
        PROVE  FALSE
    BY <2>2
    DEF Answer, AnswerStale, AnswerBlocked, ResumeGate, PromoteToBase, Confirm, ByOperator
  <2> QED
    BY <2>1, <2>2 DEF GateNext, gateVars, MergeByHand, StageByHand, CommitByHand, GiveUpByHand, ByHand
<1> QED
  BY <1>1, PTL DEF GateSpec, UnresolvedKept
=============================================================================

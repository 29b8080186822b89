--------------------------- MODULE WorkflowProofs ---------------------------
(***************************************************************************)
(* Proofs about the two components that carry an item's work: ItemWorkflow, *)
(* the way of one run through the stages, and ExecutionWave, the waves of  *)
(* the execution stage.  The components share no state; each part stands   *)
(* on the assumptions of its own component.                                *)
(*                                                                         *)
(* The first part, about ExecutionWave, holds for any stories, in either   *)
(* mode, with any numbers of cycles, iterations and restarts: the types,   *)
(* the record of what was merged, the wholeness of the project branch, and *)
(* what a story at work has in its branch.                                 *)
(*                                                                         *)
(* The second part, about ItemWorkflow, holds for any number of projects,  *)
(* resumes, crashes and replans: the inductive invariant FlowInv, and from *)
(* it every safety property that the run of the component checks.          *)
(***************************************************************************)
EXTENDS ExecutionWave, ItemWorkflow, TLAPS, WellFoundedInduction

Nexts == {"cycle", "coding", "reviewing", "reporting", "passed"}

\* A story that iterates or is reviewed is in a cycle that the loop has.
CycleLeft ==
    \A s \in Stories :
        \/ pc[s] \in {"rebasing", "coding", "reviewing"}
        \/ pc[s] = "recording" /\ next[s] \in {"coding", "reviewing"}
        => cycle[s] < MaxCycles

TypeInv == TypeOK /\ CycleLeft

LoopType ==
    /\ pc \in [Stories -> PCs] /\ next \in [Stories -> Nexts]
    /\ mem \in [Stories -> Implementations]

\* What is recorded has the types of the loop.
LEMMA RecordType ==
    ASSUME TypeOK, NEW s \in Stories, NEW i \in Implementations, NEW then \in Nexts,
           Record(s, i, then)
    PROVE  LoopType'
BY DEF TypeOK, Record, LoopType, PCs, Working, Nexts

\* A checkpoint with another status is a checkpoint.
LEMMA StatusType ==
    ASSUME NEW i \in Implementations,
           NEW st \in {"absent", "in_progress", "ready_for_review", "passed", "blocked"}
    PROVE  [i EXCEPT !.status = st] \in Implementations
BY DEF Implementations

LEMMA AbsentType == Absent \in Implementations /\ New \in Implementations
BY WaveAssumption DEF Absent, New, Implementations

LEMMA EnterCycleType ==
    ASSUME TypeOK, NEW s \in Stories, EnterCycle(s)
    PROVE  mem' \in [Stories -> Implementations] /\ pc' \in [Stories -> PCs]
BY DEF TypeOK, EnterCycle, Implementations, PCs, Working

\* Every step of a story keeps the types.
LEMMA StoryType == ASSUME TypeInv, NEW s \in Stories, StoryStep(s) PROVE TypeInv'
<1> USE WaveAssumption DEF disks, gits, runs, loops, coordinator
<1>1. CASE Enter(s)
  <2>1. LoopType'
    <3>1. mem' \in [Stories -> Implementations]
      BY <1>1, AbsentType DEF Enter, TypeInv, TypeOK
    <3>2. pc' \in [Stories -> PCs]
      BY <1>1 DEF Enter, TypeInv, TypeOK, PCs, Working
    <3> QED
      BY <1>1, <3>1, <3>2 DEF Enter, TypeInv, TypeOK, LoopType, Nexts
  <2>2. /\ remedy' \subseteq Stories /\ feedback' \in [Stories -> Feedbacks]
        /\ cycle' \in [Stories -> 0..MaxCycles]
    BY <1>1 DEF Enter, TypeInv, TypeOK, Feedbacks, Implementations
  <2>3. CycleLeft'
    BY <1>1 DEF Enter, TypeInv, TypeOK, CycleLeft
  <2> QED
    BY <1>1, <2>1, <2>2, <2>3 DEF Enter, TypeInv, TypeOK, LoopType, Nexts
<1>2. CASE Boundary(s)
  <2>1. CASE ShouldRebase(s)
    <3>1. pc' \in [Stories -> PCs]
      BY <1>2, <2>1 DEF Boundary, TypeInv, TypeOK, PCs, Working
    <3>3. queue' \in Seq(Stories)
      <4>1. queue \in Seq(Stories) /\ queue' = Append(queue, s)
        BY <1>2, <2>1 DEF Boundary, TypeInv, TypeOK
      <4> QED
        BY <4>1
    <3>2. CycleLeft'
      BY <1>2, <2>1 DEF Boundary, More, TypeInv, TypeOK, CycleLeft
    <3> QED
      BY <1>2, <2>1, <3>1, <3>2, <3>3 DEF Boundary, TypeInv, TypeOK
  <2>2. CASE ~ShouldRebase(s)
    <3>1. EnterCycle(s)
      BY <1>2, <2>2 DEF Boundary
    <3>2. mem' \in [Stories -> Implementations] /\ pc' \in [Stories -> PCs]
      BY <3>1, EnterCycleType DEF TypeInv
    <3>3. CycleLeft'
      BY <1>2, <2>2 DEF Boundary, More, EnterCycle, TypeInv, TypeOK, CycleLeft
    <3> QED
      BY <1>2, <2>2, <3>2, <3>3 DEF Boundary, TypeInv, TypeOK
  <2> QED
    BY <2>1, <2>2
<1>3. CASE GateStaysShut(s)
  <2>1. LoopType'
    <3>1. [mem[s] EXCEPT !.status = "passed"] \in Implementations
      BY StatusType DEF TypeInv, TypeOK
    <3> QED
      BY <1>3, <3>1, RecordType DEF GateStaysShut, TypeInv, Nexts
  <2>2. CycleLeft'
    BY <1>3 DEF GateStaysShut, Record, TypeInv, TypeOK, CycleLeft
  <2> QED
    BY <1>3, <2>1, <2>2 DEF GateStaysShut, TypeInv, TypeOK, LoopType, Nexts
<1>4. CASE Iterate(s)
  <2> DEFINE n == mem[s].iterations[cycle[s]] + 1
             clean == n >= 2 \/ feedback[s] # None
             i == [mem[s] EXCEPT !.iterations[cycle[s]] = n,
                                 !.status = IF clean THEN "ready_for_review" ELSE "in_progress"]
  <2>1. n \in 0..MaxIterations
    <3>1. mem[s] \in Implementations /\ cycle[s] \in 0..MaxCycles
      BY DEF TypeInv, TypeOK
    <3>2. mem[s].iterations[cycle[s]] \in 0..MaxIterations
      BY <3>1 DEF Implementations
    <3>3. mem[s].iterations[cycle[s]] < MaxIterations
      BY <1>4 DEF Iterate
    <3> QED
      BY <3>2, <3>3
  <2>2. i \in Implementations
    <3> DEFINE st == IF clean THEN "ready_for_review" ELSE "in_progress"
               its == [mem[s].iterations EXCEPT ![cycle[s]] = n]
    <3>1. st \in {"absent", "in_progress", "ready_for_review", "passed", "blocked"}
      OBVIOUS
    <3> HIDE DEF n
    <3>2. its \in [0..MaxCycles -> 0..MaxIterations]
      BY <2>1 DEF TypeInv, TypeOK, Implementations
    <3>3. i = [[mem[s] EXCEPT !.iterations = its] EXCEPT !.status = st]
      BY DEF TypeInv, TypeOK, Implementations
    <3> HIDE DEF its, st, i
    <3>4. [mem[s] EXCEPT !.iterations = its] \in Implementations
      <4>1. mem[s] \in Implementations
        BY DEF TypeInv, TypeOK
      <4> QED
        BY <3>2, <4>1 DEF Implementations
    <3> QED
      BY <3>1, <3>3, <3>4, StatusType
  <2>3. Record(s, i, IF clean THEN "reviewing" ELSE "coding")
    BY <1>4 DEF Iterate
  <2> HIDE DEF i, clean
  <2>4. LoopType'
    BY <2>2, <2>3, RecordType DEF TypeInv, Nexts
  <2>5. work' \in [Stories -> Works]
    BY <1>4 DEF Iterate, TypeInv, TypeOK, Works
  <2>6. CycleLeft'
    <3>1. cycle[s] < MaxCycles /\ cycle' = cycle
      <4>1. pc[s] = "coding" /\ cycle' = cycle
        BY <1>4 DEF Iterate
      <4> QED
        BY <4>1 DEF TypeInv, CycleLeft
    <3> QED
      BY <2>3, <3>1 DEF Record, TypeInv, TypeOK, CycleLeft
  <2> QED
    BY <1>4, <2>4, <2>5, <2>6 DEF Iterate, TypeInv, TypeOK, LoopType, Nexts
<1>5. CASE Exhausted(s)
  <2>1. LoopType'
    <3>1. [mem[s] EXCEPT !.status = "blocked"] \in Implementations
      BY StatusType DEF TypeInv, TypeOK
    <3> QED
      BY <1>5, <3>1, RecordType DEF Exhausted, TypeInv, Nexts
  <2>2. CycleLeft'
    BY <1>5 DEF Exhausted, Record, TypeInv, TypeOK, CycleLeft
  <2> QED
    BY <1>5, <2>1, <2>2 DEF Exhausted, TypeInv, TypeOK, LoopType, Nexts
<1>6. CASE ReviewPasses(s)
  <2>1. LoopType'
    <3>1. [mem[s] EXCEPT !.status = "passed"] \in Implementations
      BY StatusType DEF TypeInv, TypeOK
    <3> QED
      BY <1>6, <3>1, RecordType DEF ReviewPasses, TypeInv, Nexts
  <2>2. CycleLeft'
    BY <1>6 DEF ReviewPasses, Record, TypeInv, TypeOK, CycleLeft
  <2> QED
    BY <1>6, <2>1, <2>2 DEF ReviewPasses, TypeInv, TypeOK, LoopType, Nexts
<1>7. CASE ReviewRevises(s)
  <2>1. LoopType'
    <3>1. [mem[s] EXCEPT !.status = "in_progress"] \in Implementations
      BY StatusType DEF TypeInv, TypeOK
    <3> QED
      BY <1>7, <3>1, RecordType DEF ReviewRevises, TypeInv, Nexts
  <2>2. cycle' \in [Stories -> 0..MaxCycles]
    <3>1. cycle[s] < MaxCycles /\ cycle' = [cycle EXCEPT ![s] = @ + 1]
      <4>1. pc[s] = "reviewing" /\ cycle' = [cycle EXCEPT ![s] = @ + 1]
        BY <1>7 DEF ReviewRevises
      <4> QED
        BY <4>1 DEF TypeInv, CycleLeft
    <3>2. cycle \in [Stories -> 0..MaxCycles]
      BY DEF TypeInv, TypeOK
    <3> QED
      BY <3>1, <3>2
  <2>3. CycleLeft'
    BY <1>7 DEF ReviewRevises, Record, TypeInv, TypeOK, CycleLeft
  <2> QED
    BY <1>7, <2>1, <2>2, <2>3 DEF ReviewRevises, TypeInv, TypeOK, LoopType, Nexts, Feedbacks
<1>8. CASE Recorded(s)
  BY <1>8 DEF Recorded, TypeInv, TypeOK, CycleLeft, PCs, Working
<1>9. CASE ReportBlocked(s)
  BY <1>9 DEF ReportBlocked, TypeInv, TypeOK, CycleLeft, PCs
<1>10. CASE Throws(s)
  BY <1>10 DEF Throws, RemoveWorktree, TypeInv, TypeOK, CycleLeft, PCs, Works
<1>11. CASE Enqueue(s)
  BY <1>11 DEF Enqueue, TypeInv, TypeOK, CycleLeft, PCs
<1>12. CASE Rebase(s)
  <2>1. mem' \in [Stories -> Implementations] /\ pc' \in [Stories -> PCs]
    BY <1>12, EnterCycleType DEF Rebase, TypeInv
  <2>2. CycleLeft'
    BY <1>12 DEF Rebase, Served, EnterCycle, TypeInv, TypeOK, CycleLeft
  <2>3. /\ base' \in [Stories -> SUBSET Stories] /\ seen' \in [Stories -> SUBSET Stories]
        /\ queue' \in Seq(Stories)
    BY <1>12 DEF Rebase, Served, TypeInv, TypeOK
  <2> QED
    BY <1>12, <2>1, <2>2, <2>3 DEF Rebase, TypeInv, TypeOK
<1>13. CASE RebaseRefused(s)
  <2>1. LoopType'
    <3>1. [mem[s] EXCEPT !.status = "blocked"] \in Implementations
      BY StatusType DEF TypeInv, TypeOK
    <3> QED
      BY <1>13, <3>1, RecordType DEF RebaseRefused, TypeInv, Nexts
  <2>2. CycleLeft'
    BY <1>13 DEF RebaseRefused, Record, TypeInv, TypeOK, CycleLeft
  <2> QED
    BY <1>13, <2>1, <2>2 DEF RebaseRefused, Served, TypeInv, TypeOK, LoopType, Nexts
<1>14. CASE Merge(s)
  BY <1>14 DEF Merge, Served, RemoveWorktree, TypeInv, TypeOK, CycleLeft, PCs, Works
<1>15. CASE MergeFails(s)
  BY <1>15 DEF MergeFails, Served, RemoveWorktree, TypeInv, TypeOK, CycleLeft, PCs, Works
<1>16. CASE Abandon(s)
  BY <1>16 DEF Abandon, Served, RemoveWorktree, TypeInv, TypeOK, CycleLeft, PCs, Works
<1> QED
  BY <1>1, <1>2, <1>3, <1>4, <1>5, <1>6, <1>7, <1>8, <1>9, <1>10, <1>11, <1>12, <1>13,
     <1>14, <1>15, <1>16 DEF StoryStep

\* Every step keeps the types.
LEMMA TypeStep == TypeInv /\ [Next]_vars => TypeInv'
<1> SUFFICES ASSUME TypeInv, [Next]_vars PROVE TypeInv'
  OBVIOUS
<1> USE WaveAssumption DEF disks, gits, runs, loops, coordinator
<1>1. ASSUME NEW s \in Stories, StoryStep(s) PROVE TypeInv'
  BY <1>1, StoryType
<1>2. CASE Start
  BY <1>2 DEF Start, Starting, TypeInv, TypeOK, CycleLeft, PCs
<1>3. CASE BlockWave \/ FailWave \/ MergeWave
  BY <1>3 DEF BlockWave, FailWave, MergeWave, TypeInv, TypeOK, CycleLeft, Phases
<1>4. CASE Crash
  <2>1. disk' \in [Stories -> Implementations]
    BY <1>4, AbsentType DEF Crash, TypeInv, TypeOK
  <2> QED
    BY <1>4, <2>1 DEF Crash, TypeInv, TypeOK, CycleLeft, Phases
<1>5. CASE Resume
  <2>1. disk' \in [Stories -> Implementations] /\ remedy' \subseteq Stories
    <3>1. CASE scope \in Stories
      <4> DEFINE st == IF disk[scope].status = "blocked" THEN "in_progress"
                       ELSE disk[scope].status
                 i == [disk[scope] EXCEPT !.status = st]
      <4>1. st \in {"absent", "in_progress", "ready_for_review", "passed", "blocked"}
        BY <3>1 DEF TypeInv, TypeOK, Implementations
      <4>2. i \in Implementations
        <5> HIDE DEF st
        <5> QED
          BY <3>1, <4>1, StatusType DEF TypeInv, TypeOK
      <4>3. disk' = [disk EXCEPT ![scope] = i] /\ remedy' = remedy \cup {scope}
        BY <1>5, <3>1 DEF Resume, TypeInv, TypeOK, Implementations
      <4> HIDE DEF i
      <4> QED
        BY <3>1, <4>2, <4>3 DEF TypeInv, TypeOK
    <3>2. CASE scope \notin Stories
      BY <1>5, <3>2 DEF Resume, TypeInv, TypeOK
    <3> QED
      BY <3>1, <3>2
  <2>2. /\ pc' \in [Stories -> PCs] /\ next' \in [Stories -> Nexts]
        /\ mem' \in [Stories -> Implementations] /\ cycle' \in [Stories -> 0..MaxCycles]
        /\ feedback' \in [Stories -> Feedbacks] /\ CycleLeft'
        /\ announced' \subseteq Stories /\ seen' \in [Stories -> SUBSET Stories]
        /\ queue' \in Seq(Stories)
    BY <1>5, AbsentType DEF Resume, Fresh, PCs, Nexts, Feedbacks, CycleLeft
  <2>3. /\ phase' \in Phases /\ scope' = None /\ attempt' \in 1..(MaxAttempts + 1)
        /\ parallel' \in BOOLEAN
    BY <1>5 DEF Resume, TypeInv, TypeOK, Phases
  <2>4. revise' = revise /\ UNCHANGED gits
    BY <1>5 DEF Resume
  <2> QED
    BY <2>1, <2>2, <2>3, <2>4 DEF TypeInv, TypeOK, Nexts
<1>6. CASE UNCHANGED vars
  BY <1>6 DEF vars, TypeInv, TypeOK, CycleLeft
<1> QED
  BY <1>1, <1>2, <1>3, <1>4, <1>5, <1>6 DEF Next, WaveStep

LEMMA TypeInit == Init => TypeInv
<1> SUFFICES ASSUME Init PROVE TypeInv
  OBVIOUS
<1> USE WaveAssumption DEF Init
<1>1. disk \in [Stories -> Implementations] /\ mem \in [Stories -> Implementations]
  BY AbsentType
<1>2. /\ work \in [Stories -> Works] /\ phase \in Phases /\ feedback \in [Stories -> Feedbacks]
      /\ pc \in [Stories -> PCs] /\ attempt \in 1..(MaxAttempts + 1) /\ CycleLeft
      /\ queue \in Seq(Stories) /\ cycle \in [Stories -> 0..MaxCycles]
  BY DEF Works, Phases, Feedbacks, PCs, CycleLeft
<1> QED
  BY <1>1, <1>2 DEF TypeInv, TypeOK

\* The variables have their types, for any stories and limits; a cycle that is
\* entered is one that runCycledLoop has.
THEOREM TypeCorrect == Spec => []TypeOK
<1>1. TypeInv => TypeOK
  BY DEF TypeInv
<1> QED
  BY <1>1, TypeInit, TypeStep, PTL DEF Spec

-----------------------------------------------------------------------------
(* What was merged is recorded, and the wave is whole.                      *)

\* A story that is on its way to the merge, or is merged, has a checkpoint that
\* says passed, and a merged story does not enter the loop again.
PassedIsRecorded ==
    /\ \A s \in Stories : pc[s] \in {"passed", "merging"} => disk[s].status = "passed"
    /\ \A s \in Stories : pc[s] = "recording" /\ next[s] = "passed" => mem[s].status = "passed"
    /\ \A s \in wave :
        pc[s] \in {"waiting", "preparing", "passed", "merging", "done", "threw"}

\* A story that is done without a merge is known to be blocked.
DoneIsMerged ==
    /\ \A s \in Stories : pc[s] \in {"reporting", "blocked", "abandoning"}
                          => mem[s].status = "blocked"
    /\ \A s \in Stories : pc[s] = "recording" /\ next[s] = "reporting"
                          => mem[s].status = "blocked"
    /\ \A s \in Stories : pc[s] = "done" /\ mem[s].status # "blocked" => s \in wave

\* While the wave is executed these hold; when it is stopped the program counters
\* are those of a process that is gone.
WaveInv ==
    /\ TypeInv
    /\ MergedIsRecorded
    /\ phase = "running" => PassedIsRecorded /\ DoneIsMerged
    /\ ProjectIsWhole

\* Every step of a story keeps the invariant.
LEMMA StoryKeeps ==
    ASSUME WaveInv, NEW s \in Stories, StoryStep(s)
    PROVE  MergedIsRecorded' /\ PassedIsRecorded' /\ DoneIsMerged' /\ ProjectIsWhole'
<1> USE DEF disks, gits, runs, loops, coordinator, WaveInv, TypeInv, TypeOK,
            MergedIsRecorded, PassedIsRecorded, DoneIsMerged, ProjectIsWhole
<1>1. CASE Enter(s)
  <2>1. CASE disk[s].status \in {"passed", "blocked"}
    <3>1. /\ mem' = [mem EXCEPT ![s] = disk[s]] /\ pc' = [pc EXCEPT ![s] = disk[s].status]
          /\ phase = "running" /\ UNCHANGED <<disk, next, wave, project>>
      BY <1>1, <2>1 DEF Enter
    <3> QED
      BY <2>1, <3>1
  <2>2. CASE disk[s].status \notin {"passed", "blocked"}
    <3>1. /\ mem' \in [Stories -> Implementations]
          /\ \A t \in Stories \ {s} : mem'[t] = mem[t]
          /\ pc' = [pc EXCEPT ![s] = "cycle"]
          /\ phase = "running" /\ UNCHANGED <<disk, next, wave, project>>
      <4>1. mem' \in [Stories -> Implementations]
        BY <1>1, AbsentType DEF Enter
      <4> QED
        BY <1>1, <2>2, <4>1 DEF Enter
    <3>2. s \notin wave
      BY <2>2
    <3> QED
      BY <3>1, <3>2
  <2> QED
    BY <2>1, <2>2
<1>2. CASE Boundary(s)
  <2>1. /\ phase = "running" /\ pc[s] = "cycle" /\ UNCHANGED <<disk, next, wave, project>>
        /\ \A t \in Stories : mem'[t].status = mem[t].status
        /\ pc' = [pc EXCEPT ![s] = pc'[s]] /\ pc'[s] \in {"rebasing", "reviewing", "coding"}
    <3>1. CASE ShouldRebase(s)
      BY <1>2, <3>1 DEF Boundary
    <3>2. CASE ~ShouldRebase(s)
      <4>1. EnterCycle(s) /\ pc[s] = "cycle" /\ UNCHANGED <<disk, next, wave, project>>
        BY <1>2, <3>2 DEF Boundary
      <4>2. \A t \in Stories : mem'[t].status = mem[t].status
        BY <4>1 DEF EnterCycle, Implementations
      <4> QED
        BY <1>2, <4>1, <4>2 DEF Boundary, EnterCycle
    <3> QED
      BY <3>1, <3>2
  <2>2. MergedIsRecorded' /\ ProjectIsWhole'
    BY <2>1
  <2>3. PassedIsRecorded'
    <3>1. \A t \in Stories \ {s} : pc'[t] = pc[t]
      BY <2>1
    <3>2. s \notin wave
      BY <2>1
    <3>3. \A t \in Stories : pc'[t] \in {"passed", "merging"} => disk'[t].status = "passed"
      BY <2>1, <3>1
    <3>4. ASSUME NEW t \in Stories, pc'[t] = "recording", next'[t] = "passed"
          PROVE  mem'[t].status = "passed"
      <4>1. t # s /\ pc[t] = "recording" /\ next[t] = "passed"
        BY <2>1, <3>1, <3>4
      <4>2. mem[t].status = "passed"
        BY <2>1, <4>1
      <4> QED
        BY <2>1, <4>2
    <3>5. \A t \in wave' :
            pc'[t] \in {"waiting", "preparing", "passed", "merging", "done", "threw"}
      BY <2>1, <3>1, <3>2
    <3> QED
      BY <3>3, <3>4, <3>5
  <2>4. DoneIsMerged'
    <3>1. \A t \in Stories \ {s} : pc'[t] = pc[t]
      BY <2>1
    <3>2. \A t \in Stories :
            pc'[t] \in {"reporting", "blocked", "abandoning"} => mem'[t].status = "blocked"
      BY <2>1, <3>1
    <3>3. \A t \in Stories :
            pc'[t] = "recording" /\ next'[t] = "reporting" => mem'[t].status = "blocked"
      BY ZenonT(40), <2>1, <3>1
    <3>4. \A t \in Stories : pc'[t] = "done" /\ mem'[t].status # "blocked" => t \in wave'
      BY <2>1, <3>1
    <3> QED
      BY <3>2, <3>3, <3>4
  <2> QED
    BY <2>2, <2>3, <2>4
<1>3. CASE GateStaysShut(s)
  BY <1>3 DEF GateStaysShut, Record
<1>4. CASE Iterate(s)
  BY <1>4 DEF Iterate, Record
<1>5. CASE Exhausted(s)
  BY <1>5 DEF Exhausted, Record
<1>6. CASE ReviewPasses(s)
  <2>1. /\ phase = "running" /\ pc[s] = "reviewing" /\ UNCHANGED <<disk, wave, project>>
        /\ Record(s, [mem[s] EXCEPT !.status = "passed"], "passed")
    BY <1>6 DEF ReviewPasses
  <2>2. mem'[s].status = "passed" /\ \A t \in Stories \ {s} : mem'[t] = mem[t]
    BY <2>1 DEF Record, Implementations
  <2>3. /\ pc' = [pc EXCEPT ![s] = "recording"] /\ next' = [next EXCEPT ![s] = "passed"]
    BY <2>1 DEF Record
  <2> QED
    BY <2>1, <2>2, <2>3
<1>7. CASE ReviewRevises(s)
  BY <1>7 DEF ReviewRevises, Record
<1>8. CASE Recorded(s)
  BY <1>8 DEF Recorded
<1>9. CASE ReportBlocked(s)
  BY <1>9 DEF ReportBlocked
<1>10. CASE Throws(s)
  BY <1>10 DEF Throws
<1>11. CASE Enqueue(s)
  BY <1>11 DEF Enqueue
<1>12. CASE Rebase(s)
  BY <1>12 DEF Rebase, Served, EnterCycle
<1>13. CASE RebaseRefused(s)
  BY <1>13 DEF RebaseRefused, Served, Record
<1>14. CASE Merge(s)
  BY <1>14 DEF Merge, Served
<1>15. CASE MergeFails(s)
  BY <1>15 DEF MergeFails, Served
<1>16. CASE Abandon(s)
  BY <1>16 DEF Abandon, Served
<1> QED
  BY <1>1, <1>2, <1>3, <1>4, <1>5, <1>6, <1>7, <1>8, <1>9, <1>10, <1>11, <1>12, <1>13,
     <1>14, <1>15, <1>16 DEF StoryStep

\* Every step keeps the invariant.
LEMMA WaveStepKeeps == WaveInv /\ [Next]_vars => WaveInv'
<1> SUFFICES ASSUME WaveInv, [Next]_vars PROVE WaveInv'
  OBVIOUS
<1>0. TypeInv'
  BY TypeStep DEF WaveInv
<1>1. ASSUME NEW s \in Stories, StoryStep(s) PROVE WaveInv'
  BY <1>0, <1>1, StoryKeeps DEF WaveInv
<1> USE <1>0 DEF disks, gits, runs, loops, coordinator, WaveInv, TypeInv, TypeOK,
                 MergedIsRecorded, PassedIsRecorded, DoneIsMerged, ProjectIsWhole
<1>2. CASE Start
  BY <1>2 DEF Start, Starting
<1>3. CASE BlockWave \/ FailWave
  BY <1>3 DEF BlockWave, FailWave
<1>4. CASE MergeWave
  <2>1. \A s \in Stories : pc[s] = "done" /\ mem[s].status # "blocked"
    BY <1>4 DEF MergeWave, BlockedStories, Settled
  <2>2. wave = Stories
    <3>1. DoneIsMerged /\ wave \subseteq Stories
      BY <1>4 DEF MergeWave
    <3>2. \A s \in Stories : s \in wave
      BY <2>1, <3>1
    <3> QED
      BY <3>1, <3>2
  <2> QED
    BY <1>4, <2>2 DEF MergeWave
<1>5. CASE Crash
  BY ZenonT(40), <1>5 DEF Crash
<1>6. CASE Resume
  <2>1. MergedIsRecorded'
    <3>1. ASSUME NEW t \in wave PROVE disk'[t].status = "passed"
      <4>1. CASE scope \in Stories
        <5>1. disk' = [disk EXCEPT ![scope].status = IF @ = "blocked" THEN "in_progress" ELSE @]
          BY <1>6, <4>1 DEF Resume
        <5>2. t \in Stories /\ disk[t].status = "passed" /\ disk[t] \in Implementations
          BY <1>6, <3>1 DEF Resume
        <5>3. CASE t = scope
          BY <4>1, <5>1, <5>2, <5>3 DEF Implementations
        <5>4. CASE t # scope
          BY <4>1, <5>1, <5>2, <5>4
        <5> QED
          BY <5>3, <5>4
      <4>2. CASE scope \notin Stories
        BY <1>6, <3>1, <4>2 DEF Resume
      <4> QED
        BY <4>1, <4>2
    <3> QED
      BY <1>6, <3>1 DEF Resume
  <2>2. PassedIsRecorded' /\ DoneIsMerged'
    BY <1>6 DEF Resume, Fresh
  <2> QED
    BY <1>6, <2>1, <2>2 DEF Resume
<1>7. CASE UNCHANGED vars
  BY <1>7 DEF vars
<1> QED
  BY <1>1, <1>2, <1>3, <1>4, <1>5, <1>6, <1>7 DEF Next, WaveStep

LEMMA WaveInit == Init => WaveInv
BY TypeInit
   DEF Init, WaveInv, MergedIsRecorded, PassedIsRecorded, DoneIsMerged, ProjectIsWhole

LEMMA WaveAlways == Spec => []WaveInv
BY WaveInit, WaveStepKeeps, PTL DEF Spec

\* Whatever is merged into the wave branch is recorded as passed, across
\* restarts and checkpoints that are cut off: the merge comes after the write
\* of the checkpoint, and a merged story is never written again.
THEOREM MergedRecorded == Spec => []MergedIsRecorded
<1>1. WaveInv => MergedIsRecorded
  BY DEF WaveInv
<1> QED
  BY <1>1, WaveAlways, PTL

\* The project branch gets the wave branch only with all stories in it, however
\* stories block, are rejected, fail to merge or die.
THEOREM ProjectWhole == Spec => []ProjectIsWhole
<1>1. WaveInv => ProjectIsWhole
  BY DEF WaveInv
<1> QED
  BY <1>1, WaveAlways, PTL

-----------------------------------------------------------------------------
(* What a story has seen is in its branch.                                  *)

\* The coordinator counts no merge that the wave branch does not have, and a
\* story that has not started has seen none.
SeenInv ==
    /\ TypeInv
    /\ announced \subseteq wave
    /\ \A s \in Stories : seen[s] \subseteq base[s]
    /\ \A s \in Stories : pc[s] = "waiting" => seen[s] = {}

LEMMA SeenStep == SeenInv /\ [Next]_vars => SeenInv'
<1> SUFFICES ASSUME SeenInv, [Next]_vars PROVE SeenInv'
  OBVIOUS
<1>0. TypeInv'
  BY TypeStep DEF SeenInv
<1> USE <1>0 DEF disks, gits, runs, loops, coordinator, SeenInv, TypeInv, TypeOK
<1>1. ASSUME NEW s \in Stories, StoryStep(s) PROVE SeenInv'
  <2>1. CASE Rebase(s)
    BY <2>1 DEF Rebase, Served, EnterCycle
  <2>2. CASE Merge(s)
    BY <2>2 DEF Merge, Served
  <2>3. CASE Boundary(s)
    BY ZenonT(40), <2>3 DEF Boundary, EnterCycle
  <2>4. CASE Recorded(s)
    BY <2>4 DEF Recorded
  <2>5. CASE \/ GateStaysShut(s) \/ Iterate(s) \/ Exhausted(s) \/ ReviewPasses(s)
             \/ ReviewRevises(s) \/ RebaseRefused(s)
    <3>1. /\ pc' = [pc EXCEPT ![s] = "recording"]
          /\ UNCHANGED <<announced, seen, base, wave>>
      BY <2>5 DEF GateStaysShut, Iterate, Exhausted, ReviewPasses, ReviewRevises,
                  RebaseRefused, Record
    <3> QED
      BY <3>1
  <2>6. CASE \/ Enter(s) \/ ReportBlocked(s) \/ Throws(s) \/ Enqueue(s) \/ MergeFails(s)
             \/ Abandon(s)
    <3>1. /\ pc' = [pc EXCEPT ![s] = pc'[s]] /\ pc'[s] # "waiting"
          /\ UNCHANGED <<announced, seen, base, wave>>
      BY <2>6 DEF Enter, ReportBlocked, Throws, Enqueue, MergeFails, Abandon
    <3> QED
      BY ZenonT(40), <3>1
  <2> QED
    BY <1>1, <2>1, <2>2, <2>3, <2>4, <2>5, <2>6 DEF StoryStep
<1>2. CASE Start
  BY <1>2 DEF Start, Starting
<1>3. CASE BlockWave \/ FailWave \/ MergeWave \/ Crash
  BY <1>3 DEF BlockWave, FailWave, MergeWave, Crash
<1>4. CASE Resume
  BY <1>4 DEF Resume, Fresh
<1>5. CASE UNCHANGED vars
  BY <1>5 DEF vars
<1> QED
  BY <1>1, <1>2, <1>3, <1>4, <1>5 DEF Next, WaveStep

\* A story at work has in its branch all the merges that the coordinator
\* believes it has seen, in either mode and across restarts.
THEOREM SeenInBranch == Spec => []SeenIsInBranch
<1>1. Init => SeenInv
  BY TypeInit DEF Init, SeenInv
<1>2. SeenInv => SeenIsInBranch
  BY DEF SeenInv, SeenIsInBranch
<1> QED
  BY <1>1, <1>2, SeenStep, PTL DEF Spec

-----------------------------------------------------------------------------
(* A wave whose stories run in turn can be resumed only when it has ended.  *)

\* Where a story is when the write of its checkpoint has ended.
Reaches(s) == IF pc[s] = "recording" THEN next[s] ELSE pc[s]

Unused(s, from) == \A c \in from..MaxCycles : mem[s].iterations[c] = 0

\* A story of a first start begins without a checkpoint, so that it has all the
\* iterations of each cycle before it; in turn, nothing blocks it.
FirstTry(s) ==
    /\ pc[s] \in {"waiting", "preparing"} => disk[s] = Absent
    /\ Reaches(s) \notin {"rebasing", "reporting", "blocked", "abandoning"}
    /\ Reaches(s) = "cycle" => Unused(s, cycle[s])
    /\ Reaches(s) \in {"coding", "reviewing"} => Unused(s, cycle[s] + 1)
    /\ Reaches(s) = "coding" =>
           mem[s].iterations[cycle[s]] <= (IF feedback[s] = None THEN 1 ELSE 0)

InTurn == attempt = 1 /\ phase = "running" /\ ~parallel

TurnInv == TypeInv /\ (InTurn => scope = None /\ \A s \in Stories : FirstTry(s))

\* A step of one story leaves the others where they are.
LEMMA OthersTry ==
    ASSUME NEW s \in Stories, \A t \in Stories : FirstTry(t), FirstTry(s)',
           \A t \in Stories \ {s} :
               /\ pc'[t] = pc[t] /\ next'[t] = next[t] /\ mem'[t] = mem[t]
               /\ disk'[t] = disk[t] /\ cycle'[t] = cycle[t] /\ feedback'[t] = feedback[t]
    PROVE  \A t \in Stories : FirstTry(t)'
BY DEF FirstTry, Reaches, Unused

\* Only a story that enters, or goes on in its loop, has anything to keep.
LEMMA LeftLoop ==
    ASSUME NEW s \in Stories,
           Reaches(s)' \notin {"waiting", "preparing", "cycle", "coding", "reviewing", "recording",
                               "rebasing", "reporting", "blocked", "abandoning"}
    PROVE  FirstTry(s)'
BY DEF FirstTry, Reaches

LEMMA StoryTry ==
    ASSUME MaxIterations > 1, TypeInv, InTurn, \A t \in Stories : FirstTry(t),
           NEW s \in Stories, StoryStep(s)
    PROVE  FirstTry(s)' /\ scope' = scope
<1> USE DEF disks, gits, runs, loops, coordinator
<1>0. FirstTry(s)
  OBVIOUS
<1>1. CASE Enter(s)
  <2>1. disk[s] = Absent
    BY <1>0, <1>1 DEF Enter, FirstTry
  <2>2. Absent.status = "absent"
    BY DEF Absent
  <2>3. /\ mem'[s] = New /\ pc'[s] = "cycle" /\ scope' = scope
    BY <1>1, <2>1, <2>2 DEF Enter, TypeInv, TypeOK
  <2>4. \A c \in 0..MaxCycles : New.iterations[c] = 0
    BY DEF New, Absent
  <2>5. cycle'[s] = 0
    BY <1>1, <2>1, <2>2 DEF Enter, TypeInv, TypeOK, Absent
  <2> QED
    BY <2>3, <2>4, <2>5 DEF FirstTry, Reaches, Unused
<1>2. CASE Boundary(s)
  <2>1. EnterCycle(s) /\ pc[s] = "cycle" /\ More(s) /\ UNCHANGED <<cycle, scope>>
    BY <1>2 DEF Boundary, ShouldRebase, InTurn
  <2>2. /\ pc'[s] \in {"coding", "reviewing"}
        /\ mem'[s].iterations = mem[s].iterations
    BY <2>1 DEF EnterCycle, TypeInv, TypeOK, Implementations
  <2>3. Unused(s, cycle[s]) /\ cycle[s] \in 0..MaxCycles
    BY <1>0, <2>1 DEF FirstTry, Reaches, TypeInv, TypeOK
  <2>4. mem[s].iterations[cycle[s]] = 0 /\ Unused(s, cycle[s] + 1)
    BY <2>3, WaveAssumption DEF Unused
  <2> QED
    BY <2>1, <2>2, <2>4 DEF FirstTry, Reaches, Unused
<1>3. CASE GateStaysShut(s) \/ ReviewPasses(s)
  <2>1. pc'[s] = "recording" /\ next'[s] = "passed" /\ scope' = scope
    BY <1>3 DEF GateStaysShut, ReviewPasses, Record, TypeInv, TypeOK
  <2> QED
    BY <2>1, LeftLoop DEF Reaches
<1>4. CASE Iterate(s)
  <2> DEFINE n == mem[s].iterations[cycle[s]] + 1
             clean == n >= 2 \/ feedback[s] # None
             st == IF clean THEN "ready_for_review" ELSE "in_progress"
             to == IF clean THEN "reviewing" ELSE "coding"
             used == [mem[s].iterations EXCEPT ![cycle[s]] = n]
             i == [mem[s] EXCEPT !.iterations = used, !.status = st]
  <2>1. /\ mem'[s] = i /\ pc'[s] = "recording" /\ next'[s] = to
        /\ cycle' = cycle /\ feedback' = feedback /\ scope' = scope /\ pc[s] = "coding"
    BY <1>4 DEF Iterate, Record, TypeInv, TypeOK
  <2>2. cycle[s] \in 0..MaxCycles /\ mem[s] \in Implementations
    BY DEF TypeInv, TypeOK
  <2>3. /\ i.iterations[cycle[s]] = n
        /\ \A c \in (cycle[s] + 1)..MaxCycles : i.iterations[c] = mem[s].iterations[c]
    <3>1. /\ used[cycle[s]] = n
          /\ \A c \in (cycle[s] + 1)..MaxCycles : used[c] = mem[s].iterations[c]
      <4>1. mem[s].iterations \in [0..MaxCycles -> 0..MaxIterations]
        BY <2>2 DEF Implementations
      <4>2. \A c \in (cycle[s] + 1)..MaxCycles : c \in 0..MaxCycles /\ c # cycle[s]
        BY <2>2, WaveAssumption
      <4> HIDE DEF n
      <4> QED
        BY <2>2, <4>1, <4>2
    <3>2. i.iterations = used
      <4> HIDE DEF used, st
      <4> QED
        BY <2>2 DEF Implementations
    <3> HIDE DEF used, i
    <3> QED
      BY <3>1, <3>2
  <2>4. to = "coding" => n <= 1 /\ feedback[s] = None
    BY <2>2, WaveAssumption DEF Implementations
  <2>5. Unused(s, cycle[s] + 1)
    BY <1>0, <2>1 DEF FirstTry, Reaches
  <2>6. to \in {"coding", "reviewing"}
    OBVIOUS
  <2> HIDE DEF i, n, to
  <2>7. Unused(s, cycle[s] + 1)'
    BY <2>1, <2>3, <2>5 DEF Unused
  <2> QED
    BY <2>1, <2>3, <2>4, <2>6, <2>7 DEF FirstTry, Reaches
<1>5. CASE Exhausted(s)
  <2>1. mem[s].iterations[cycle[s]] <= 1
    BY <1>0, <1>5, WaveAssumption DEF Exhausted, FirstTry, Reaches
  <2> QED
    BY <1>5, <2>1, WaveAssumption DEF Exhausted
<1>6. CASE ReviewRevises(s)
  <2> DEFINE i == [mem[s] EXCEPT !.status = "in_progress"]
  <2>1. /\ mem'[s] = i /\ pc'[s] = "recording" /\ next'[s] = "cycle"
        /\ cycle'[s] = cycle[s] + 1 /\ scope' = scope /\ pc[s] = "reviewing"
    BY <1>6 DEF ReviewRevises, Record, TypeInv, TypeOK
  <2>2. i.iterations = mem[s].iterations
    BY DEF TypeInv, TypeOK, Implementations
  <2>3. Unused(s, cycle[s] + 1)
    BY <1>0, <2>1 DEF FirstTry, Reaches
  <2> HIDE DEF i
  <2> QED
    BY <2>1, <2>2, <2>3 DEF FirstTry, Reaches, Unused
<1>7. CASE Recorded(s)
  <2>1. /\ pc[s] = "recording" /\ pc'[s] = next[s] /\ next[s] \in Nexts
        /\ UNCHANGED <<next, mem, cycle, feedback, scope>>
    BY <1>7 DEF Recorded, TypeInv, TypeOK, Nexts
  <2>2. Reaches(s)' = Reaches(s)
    BY <2>1 DEF Reaches, Nexts
  <2> QED
    BY <1>0, <2>1, <2>2 DEF FirstTry, Unused, Nexts
<1>8. CASE ReportBlocked(s)
  BY <1>0, <1>8 DEF ReportBlocked, FirstTry, Reaches
<1>9. CASE Throws(s) \/ MergeFails(s) \/ Merge(s)
  <2>1. pc'[s] \in {"threw", "done"} /\ scope' = scope
    BY <1>9 DEF Throws, MergeFails, Merge, TypeInv, TypeOK
  <2> QED
    BY <2>1, LeftLoop DEF Reaches
<1>10. CASE Enqueue(s)
  <2>1. pc[s] = "passed"
    BY <1>0, <1>10 DEF Enqueue, FirstTry, Reaches
  <2>2. pc'[s] = "merging" /\ scope' = scope
    BY <1>10, <2>1 DEF Enqueue, TypeInv, TypeOK
  <2> QED
    BY <2>2, LeftLoop DEF Reaches
<1>11. CASE Rebase(s) \/ RebaseRefused(s) \/ Abandon(s)
  BY <1>0, <1>11 DEF Rebase, RebaseRefused, Abandon, Served, FirstTry, Reaches
<1> QED
  BY <1>1, <1>2, <1>3, <1>4, <1>5, <1>6, <1>7, <1>8, <1>9, <1>10, <1>11 DEF StoryStep

\* What a step of a story touches.
LEMMA StoryAlone ==
    ASSUME TypeInv, NEW s \in Stories, StoryStep(s)
    PROVE  /\ \A t \in Stories \ {s} :
                  /\ pc'[t] = pc[t] /\ next'[t] = next[t] /\ mem'[t] = mem[t]
                  /\ disk'[t] = disk[t] /\ cycle'[t] = cycle[t] /\ feedback'[t] = feedback[t]
           /\ UNCHANGED <<phase, attempt, parallel>>
<1> USE DEF disks, gits, runs, loops, coordinator
<1>1. CASE Enter(s)
  BY <1>1 DEF Enter, TypeInv, TypeOK
<1>2. CASE Boundary(s)
  BY <1>2 DEF Boundary, EnterCycle, TypeInv, TypeOK
<1>3. CASE GateStaysShut(s) \/ Iterate(s) \/ Exhausted(s)
  BY <1>3 DEF GateStaysShut, Iterate, Exhausted, Record, TypeInv, TypeOK
<1>4. CASE ReviewPasses(s) \/ ReviewRevises(s) \/ Recorded(s)
  BY <1>4 DEF ReviewPasses, ReviewRevises, Recorded, Record, TypeInv, TypeOK
<1>5. CASE ReportBlocked(s) \/ Throws(s) \/ Enqueue(s)
  BY <1>5 DEF ReportBlocked, Throws, Enqueue, TypeInv, TypeOK
<1>6. CASE Rebase(s) \/ RebaseRefused(s)
  BY <1>6 DEF Rebase, RebaseRefused, EnterCycle, Record, TypeInv, TypeOK
<1>7. CASE Merge(s) \/ MergeFails(s) \/ Abandon(s)
  BY <1>7 DEF Merge, MergeFails, Abandon, TypeInv, TypeOK
<1> QED
  BY <1>1, <1>2, <1>3, <1>4, <1>5, <1>6, <1>7 DEF StoryStep

LEMMA TurnStep ==
    ASSUME MaxIterations > 1, TurnInv, [Next]_vars
    PROVE  TurnInv'
<1>0. TypeInv'
  BY TypeStep DEF TurnInv
<1> SUFFICES ASSUME InTurn' PROVE scope' = None /\ \A s \in Stories : FirstTry(s)'
  BY <1>0 DEF TurnInv
<1> USE DEF disks, gits, runs, loops, coordinator
<1>1. ASSUME NEW s \in Stories, StoryStep(s)
      PROVE  scope' = None /\ \A t \in Stories : FirstTry(t)'
  <2>1. InTurn /\ TypeInv
    BY <1>1, StoryAlone DEF InTurn, TurnInv
  <2>2. scope = None /\ \A t \in Stories : FirstTry(t)
    BY <2>1 DEF TurnInv
  <2>3. FirstTry(s)' /\ scope' = scope
    BY <1>1, <2>1, <2>2, StoryTry
  <2> QED
    BY <1>1, <2>1, <2>2, <2>3, StoryAlone, OthersTry
<1>2. CASE Start
  <2>1. InTurn /\ scope' = scope /\ UNCHANGED <<disk, next, mem, cycle, feedback>>
    BY <1>2 DEF Start, InTurn
  <2>2. scope = None /\ \A t \in Stories : FirstTry(t)
    BY <2>1 DEF TurnInv
  <2>3. ASSUME NEW t \in Stories PROVE FirstTry(t)'
    <3>1. CASE pc'[t] = pc[t]
      BY <2>1, <2>2, <3>1 DEF FirstTry, Reaches, Unused
    <3>2. CASE pc[t] = "waiting" /\ pc'[t] = "preparing"
      BY <2>1, <2>2, <3>2 DEF FirstTry, Reaches, Unused
    <3> QED
      BY <1>2, <3>1, <3>2 DEF Start, Starting
  <2> QED
    BY <2>1, <2>2, <2>3
<1>3. CASE BlockWave \/ FailWave \/ MergeWave \/ Crash
  BY <1>3 DEF BlockWave, FailWave, MergeWave, Crash, InTurn
<1>4. CASE Resume
  BY <1>4 DEF Resume, InTurn, TurnInv, TypeInv, TypeOK
<1>5. CASE UNCHANGED vars
  BY <1>5 DEF vars, InTurn, TurnInv, FirstTry, Reaches, Unused
<1> QED
  BY <1>1, <1>2, <1>3, <1>4, <1>5 DEF Next, WaveStep

\* While the stories of a wave run in turn, no resume gives it a second worker: a first
\* start blocks no story as long as a cycle has a second iteration (loopConfig.ts: four by
\* default), and a later start is known to inflightResumes (core/resume.ts).
THEOREM ResumesInTurn == Spec => []OneWorkerInTurn
<1>1. CASE MaxIterations > 1
  <2>1. Init => TurnInv
    BY TypeInit DEF Init, TurnInv, FirstTry, Reaches
  <2>2. TurnInv => OneWorkerInTurn
    BY DEF TurnInv, InTurn, OneWorkerInTurn, Resumable, TypeInv, TypeOK
  <2>3. TurnInv /\ [Next]_vars => TurnInv'
    BY <1>1, TurnStep
  <2> QED
    BY <2>1, <2>2, <2>3, PTL DEF Spec
<1>2. CASE ~(MaxIterations > 1)
  <2>1. OneWorkerInTurn
    BY <1>2 DEF OneWorkerInTurn
  <2> QED
    BY <2>1, PTL
<1> QED
  BY <1>1, <1>2

-----------------------------------------------------------------------------
(* The order of the stages.                                                *)

LEMMA OrderIs ==
    /\ Order \in [1..8 -> Stages]
    /\ Order[1] = "requirements" /\ Order[2] = "architecture" /\ Order[3] = "planning"
    /\ Order[4] = "execution" /\ Order[5] = "project-review" /\ Order[6] = "qa"
    /\ Order[7] = "documentation" /\ Order[8] = "handoff"
    /\ Stages = {"requirements", "architecture", "planning", "execution",
                 "project-review", "qa", "documentation", "handoff"}
BY DEF Order, Stages

LEMMA PosIs ==
    /\ Pos["requirements"] = 1 /\ Pos["architecture"] = 2 /\ Pos["planning"] = 3
    /\ Pos["execution"] = 4 /\ Pos["project-review"] = 5 /\ Pos["qa"] = 6
    /\ Pos["documentation"] = 7 /\ Pos["handoff"] = 8
<1>1. ASSUME NEW s \in Stages, NEW i \in 1..8, Order[i] = s PROVE Pos[s] = i
  <2>1. \A j \in 1..8 : Order[j] = s => j = i
    BY <1>1, OrderIs
  <2> QED
    BY <1>1, <2>1 DEF Pos
<1> QED
  BY <1>1, OrderIs

\* Each stage but the last has a next one, and no two stand at the same place.
LEMMA PosNext ==
    /\ \A s \in Stages : Pos[s] \in 1..8 /\ Order[Pos[s]] = s
    /\ \A s, t \in Stages : Pos[s] = Pos[t] => s = t
    /\ \A s \in Stages \ {"handoff"} :
           /\ Pos[s] < 8
           /\ Order[Pos[s] + 1] \in Stages /\ Pos[Order[Pos[s] + 1]] = Pos[s] + 1
BY OrderIs, PosIs

-----------------------------------------------------------------------------
(* The types.                                                              *)

RunRows ==
    [status : {"running", "blocked", "failed", "completed"},
     stage : Stages \cup ItemStages \cup {"none"},
     scope : {"none", "run", "stage", "story"},
     ref : Stages \cup ItemStages \cup {"none"}]

FileStates ==
    [json : BOOLEAN, projects : 0..MaxProjects, ui : BOOLEAN, wire : BOOLEAN,
     design : BOOLEAN, frozen : 0..MaxProjects, own : SUBSET Ids,
     disk : [Stages -> 0..MaxProjects], passed : SUBSET Stages, green : BOOLEAN]

Plans ==
    [item : ItemStages \cup {"projects"}, manual : Design \cup {"none"},
     skipPrep : BOOLEAN, from : [Ids -> Stages]]

Places ==
    [at : {"off", "start", "load", "projects", "finish"} \cup ItemStages,
     p : 0..MaxProjects, s : Stages \cup {"none"}, phase : {"next", "busy", "saved"}]

Branches == [built : [Ids -> 0..MaxProjects], merged : SUBSET Ids, base : BOOLEAN]

Replans == [at : {"none", "prepared", "swapped"}, recoverable : BOOLEAN, raced : BOOLEAN]

RowType == run \in RunRows /\ worker \in Places

CodeType ==
    /\ ctx \in [Stages -> 0..MaxProjects] /\ git \in Branches
    /\ checked \in [Ids -> SUBSET Checks] /\ green \in [Ids -> BOOLEAN] /\ auto \in BOOLEAN

RevType == rev \in [disk : 0..MaxReplans, ctx : 0..MaxReplans] /\ due \in [Ids -> 0..MaxReplans]

FrameType ==
    /\ imported \in BOOLEAN /\ plan \in Plans /\ replan \in Replans
    /\ resumes \in 0..MaxResumes /\ crashes \in 0..MaxCrashes

FlowTypes == RowType /\ files \in FileStates /\ CodeType /\ RevType /\ FrameType

LEMMA FlowTypeIs == FlowTypes <=> FlowTypeOK
BY DEF FlowTypes, FlowTypeOK, RunRows, FileStates, Plans, Places, Branches, Replans,
       RowType, CodeType, RevType, FrameType

LEMMA OffIs ==
    /\ Off \in Places /\ Off.at = "off" /\ Off.p = 0 /\ Off.s = "none" /\ Off.phase = "next"
    /\ \A at \in {"off", "start", "load", "projects", "finish"} \cup ItemStages :
           LET w == [Off EXCEPT !.at = at] IN
           /\ w \in Places /\ w.at = at /\ w.p = 0 /\ w.s = "none" /\ w.phase = "next"
BY BoundAssumption DEF Off, Places

LEMMA StopType ==
    ASSUME FlowTypes, NEW status \in {"running", "blocked", "failed", "completed"},
           NEW sc \in {"none", "run", "stage", "story"},
           NEW ref \in Stages \cup ItemStages \cup {"none"}, Stop(status, sc, ref)
    PROVE  RowType'
BY OffIs DEF FlowTypes, Stop, RunRows, RowType

LEMMA BlockType == ASSUME FlowTypes, BlockRun PROVE RowType'
BY StopType DEF BlockRun

LEMMA ThrowType == ASSUME FlowTypes, Throw PROVE RowType'
<1>1. CASE run.scope = "none"
  BY <1>1, StopType DEF Throw, Over
<1>2. CASE run.scope # "none"
  BY <1>2, OffIs DEF FlowTypes, Throw, Over, RowType
<1> QED
  BY <1>1, <1>2

LEMMA StageStopsType ==
    ASSUME FlowTypes, NEW s \in Stages \cup ItemStages, StageStops(s) PROVE RowType'
BY StopType DEF StageStops

LEMMA GoType ==
    ASSUME FlowTypes, NEW at \in {"start", "load", "finish"} \cup ItemStages, Go(at),
           UNCHANGED run
    PROVE  RowType'
BY OffIs DEF FlowTypes, Go, RowType

LEMMA BeginType ==
    ASSUME FlowTypes, NEW s \in Stages \cup ItemStages, Begin(s) PROVE RowType'
BY DEF FlowTypes, Begin, RunRows, Places, RowType

LEMMA ToProjectsType ==
    ASSUME FlowTypes, ToProjects, UNCHANGED run PROVE RowType'
<1>1. CASE plan.item = "merge-gate"
  BY <1>1, GoType DEF FlowTypes, RowType, ToProjects, ItemStages
<1>2. CASE plan.item # "merge-gate"
  BY <1>2, BoundAssumption, OrderIs DEF FlowTypes, ToProjects, RowType, Places
<1> QED
  BY <1>1, <1>2

LEMMA ToFrontendType == ASSUME FlowTypes, ToFrontend PROVE RowType'
BY GoType, ThrowType, ToProjectsType DEF FlowTypes, RowType, ToFrontend, ItemStages, Design

\* Where the worker is.
PlaceInv ==
    /\ IF worker.at = "projects"
       THEN worker.p \in 1..files.projects /\ worker.s \in Stages
       ELSE worker.p = 0 /\ worker.s = "none"
    /\ worker.phase # "next" =>
           /\ worker.at \in ItemStages \cup {"projects"}
           /\ run.stage = (IF worker.at = "projects" THEN worker.s ELSE worker.at)
           /\ worker.at = "projects" => ShouldRun(worker.p, worker.s)
    /\ worker.phase = "saved" => worker.at # "merge-gate" /\ worker.s # "handoff"

\* On from a stage: to the next one, to the next project, or to the gate.
LEMMA AdvanceIs ==
    ASSUME FlowTypes, PlaceInv, worker.at = "projects", Advance
    PROVE  /\ worker' \in Places
           /\ \/ /\ worker.s # "handoff"
                 /\ worker'.at = "projects" /\ worker'.p = worker.p /\ worker'.phase = "next"
                 /\ worker'.s \in Stages /\ Pos[worker'.s] = Pos[worker.s] + 1
              \/ /\ worker.s = "handoff" /\ worker.p < files.projects
                 /\ worker'.at = "projects" /\ worker'.p = worker.p + 1 /\ worker'.phase = "next"
                 /\ worker'.s = "requirements"
              \/ /\ worker.s = "handoff" /\ worker.p = files.projects
                 /\ worker'.at = "merge-gate" /\ worker'.p = 0 /\ worker'.phase = "next"
                 /\ worker'.s = "none"
<1> USE DEF FlowTypes, RowType
<1>0. worker.s \in Stages /\ worker.p \in 1..files.projects /\ files.projects \in 0..MaxProjects
  BY DEF PlaceInv, FileStates
<1>1. CASE worker.s # "handoff"
  <2> DEFINE n == Order[Pos[worker.s] + 1]
             w == [worker EXCEPT !.s = n, !.phase = "next"]
  <2>1. n \in Stages /\ Pos[n] = Pos[worker.s] + 1
    BY <1>0, <1>1, PosNext
  <2>2. w \in Places /\ w.at = "projects" /\ w.p = worker.p /\ w.s = n /\ w.phase = "next"
    BY <2>1 DEF Places
  <2>3. worker' = w
    BY <1>1 DEF Advance
  <2> HIDE DEF n, w
  <2> QED
    BY <1>1, <2>1, <2>2, <2>3
<1>2. CASE worker.s = "handoff" /\ worker.p < files.projects
  <2>1. worker.p + 1 \in 0..MaxProjects
    BY <1>0, <1>2, BoundAssumption
  <2> DEFINE w == [worker EXCEPT !.p = worker.p + 1, !.s = "requirements", !.phase = "next"]
  <2>2. w \in Places /\ w.at = "projects" /\ w.p = worker.p + 1 /\ w.s = "requirements"
        /\ w.phase = "next"
    BY <2>1, OrderIs DEF Places
  <2>3. worker' = w
    BY <1>2 DEF Advance
  <2> HIDE DEF w
  <2> QED
    BY <1>2, <2>2, <2>3
<1>3. CASE worker.s = "handoff" /\ ~(worker.p < files.projects)
  <2>1. worker.p = files.projects
    BY <1>0, <1>3, BoundAssumption
  <2>2. Go("merge-gate")
    BY <1>3 DEF Advance
  <2> QED
    BY <1>3, <2>1, <2>2, OffIs DEF Go, ItemStages
<1> QED
  BY <1>1, <1>2, <1>3

\* What a replan has read holds until it is done.
ReplanInv ==
    /\ replan.at = "prepared" =>
           /\ rev.disk < MaxReplans
           /\ worker.at # "off" => replan.raced
    /\ replan.at # "none" =>
           /\ files.disk["planning"] # 0
           /\ ~replan.recoverable => worker.at = "off" /\ run.scope = "none"
    /\ \A p \in Ids : due[p] <= rev.disk

LEMMA ItemStepType ==
    ASSUME FlowTypes, PlaceInv,
           \/ Prepare \/ BrainstormBegins \/ BrainstormSaves \/ BrainstormEnds \/ LoadProjects
           \/ DesignBegins \/ DesignSaves \/ DesignEnds
           \/ GateOpens \/ GateAnswered \/ Finish
    PROVE  FlowTypes'
<1> USE DEF FlowTypes, Keep, KeepRow, histVars, revVars, RevType, FrameType
<1>1. CASE Prepare
  <2>1. RowType'
    BY <1>1, BlockType, GoType DEF Prepare, ItemStages
  <2> QED
    BY <1>1, <2>1 DEF Prepare, CodeType
<1>2. CASE BrainstormBegins
  <2>1. RowType'
    BY <1>2, BeginType DEF BrainstormBegins, ItemStages
  <2> QED
    BY <1>2, <2>1 DEF BrainstormBegins, CodeType, FileStates
<1>3. CASE BrainstormSaves
  <2>1. RowType'
    BY <1>3 DEF BrainstormSaves, RowType, Places
  <2>2. files' \in FileStates
    <3>1. PICK n \in Ids, ui \in BOOLEAN : files' = [files EXCEPT !.projects = n, !.ui = ui]
      BY <1>3 DEF BrainstormSaves
    <3>2. n \in 0..MaxProjects
      BY BoundAssumption DEF Ids
    <3> QED
      BY <3>1, <3>2 DEF FileStates
  <2> QED
    BY <1>3, <2>1, <2>2 DEF BrainstormSaves, CodeType
<1>4. CASE BrainstormEnds
  <2>1. RowType'
    BY <1>4, StageStopsType, GoType DEF BrainstormEnds, ItemStages
  <2> QED
    BY <1>4, <2>1 DEF BrainstormEnds, CodeType
<1>5. CASE LoadProjects
  <2>1. RowType'
    BY <1>5, ThrowType, BlockType, ToProjectsType, ToFrontendType, GoType
    DEF LoadProjects, ItemStages, Design
  <2>2. ctx' \in [Stages -> 0..MaxProjects]
    BY <1>5, BoundAssumption DEF LoadProjects, NoCtx
  <2> QED
    BY <1>5, <2>1, <2>2 DEF LoadProjects, CodeType
<1>6. CASE DesignBegins
  <2>1. RowType'
    BY <1>6, BeginType DEF DesignBegins, ItemStages
  <2> QED
    BY <1>6, <2>1 DEF DesignBegins, CodeType, FileStates
<1>7. CASE DesignSaves
  <2>1. RowType'
    BY <1>7 DEF DesignSaves, RowType, Places
  <2>2. files' \in FileStates
    <3>1. files.projects \in 0..MaxProjects
      BY DEF FileStates
    <3>2. \/ files' = [files EXCEPT !.wire = TRUE, !.frozen = files.projects]
          \/ files' = [files EXCEPT !.design = TRUE]
      BY <1>7 DEF DesignSaves
    <3> QED
      BY <3>1, <3>2 DEF FileStates
  <2> QED
    BY <1>7, <2>1, <2>2 DEF DesignSaves, CodeType
<1>8. CASE DesignEnds
  <2>1. RowType'
    BY <1>8, StageStopsType, ThrowType, ToFrontendType, ToProjectsType DEF DesignEnds, ItemStages
  <2> QED
    BY <1>8, <2>1 DEF DesignEnds, CodeType
<1>9. CASE GateOpens
  <2>1. RowType'
    BY <1>9, BeginType DEF GateOpens, ItemStages
  <2> QED
    BY <1>9, <2>1 DEF GateOpens, CodeType
<1>10. CASE GateAnswered
  <2>1. RowType'
    BY <1>10, StopType, GoType DEF GateAnswered, ItemStages
  <2>2. git' \in Branches /\ auto' \in BOOLEAN
    BY <1>10 DEF GateAnswered, CodeType, Branches
  <2> QED
    BY <1>10, <2>1, <2>2 DEF GateAnswered, CodeType
<1>11. CASE Finish
  <2>1. RowType'
    <3>1. CASE run.scope = "none"
      BY <1>11, <3>1, StopType DEF Finish, Over
    <3>2. CASE run.scope # "none"
      BY <1>11, <3>2, OffIs DEF Finish, Over, RowType
    <3> QED
      BY <3>1, <3>2
  <2> QED
    BY <1>11, <2>1 DEF Finish, CodeType
<1> QED
  BY <1>1, <1>2, <1>3, <1>4, <1>5, <1>6, <1>7, <1>8, <1>9, <1>10, <1>11

LEMMA WrittenType == ASSUME FlowTypes, PlanWritten PROVE RevType'
<1> USE DEF FlowTypes, RevType
<1>1. CASE worker.s = "planning"
  <2>1. rev' \in [disk : 0..MaxReplans, ctx : 0..MaxReplans]
    BY <1>1 DEF PlanWritten
  <2>2. due' \in [Ids -> 0..MaxReplans]
    BY <1>1, BoundAssumption DEF PlanWritten
  <2> QED
    BY <2>1, <2>2
<1>2. CASE worker.s # "planning"
  BY <1>2 DEF PlanWritten, revVars
<1> QED
  BY <1>1, <1>2

LEMMA ProjectStepType ==
    ASSUME FlowTypes, PlaceInv,
           \/ StageBegins \/ StageIsLoaded \/ StageSaves \/ CodeChanges \/ StagePasses
           \/ StageFails \/ ProjectIsRefused \/ Handoff
    PROVE  FlowTypes'
<1> USE DEF FlowTypes, Keep, KeepRow, histVars, revVars, RevType, FrameType, OnStage
<1>0. /\ worker.at = "projects"
      /\ worker.s \in Stages /\ worker.p \in Ids /\ worker.p \in 0..MaxProjects
  <2>1. worker.at = "projects"
    BY DEF StageBegins, StageIsLoaded, StageSaves, CodeChanges, StagePasses, StageFails,
           ProjectIsRefused, Handoff
  <2>2. worker.s \in Stages /\ worker.p \in 1..files.projects
    BY <2>1 DEF PlaceInv
  <2>3. files.projects \in 0..MaxProjects
    BY DEF FileStates
  <2> QED
    BY <2>1, <2>2, <2>3, BoundAssumption DEF Ids
<1>1. CASE StageBegins
  <2>1. RowType'
    BY <1>0, <1>1, BeginType DEF StageBegins
  <2> QED
    BY <1>1, <2>1 DEF StageBegins, CodeType, FileStates
<1>2. CASE StageIsLoaded
  <2>1. RowType'
    BY <1>0, <1>2, AdvanceIs, ThrowType DEF StageIsLoaded, RowType
  <2>2. Source(worker.p, worker.s) \in 0..MaxProjects
    BY <1>0 DEF Source, FileStates
  <2>3. ctx' \in [Stages -> 0..MaxProjects]
    BY <1>0, <1>2, <2>2, BoundAssumption DEF StageIsLoaded, NextCtx, NoCtx, CodeType
  <2>4. rev' \in [disk : 0..MaxReplans, ctx : 0..MaxReplans]
    BY <1>2 DEF StageIsLoaded
  <2> QED
    BY <1>2, <2>1, <2>3, <2>4 DEF StageIsLoaded, CodeType
<1>3. CASE StageSaves
  <2>1. RowType'
    BY <1>3 DEF StageSaves, RowType, Places
  <2>2. files' \in FileStates
    <3>1. PICK g \in BOOLEAN :
              files' = [files EXCEPT !.disk[worker.s] = worker.p, !.passed = @ \ {worker.s},
                                     !.green = g]
      BY <1>3 DEF StageSaves
    <3> QED
      BY <1>0, <3>1 DEF FileStates
  <2>3. RevType'
    BY <1>0, <1>3, WrittenType DEF StageSaves
  <2> QED
    BY <1>3, <2>1, <2>2, <2>3 DEF StageSaves, CodeType
<1>4. CASE CodeChanges
  <2>1. RowType'
    BY <1>4 DEF CodeChanges, RowType, Places
  <2>2. git' \in Branches
    BY <1>0, <1>4, OrderIs DEF CodeChanges, CodeType, Branches
  <2>3. RevType'
    BY <1>0, <1>4, BoundAssumption DEF CodeChanges
  <2> QED
    BY <1>0, <1>4, <2>1, <2>2, <2>3 DEF CodeChanges, CodeType
<1>5. CASE StagePasses
  <2>1. RowType'
    BY <1>0, <1>5, AdvanceIs DEF StagePasses, RowType
  <2>2. files' \in FileStates
    BY <1>0, <1>5 DEF StagePasses, FileStates
  <2>3. RevType'
    BY <1>0, <1>5, WrittenType DEF StagePasses
  <2>4. CodeType'
    BY <1>0, <1>5 DEF StagePasses, CodeType, FileStates
  <2> QED
    BY <1>5, <2>1, <2>2, <2>3, <2>4 DEF StagePasses
<1>6. CASE StageFails
  <2>1. RowType'
    BY <1>0, <1>6, StageStopsType, StopType, BlockType, OrderIs DEF StageFails
  <2> QED
    BY <1>6, <2>1 DEF StageFails, CodeType
<1>7. CASE ProjectIsRefused
  <2>1. RowType'
    BY <1>7, BlockType DEF ProjectIsRefused
  <2> QED
    BY <1>7, <2>1 DEF ProjectIsRefused, CodeType
<1>8. CASE Handoff
  <2>1. RowType'
    BY <1>0, <1>8, BlockType, ThrowType, AdvanceIs DEF Handoff, RowType
  <2>2. git' \in Branches /\ ctx' \in [Stages -> 0..MaxProjects]
    BY <1>0, <1>8, BoundAssumption DEF Handoff, CodeType, Branches, NoCtx
  <2> QED
    BY <1>8, <2>1, <2>2 DEF Handoff, CodeType
<1> QED
  BY <1>1, <1>2, <1>3, <1>4, <1>5, <1>6, <1>7, <1>8

LEMMA ResumeStageType == ASSUME FlowTypes PROVE ResumeStage \in Stages \cup ItemStages \cup {"none"}
BY OrderIs DEF ResumeStage, FlowTypes, RowType, RunRows

LEMMA ResumePlanType ==
    ASSUME FlowTypes, NEW stage \in Stages \cup ItemStages \cup {"none"}
    PROVE  ResumePlan(stage) \in Plans
<1>1. From(IF stage \in Stages THEN stage ELSE "requirements") \in [Ids -> Stages]
  BY OrderIs DEF From
<1> QED
  BY <1>1 DEF ResumePlan, Plans, FlowTypes, FrameType

\* A lost worker, a resume and a replan.
LEMMA OutsideStepType ==
    ASSUME FlowTypes, ReplanInv,
           \/ WorkerIsLost \/ ResumeRun
           \/ ReplanBegins \/ ReplanSwaps \/ ReplanRecords \/ ReplanAborts
    PROVE  FlowTypes'
<1> USE DEF FlowTypes, KeepWorker, histVars, revVars, CodeType
<1>1. CASE WorkerIsLost
  <2>1. RowType'
    BY <1>1, StopType DEF WorkerIsLost
  <2>2. FrameType'
    BY <1>1, BoundAssumption DEF WorkerIsLost, FrameType
  <2> QED
    BY <1>1, <2>1, <2>2 DEF WorkerIsLost, RevType
<1>2. CASE ResumeRun
  <2>1. RowType'
    <3>1. run' \in RunRows
      BY <1>2 DEF ResumeRun, RunRows, RowType
    <3>2. worker' \in Places
      BY <1>2, OffIs DEF ResumeRun, Go
    <3> QED
      BY <3>1, <3>2 DEF RowType
  <2>2. FrameType'
    <3>1. plan' \in Plans
      BY <1>2, ResumeStageType, ResumePlanType DEF ResumeRun
    <3>2. replan' \in Replans
      BY <1>2 DEF ResumeRun, Replans, FrameType
    <3>3. resumes' \in 0..MaxResumes
      BY <1>2, BoundAssumption DEF ResumeRun, FrameType
    <3> QED
      BY <1>2, <3>1, <3>2, <3>3 DEF ResumeRun, FrameType
  <2> QED
    BY <1>2, <2>1, <2>2 DEF ResumeRun, RevType
<1>3. CASE ReplanBegins
  <2>1. replan' \in Replans
    BY <1>3 DEF ReplanBegins, Replans
  <2> QED
    BY <1>3, <2>1 DEF ReplanBegins, FrameType, RowType, RevType
<1>4. CASE ReplanSwaps
  <2>1. replan' \in Replans
    BY <1>4 DEF ReplanSwaps, Replans, FrameType
  <2>2. files' \in FileStates
    BY <1>4, OrderIs DEF ReplanSwaps, FileStates
  <2>3. RevType'
    <3>1. rev.disk + 1 \in 0..MaxReplans
      BY <1>4, BoundAssumption DEF ReplanSwaps, ReplanInv, RevType
    <3>2. rev' \in [disk : 0..MaxReplans, ctx : 0..MaxReplans] /\ rev'.disk \in 0..MaxReplans
      BY <1>4, <3>1 DEF ReplanSwaps, RevType
    <3> QED
      BY <1>4, <3>2 DEF ReplanSwaps, RevType
  <2> QED
    BY <1>4, <2>1, <2>2, <2>3 DEF ReplanSwaps, FrameType, RowType
<1>5. CASE ReplanRecords
  <2>1. run' \in RunRows
    BY <1>5 DEF ReplanRecords, RunRows, RowType
  <2> QED
    BY <1>5, <2>1 DEF ReplanRecords, FrameType, RowType, RevType, NoReplan, Replans
<1>6. CASE ReplanAborts
  BY <1>6 DEF ReplanAborts, FrameType, RowType, RevType, NoReplan, Replans
<1> QED
  BY <1>1, <1>2, <1>3, <1>4, <1>5, <1>6

-----------------------------------------------------------------------------
(* What the row, the worker, the plan and a replan agree on.               *)

\* The row names the stage that the recovery is about; while a worker is there, the
\* recovery of the row can only be one that a replan wrote.
RowInv ==
    /\ run.ref \in {"none", run.stage}
    /\ run.scope \in {"stage", "story"} => run.ref # "none"
    /\ worker.at # "off" => run.ref = "none"
    /\ files.json => run.stage # "none"
    /\ plan.skipPrep = imported
    /\ plan.item \in ItemStages => plan.from = From("requirements")
    /\ plan.item \in {"brainstorm", "merge-gate"} => plan.manual = "none"

\* How a worker ends: it is off, the row may name a recovery for its stage.
Ends ==
    /\ worker' = Off
    /\ run'.stage = run.stage
    /\ run'.ref \in {"none", run.stage}
    /\ run'.scope \in {"stage", "story"} => run'.ref # "none"

LEMMA StopEnds ==
    ASSUME FlowTypes, NEW status, NEW sc, NEW ref, Stop(status, sc, ref),
           ref \in {"none", run.stage}, sc \in {"stage", "story"} => ref # "none"
    PROVE  Ends
BY DEF Stop, Ends, FlowTypes, RowType, RunRows

LEMMA OverEnds == ASSUME FlowTypes, RowInv, NEW status, Over(status) PROVE Ends
BY StopEnds DEF Over, Ends, RowInv

LEMMA BlockEnds == ASSUME FlowTypes, BlockRun PROVE Ends
BY StopEnds DEF BlockRun

LEMMA StageStopsEnds ==
    ASSUME FlowTypes, NEW s \in Stages \cup ItemStages, run.stage = s, StageStops(s) PROVE Ends
<1>1. s # "none"
  BY OrderIs DEF ItemStages, Design
<1> QED
  BY <1>1, StopEnds DEF StageStops

Prepared == ~files.ui \/ imported \/ (files.wire /\ files.design)

Empty == \A s \in Stages : files.disk[s] = 0

PrepInv ==
    /\ files.projects = 0 =>
           /\ worker.at \in {"off", "start", "brainstorm"}
           /\ plan.item = "brainstorm" /\ run.stage \in {"none", "brainstorm"}
    /\ worker.at = "brainstorm" =>
           plan.item = "brainstorm" /\ (worker.phase = "saved" => files.projects # 0)
    /\ run.stage = "brainstorm" \/ (plan.item = "brainstorm" /\ worker.at \in {"start", "brainstorm"})
           => Empty /\ run.stage \in {"none", "brainstorm"}
    /\ \A s \in Stages : files.disk[s] <= files.projects
    /\ plan.manual = "frontend-design" => files.wire
    /\ worker.at = "visual-companion" /\ worker.phase = "saved" => files.wire
    /\ worker.at = "frontend-design" => files.wire /\ (worker.phase = "saved" => files.design)
    /\ worker.at \in {"projects", "merge-gate", "finish"}
           \/ run.stage \in Stages \cup {"merge-gate"} => Prepared

\* The steps of a worker.
ItemStep ==
    \/ Prepare \/ BrainstormBegins \/ BrainstormSaves \/ BrainstormEnds \/ LoadProjects
    \/ DesignBegins \/ DesignSaves \/ DesignEnds
    \/ GateOpens \/ GateAnswered \/ Finish

ProjectStep ==
    \/ StageBegins \/ StageIsLoaded \/ StageSaves \/ CodeChanges \/ StagePasses
    \/ StageFails \/ ProjectIsRefused \/ Handoff

At1 == [at |-> "projects", p |-> 1, s |-> "requirements", phase |-> "next"]

\* What it comes to for the row and the worker: it ends; it goes to an item stage, to
\* the projects or to the end; it begins a stage, or saves its artifact; it goes on
\* from a stage of a project.
Goes(at) == worker' = [Off EXCEPT !.at = at] /\ run' = run /\ files' = files

Current == IF worker.at = "projects" THEN worker.s ELSE worker.at

StageStarts ==
    /\ worker.at \in ItemStages \cup {"projects"} /\ worker.phase = "next"
    /\ worker.at = "projects" => ShouldRun(worker.p, worker.s)
    /\ Begin(Current)
    /\ \E json \in BOOLEAN : files' = [files EXCEPT !.json = json]

Saving ==
    /\ worker.phase = "busy" /\ worker.at # "merge-gate" /\ worker.s # "handoff"
    /\ worker' = [worker EXCEPT !.phase = "saved"]
    /\ run' = run /\ files'.json = files.json
    /\ worker.at # "brainstorm" => files'.projects = files.projects
    /\ files'.projects # 0

ProjectActs ==
    \/ Ends /\ files' = files
    \/ StageStarts
    \/ Saving
    \/ /\ worker.at = "projects" /\ Advance /\ run' = run
       /\ files'.json = files.json /\ files'.projects = files.projects

Acts ==
    \/ ProjectActs
    \/ \E at \in {"load", "finish"} \cup ItemStages : Goes(at)
    \/ files.projects # 0 /\ worker' = At1 /\ run' = run /\ files' = files

LEMMA GoGoes ==
    ASSUME NEW at, Go(at), UNCHANGED <<run, files>> PROVE Goes(at)
BY DEF Go, Goes

LEMMA ToProjectsActs ==
    ASSUME files.projects # 0, ToProjects, UNCHANGED <<run, files>> PROVE Acts
BY GoGoes DEF ToProjects, ProjectActs, Acts, At1, ItemStages

LEMMA ToFrontendActs ==
    ASSUME FlowTypes, RowInv, files.projects # 0, ToFrontend, UNCHANGED files PROVE Acts
<1>1. CASE Throw
  BY <1>1, OverEnds DEF Throw, ProjectActs, Acts
<1>2. CASE Go("frontend-design") /\ UNCHANGED run
  BY <1>2, GoGoes DEF ProjectActs, Acts, ItemStages, Design
<1>3. CASE ToProjects /\ UNCHANGED run
  BY <1>3, ToProjectsActs
<1> QED
  BY <1>1, <1>2, <1>3 DEF ToFrontend

LEMMA ItemStepActs ==
    ASSUME FlowTypes, RowInv, PlaceInv, PrepInv, ItemStep
    PROVE  worker.at # "off" /\ Acts /\ UNCHANGED <<imported, plan, replan, rev, due>>
<1> USE DEF Keep, KeepRow, revVars
<1>1. CASE Prepare
  <2>1. CASE BlockRun
    BY <1>1, <2>1, BlockEnds DEF Prepare, ProjectActs, Acts
  <2>2. CASE ~BlockRun
    BY <1>1, <2>2, GoGoes DEF Prepare, ProjectActs, Acts, ItemStages
  <2> QED
    BY <1>1, <2>1, <2>2 DEF Prepare
<1>2. CASE BrainstormBegins
  <2>1. StageStarts
    BY <1>2 DEF BrainstormBegins, At, StageStarts, Current, ItemStages
  <2> QED
    BY <1>2, <2>1 DEF BrainstormBegins, At, ProjectActs, Acts
<1>3. CASE BrainstormSaves
  <2>1. PICK n \in Ids, ui \in BOOLEAN : files' = [files EXCEPT !.projects = n, !.ui = ui]
    BY <1>3 DEF BrainstormSaves
  <2>2. files'.json = files.json /\ files'.projects # 0
    BY <2>1 DEF FlowTypes, FileStates, Ids
  <2>3. worker.s # "handoff"
    BY <1>3 DEF BrainstormSaves, At, PlaceInv
  <2> QED
    BY <1>3, <2>2, <2>3 DEF BrainstormSaves, At, ProjectActs, Acts, Saving
<1>4. CASE BrainstormEnds
  <2>1. CASE StageStops("brainstorm")
    BY <1>4, <2>1, StageStopsEnds DEF BrainstormEnds, PlaceInv, ProjectActs, Acts, ItemStages
  <2>2. CASE Go("load") /\ UNCHANGED run
    BY <1>4, <2>2, GoGoes DEF BrainstormEnds, ProjectActs, Acts
  <2> QED
    BY <1>4, <2>1, <2>2 DEF BrainstormEnds
<1>5. CASE LoadProjects
  <2>1. CASE Throw
    BY <1>5, <2>1, OverEnds DEF LoadProjects, Throw, ProjectActs, Acts
  <2>2. CASE BlockRun
    BY <1>5, <2>2, BlockEnds DEF LoadProjects, ProjectActs, Acts
  <2>3. CASE files.projects # 0 /\ ToProjects /\ UNCHANGED run
    BY <1>5, <2>3, ToProjectsActs DEF LoadProjects
  <2>4. CASE Go("visual-companion") /\ UNCHANGED run
    BY <1>5, <2>4, GoGoes DEF LoadProjects, ProjectActs, Acts, ItemStages, Design
  <2>5. CASE files.projects # 0 /\ ToFrontend
    BY <1>5, <2>5, ToFrontendActs DEF LoadProjects
  <2> QED
    BY <1>5, <2>1, <2>2, <2>3, <2>4, <2>5 DEF LoadProjects
<1>6. CASE DesignBegins
  <2>1. PICK s \in Design :
            At(s, "next") /\ Begin(s) /\ files' = [files EXCEPT !.json = TRUE]
    BY <1>6 DEF DesignBegins
  <2>2. s # "projects" /\ s # "off"
    BY DEF Design
  <2>3. StageStarts
    BY <2>1, <2>2 DEF At, StageStarts, Current, ItemStages
  <2> QED
    BY <1>6, <2>1, <2>2, <2>3 DEF DesignBegins, At, ProjectActs, Acts
<1>7. CASE DesignSaves
  <2>1. PICK s \in Design :
            /\ At(s, "busy") /\ worker' = [worker EXCEPT !.phase = "saved"]
            /\ files' = IF s = "visual-companion"
                        THEN [files EXCEPT !.wire = TRUE, !.frozen = files.projects]
                        ELSE [files EXCEPT !.design = TRUE]
    BY <1>7 DEF DesignSaves
  <2>2. s # "projects" /\ s # "off" /\ s # "merge-gate" /\ s # "brainstorm" /\ s # "start"
    BY DEF Design
  <2>3. files'.json = files.json /\ files'.projects = files.projects
    BY <2>1 DEF FlowTypes, FileStates
  <2>4. files.projects # 0 /\ worker.s # "handoff"
    BY <2>1, <2>2 DEF At, PrepInv, PlaceInv
  <2> QED
    BY <1>7, <2>1, <2>2, <2>3, <2>4 DEF DesignSaves, At, ProjectActs, Acts, Saving
<1>8. CASE DesignEnds
  <2>1. PICK s \in Design :
            /\ worker.at = s /\ worker.phase # "next"
            /\ \/ StageStops(s) \/ Throw \/ ToFrontend \/ (ToProjects /\ UNCHANGED run)
    BY <1>8 DEF DesignEnds
  <2>2. s \in Stages \cup ItemStages /\ s # "off" /\ run.stage = s /\ files.projects # 0
    BY <2>1 DEF Design, ItemStages, PlaceInv, PrepInv
  <2>3. files' = files
    BY <1>8 DEF DesignEnds
  <2>4. Acts
    BY <2>1, <2>2, <2>3, StageStopsEnds, OverEnds, ToFrontendActs, ToProjectsActs DEF Throw, ProjectActs, Acts
  <2> QED
    BY <1>8, <2>1, <2>2, <2>4 DEF DesignEnds
<1>9. CASE GateOpens
  <2>1. StageStarts
    <3>1. files' = [files EXCEPT !.json = files.json] /\ files.json \in BOOLEAN
      BY <1>9 DEF GateOpens, FlowTypes, FileStates
    <3> QED
      BY <1>9, <3>1 DEF GateOpens, At, StageStarts, Current, ItemStages
  <2> QED
    BY <1>9, <2>1 DEF GateOpens, At, ProjectActs, Acts
<1>10. CASE GateAnswered
  <2>1. CASE Stop("blocked", "stage", "merge-gate")
    BY <1>10, <2>1, StopEnds DEF GateAnswered, At, PlaceInv, ProjectActs, Acts
  <2>2. CASE Go("finish") /\ UNCHANGED run
    BY <1>10, <2>2, GoGoes DEF GateAnswered, At, ProjectActs, Acts
  <2> QED
    BY <1>10, <2>1, <2>2 DEF GateAnswered, At
<1>11. CASE Finish
  BY <1>11, OverEnds DEF Finish, ProjectActs, Acts
<1> QED
  BY <1>1, <1>2, <1>3, <1>4, <1>5, <1>6, <1>7, <1>8, <1>9, <1>10, <1>11 DEF ItemStep

\* A step in a project leaves the files of the item alone.
KeepsItem ==
    /\ files'.projects = files.projects /\ files'.ui = files.ui /\ files'.wire = files.wire
    /\ files'.design = files.design /\ files'.own = files.own

LEMMA ProjectStepActs ==
    ASSUME FlowTypes, RowInv, PlaceInv, ProjectStep
    PROVE  worker.at = "projects" /\ ProjectActs /\ KeepsItem /\ UNCHANGED <<imported, plan, replan>>
<1> USE DEF Keep, KeepRow, revVars, OnStage
<1>0. /\ worker.at = "projects" /\ UNCHANGED <<imported, plan, replan>>
      /\ worker.s \in Stages /\ worker.p \in 1..files.projects /\ files.projects # 0
      /\ worker.phase # "next" => run.stage = worker.s
  <2>1. worker.at = "projects" /\ UNCHANGED <<imported, plan, replan>>
    BY DEF ProjectStep, StageBegins, StageIsLoaded, StageSaves, CodeChanges, StagePasses,
           StageFails, ProjectIsRefused, Handoff
  <2>2. files.projects \in 0..MaxProjects
    BY DEF FlowTypes, FileStates
  <2> QED
    BY <2>1, <2>2, BoundAssumption DEF PlaceInv
<1>1. CASE StageBegins
  <2>1. PICK json \in BOOLEAN : files' = [files EXCEPT !.json = json]
    BY <1>1 DEF StageBegins, FlowTypes, FileStates
  <2>2. StageStarts
    BY <1>0, <1>1, <2>1 DEF StageBegins, StageStarts, Current
  <2> QED
    BY <1>0, <2>1, <2>2 DEF ProjectActs, KeepsItem, FlowTypes, FileStates
<1>2. CASE StageIsLoaded
  <2>1. files' = files
    BY <1>2 DEF StageIsLoaded
  <2>2. CASE Throw
    BY <1>0, <2>1, <2>2, OverEnds DEF Throw, ProjectActs, KeepsItem
  <2>3. CASE Advance /\ UNCHANGED run
    BY <1>0, <2>1, <2>3 DEF ProjectActs, KeepsItem
  <2> QED
    BY <1>2, <2>2, <2>3 DEF StageIsLoaded
<1>3. CASE StageSaves
  <2>1. files'.json = files.json /\ KeepsItem
    BY <1>3 DEF StageSaves, KeepsItem, FlowTypes, FileStates
  <2>2. Saving
    BY <1>0, <1>3, <2>1 DEF StageSaves, Saving, KeepsItem
  <2> QED
    BY <1>0, <2>1, <2>2 DEF ProjectActs
<1>4. CASE CodeChanges
  BY <1>0, <1>4 DEF CodeChanges, Saving, ProjectActs, KeepsItem
<1>5. CASE StagePasses
  <2>1. files'.json = files.json /\ KeepsItem
    BY <1>5 DEF StagePasses, KeepsItem, FlowTypes, FileStates
  <2> QED
    BY <1>0, <1>5, <2>1 DEF StagePasses, ProjectActs, KeepsItem
<1>6. CASE StageFails
  <2>1. Ends
    <3>1. CASE StageStops(worker.s)
      BY <1>0, <1>6, <3>1, StageStopsEnds DEF StageFails
    <3>2. CASE worker.s = "execution" /\ Stop("blocked", "story", "execution")
      BY <1>0, <1>6, <3>2, StopEnds DEF StageFails
    <3>3. CASE BlockRun
      BY <3>3, BlockEnds
    <3> QED
      BY <1>6, <3>1, <3>2, <3>3 DEF StageFails
  <2> QED
    BY <1>0, <1>6, <2>1 DEF StageFails, ProjectActs, KeepsItem
<1>7. CASE ProjectIsRefused
  BY <1>0, <1>7, BlockEnds DEF ProjectIsRefused, ProjectActs, KeepsItem
<1>8. CASE Handoff
  <2>1. files' = files
    BY <1>8 DEF Handoff
  <2>2. CASE BlockRun
    BY <1>0, <2>1, <2>2, BlockEnds DEF ProjectActs, KeepsItem
  <2>3. CASE Throw
    BY <1>0, <2>1, <2>3, OverEnds DEF Throw, ProjectActs, KeepsItem
  <2>4. CASE Advance /\ UNCHANGED run
    BY <1>0, <2>1, <2>4 DEF ProjectActs, KeepsItem
  <2> QED
    BY <1>8, <2>2, <2>3, <2>4 DEF Handoff
<1> QED
  BY <1>1, <1>2, <1>3, <1>4, <1>5, <1>6, <1>7, <1>8 DEF ProjectStep

LEMMA RowActs ==
    ASSUME FlowTypes, RowInv, PlaceInv, worker.at # "off", Acts, UNCHANGED <<imported, plan>>
    PROVE  RowInv'
<1> USE DEF RowInv
<1>1. CASE Ends /\ files' = files
  BY <1>1, OffIs DEF Ends
<1>2. CASE \E at \in {"load", "finish"} \cup ItemStages : Goes(at)
  BY <1>2 DEF Goes
<1>3. CASE worker' = At1 /\ run' = run /\ files' = files
  BY <1>3
<1>4. CASE StageStarts
  <2>1. Current # "none"
    BY <1>4, OrderIs DEF StageStarts, Current, PlaceInv, ItemStages, Design
  <2>2. run'.stage = Current /\ run'.ref = run.ref /\ run'.scope = run.scope
    BY <1>4 DEF StageStarts, Begin, FlowTypes, RowType, RunRows
  <2> QED
    BY <2>1, <2>2
<1>5. CASE Saving
  BY <1>5 DEF Saving
<1>6. CASE run' = run /\ files'.json = files.json
  BY <1>6
<1> QED
  BY <1>1, <1>2, <1>3, <1>4, <1>5, <1>6 DEF ProjectActs, Acts

LEMMA PlaceActs ==
    ASSUME FlowTypes, PlaceInv, Acts, UNCHANGED plan
    PROVE  PlaceInv'
<1> USE DEF PlaceInv
<1>0. files.projects \in Nat
  BY BoundAssumption DEF FlowTypes, FileStates
<1>1. CASE Ends /\ files' = files
  BY <1>1, OffIs DEF Ends
<1>2. CASE \E at \in {"load", "finish"} \cup ItemStages : Goes(at)
  <2>1. PICK at \in {"load", "finish"} \cup ItemStages : Goes(at)
    BY <1>2
  <2>2. /\ worker'.at = at /\ worker'.p = 0 /\ worker'.s = "none" /\ worker'.phase = "next"
        /\ at # "projects"
    BY <2>1, OffIs DEF Goes, ItemStages, Design
  <2> QED
    BY <2>2
<1>3. CASE files.projects # 0 /\ worker' = At1 /\ run' = run /\ files' = files
  BY <1>0, <1>3, OrderIs DEF At1
<1>4. CASE StageStarts
  <2>1. /\ worker'.at = worker.at /\ worker'.p = worker.p /\ worker'.s = worker.s
        /\ worker'.phase = "busy"
    BY <1>4 DEF StageStarts, Begin, FlowTypes, RowType, Places
  <2>2. run'.stage = Current
    BY <1>4 DEF StageStarts, Begin, FlowTypes, RowType, RunRows
  <2>3. files'.projects = files.projects
    BY <1>4 DEF StageStarts, FlowTypes, FileStates
  <2> QED
    BY <1>4, <2>1, <2>2, <2>3 DEF StageStarts, Current, ShouldRun
<1>5. CASE Saving
  <2>1. /\ worker'.at = worker.at /\ worker'.p = worker.p /\ worker'.s = worker.s
        /\ worker'.phase = "saved"
    BY <1>5 DEF Saving, FlowTypes, RowType, Places
  <2> QED
    BY <1>5, <2>1 DEF Saving, ShouldRun
<1>6. CASE worker.at = "projects" /\ Advance /\ run' = run /\ files'.projects = files.projects
  <2>1. worker.p + 1 \in 1..files.projects \/ ~(worker.p < files.projects)
    BY <1>0, <1>6
  <2> QED
    BY <1>6, <2>1, AdvanceIs, OrderIs, FlowTypeIs DEF ItemStages
<1> QED
  BY <1>1, <1>2, <1>3, <1>4, <1>5, <1>6 DEF ProjectActs, Acts

\* The steps beside the worker.
LEMMA OutsideRow ==
    ASSUME FlowTypes, RowInv, PlaceInv, ReplanInv,
           \/ WorkerIsLost \/ ResumeRun
           \/ ReplanBegins \/ ReplanSwaps \/ ReplanRecords \/ ReplanAborts
    PROVE  RowInv' /\ PlaceInv'
<1> USE DEF RowInv, PlaceInv, KeepWorker
<1>1. CASE WorkerIsLost
  <2>1. Ends
    BY <1>1, StopEnds DEF WorkerIsLost
  <2> QED
    BY <1>1, <2>1, OffIs DEF WorkerIsLost, Ends
<1>2. CASE ResumeRun
  <2>1. /\ worker'.at = "start" /\ worker'.p = 0 /\ worker'.s = "none" /\ worker'.phase = "next"
    BY <1>2, OffIs DEF ResumeRun, Go
  <2>2. /\ run'.ref = "none" /\ run'.stage = run.stage /\ run'.scope = "none"
    BY <1>2 DEF ResumeRun, FlowTypes, RowType, RunRows
  <2>3. /\ plan'.skipPrep = imported /\ plan'.manual = "none"
        /\ plan'.item \in ItemStages => plan'.from = From("requirements")
    <3>1. plan' = ResumePlan(ResumeStage)
      BY <1>2 DEF ResumeRun
    <3>2. \A st \in ItemStages : st \notin Stages
      BY OrderIs DEF ItemStages, Design
    <3>3. "projects" \notin ItemStages
      BY DEF ItemStages, Design
    <3> QED
      BY <3>1, <3>2, <3>3 DEF ResumePlan
  <2> QED
    BY <1>2, <2>1, <2>2, <2>3 DEF ResumeRun
<1>3. CASE ReplanBegins
  BY <1>3 DEF ReplanBegins, ShouldRun
<1>4. CASE ReplanSwaps
  BY <1>4 DEF ReplanSwaps, ShouldRun, FlowTypes, FileStates
<1>5. CASE ReplanRecords
  BY <1>5 DEF ReplanRecords, ShouldRun, FlowTypes, RowType, RunRows
<1>6. CASE ReplanAborts
  BY <1>6 DEF ReplanAborts, ShouldRun
<1> QED
  BY <1>1, <1>2, <1>3, <1>4, <1>5, <1>6

\* An item step leaves the artifacts, the code and the plan alone.
LEMMA ItemKeeps ==
    ASSUME FlowTypes, ItemStep
    PROVE  /\ files'.disk = files.disk /\ files'.passed = files.passed
           /\ files'.own = files.own /\ files'.green = files.green
           /\ git'.built = git.built /\ git'.merged = git.merged
           /\ UNCHANGED <<checked, green, resumes, crashes>>
<1> USE DEF FlowTypes, FileStates, CodeType, Branches, histVars, Keep, KeepRow
<1>1. CASE Prepare \/ BrainstormEnds \/ LoadProjects \/ DesignEnds \/ GateOpens \/ Finish
  BY <1>1 DEF Prepare, BrainstormEnds, LoadProjects, DesignEnds, GateOpens, Finish
<1>2. CASE BrainstormBegins \/ DesignBegins
  BY <1>2 DEF BrainstormBegins, DesignBegins
<1>3. CASE BrainstormSaves
  BY <1>3 DEF BrainstormSaves
<1>4. CASE DesignSaves
  BY <1>4 DEF DesignSaves
<1>5. CASE GateAnswered
  BY <1>5 DEF GateAnswered
<1> QED
  BY <1>1, <1>2, <1>3, <1>4, <1>5 DEF ItemStep

\* A step in a project puts no artifact on disk but that of the stage, and
\* only for its project; what is due is executed or planned anew.
LEMMA ProjectKeeps ==
    ASSUME FlowTypes, PlaceInv, ProjectStep
    PROVE  /\ \A s \in Stages : files'.disk[s] \in {files.disk[s], worker.p}
           /\ rev'.disk = rev.disk /\ \A p \in Ids : due'[p] \in {due[p], 0}
           /\ git'.base = git.base
           /\ UNCHANGED <<auto, resumes, crashes>>
<1> USE DEF FlowTypes, FileStates, CodeType, RevType, Branches, histVars, revVars, Keep, KeepRow
<1>1. CASE StageBegins \/ StageFails \/ ProjectIsRefused
  BY <1>1 DEF StageBegins, StageFails, ProjectIsRefused
<1>2. CASE StageIsLoaded
  BY <1>2 DEF StageIsLoaded
<1>3. CASE StageSaves
  <2>1. PICK g \in BOOLEAN :
            files' = [files EXCEPT !.disk[worker.s] = worker.p, !.passed = @ \ {worker.s},
                                   !.green = g]
    BY <1>3 DEF StageSaves
  <2>2. files'.disk = [files.disk EXCEPT ![worker.s] = worker.p]
    BY <2>1
  <2>3. rev'.disk = rev.disk /\ \A p \in Ids : due'[p] \in {due[p], 0}
    BY <1>3 DEF StageSaves, PlanWritten
  <2> QED
    BY <1>3, <2>2, <2>3 DEF StageSaves
<1>4. CASE CodeChanges
  BY <1>4 DEF CodeChanges
<1>5. CASE StagePasses
  <2>1. files'.disk = [files.disk EXCEPT ![worker.s] = worker.p]
    BY <1>5 DEF StagePasses
  <2>2. rev'.disk = rev.disk /\ \A p \in Ids : due'[p] \in {due[p], 0}
    BY <1>5 DEF StagePasses, PlanWritten
  <2> QED
    BY <1>5, <2>1, <2>2 DEF StagePasses
<1>6. CASE Handoff
  <2>1. git'.base = git.base
    BY <1>6 DEF Handoff
  <2> QED
    BY <1>6, <2>1 DEF Handoff
<1> QED
  BY <1>1, <1>2, <1>3, <1>4, <1>5, <1>6 DEF ProjectStep

LEMMA ReplanItem ==
    ASSUME FlowTypes, RowInv, PlaceInv, PrepInv, ReplanInv, ItemStep
    PROVE  ReplanInv'
BY ItemStepActs, ItemKeeps DEF ReplanInv

LEMMA ReplanProject ==
    ASSUME FlowTypes, RowInv, PlaceInv, ReplanInv, ProjectStep
    PROVE  ReplanInv'
<1>1. worker.at = "projects" /\ worker.p # 0 /\ replan' = replan
  BY ProjectStepActs DEF PlaceInv
<1>2. files.disk["planning"] # 0 => files'.disk["planning"] # 0
  BY <1>1, ProjectKeeps, OrderIs
<1>3. \A p \in Ids : due'[p] <= rev'.disk
  BY ProjectKeeps DEF ReplanInv, FlowTypes, RevType
<1> QED
  BY <1>1, <1>2, <1>3, ProjectKeeps DEF ReplanInv

LEMMA ReplanOutside ==
    ASSUME FlowTypes, ReplanInv,
           \/ WorkerIsLost \/ ResumeRun
           \/ ReplanBegins \/ ReplanSwaps \/ ReplanRecords \/ ReplanAborts
    PROVE  ReplanInv'
<1> USE DEF ReplanInv, KeepWorker, revVars
<1>1. CASE WorkerIsLost
  BY <1>1 DEF WorkerIsLost
<1>2. CASE ResumeRun
  <2>1. replan'.at = replan.at /\ replan'.recoverable = replan.recoverable
        /\ replan'.raced = (replan.raced \/ replan.at = "prepared")
    BY <1>2 DEF ResumeRun, FlowTypes, FrameType, Replans
  <2> QED
    BY <1>2, <2>1 DEF ResumeRun
<1>3. CASE ReplanBegins
  BY <1>3 DEF ReplanBegins
<1>4. CASE ReplanSwaps
  <2>1. rev'.disk = rev.disk + 1 /\ rev.disk \in Nat
    BY <1>4, BoundAssumption DEF ReplanSwaps, FlowTypes, RevType
  <2>2. replan'.at = "swapped" /\ replan'.recoverable = replan.recoverable
    BY <1>4 DEF ReplanSwaps, FlowTypes, FrameType, Replans
  <2>3. files'.disk = files.disk
    BY <1>4 DEF ReplanSwaps, FlowTypes, FileStates
  <2>4. \A p \in Ids : due'[p] \in {due[p], rev'.disk}
    BY <1>4 DEF ReplanSwaps, FlowTypes, RevType
  <2>5. \A p \in Ids : due[p] \in Nat
    BY BoundAssumption DEF FlowTypes, RevType
  <2> QED
    BY <1>4, <2>1, <2>2, <2>3, <2>4, <2>5 DEF ReplanSwaps
<1>5. CASE ReplanRecords
  BY <1>5 DEF ReplanRecords, NoReplan
<1>6. CASE ReplanAborts
  BY <1>6 DEF ReplanAborts, NoReplan
<1> QED
  BY <1>1, <1>2, <1>3, <1>4, <1>5, <1>6

LEMMA GoIs ==
    ASSUME NEW at \in {"start", "load", "finish"} \cup ItemStages, Go(at)
    PROVE  worker'.at = at /\ worker'.p = 0 /\ worker'.s = "none" /\ worker'.phase = "next"
BY OffIs DEF Go

LEMMA PrepEnds ==
    ASSUME PrepInv, Ends, UNCHANGED <<files, imported, plan>> PROVE PrepInv'
BY OffIs DEF PrepInv, Ends, Prepared, Empty

\* Past the design stages the run is prepared for its projects or has passed them.
LEMMA PrepToProjects ==
    ASSUME FlowTypes, PrepInv, files.projects # 0, Prepared, ToProjects,
           worker.at \in Design \cup {"load"},
           UNCHANGED <<run, files, imported, plan>>
    PROVE  PrepInv'
<1>1. worker'.at \in {"projects", "merge-gate"} /\ worker'.phase = "next"
  <2>1. CASE plan.item = "merge-gate"
    BY <2>1, GoIs DEF ToProjects, ItemStages
  <2>2. CASE plan.item # "merge-gate"
    BY <2>2 DEF ToProjects
  <2> QED
    BY <2>1, <2>2
<1> QED
  BY <1>1 DEF PrepInv, Prepared, Empty, Design

LEMMA PrepToFrontend ==
    ASSUME FlowTypes, RowInv, PrepInv, files.projects # 0, files.wire, ToFrontend,
           worker.at \in Design \cup {"load"},
           UNCHANGED <<files, imported, plan>>
    PROVE  PrepInv'
<1>1. CASE Throw
  BY <1>1, OverEnds, PrepEnds DEF Throw
<1>2. CASE Go("frontend-design") /\ UNCHANGED run
  BY <1>2, OffIs DEF Go, PrepInv, Prepared, Empty, ItemStages, Design
<1>3. CASE files.design /\ ToProjects /\ UNCHANGED run
  BY <1>3, PrepToProjects DEF Prepared
<1> QED
  BY <1>1, <1>2, <1>3 DEF ToFrontend

LEMMA PrepItem ==
    ASSUME FlowTypes, RowInv, PlaceInv, PrepInv, ItemStep
    PROVE  PrepInv'
<1> USE DEF Keep, KeepRow, At
<1>0. UNCHANGED <<imported, plan>> /\ worker.at # "off"
  BY ItemStepActs
<1>1. CASE Prepare
  <2>1. CASE BlockRun
    BY <1>0, <1>1, <2>1, BlockEnds, PrepEnds DEF Prepare
  <2>2. CASE Go("brainstorm") /\ plan.item = "brainstorm" /\ UNCHANGED run
    BY <1>0, <1>1, <2>2, GoIs DEF Prepare, PrepInv, Prepared, Empty, ItemStages
  <2>3. CASE Go("load") /\ plan.item # "brainstorm" /\ UNCHANGED run
    BY <1>0, <1>1, <2>3, GoIs DEF Prepare, PrepInv, Prepared, Empty
  <2> QED
    BY <1>1, <2>1, <2>2, <2>3 DEF Prepare
<1>2. CASE BrainstormBegins
  <2>1. run'.stage = "brainstorm" /\ worker'.at = "brainstorm" /\ worker'.phase = "busy"
    BY <1>2 DEF BrainstormBegins, Begin, FlowTypes, RowType, RunRows, Places
  <2>2. UNCHANGED <<files.projects, files.wire, files.design, files.ui, files.disk>>
    BY <1>2 DEF BrainstormBegins, FlowTypes, FileStates
  <2> QED
    BY <1>0, <1>2, <2>1, <2>2, OrderIs DEF BrainstormBegins, PrepInv, Prepared, Empty
<1>3. CASE BrainstormSaves
  <2>1. PICK n \in Ids, ui \in BOOLEAN : files' = [files EXCEPT !.projects = n, !.ui = ui]
    BY <1>3 DEF BrainstormSaves
  <2>2. /\ files'.projects = n /\ n # 0 /\ n \in Nat /\ files'.disk = files.disk
        /\ UNCHANGED <<files.wire, files.design>>
    BY <2>1, BoundAssumption DEF FlowTypes, FileStates, Ids
  <2>3. Empty /\ run.stage = "brainstorm"
    BY <1>3 DEF BrainstormSaves, PrepInv, PlaceInv
  <2>4. \A s \in Stages : files'.disk[s] <= files'.projects
    BY <2>2, <2>3 DEF Empty
  <2>5. worker'.at = "brainstorm"
    BY <1>3 DEF BrainstormSaves, FlowTypes, RowType, Places
  <2>6. UNCHANGED <<run, imported, plan>>
    BY <1>0, <1>3 DEF BrainstormSaves
  <2> QED
    BY <1>3, <2>2, <2>3, <2>4, <2>5, <2>6, OrderIs DEF BrainstormSaves, PrepInv, Prepared, Empty
<1>4. CASE BrainstormEnds
  <2>1. CASE StageStops("brainstorm")
    BY <1>0, <1>4, <2>1, StageStopsEnds, PrepEnds DEF BrainstormEnds, PlaceInv, ItemStages
  <2>2. CASE worker.phase = "saved" /\ Go("load") /\ UNCHANGED run
    BY <1>0, <1>4, <2>2, OffIs DEF BrainstormEnds, Go, PrepInv, Prepared, Empty
  <2> QED
    BY <1>4, <2>1, <2>2 DEF BrainstormEnds
<1>5. CASE LoadProjects
  <2>0. files.projects # 0 /\ worker.at = "load" /\ UNCHANGED files
    BY <1>5 DEF LoadProjects, PrepInv
  <2>1. CASE Throw
    BY <1>0, <2>0, <2>1, OverEnds, PrepEnds DEF Throw
  <2>2. CASE BlockRun
    BY <1>0, <2>0, <2>2, BlockEnds, PrepEnds
  <2>3. CASE (~files.ui \/ plan.skipPrep) /\ ToProjects /\ UNCHANGED run
    BY <1>0, <2>0, <2>3, PrepToProjects DEF Prepared, RowInv
  <2>4. CASE Go("visual-companion") /\ UNCHANGED run
    BY <1>0, <2>0, <2>4, OffIs DEF Go, PrepInv, Prepared, Empty, ItemStages, Design
  <2>5. CASE files.wire /\ ToFrontend
    BY <1>0, <2>0, <2>5, PrepToFrontend
  <2> QED
    BY <1>5, <2>0, <2>1, <2>2, <2>3, <2>4, <2>5 DEF LoadProjects
<1>6. CASE DesignBegins
  <2>1. PICK s \in Design : At(s, "next") /\ Begin(s) /\ files' = [files EXCEPT !.json = TRUE]
    BY <1>6 DEF DesignBegins
  <2>2. run'.stage = s /\ worker'.at = s /\ worker'.phase = "busy"
    BY <2>1 DEF Begin, FlowTypes, RowType, RunRows, Places
  <2>3. UNCHANGED <<files.projects, files.wire, files.design, files.ui, files.disk>>
    BY <2>1 DEF FlowTypes, FileStates
  <2> QED
    BY <1>0, <2>1, <2>2, <2>3, OrderIs DEF PrepInv, Prepared, Empty, Design
<1>7. CASE DesignSaves
  <2>1. PICK s \in Design :
            /\ At(s, "busy") /\ worker' = [worker EXCEPT !.phase = "saved"]
            /\ files' = IF s = "visual-companion"
                        THEN [files EXCEPT !.wire = TRUE, !.frozen = files.projects]
                        ELSE [files EXCEPT !.design = TRUE]
    BY <1>7 DEF DesignSaves
  <2>2. worker'.at = s /\ worker'.phase = "saved" /\ run.stage = s
    BY <2>1 DEF FlowTypes, RowType, Places, PlaceInv, Design
  <2>3. /\ UNCHANGED <<files.projects, files.ui, files.disk>>
        /\ files'.wire = (files.wire \/ s = "visual-companion")
        /\ files'.design = (files.design \/ s = "frontend-design")
    <3>1. CASE s = "visual-companion"
      BY <2>1, <3>1 DEF FlowTypes, FileStates
    <3>2. CASE s # "visual-companion"
      BY <2>1, <3>2 DEF FlowTypes, FileStates, Design
    <3> QED
      BY <3>1, <3>2
  <2>4. UNCHANGED run
    BY <1>7 DEF DesignSaves
  <2> QED
    BY <1>0, <2>1, <2>2, <2>3, <2>4, OrderIs DEF PrepInv, Prepared, Empty, Design
<1>8. CASE DesignEnds
  <2>1. PICK s \in Design :
            /\ worker.at = s /\ worker.phase # "next"
            /\ \/ StageStops(s) \/ Throw
               \/ /\ worker.phase = "saved"
                  /\ IF s = "visual-companion" THEN ToFrontend ELSE ToProjects /\ UNCHANGED run
    BY <1>8 DEF DesignEnds
  <2>2. files.projects # 0 /\ run.stage = s /\ UNCHANGED files /\ s \in Stages \cup ItemStages
    BY <1>8, <2>1 DEF DesignEnds, PrepInv, PlaceInv, Design, ItemStages
  <2>3. CASE StageStops(s) \/ Throw
    BY <1>0, <2>2, <2>3, StageStopsEnds, OverEnds, PrepEnds DEF Throw
  <2>4. CASE s = "visual-companion" /\ worker.phase = "saved" /\ ToFrontend
    <3>1. files.wire
      BY <2>1, <2>4 DEF PrepInv
    <3> QED
      BY <1>0, <2>1, <2>2, <2>4, <3>1, PrepToFrontend
  <2>5. CASE s = "frontend-design" /\ worker.phase = "saved" /\ ToProjects /\ UNCHANGED run
    <3>1. Prepared
      BY <2>1, <2>5 DEF PrepInv, Prepared
    <3> QED
      BY <1>0, <2>1, <2>2, <2>5, <3>1, PrepToProjects
  <2> QED
    BY <2>1, <2>3, <2>4, <2>5 DEF Design
<1>9. CASE GateOpens
  <2>1. run'.stage = "merge-gate" /\ worker'.at = "merge-gate" /\ worker'.phase = "busy"
    BY <1>9 DEF GateOpens, Begin, FlowTypes, RowType, RunRows, Places
  <2> QED
    BY <1>0, <1>9, <2>1 DEF GateOpens, PrepInv, Prepared, Empty
<1>10. CASE GateAnswered
  <2>1. CASE Stop("blocked", "stage", "merge-gate")
    BY <1>0, <1>10, <2>1, StopEnds, PrepEnds DEF GateAnswered, PlaceInv
  <2>2. CASE Go("finish") /\ UNCHANGED run
    BY <1>0, <1>10, <2>2, OffIs DEF GateAnswered, Go, PrepInv, Prepared, Empty
  <2> QED
    BY <1>10, <2>1, <2>2 DEF GateAnswered
<1>11. CASE Finish
  BY <1>0, <1>11, OverEnds, PrepEnds DEF Finish
<1> QED
  BY <1>1, <1>2, <1>3, <1>4, <1>5, <1>6, <1>7, <1>8, <1>9, <1>10, <1>11 DEF ItemStep

\* A step in a project ends there, stays there, or goes on to the gate from the
\* last handoff; the row names its stage before anything else happens in it.
LEMMA ProjectPlace ==
    ASSUME FlowTypes, RowInv, PlaceInv, ProjectStep
    PROVE  /\ worker'.at \in {"off", "projects", "merge-gate"}
           /\ worker'.at = "merge-gate" => worker.s = "handoff" /\ worker.p = files.projects
           /\ run'.stage \in {run.stage, worker.s}
           /\ run'.stage # run.stage => StageStarts
<1>0. worker.at = "projects" /\ ProjectActs
  BY ProjectStepActs
<1>1. CASE Ends
  BY <1>1, OffIs DEF Ends
<1>2. CASE StageStarts
  BY <1>0, <1>2 DEF StageStarts, Begin, Current, FlowTypes, RowType, RunRows, Places
<1>3. CASE Saving
  BY <1>0, <1>3 DEF Saving, FlowTypes, RowType, Places
<1>4. CASE Advance /\ run' = run
  BY <1>0, <1>4, AdvanceIs
<1> QED
  BY <1>0, <1>1, <1>2, <1>3, <1>4 DEF ProjectActs

LEMMA PrepProject ==
    ASSUME FlowTypes, RowInv, PlaceInv, PrepInv, ProjectStep
    PROVE  PrepInv'
<1>1. /\ worker.at = "projects" /\ worker.s \in Stages /\ worker.p \in 1..files.projects
      /\ KeepsItem /\ UNCHANGED <<imported, plan>>
  BY ProjectStepActs DEF PlaceInv
<1>2. files.projects # 0 /\ Prepared /\ files.projects \in Nat
  BY <1>1, BoundAssumption DEF PrepInv, FlowTypes, FileStates
<1>3. \A s \in Stages : files'.disk[s] <= files'.projects
  BY <1>1, <1>2, ProjectKeeps DEF PrepInv, KeepsItem
<1>4. Prepared' /\ files'.projects # 0
  BY <1>1, <1>2 DEF KeepsItem, Prepared
<1>5. run'.stage # "brainstorm" \/ (run' = run /\ files' = files) \/ Empty'
  <2>1. run.stage # "brainstorm" => run'.stage # "brainstorm"
    BY <1>1, ProjectPlace, OrderIs
  <2>2. ASSUME run.stage = "brainstorm", run'.stage = "brainstorm" PROVE Empty'
    <3>1. worker.phase = "next"
      BY <1>1, <2>2, OrderIs DEF PlaceInv
    <3>2. files'.disk = files.disk
      <4>1. StageBegins \/ StageIsLoaded \/ ProjectIsRefused
        BY <3>1 DEF ProjectStep, StageSaves, CodeChanges, StagePasses, StageFails, Handoff, OnStage
      <4> QED
        BY <4>1 DEF StageBegins, StageIsLoaded, ProjectIsRefused, FlowTypes, FileStates
    <3> QED
      BY <2>2, <3>2 DEF PrepInv, Empty
  <2> QED
    BY <2>1, <2>2
<1>6. run'.stage = "brainstorm" => Empty'
  BY <1>5 DEF PrepInv, Empty
<1> QED
  BY <1>1, <1>2, <1>3, <1>4, <1>6, ProjectPlace DEF KeepsItem, PrepInv

\* What the steps beside the worker leave alone, and where a resume begins.
LEMMA OutsideKeeps ==
    ASSUME FlowTypes,
           \/ WorkerIsLost \/ ResumeRun
           \/ ReplanBegins \/ ReplanSwaps \/ ReplanRecords \/ ReplanAborts
    PROVE  /\ KeepsItem /\ files'.disk = files.disk /\ files'.green = files.green
           /\ files.passed \subseteq files'.passed
           /\ run'.stage = run.stage
           /\ UNCHANGED <<imported, ctx, git, histVars>>
           /\ ~ResumeRun => UNCHANGED <<plan, resumes>> /\ (worker' = worker \/ worker' = Off)
<1> USE DEF FlowTypes, FileStates, RowType, RunRows, KeepWorker, KeepsItem
<1>1. CASE WorkerIsLost \/ ResumeRun
  BY <1>1 DEF WorkerIsLost, ResumeRun, Stop
<1>2. CASE ReplanBegins \/ ReplanAborts
  BY <1>2 DEF ReplanBegins, ReplanAborts
<1>3. CASE ReplanSwaps
  BY <1>3 DEF ReplanSwaps
<1>4. CASE ReplanRecords
  BY <1>4 DEF ReplanRecords
<1> QED
  BY <1>1, <1>2, <1>3, <1>4

LEMMA ResumeStageIs ==
    ASSUME FlowTypes, RowInv, ResumeRun
    PROVE  /\ ResumeStage \in Stages \cup ItemStages
           /\ \/ ResumeStage = run.stage
              \/ /\ ResumeStage = "execution" /\ run.stage = "planning"
                 /\ files.disk["planning"] # 0
BY OrderIs DEF ResumeStage, ResumeRun, RowInv, FlowTypes, RowType, RunRows

LEMMA ResumeIs ==
    ASSUME FlowTypes, ResumeRun
    PROVE  /\ worker.at = "off"
           /\ worker'.at = "start" /\ worker'.phase = "next"
           /\ worker'.p = 0 /\ worker'.s = "none"
           /\ plan' = ResumePlan(ResumeStage) /\ files' = files
           /\ run'.stage = run.stage
BY OffIs DEF ResumeRun, Go, FlowTypes, RowType, RunRows

LEMMA PrepOutside ==
    ASSUME FlowTypes, RowInv, PlaceInv, PrepInv,
           \/ WorkerIsLost \/ ResumeRun
           \/ ReplanBegins \/ ReplanSwaps \/ ReplanRecords \/ ReplanAborts
    PROVE  PrepInv'
<1>1. CASE ResumeRun
  <2>1. plan'.item = "brainstorm" <=> run.stage = "brainstorm"
    BY <1>1, ResumeIs, ResumeStageIs, OrderIs DEF ResumePlan, ItemStages
  <2>2. plan'.manual = "none" /\ UNCHANGED imported
    BY <1>1, ResumeIs DEF ResumePlan, ResumeRun
  <2>3. run.stage # "none"
    BY <1>1 DEF RowInv, ResumeRun
  <2> QED
    BY <1>1, <2>1, <2>2, <2>3, ResumeIs DEF PrepInv, Prepared, Empty
<1>2. CASE ~ResumeRun
  BY <1>2, OutsideKeeps, OffIs DEF KeepsItem, PrepInv, Prepared, Empty
<1> QED
  BY <1>1, <1>2

-----------------------------------------------------------------------------
(* What a resume finds on disk.                                            *)

Behind(t) == {s \in Stages \ {"qa", "handoff"} : Pos[s] < Pos[t]}

Left(s) == files.disk[s] # 0 /\ (s = "planning" \/ s \in files.passed)

Loadable(p, s) ==
    /\ Source(p, s) # 0
    /\ s = "planning" \/ s \in files.passed \/ (worker.s = s /\ worker.phase = "saved")

\* The artifacts that a resume is going to load are there, and but for the plan
\* their stages have passed; so are those of the stages before the one the worker
\* is at, and of the one that the row names.
ArtifactInv ==
    /\ files.own # {} => files.disk["requirements"] # 0
    /\ run.stage \in Stages => \A s \in Behind(run.stage) : Left(s)
    /\ worker.at # "off" =>
           \A p \in 1..files.projects : \A s \in Behind(plan.from[p]) : Loadable(p, s)
    /\ worker.at = "projects" =>
           /\ \A s \in Behind(worker.s) : Left(s)
           /\ \A s \in Stages : Pos[s] >= Pos[worker.s] => ctx[s] = 0
    /\ worker.at \in Design => \A s \in Stages : ctx[s] = 0
    /\ BuildsOnPassed

\* The projects are among the ids, and each has a stage to begin with.
LEMMA ProjectIds ==
    ASSUME FlowTypes
    PROVE  /\ files.projects \in Nat /\ files.projects <= MaxProjects
           /\ \A p \in 1..files.projects : p \in Ids /\ p # 0
           /\ \A p \in Ids : plan.from[p] \in Stages
<1>1. files.projects \in Nat /\ files.projects <= MaxProjects
  BY BoundAssumption DEF FlowTypes, FileStates
<1>2. plan.from \in [Ids -> Stages]
  BY DEF FlowTypes, FrameType, Plans
<1> QED
  BY <1>1, <1>2, BoundAssumption DEF Ids

LEMMA BehindIs ==
    /\ Behind("requirements") = {}
    /\ \A t \in Stages : \A s \in Behind(t) : s \in Stages /\ s # "qa" /\ s # "handoff" /\ s # t
    /\ \A s, t \in Stages : Pos[t] = Pos[s] + 1 => Behind(t) \subseteq Behind(s) \cup {s}
    /\ \A s \in Behind("execution") : s = "planning" \/ s \in Behind("planning")
BY OrderIs, PosIs DEF Behind

\* Where an item step leaves the worker, the row and the context.
LEMMA ItemPlace ==
    ASSUME FlowTypes, RowInv, PlaceInv, PrepInv, ItemStep
    PROVE  /\ worker.at # "projects" /\ worker.s = "none"
           /\ worker'.at = "projects" => worker' = At1
           /\ run'.stage \in {run.stage} \cup ItemStages
<1>0. worker.at # "projects" /\ worker.s = "none" /\ Acts
  <2>1. worker.at # "projects"
    BY DEF ItemStep, Prepare, BrainstormBegins, BrainstormSaves, BrainstormEnds, LoadProjects,
           DesignBegins, DesignSaves, DesignEnds, GateOpens, GateAnswered, Finish, At, Design
  <2> QED
    BY <2>1, ItemStepActs DEF PlaceInv
<1>1. CASE Ends
  BY <1>0, <1>1, OffIs DEF Ends
<1>2. CASE \E at \in {"load", "finish"} \cup ItemStages : Goes(at)
  <2>1. PICK at \in {"load", "finish"} \cup ItemStages : Goes(at)
    BY <1>2
  <2>2. worker'.at = at /\ at # "projects"
    BY <2>1, OffIs DEF Goes, ItemStages, Design
  <2> QED
    BY <1>0, <2>1, <2>2 DEF Goes
<1>3. CASE worker' = At1 /\ run' = run
  BY <1>0, <1>3
<1>4. CASE StageStarts
  BY <1>0, <1>4 DEF StageStarts, Begin, Current, FlowTypes, RowType, RunRows, Places
<1>5. CASE Saving
  BY <1>0, <1>5 DEF Saving, FlowTypes, RowType, Places
<1> QED
  BY <1>0, <1>1, <1>2, <1>3, <1>4, <1>5 DEF Acts, ProjectActs

\* The projects are found before the design, and the context is empty from there on.
LEMMA ItemCtx ==
    ASSUME FlowTypes, RowInv, PlaceInv, PrepInv, ItemStep
    PROVE  /\ files'.projects = files.projects \/ worker.at = "brainstorm"
           /\ worker'.at \in Design \cup {"projects"} =>
                  ctx' = NoCtx \/ (ctx' = ctx /\ worker.at \in Design)
<1> USE DEF At
<1>1. CASE Prepare
  <2>1. worker'.at \in {"off", "load", "brainstorm"}
    BY <1>1, OffIs, GoIs DEF Prepare, BlockRun, Stop, ItemStages
  <2> QED
    BY <1>1, <2>1 DEF Prepare, Design
<1>2. CASE BrainstormBegins \/ BrainstormSaves
  BY <1>2 DEF BrainstormBegins, BrainstormSaves, Begin, FlowTypes, RowType, Places, Design
<1>3. CASE BrainstormEnds
  <2>1. worker'.at \in {"off", "load"}
    BY <1>3, OffIs, GoIs DEF BrainstormEnds, StageStops, Stop
  <2> QED
    BY <1>3, <2>1 DEF BrainstormEnds, Design
<1>4. CASE LoadProjects
  BY <1>4 DEF LoadProjects
<1>5. CASE DesignBegins
  BY <1>5 DEF DesignBegins, FlowTypes, FileStates
<1>6. CASE DesignSaves
  <2>1. PICK s \in Design :
            /\ At(s, "busy")
            /\ files' = IF s = "visual-companion"
                        THEN [files EXCEPT !.wire = TRUE, !.frozen = files.projects]
                        ELSE [files EXCEPT !.design = TRUE]
    BY <1>6 DEF DesignSaves
  <2>2. files'.projects = files.projects
    BY <2>1 DEF FlowTypes, FileStates
  <2> QED
    BY <1>6, <2>1, <2>2 DEF DesignSaves
<1>7. CASE DesignEnds
  BY <1>7 DEF DesignEnds
<1>8. CASE GateOpens
  BY <1>8 DEF GateOpens, Begin, FlowTypes, RowType, Places, Design
<1>9. CASE GateAnswered
  <2>1. worker'.at \in {"off", "finish"}
    BY <1>9, OffIs, GoIs DEF GateAnswered, Stop
  <2> QED
    BY <1>9, <2>1 DEF GateAnswered, Design
<1>10. CASE Finish
  <2>1. worker'.at = "off"
    BY <1>10, OffIs DEF Finish, Over, Stop
  <2> QED
    BY <1>10, <2>1 DEF Finish, Design
<1> QED
  BY <1>1, <1>2, <1>3, <1>4, <1>5, <1>6, <1>7, <1>8, <1>9, <1>10 DEF ItemStep

LEMMA ArtifactItem ==
    ASSUME FlowTypes, FlowTypes', RowInv, PlaceInv, PrepInv, ArtifactInv, ItemStep
    PROVE  ArtifactInv'
<1>0. /\ worker.at # "off" /\ UNCHANGED plan
      /\ files'.disk = files.disk /\ files'.passed = files.passed /\ files'.own = files.own
      /\ worker.at # "projects" /\ worker.s = "none"
  BY ItemStepActs, ItemKeeps, ItemPlace
<1>1. \A p, s : Source(p, s)' = Source(p, s)
  BY <1>0 DEF Source
<1>2. \A s : Left(s)' <=> Left(s)
  BY <1>0 DEF Left
<1>3. run'.stage \in Stages => \A s \in Behind(run'.stage) : Left(s)'
  <2>1. run'.stage \in Stages => run'.stage = run.stage
    BY ItemPlace, OrderIs DEF ItemStages, Design
  <2> QED
    BY <1>2, <2>1 DEF ArtifactInv
<1>4. \A p \in 1..files'.projects : \A s \in Behind(plan'.from[p]) : Loadable(p, s)'
  <2>1. CASE files'.projects = files.projects
    <3>1. \A p \in 1..files.projects : plan.from[p] \in Stages
      BY ProjectIds
    <3>2. ASSUME NEW p \in 1..files'.projects, NEW s \in Behind(plan'.from[p])
          PROVE  Loadable(p, s)'
      <4>1. Loadable(p, s) /\ s \in Stages
        BY <1>0, <2>1, <3>1, <3>2, BehindIs DEF ArtifactInv
      <4>2. s # "none"
        BY <4>1, OrderIs
      <4> QED
        BY <1>0, <1>1, <4>1, <4>2 DEF Loadable
    <3> QED
      BY <3>2
  <2>2. CASE worker.at = "brainstorm"
    <3>1. plan'.from = From("requirements") /\ files'.projects \in 0..MaxProjects
      BY <1>0, <2>2 DEF PrepInv, RowInv, ItemStages, FlowTypes, FileStates
    <3>2. \A p \in 1..files'.projects : plan'.from[p] = "requirements"
      BY <3>1, BoundAssumption DEF From, Ids
    <3> QED
      BY <3>2, BehindIs
  <2> QED
    BY <2>1, <2>2, ItemCtx
<1>5. worker'.at \in Design \cup {"projects"} => \A s \in Stages : ctx'[s] = 0
  BY ItemCtx DEF ArtifactInv, NoCtx
<1>6. worker'.at = "projects" => \A s \in Behind(worker'.s) : Left(s)'
  BY ItemPlace, BehindIs DEF At1
<1> QED
  BY <1>0, <1>3, <1>4, <1>5, <1>6 DEF ArtifactInv, BuildsOnPassed

LEMMA SourceStays ==
    ASSUME FlowTypes, PlaceInv, worker.at = "projects", ProjectStep, files'.own = files.own,
           NEW p \in Ids, NEW s \in Stages, Source(p, s) # 0
    PROVE  Source(p, s)' # 0
<1>1. worker.p # 0
  BY ProjectIds DEF PlaceInv
<1>2. files.disk[s] # 0 => files'.disk[s] # 0
  BY <1>1, ProjectKeeps
<1> QED
  BY <1>2 DEF Source

LEMMA StopLeaves ==
    ASSUME FlowTypes
    PROVE  /\ \A status, sc, ref :
                  Stop(status, sc, ref) => worker'.at = "off" /\ run'.stage = run.stage
           /\ \A status : Over(status) => worker'.at = "off" /\ run'.stage = run.stage
BY OffIs DEF Stop, Over, FlowTypes, RowType, RunRows

\* A stage that ends off leaves the artifacts as they are.
LEMMA ArtifactEnds ==
    ASSUME FlowTypes, PlaceInv, ArtifactInv, worker'.at = "off", files' = files,
           run'.stage = run.stage
    PROVE  ArtifactInv'
BY DEF ArtifactInv, BuildsOnPassed, Left, Design

LEMMA ArtifactProject ==
    ASSUME FlowTypes, FlowTypes', RowInv, PlaceInv, PlaceInv', PrepInv, ArtifactInv, ProjectStep
    PROVE  ArtifactInv'
<1> USE DEF OnStage
<1>0. /\ worker.at = "projects" /\ worker.s \in Stages /\ worker.p \in Ids /\ worker.p # 0
      /\ worker.p \in 1..files.projects
      /\ files'.own = files.own /\ files'.projects = files.projects /\ UNCHANGED plan
  BY ProjectStepActs, ProjectIds DEF PlaceInv, KeepsItem
<1>1. files'.own # {} => files'.disk["requirements"] # 0
  BY <1>0, ProjectKeeps, OrderIs DEF ArtifactInv
<1>2. \A p \in 1..files.projects : p \in Ids /\ plan.from[p] \in Stages
  BY ProjectIds
<1>3. "projects" \notin Design /\ "off" \notin Design /\ "merge-gate" \notin Design
  BY DEF Design
<1>4. CASE StageBegins
  <2>1. /\ files'.disk = files.disk /\ files'.passed = files.passed /\ ctx' = ctx
        /\ worker'.at = "projects" /\ worker'.s = worker.s /\ worker'.p = worker.p
        /\ run'.stage = worker.s /\ worker.phase = "next"
    BY <1>0, <1>4 DEF StageBegins, Begin, FlowTypes, FileStates, RowType, RunRows, Places
  <2>2. \A s : Left(s)' <=> Left(s)
    BY <2>1 DEF Left
  <2>3. \A p, s : Loadable(p, s) => Loadable(p, s)'
    BY <1>0, <2>1 DEF Loadable, Source
  <2> QED
    BY <1>0, <1>1, <1>3, <2>1, <2>2, <2>3 DEF ArtifactInv, BuildsOnPassed
<1>5. CASE StageIsLoaded
  <2>1. worker.phase = "next" /\ UNCHANGED files /\ ~ShouldRun(worker.p, worker.s)
    BY <1>5 DEF StageIsLoaded
  <2>2. CASE Throw
    <3>1. worker'.at = "off" /\ run'.stage = run.stage
      BY <2>2, OverEnds, OffIs DEF Throw, Ends
    <3> QED
      BY <2>1, <3>1, ArtifactEnds
  <2>3. CASE ~Throw
    <3>0. Advance /\ UNCHANGED run
      BY <1>5, <2>3 DEF StageIsLoaded
    <3>1. worker.s # "handoff"
      BY <1>0, <1>2, <2>1, PosIs, PosNext DEF ShouldRun
    <3>2. /\ worker'.at = "projects" /\ worker'.p = worker.p /\ worker'.phase = "next"
          /\ worker'.s \in Stages /\ Pos[worker'.s] = Pos[worker.s] + 1
      BY <1>0, <3>0, <3>1, AdvanceIs
    <3>3. \A p, s : Loadable(p, s) => Loadable(p, s)'
      BY <2>1 DEF Loadable, Source
    <3>4. worker.s \notin {"qa", "handoff"} => Left(worker.s)
      <4>1. ASSUME worker.s \notin {"qa", "handoff"} PROVE worker.s \in Behind(plan.from[worker.p])
        BY <1>0, <1>2, <2>1, <4>1, PosNext DEF ShouldRun, Behind
      <4>2. worker.s \notin {"qa", "handoff"} => Loadable(worker.p, worker.s)
        BY <1>0, <4>1 DEF ArtifactInv
      <4> QED
        BY <1>0, <2>1, <4>2 DEF Loadable, Left, Source, ArtifactInv
    <3>5. \A s \in Behind(worker'.s) : Left(s)'
      BY <1>0, <2>1, <3>2, <3>4, BehindIs DEF ArtifactInv, Left
    <3>6. \A s \in Stages : s # worker.s => ctx'[s] = ctx[s]
      BY <1>5, <2>3, <3>1 DEF StageIsLoaded, NextCtx, FlowTypes, CodeType
    <3>7. ctx'[worker.s] # 0 => worker.s \notin {"qa", "handoff"} \/ ctx[worker.s] # 0
      BY <1>5, <2>3, <3>1 DEF StageIsLoaded, NextCtx
    <3>8. \A s \in Stages : Pos[s] >= Pos[worker'.s] => ctx'[s] = 0
      BY <1>0, <3>2, <3>6, PosNext DEF ArtifactInv
    <3>9. BuildsOnPassed'
      BY <1>0, <2>1, <3>4, <3>6, <3>7 DEF ArtifactInv, BuildsOnPassed, Left
    <3>10. \A s : Left(s) => Left(s)'
      BY <2>1 DEF Left
    <3> QED
      BY <1>0, <1>1, <1>3, <2>1, <3>0, <3>2, <3>3, <3>5, <3>8, <3>9, <3>10 DEF ArtifactInv
  <2> QED
    BY <2>2, <2>3
<1>6. CASE StageSaves
  <2>1. PICK g \in BOOLEAN :
            files' = [files EXCEPT !.disk[worker.s] = worker.p, !.passed = @ \ {worker.s},
                                   !.green = g]
    BY <1>6 DEF StageSaves
  <2>2. /\ files'.passed = files.passed \ {worker.s}
        /\ files'.disk = [files.disk EXCEPT ![worker.s] = worker.p]
    BY <2>1 DEF FlowTypes, FileStates
  <2>3. /\ UNCHANGED <<run, ctx>> /\ run.stage = worker.s
        /\ worker'.at = "projects" /\ worker'.s = worker.s /\ worker'.p = worker.p
        /\ worker'.phase = "saved"
    BY <1>0, <1>6 DEF StageSaves, PlaceInv, FlowTypes, RowType, Places
  <2>4. \A s \in Stages \ {worker.s} : Left(s) => Left(s)'
    BY <2>2 DEF Left, FlowTypes, FileStates
  <2>5. \A p \in Ids : \A s \in Stages : Loadable(p, s) => Loadable(p, s)'
    BY <1>0, <2>2, <2>3, SourceStays DEF Loadable
  <2>6. ctx[worker.s] = 0
    BY <1>0, PosNext DEF ArtifactInv
  <2>7. BuildsOnPassed'
    BY <1>0, <2>2, <2>3, <2>6 DEF ArtifactInv, BuildsOnPassed
  <2> QED
    BY <1>0, <1>1, <1>2, <1>3, <2>3, <2>4, <2>5, <2>7, BehindIs DEF ArtifactInv
<1>7. CASE CodeChanges
  <2>1. /\ UNCHANGED <<run, ctx, files>>
        /\ worker'.at = "projects" /\ worker'.s = worker.s /\ worker'.p = worker.p
        /\ worker'.phase = "saved" /\ worker.phase = "busy"
    BY <1>7 DEF CodeChanges, FlowTypes, RowType, Places
  <2>2. \A p, s : Loadable(p, s) => Loadable(p, s)'
    BY <2>1 DEF Loadable, Source
  <2>3. \A s : Left(s)' <=> Left(s)
    BY <2>1 DEF Left
  <2> QED
    BY <1>0, <1>1, <1>3, <2>1, <2>2, <2>3 DEF ArtifactInv, BuildsOnPassed
<1>8. CASE StagePasses
  <2>1. Advance /\ run' = run /\ worker.phase = "saved" /\ worker.s # "handoff"
    BY <1>0, <1>8 DEF StagePasses, PlaceInv
  <2>2. /\ worker'.at = "projects" /\ worker'.p = worker.p /\ worker'.phase = "next"
        /\ worker'.s \in Stages /\ Pos[worker'.s] = Pos[worker.s] + 1
    BY <1>0, <2>1, AdvanceIs
  <2>3. /\ files'.passed = files.passed \cup {worker.s}
        /\ files'.disk = [files.disk EXCEPT ![worker.s] = worker.p]
    BY <1>8 DEF StagePasses, FlowTypes, FileStates
  <2>4. \A s \in Stages : Left(s) => Left(s)'
    BY <1>0, <2>3 DEF Left, FlowTypes, FileStates
  <2>5. \A s \in {worker.s} : Left(s)'
    BY <1>0, <2>3 DEF Left, FlowTypes, FileStates
  <2>6. \A p \in Ids : \A s \in Stages : Loadable(p, s) => Loadable(p, s)'
    BY <1>0, <2>3, SourceStays DEF Loadable
  <2>7. ctx' = [ctx EXCEPT ![worker.s] = worker.p]
    BY <1>8 DEF StagePasses
  <2>8. \A s \in Stages : Pos[s] >= Pos[worker'.s] => ctx'[s] = 0
    BY <1>0, <2>2, <2>7, PosNext DEF ArtifactInv, FlowTypes, CodeType
  <2>9. BuildsOnPassed'
    BY <1>0, <2>3, <2>7 DEF ArtifactInv, BuildsOnPassed, FlowTypes, CodeType
  <2>10. run.stage \in Stages => \A s \in Behind(run.stage) : Left(s)'
    BY <2>4, BehindIs DEF ArtifactInv
  <2>11. \A s \in Behind(worker'.s) : Left(s)'
    BY <1>0, <2>1, <2>2, <2>4, <2>5, BehindIs DEF ArtifactInv
  <2>12. \A p \in 1..files.projects : \A s \in Behind(plan.from[p]) : Loadable(p, s)'
    BY <1>0, <1>2, <2>6, BehindIs DEF ArtifactInv
  <2> QED
    BY <1>0, <1>1, <1>3, <2>1, <2>2, <2>8, <2>9, <2>10, <2>11, <2>12 DEF ArtifactInv
<1>9. CASE StageFails \/ ProjectIsRefused
  <2>1. worker'.at = "off" /\ run'.stage = run.stage
    BY <1>9, StopLeaves DEF StageFails, ProjectIsRefused, StageStops, BlockRun
  <2> QED
    BY <1>9, <2>1, ArtifactEnds DEF StageFails, ProjectIsRefused
<1>10. CASE Handoff
  <2>1. worker.s = "handoff" /\ files' = files /\ worker.phase = "busy"
    BY <1>10 DEF Handoff
  <2>2. CASE BlockRun \/ Throw
    <3>1. worker'.at = "off" /\ run'.stage = run.stage
      BY <2>2, StopLeaves DEF BlockRun, Throw, Over
    <3> QED
      BY <2>1, <3>1, ArtifactEnds
  <2>3. CASE Advance /\ ctx' = NoCtx /\ UNCHANGED run
    <3>1. /\ worker'.at \in {"projects", "merge-gate"} /\ worker'.phase = "next"
          /\ worker'.at = "projects" => worker'.s = "requirements"
      BY <1>0, <2>1, <2>3, AdvanceIs
    <3>2. \A s : Left(s)' <=> Left(s)
      BY <2>1 DEF Left
    <3>3. \A p, s : Loadable(p, s) => Loadable(p, s)'
      BY <2>1 DEF Loadable, Source
    <3>4. \A s \in Stages : ctx'[s] = 0
      BY <2>3 DEF NoCtx
    <3> QED
      BY <1>0, <1>1, <1>3, <2>1, <2>3, <3>1, <3>2, <3>3, <3>4, BehindIs DEF ArtifactInv, BuildsOnPassed
  <2> QED
    BY <1>10, <2>2, <2>3 DEF Handoff
<1> QED
  BY <1>4, <1>5, <1>6, <1>7, <1>8, <1>9, <1>10 DEF ProjectStep

LEMMA ArtifactOutside ==
    ASSUME FlowTypes, RowInv, PlaceInv, ArtifactInv,
           \/ WorkerIsLost \/ ResumeRun
           \/ ReplanBegins \/ ReplanSwaps \/ ReplanRecords \/ ReplanAborts
    PROVE  ArtifactInv'
<1>0. /\ files'.disk = files.disk /\ files'.own = files.own /\ files'.projects = files.projects
      /\ files.passed \subseteq files'.passed /\ run'.stage = run.stage /\ ctx' = ctx
  BY OutsideKeeps DEF KeepsItem
<1>1. \A s : Left(s) => Left(s)'
  BY <1>0 DEF Left
<1>2. \A p, s : Source(p, s)' = Source(p, s)
  BY <1>0 DEF Source
<1>3. "off" \notin Design /\ "start" \notin Design
  BY DEF Design
<1>4. CASE ResumeRun
  <2>1. worker.at = "off" /\ worker'.at = "start" /\ plan' = ResumePlan(ResumeStage)
    BY <1>4, ResumeIs
  <2>2. \A p \in Ids : plan'.from[p] = IF ResumeStage \in Stages THEN ResumeStage ELSE "requirements"
    BY <2>1 DEF ResumePlan, From
  <2>3. ResumeStage \in Stages => \A s \in Behind(ResumeStage) : Left(s)
    <3>1. CASE ResumeStage = run.stage
      BY <3>1 DEF ArtifactInv
    <3>2. CASE ResumeStage = "execution" /\ run.stage = "planning" /\ files.disk["planning"] # 0
      <4>1. \A s \in Behind("planning") : Left(s)
        BY <3>2, OrderIs DEF ArtifactInv
      <4> QED
        BY <3>2, <4>1, BehindIs DEF Left
    <3> QED
      BY <1>4, <3>1, <3>2, ResumeStageIs
  <2>4. ASSUME NEW p \in 1..files.projects, NEW s \in Behind(plan'.from[p])
        PROVE  Loadable(p, s)'
    <3>1. p # 0 /\ p \in Ids
      BY ProjectIds
    <3>2. Left(s)
      BY <2>2, <2>3, <2>4, <3>1, BehindIs
    <3> QED
      BY <1>1, <1>2, <3>1, <3>2 DEF Loadable, Left, Source
  <2> QED
    BY <1>0, <1>1, <1>3, <2>1, <2>4 DEF ArtifactInv, BuildsOnPassed
<1>5. CASE ~ResumeRun
  <2>1. UNCHANGED plan /\ (worker' = worker \/ worker'.at = "off")
    BY <1>5, OutsideKeeps, OffIs
  <2>2. worker' = worker => \A p, s : Loadable(p, s) => Loadable(p, s)'
    BY <1>0, <1>2 DEF Loadable
  <2>3. BuildsOnPassed'
    BY <1>0, <2>1 DEF ArtifactInv, BuildsOnPassed
  <2> QED
    BY <1>0, <1>1, <1>3, <2>1, <2>2, <2>3 DEF ArtifactInv
<1> QED
  BY <1>4, <1>5

-----------------------------------------------------------------------------
(* Where a run ends without a recovery.                                    *)

LEMMA StopRecovers ==
    ASSUME FlowTypes, NEW status, NEW sc, NEW ref, Stop(status, sc, ref), sc # "none"
    PROVE  NoDeadEnd'
BY DEF Stop, NoDeadEnd, FlowTypes, RowType, RunRows

LEMMA ThrowEnds ==
    ASSUME FlowTypes, Throw, run.stage \in Design \cup {"handoff"}
    PROVE  NoDeadEnd'
BY StopLeaves DEF Throw, Over, NoDeadEnd

LEMMA StaysOn == ASSUME worker'.at # "off" PROVE NoDeadEnd'
BY DEF NoDeadEnd

LEMMA ToProjectsStaysOn == ASSUME ToProjects PROVE NoDeadEnd'
<1>1. worker'.at # "off"
  <2>1. Go("merge-gate") => worker'.at # "off"
    BY GoIs DEF ItemStages
  <2> QED
    BY <2>1 DEF ToProjects
<1> QED
  BY <1>1, StaysOn

LEMMA NoDeadEndItem ==
    ASSUME FlowTypes, RowInv, PlaceInv, PrepInv, ItemStep
    PROVE  NoDeadEnd'
<1> USE DEF At, BlockRun, StageStops
<1>1. CASE Prepare
  BY <1>1, StopRecovers, GoIs, StaysOn DEF Prepare, ItemStages
<1>2. CASE BrainstormBegins \/ BrainstormSaves \/ DesignBegins \/ DesignSaves \/ GateOpens
  <2>1. worker'.at = worker.at
    BY <1>2 DEF BrainstormBegins, BrainstormSaves, DesignBegins, DesignSaves, GateOpens,
                Begin, FlowTypes, RowType, Places
  <2> QED
    BY <2>1, ItemStepActs, StaysOn
<1>3. CASE BrainstormEnds
  BY <1>3, StopRecovers, GoIs, StaysOn DEF BrainstormEnds
<1>4. CASE LoadProjects
  <2>1. files.projects # 0 /\ (plan.manual = "frontend-design" => files.wire)
    BY <1>4 DEF LoadProjects, PrepInv
  <2>2. CASE BlockRun \/ ToProjects
    BY <2>2, StopRecovers, ToProjectsStaysOn
  <2>3. CASE Go("visual-companion") \/ Go("frontend-design")
    BY <2>3, GoIs, StaysOn DEF ItemStages, Design
  <2>4. ~RunsVisual => files.wire
    BY <2>1 DEF RunsVisual, FlowTypes, FrameType, Plans, Design
  <2>5. ~RunsVisual /\ ~RunsFrontend => files.design
    BY DEF RunsVisual, RunsFrontend, FlowTypes, FrameType, Plans, Design
  <2> QED
    BY <1>4, <2>1, <2>2, <2>3, <2>4, <2>5 DEF LoadProjects, ToFrontend
<1>5. CASE DesignEnds
  <2>1. run.stage \in Design
    BY <1>5 DEF DesignEnds, PlaceInv, Design
  <2>2. CASE Throw
    BY <2>1, <2>2, ThrowEnds
  <2>3. CASE ToProjects
    BY <2>3, ToProjectsStaysOn
  <2>4. CASE Go("frontend-design")
    BY <2>4, GoIs, StaysOn DEF ItemStages, Design
  <2>5. CASE \E s \in Design : StageStops(s)
    BY <2>5, StopRecovers
  <2> QED
    BY <1>5, <2>2, <2>3, <2>4, <2>5 DEF DesignEnds, ToFrontend
<1>6. CASE GateAnswered
  BY <1>6, StopRecovers, GoIs, StaysOn DEF GateAnswered
<1>7. CASE Finish
  BY <1>7 DEF Finish, Over, Stop, NoDeadEnd, FlowTypes, RowType, RunRows
<1> QED
  BY <1>1, <1>2, <1>3, <1>4, <1>5, <1>6, <1>7 DEF ItemStep

LEMMA NoDeadEndProject ==
    ASSUME FlowTypes, RowInv, PlaceInv, ArtifactInv, ProjectStep
    PROVE  NoDeadEnd'
<1> USE DEF OnStage, BlockRun, StageStops
<1>0. worker.at = "projects" /\ worker.s \in Stages /\ worker.p \in 1..files.projects
  BY ProjectStepActs DEF PlaceInv
<1>1. Advance => NoDeadEnd'
  <2>1. Advance => worker'.at # "off"
    BY <1>0, AdvanceIs
  <2> QED
    BY <2>1, StaysOn
<1>2. CASE StageBegins \/ StageSaves \/ CodeChanges
  <2>1. worker'.at = worker.at
    BY <1>2 DEF StageBegins, StageSaves, CodeChanges, Begin, FlowTypes, RowType, Places
  <2> QED
    BY <1>0, <2>1, StaysOn
<1>3. CASE StageIsLoaded
  <2>1. plan.from[worker.p] \in Stages
    BY <1>0, ProjectIds
  <2>2. worker.s \notin {"qa", "handoff"} => worker.s \in Behind(plan.from[worker.p])
    BY <1>0, <1>3, <2>1, PosNext DEF StageIsLoaded, ShouldRun, Behind
  <2>3. worker.s \notin {"qa", "handoff"} => Source(worker.p, worker.s) # 0
    BY <1>0, <2>2 DEF ArtifactInv, Loadable
  <2> QED
    BY <1>1, <1>3, <2>3 DEF StageIsLoaded
<1>4. CASE StagePasses
  BY <1>1, <1>4 DEF StagePasses
<1>5. CASE StageFails \/ ProjectIsRefused
  BY <1>5, StopRecovers DEF StageFails, ProjectIsRefused
<1>6. CASE Handoff
  <2>1. run.stage = "handoff"
    BY <1>6 DEF Handoff, PlaceInv
  <2> QED
    BY <1>1, <1>6, <2>1, StopRecovers, ThrowEnds DEF Handoff
<1> QED
  BY <1>2, <1>3, <1>4, <1>5, <1>6 DEF ProjectStep

LEMMA NoDeadEndOutside ==
    ASSUME FlowTypes, ReplanInv, NoDeadEnd,
           \/ WorkerIsLost \/ ResumeRun
           \/ ReplanBegins \/ ReplanSwaps \/ ReplanRecords \/ ReplanAborts
    PROVE  NoDeadEnd'
<1> USE DEF KeepWorker
<1>1. CASE WorkerIsLost
  BY <1>1, StopRecovers DEF WorkerIsLost
<1>2. CASE ResumeRun
  BY <1>2, ResumeIs, StaysOn
<1>3. CASE ReplanBegins \/ ReplanSwaps \/ ReplanAborts
  BY <1>3 DEF ReplanBegins, ReplanSwaps, ReplanAborts, NoDeadEnd
<1>4. CASE ReplanRecords
  BY <1>4 DEF ReplanRecords, ReplanInv, NoDeadEnd, FlowTypes, RowType, RunRows
<1> QED
  BY <1>1, <1>2, <1>3, <1>4

-----------------------------------------------------------------------------
(* What reaches the gate.                                                  *)

AtGate == worker.at \in {"merge-gate", "finish"} \/ run.stage = "merge-gate"

\* A run that has come to the gate stays there, also when it is resumed; every
\* handoff before it has merged.
GateInv ==
    /\ run.stage = "merge-gate" =>
           /\ worker.at \in {"off", "start", "load", "merge-gate", "finish"}
           /\ worker.at \in {"start", "load"} => plan.item = "merge-gate"
    /\ plan.item = "merge-gate" /\ worker.at # "off" => run.stage = "merge-gate"
    /\ git.base \/ auto => run.stage = "merge-gate"
    /\ worker.at = "finish" => run.stage = "merge-gate"
    /\ worker.at = "projects" => 1..(worker.p - 1) \subseteq git.merged
    /\ AtGate => 1..files.projects \subseteq git.merged

LEMMA GateEnds ==
    ASSUME GateInv, worker'.at = "off", run'.stage = run.stage,
           UNCHANGED <<files, git, auto>>
    PROVE  GateInv'
BY DEF GateInv, AtGate

\* From the load the run goes to the gate if it has been there, and to the design
\* or to its projects if not.
LEMMA GateToProjects ==
    ASSUME GateInv, PlaceInv, ToProjects, worker.at \in Design \cup {"load"},
           UNCHANGED <<plan, run, files, git, auto>>
    PROVE  GateInv'
<1>1. CASE plan.item = "merge-gate"
  <2>1. worker'.at = "merge-gate" /\ run.stage = "merge-gate"
    BY <1>1, GoIs DEF ToProjects, ItemStages, GateInv, Design
  <2> QED
    BY <2>1 DEF GateInv, AtGate
<1>2. CASE plan.item # "merge-gate"
  <2>1. worker'.at = "projects" /\ worker'.p = 1 /\ run.stage # "merge-gate"
    BY <1>2 DEF ToProjects, GateInv, Design
  <2> QED
    BY <1>2, <2>1 DEF GateInv, AtGate
<1> QED
  BY <1>1, <1>2

LEMMA GateToDesign ==
    ASSUME GateInv, NEW s \in Design, Go(s), worker.at \in Design \cup {"load"},
           plan.item # "merge-gate", UNCHANGED <<plan, run, files, git, auto>>
    PROVE  GateInv'
<1>1. worker'.at = s /\ run.stage # "merge-gate"
  BY GoIs DEF ItemStages, GateInv, Design
<1> QED
  BY <1>1 DEF GateInv, AtGate, Design

LEMMA GateItem ==
    ASSUME FlowTypes, RowInv, PlaceInv, PrepInv, GateInv, ItemStep
    PROVE  GateInv'
<1> USE DEF At, BlockRun, StageStops, Throw
<1>0. /\ UNCHANGED plan /\ git'.merged = git.merged
      /\ worker.at # "off" /\ worker.at # "projects"
  BY ItemStepActs, ItemKeeps, ItemPlace
<1>1. CASE worker'.at = "off"
  <2>1. run'.stage = run.stage /\ UNCHANGED <<files, git, auto>>
    <3>1. ~GateAnswered \/ Stop("blocked", "stage", "merge-gate")
      BY <1>1, GoIs DEF GateAnswered
    <3>2. ~(BrainstormBegins \/ BrainstormSaves \/ DesignBegins \/ DesignSaves \/ GateOpens)
      BY <1>0, <1>1 DEF BrainstormBegins, BrainstormSaves, DesignBegins, DesignSaves, GateOpens,
                        Begin, FlowTypes, RowType, Places
    <3>3. UNCHANGED <<files, git, auto>>
      BY <1>1, <3>1, <3>2, GoIs
      DEF ItemStep, Prepare, BrainstormEnds, LoadProjects, DesignEnds, GateAnswered, Finish, histVars
    <3>4. Ends
      BY <1>0, <1>1, <3>2, ItemStepActs, GoIs
      DEF Acts, ProjectActs, Goes, At1, Go, StageStarts, Saving, Begin, FlowTypes, RowType, Places,
          ItemStages, Design
    <3> QED
      BY <3>3, <3>4 DEF Ends
  <2> QED
    BY <1>1, <2>1, GateEnds
<1>2. CASE Prepare /\ worker'.at # "off"
  <2>1. CASE Go("brainstorm") /\ plan.item = "brainstorm" /\ UNCHANGED <<run, files, git, auto>>
    <3>1. worker'.at = "brainstorm" /\ run.stage # "merge-gate"
      BY <1>2, <2>1, GoIs DEF Prepare, PrepInv, ItemStages
    <3> QED
      BY <1>0, <2>1, <3>1 DEF GateInv, AtGate
  <2>2. CASE Go("load") /\ UNCHANGED <<run, files, git, auto>>
    BY <1>0, <1>2, <2>2, GoIs DEF Prepare, GateInv, AtGate
  <2> QED
    BY <1>2, <2>1, <2>2, OffIs DEF Prepare, Stop, histVars
<1>3. CASE BrainstormBegins \/ BrainstormSaves
  <2>1. /\ worker'.at = "brainstorm" /\ run.stage # "merge-gate" /\ run'.stage # "merge-gate"
        /\ UNCHANGED <<git, auto>>
    BY <1>3 DEF BrainstormBegins, BrainstormSaves, Begin, FlowTypes, RowType, RunRows, Places,
                PrepInv, histVars
  <2>2. plan.item # "merge-gate"
    BY <1>3 DEF BrainstormBegins, BrainstormSaves, PrepInv
  <2> QED
    BY <1>0, <2>1, <2>2 DEF GateInv, AtGate
<1>4. CASE BrainstormEnds /\ worker'.at # "off"
  <2>1. /\ worker'.at = "load" /\ plan.item = "brainstorm" /\ run.stage = "brainstorm"
        /\ UNCHANGED <<run, files, git, auto>>
    BY <1>4, GoIs, OffIs DEF BrainstormEnds, Stop, PrepInv, PlaceInv, histVars
  <2> QED
    BY <1>0, <2>1 DEF GateInv, AtGate
<1>5. CASE LoadProjects /\ worker'.at # "off"
  <2>1. ~Stop("blocked", "run", "none") /\ ~Over("failed") /\ worker.at = "load"
        /\ UNCHANGED <<files, git, auto>>
    BY <1>5, StopLeaves DEF LoadProjects, histVars
  <2>2. plan.item = "merge-gate" =>
            (~files.ui \/ plan.skipPrep) \/ (~RunsVisual /\ ~RunsFrontend)
    <3>1. ASSUME plan.item = "merge-gate" PROVE Prepared /\ plan.manual = "none"
      BY <2>1, <3>1 DEF GateInv, PrepInv, RowInv
    <3> QED
      BY <3>1 DEF Prepared, RowInv, RunsVisual, RunsFrontend
  <2>3. \/ ToProjects /\ UNCHANGED run
        \/ \E s \in Design : Go(s) /\ UNCHANGED run /\ plan.item # "merge-gate"
    BY <1>5, <2>1, <2>2 DEF LoadProjects, ToFrontend, Design
  <2> QED
    BY <1>0, <2>1, <2>3, GateToProjects, GateToDesign
<1>6. CASE DesignBegins \/ DesignSaves
  <2>1. PICK s \in Design : worker.at = s /\ worker'.at = s /\ run'.stage \in {run.stage, s}
    BY <1>6 DEF DesignBegins, DesignSaves, Begin, FlowTypes, RowType, RunRows, Places
  <2>2. run.stage # "merge-gate" /\ run'.stage # "merge-gate" /\ plan.item # "merge-gate"
    BY <1>0, <2>1 DEF GateInv, Design
  <2>3. UNCHANGED <<git, auto>>
    BY <1>6 DEF DesignBegins, DesignSaves, histVars
  <2> QED
    BY <1>0, <2>1, <2>2, <2>3 DEF GateInv, AtGate, Design
<1>7. CASE DesignEnds /\ worker'.at # "off"
  <2>1. UNCHANGED <<files, git, auto>> /\ worker.at \in Design
    BY <1>7 DEF DesignEnds, histVars
  <2>2. plan.item # "merge-gate"
    BY <1>0, <2>1 DEF GateInv, Design
  <2>3. \/ ToProjects /\ UNCHANGED run
        \/ \E s \in Design : Go(s) /\ UNCHANGED run
    BY <1>7, StopLeaves DEF DesignEnds, ToFrontend, Design
  <2> QED
    BY <1>0, <2>1, <2>2, <2>3, GateToProjects, GateToDesign
<1>8. CASE GateOpens
  <2>1. worker'.at = "merge-gate" /\ run'.stage = "merge-gate"
        /\ worker.at = "merge-gate" /\ UNCHANGED <<files, git, auto>>
    BY <1>8 DEF GateOpens, Begin, FlowTypes, RowType, RunRows, Places, histVars
  <2> QED
    BY <1>0, <2>1 DEF GateInv, AtGate
<1>9. CASE GateAnswered /\ worker'.at # "off"
  <2>1. worker'.at = "finish" /\ run.stage = "merge-gate" /\ UNCHANGED <<run, files>>
    BY <1>9, OffIs, GoIs DEF GateAnswered, Stop, PlaceInv
  <2> QED
    BY <1>0, <2>1 DEF GateInv, AtGate
<1>10. CASE Finish
  BY <1>1, <1>10, StopLeaves DEF Finish
<1> QED
  BY <1>1, <1>2, <1>3, <1>4, <1>5, <1>6, <1>7, <1>8, <1>9, <1>10 DEF ItemStep

LEMMA GateProject ==
    ASSUME FlowTypes, RowInv, PlaceInv, GateInv, ProjectStep
    PROVE  GateInv'
<1> USE DEF OnStage
<1>0. /\ worker.at = "projects" /\ worker.s \in Stages /\ worker.p \in 1..files.projects
      /\ files'.projects = files.projects /\ files.projects \in Nat /\ UNCHANGED <<plan, auto>>
      /\ git'.base = git.base
  BY ProjectStepActs, ProjectKeeps, ProjectIds DEF PlaceInv, KeepsItem
<1>1. /\ run.stage # "merge-gate" /\ run'.stage # "merge-gate" /\ plan.item # "merge-gate"
      /\ ~git.base /\ ~auto /\ 1..(worker.p - 1) \subseteq git.merged
  BY <1>0, ProjectPlace, OrderIs DEF GateInv
<1>2. CASE worker'.at = "off"
  BY <1>0, <1>1, <1>2 DEF GateInv, AtGate
<1>3. CASE StageBegins \/ StageSaves \/ CodeChanges
  <2>1. worker'.at = "projects" /\ worker'.p = worker.p
    BY <1>0, <1>3 DEF StageBegins, StageSaves, CodeChanges, Begin, FlowTypes, RowType, Places
  <2>2. 1..(worker.p - 1) \subseteq git'.merged
    <3>1. git' = git \/ git'.merged = git.merged \ {worker.p}
      BY <1>3 DEF StageBegins, StageSaves, CodeChanges, FlowTypes, CodeType, Branches
    <3> QED
      BY <1>0, <1>1, <3>1
  <2> QED
    BY <1>0, <1>1, <2>1, <2>2 DEF GateInv, AtGate
<1>4. CASE (StageIsLoaded \/ StagePasses) /\ worker'.at # "off"
  <2>1. Advance /\ git' = git
    BY <1>4, StopLeaves DEF StageIsLoaded, StagePasses, Throw
  <2>2. worker.s # "handoff"
    <3>1. plan.from[worker.p] \in Stages
      BY <1>0, ProjectIds
    <3> QED
      BY <1>0, <1>4, <3>1, PosIs, PosNext DEF StageIsLoaded, StagePasses, ShouldRun, PlaceInv
  <2>3. worker'.at = "projects" /\ worker'.p = worker.p
    BY <1>0, <2>1, <2>2, AdvanceIs
  <2> QED
    BY <1>0, <1>1, <2>1, <2>3 DEF GateInv, AtGate
<1>5. CASE Handoff /\ worker'.at # "off"
  <2>1. Advance /\ worker.s = "handoff" /\ git'.merged = git.merged \cup {worker.p}
    BY <1>5, StopLeaves DEF Handoff, BlockRun, Throw, FlowTypes, CodeType, Branches
  <2>2. 1..worker.p \subseteq git'.merged
    BY <1>0, <1>1, <2>1
  <2>3. \/ worker'.at = "projects" /\ worker'.p = worker.p + 1
        \/ worker'.at = "merge-gate" /\ worker.p = files.projects
    BY <1>0, <2>1, AdvanceIs
  <2>4. worker'.at = "projects" => worker'.p - 1 = worker.p
    BY <1>0, <2>3
  <2> QED
    BY <1>0, <1>1, <2>2, <2>3, <2>4 DEF GateInv, AtGate
<1>6. CASE StageFails \/ ProjectIsRefused
  BY <1>2, <1>6, StopLeaves DEF StageFails, ProjectIsRefused, StageStops, BlockRun
<1> QED
  BY <1>2, <1>3, <1>4, <1>5, <1>6 DEF ProjectStep

LEMMA GateOutside ==
    ASSUME FlowTypes, RowInv, PlaceInv, GateInv,
           \/ WorkerIsLost \/ ResumeRun
           \/ ReplanBegins \/ ReplanSwaps \/ ReplanRecords \/ ReplanAborts
    PROVE  GateInv'
<1>0. files'.projects = files.projects /\ run'.stage = run.stage /\ UNCHANGED <<git, auto>>
  BY OutsideKeeps DEF KeepsItem, histVars
<1>1. CASE ResumeRun
  <2>1. worker.at = "off" /\ worker'.at = "start" /\ plan' = ResumePlan(ResumeStage)
    BY <1>1, ResumeIs
  <2>2. plan'.item = "merge-gate" <=> run.stage = "merge-gate"
    BY <1>1, <2>1, ResumeStageIs, OrderIs DEF ResumePlan, ItemStages
  <2> QED
    BY <1>0, <2>1, <2>2 DEF GateInv, AtGate
<1>2. CASE ~ResumeRun
  <2>1. UNCHANGED plan /\ (worker' = worker \/ worker'.at = "off")
    BY <1>2, OutsideKeeps, OffIs
  <2> QED
    BY <1>0, <2>1 DEF GateInv, AtGate
<1> QED
  BY <1>1, <1>2

-----------------------------------------------------------------------------
(* What the checks have seen.                                              *)

Done(p) == git.built[p] = p /\ checked[p] = Checks

\* What project p has behind it when it stands at stage t.
Stands(p, t) ==
    /\ Pos[t] > Pos["execution"] => git.built[p] = p
    /\ Pos[t] > Pos["project-review"] => "project-review" \in checked[p]
    /\ Pos[t] > Pos["qa"] => "qa" \in checked[p] /\ green[p] = files.green

AllDone ==
    /\ \A p \in 1..files.projects : Done(p)
    /\ green[files.projects] = files.green

\* A project stands at its stage with its own plan in hand, its own code built and
\* the checks before it passed; so does a resumed run of one project at the stage
\* that it begins with, because it was at this stage before.
CodeInv ==
    /\ resumes = 0 => \A p \in Ids : Pos[plan.from[p]] <= Pos["architecture"]
    /\ Unmixed /\ AtGate => AllDone
    /\ Unmixed /\ worker.at = "projects" =>
           /\ Stands(worker.p, worker.s)
           /\ worker.s = "execution" /\ worker.phase = "saved" => git.built[worker.p] = worker.p
           /\ Pos[worker.s] > Pos["planning"] => ctx["planning"] = worker.p
           /\ \A p \in 1..(worker.p - 1) : Done(p)
    /\ files.projects = 1 /\ run.stage \in Stages => Stands(1, run.stage)
    /\ files.projects = 1 /\ worker.at # "off" => Stands(1, plan.from[1])
    /\ AutoPromotionIsGreen

LEMMA OneId == 1 \in Ids
BY BoundAssumption DEF Ids

LEMMA StandsEarly ==
    /\ \A p : Stands(p, "requirements") /\ Stands(p, "execution")
    /\ \A p : \A t, u \in Stages : Stands(p, u) /\ Pos[t] <= Pos[u] => Stands(p, t)
BY PosIs, PosNext DEF Stands

\* What stands at its handoff is done.
LEMMA StandsDone ==
    ASSUME FlowTypes, NEW p \in Ids, Stands(p, "handoff")
    PROVE  Done(p) /\ green[p] = files.green
<1>1. checked[p] \subseteq Checks
  BY DEF FlowTypes, CodeType
<1> QED
  BY <1>1, PosIs DEF Stands, Done, Checks

LEMMA ItemAtGate ==
    ASSUME FlowTypes, PlaceInv, GateInv, ItemStep, AtGate', worker.at # "off"
    PROVE  AtGate
<1> USE DEF At, histVars
<1>1. \A s : Go(s) /\ s \in Design \cup {"brainstorm", "load"} => worker'.at = s
  BY GoIs DEF ItemStages
<1>2. ToProjects => worker'.at = "projects" \/ plan.item = "merge-gate"
  BY DEF ToProjects
<1>3. CASE Prepare \/ BrainstormEnds \/ LoadProjects \/ DesignEnds
  <2>1. run'.stage = run.stage
    BY <1>3, StopLeaves
    DEF Prepare, BrainstormEnds, LoadProjects, DesignEnds, ToFrontend, Throw, BlockRun, StageStops
  <2>2. worker'.at \in {"merge-gate", "finish"} => ToProjects
    BY <1>1, <1>3, StopLeaves
    DEF Prepare, BrainstormEnds, LoadProjects, DesignEnds, ToFrontend, Throw, BlockRun, StageStops, Design
  <2> QED
    BY <1>2, <2>1, <2>2 DEF AtGate, GateInv
<1>4. CASE BrainstormBegins \/ BrainstormSaves \/ DesignBegins \/ DesignSaves
  BY <1>4 DEF BrainstormBegins, BrainstormSaves, DesignBegins, DesignSaves, Begin,
              AtGate, FlowTypes, RowType, RunRows, Places, Design
<1>5. CASE GateOpens \/ GateAnswered \/ Finish
  BY <1>5 DEF GateOpens, GateAnswered, Finish, AtGate
<1> QED
  BY <1>3, <1>4, <1>5 DEF ItemStep

\* An engine that answers the gate has looked at the report of the last QA.
LEMMA AutoItem ==
    ASSUME FlowTypes, PlaceInv, GateInv, CodeInv, ItemStep, files'.projects = files.projects,
           resumes' = resumes, green' = green
    PROVE  AutoPromotionIsGreen'
<1>1. Unmixed' = Unmixed
  BY DEF Unmixed
<1>2. CASE auto' = auto
  BY <1>1, <1>2 DEF CodeInv, AutoPromotionIsGreen
<1>3. CASE auto' # auto
  <2>1. GateAnswered
    BY <1>3 DEF ItemStep, Prepare, BrainstormBegins, BrainstormSaves, BrainstormEnds, LoadProjects,
                DesignBegins, DesignSaves, DesignEnds, GateOpens, Finish, histVars
  <2>2. (auto' => files.green) /\ AtGate
    BY <1>3, <2>1 DEF GateAnswered, AutoPromotes, At, AtGate, FlowTypes, CodeType
  <2> QED
    BY <1>1, <2>2 DEF CodeInv, AllDone, AutoPromotionIsGreen
<1> QED
  BY <1>2, <1>3

LEMMA CodeItem ==
    ASSUME FlowTypes, RowInv, PlaceInv, PrepInv, GateInv, CodeInv, ItemStep
    PROVE  CodeInv'
<1>0. /\ UNCHANGED <<plan, checked, green, resumes>> /\ worker.at # "off"
      /\ git'.built = git.built /\ files'.green = files.green
  BY ItemStepActs, ItemKeeps
<1>1. \A p, t : Stands(p, t)' <=> Stands(p, t)
  BY <1>0 DEF Stands
<1>2. \A p : Done(p)' <=> Done(p)
  BY <1>0 DEF Done
<1>3. Unmixed' /\ worker'.at = "projects" =>
          /\ Stands(worker.p, worker.s)'
          /\ worker'.s = "execution" /\ worker'.phase = "saved" => git'.built[worker'.p] = worker'.p
          /\ Pos[worker'.s] > Pos["planning"] => ctx'["planning"] = worker'.p
          /\ \A p \in 1..(worker'.p - 1) : Done(p)'
  <2>1. ASSUME worker'.at = "projects" PROVE worker'.p = 1 /\ worker'.s = "requirements"
    BY <2>1, ItemPlace DEF At1
  <2> QED
    BY <2>1, PosIs DEF Stands
<1>4. CASE files'.projects = files.projects
  <2>1. Unmixed' = Unmixed
    BY <1>0, <1>4 DEF Unmixed
  <2>2. Unmixed' /\ AtGate' => AllDone'
    BY <1>0, <1>2, <1>4, <2>1, ItemAtGate DEF CodeInv, AllDone
  <2>3. run'.stage \in Stages => run'.stage = run.stage
    BY ItemPlace, OrderIs DEF ItemStages, Design
  <2>4. AutoPromotionIsGreen'
    BY <1>0, <1>4, AutoItem
  <2> QED
    BY <1>0, <1>1, <1>3, <1>4, <2>2, <2>3, <2>4 DEF CodeInv
<1>5. CASE worker.at = "brainstorm"
  <2>1. /\ run.stage \in {"none", "brainstorm"} /\ plan.from = From("requirements")
        /\ plan.from[1] = "requirements"
    BY <1>5, OneId DEF PrepInv, RowInv, ItemStages, From
  <2>2. ~AtGate /\ ~auto
    BY <1>5, <2>1 DEF AtGate, GateInv
  <2>3. ~AtGate'
    BY <1>0, <2>2, ItemAtGate
  <2>4. ~auto'
    BY <1>5, <2>2 DEF ItemStep, Prepare, BrainstormBegins, BrainstormSaves, BrainstormEnds, LoadProjects,
                DesignBegins, DesignSaves, DesignEnds, GateOpens, GateAnswered, Finish, histVars, At
  <2>5. run'.stage \notin Stages
    BY <2>1, ItemPlace, OrderIs DEF ItemStages, Design
  <2> QED
    BY <1>0, <1>1, <1>3, <2>1, <2>3, <2>4, <2>5, StandsEarly DEF CodeInv, AutoPromotionIsGreen
<1> QED
  BY <1>4, <1>5, ItemCtx

\* What a step in project p changes of the code is that of p; what p has behind it
\* up to the stage where it stands stays so.
LEMMA CodeStep ==
    ASSUME FlowTypes, PlaceInv, ProjectStep, worker.p \in Ids
    PROVE  /\ \A q \in Ids \ {worker.p} :
                  git'.built[q] = git.built[q] /\ checked'[q] = checked[q] /\ green'[q] = green[q]
           /\ \A q \in Ids : \A t \in Stages : Pos[t] <= Pos[worker.s] /\ Stands(q, t)
                  => Stands(q, t)'
           /\ worker.phase = "next" =>
                  \A q : \A t \in Stages : Stands(q, t) => Stands(q, t)'
<1> USE DEF FlowTypes, CodeType, Branches, OnStage, histVars
<1>0. worker.at = "projects" /\ worker.s \in Stages
  BY DEF ProjectStep, StageBegins, StageIsLoaded, StageSaves, CodeChanges, StagePasses, StageFails,
         ProjectIsRefused, Handoff, PlaceInv
<1>1. CASE StageBegins \/ StageIsLoaded \/ StageFails \/ ProjectIsRefused \/ Handoff
  <2>1. git'.built = git.built /\ UNCHANGED <<checked, green>> /\ files'.green = files.green
    BY <1>1 DEF StageBegins, StageIsLoaded, StageFails, ProjectIsRefused, Handoff, FileStates
  <2> QED
    BY <2>1 DEF Stands
<1>2. CASE StageSaves
  <2>1. UNCHANGED <<git, checked, green>> /\ worker.phase = "busy"
    BY <1>2 DEF StageSaves
  <2>2. worker.s # "qa" => files'.green = files.green
    BY <1>2 DEF StageSaves, FileStates
  <2> QED
    BY <1>0, <2>1, <2>2, PosIs, PosNext DEF Stands
<1>3. CASE CodeChanges
  <2>1. /\ git'.built = [git.built EXCEPT ![worker.p] = ctx["planning"]]
        /\ checked' = [checked EXCEPT ![worker.p] = {}]
        /\ green' = [green EXCEPT ![worker.p] = FALSE]
        /\ worker.phase = "busy" /\ worker.s = "execution"
    BY <1>3 DEF CodeChanges
  <2>2. \A q \in Ids \ {worker.p} :
             git'.built[q] = git.built[q] /\ checked'[q] = checked[q] /\ green'[q] = green[q]
    BY <2>1
  <2>3. \A t \in Stages : Pos[t] <= Pos["execution"] => \A q : Stands(q, t)'
    BY PosIs, PosNext DEF Stands
  <2> QED
    BY <2>1, <2>2, <2>3
<1>4. CASE StagePasses
  <2>1. /\ checked' = [checked EXCEPT ![worker.p] = @ \cup (Checks \cap {worker.s})]
        /\ green' = [green EXCEPT ![worker.p] = IF worker.s = "qa" THEN files.green ELSE @]
        /\ git' = git /\ worker.phase = "saved"
    BY <1>4 DEF StagePasses
  <2>2. files'.green = files.green
    BY <1>4 DEF StagePasses, FileStates
  <2>3. \A q \in Ids : checked[q] \subseteq checked'[q]
    BY <2>1
  <2>4. \A q \in Ids : worker.s # "qa" => green'[q] = green[q]
    BY <2>1
  <2> QED
    BY <1>0, <2>1, <2>2, <2>3, <2>4, PosIs DEF Stands
<1> QED
  BY <1>1, <1>2, <1>3, <1>4 DEF ProjectStep

LEMMA CodeProject ==
    ASSUME FlowTypes, RowInv, PlaceInv, PrepInv, GateInv, CodeInv, ProjectStep
    PROVE  CodeInv'
<1> USE DEF OnStage
<1>0. /\ worker.at = "projects" /\ worker.s \in Stages
      /\ worker.p \in 1..files.projects /\ worker.p \in Ids
      /\ files'.projects = files.projects /\ files.projects \in Nat
      /\ UNCHANGED <<plan, auto, resumes>>
  BY ProjectStepActs, ProjectKeeps, ProjectIds DEF PlaceInv, KeepsItem
<1>1. ~auto /\ run'.stage # "merge-gate"
  BY <1>0, ProjectPlace, OrderIs DEF GateInv
<1>2. Unmixed' = Unmixed
  BY <1>0 DEF Unmixed
<1>3. files.projects = 1 => Unmixed /\ worker.p = 1
  BY <1>0 DEF Unmixed
<1>4. \A p \in 1..(worker.p - 1) : p \in Ids \ {worker.p}
  BY <1>0, ProjectIds
<1>5. Unmixed => \A p \in 1..(worker.p - 1) : Done(p)'
  BY <1>0, <1>4, CodeStep DEF CodeInv, Done
<1>6. plan.from[worker.p] \in Stages /\ 1 \in Ids /\ plan.from[1] \in Stages
  BY <1>0, OneId, ProjectIds
\* The stage that the row names, and the one that the run began with.
<1>7. files'.projects = 1 /\ run'.stage \in Stages => \A t \in Stages : t = run'.stage => Stands(1, t)'
  <2>1. CASE worker.phase = "next"
    <3>1. ASSUME files.projects = 1, NEW t \in Stages, t = run'.stage PROVE Stands(1, t)
      BY <1>0, <1>3, <3>1, ProjectPlace DEF CodeInv
    <3> QED
      BY <1>0, <2>1, <3>1, CodeStep
  <2>2. CASE worker.phase # "next"
    <3>1. run.stage = worker.s /\ run'.stage = worker.s
      BY <1>0, <2>2, ProjectPlace DEF PlaceInv
    <3> QED
      BY <1>0, <1>6, <3>1, CodeStep, PosNext DEF CodeInv
  <2> QED
    BY <2>1, <2>2
<1>8. files'.projects = 1 => \A t \in Stages : t = plan'.from[1] => Stands(1, t)'
  <2>1. CASE worker.phase = "next"
    BY <1>0, <2>1, CodeStep DEF CodeInv
  <2>2. CASE worker.phase # "next"
    <3>1. files.projects = 1 => Pos[plan.from[1]] <= Pos[worker.s]
      BY <1>0, <1>3, <1>6, <2>2, PosNext DEF PlaceInv, ShouldRun
    <3> QED
      BY <1>0, <1>6, <3>1, CodeStep DEF CodeInv
  <2> QED
    BY <2>1, <2>2
\* Where it goes.
<1>9. Unmixed /\ worker'.at = "projects" =>
          /\ \A t \in Stages : t = worker'.s => Stands(worker.p, t)'
          /\ worker'.s = "execution" /\ worker'.phase = "saved" => git'.built[worker'.p] = worker'.p
          /\ Pos[worker'.s] > Pos["planning"] => ctx'["planning"] = worker'.p
          /\ \A p \in 1..(worker'.p - 1) : Done(p)'
  <2> SUFFICES ASSUME Unmixed, worker'.at = "projects"
               PROVE  /\ \A t \in Stages : t = worker'.s => Stands(worker.p, t)'
                      /\ worker'.s = "execution" /\ worker'.phase = "saved"
                             => git'.built[worker'.p] = worker'.p
                      /\ Pos[worker'.s] > Pos["planning"] => ctx'["planning"] = worker'.p
                      /\ \A p \in 1..(worker'.p - 1) : Done(p)'
    OBVIOUS
  <2>0. /\ Stands(worker.p, worker.s)
        /\ Pos[worker.s] > Pos["planning"] => ctx["planning"] = worker.p
    BY <1>0 DEF CodeInv
  <2>1. CASE StageBegins \/ StageSaves
    <3>1. worker'.p = worker.p /\ worker'.s = worker.s /\ UNCHANGED ctx
      BY <2>1 DEF StageBegins, StageSaves, Begin, FlowTypes, RowType, Places
    <3>2. ~(worker'.s = "execution" /\ worker'.phase = "saved")
      BY <2>1 DEF StageBegins, StageSaves, Begin, FlowTypes, RowType, Places
    <3> QED
      BY <1>0, <1>5, <2>0, <3>1, <3>2, CodeStep, PosNext
  <2>2. CASE CodeChanges
    <3>1. /\ worker'.p = worker.p /\ worker'.s = worker.s /\ worker.s = "execution"
          /\ UNCHANGED ctx /\ git'.built[worker.p] = ctx["planning"]
      BY <1>0, <2>2 DEF CodeChanges, FlowTypes, RowType, Places, CodeType, Branches
    <3> QED
      BY <1>0, <1>5, <2>0, <3>1, CodeStep, PosNext, PosIs
  <2>3. CASE StageIsLoaded
    <3>1. /\ Advance /\ worker.phase = "next" /\ ~ShouldRun(worker.p, worker.s)
          /\ UNCHANGED files
      BY <2>3, StopLeaves DEF StageIsLoaded, Throw
    <3>2. worker.s # "handoff"
      BY <1>0, <1>6, <3>1, PosIs, PosNext DEF ShouldRun
    <3>3. /\ worker'.p = worker.p /\ worker'.phase = "next"
          /\ worker'.s \in Stages /\ Pos[worker'.s] = Pos[worker.s] + 1
      BY <1>0, <3>1, <3>2, AdvanceIs
    <3>4. Pos[worker'.s] <= Pos[plan.from[worker.p]]
      BY <1>0, <1>6, <3>1, <3>3, PosNext DEF ShouldRun
    <3>5. CASE resumes = 0
      <4>1. Pos[worker'.s] <= Pos["architecture"]
        BY <1>0, <1>6, <3>3, <3>4, <3>5, PosIs, PosNext DEF CodeInv
      <4> QED
        BY <1>5, <3>3, <4>1, PosIs, PosNext DEF Stands
    <3>6. CASE files.projects = 1
      <4>1. Stands(1, worker'.s)
        BY <1>0, <1>3, <1>6, <3>3, <3>4, <3>6, StandsEarly DEF CodeInv
      <4>2. ctx' = [ctx EXCEPT ![worker.s] = Source(worker.p, worker.s)]
            \/ (worker.s = "qa" /\ ctx' = ctx)
        BY <2>3, <3>1, <3>2, StopLeaves DEF StageIsLoaded, NextCtx, Throw
      <4>3. worker.s = "planning" => ctx'["planning"] = worker.p
        <5>1. ASSUME worker.s = "planning" PROVE files.disk["planning"] = 1
          <6>1. files.disk["planning"] \in Nat /\ files.disk["planning"] <= 1
            BY <1>0, <3>6, <5>1, BoundAssumption DEF PrepInv, FlowTypes, FileStates
          <6>2. Source(worker.p, "planning") # 0
            BY <2>3, <3>1, <5>1, StopLeaves DEF StageIsLoaded, Throw
          <6> QED
            BY <6>1, <6>2 DEF Source
        <5> QED
          BY <1>0, <1>3, <3>6, <4>2, <5>1 DEF Source, FlowTypes, CodeType
      <4>4. worker.s # "planning" => ctx'["planning"] = ctx["planning"]
        BY <1>0, <4>2, OrderIs DEF FlowTypes, CodeType
      <4>5. Pos[worker'.s] > Pos["planning"] => ctx'["planning"] = worker.p
        BY <1>0, <2>0, <3>3, <4>3, <4>4, OrderIs, PosIs, PosNext
      <4> QED
        BY <1>0, <1>3, <1>5, <3>1, <3>3, <3>6, <4>1, <4>5, CodeStep
    <3> QED
      BY <3>5, <3>6 DEF Unmixed
  <2>4. CASE StagePasses
    <3>1. Advance /\ worker.phase = "saved" /\ worker.s # "handoff"
      BY <1>0, <2>4 DEF StagePasses, PlaceInv
    <3>2. /\ worker'.p = worker.p /\ worker'.phase = "next"
          /\ worker'.s \in Stages /\ Pos[worker'.s] = Pos[worker.s] + 1
      BY <1>0, <3>1, AdvanceIs
    <3>3. ctx' = [ctx EXCEPT ![worker.s] = worker.p] /\ git' = git
      BY <2>4 DEF StagePasses
    <3>4. Pos[worker'.s] > Pos["planning"] => ctx'["planning"] = worker.p
      BY <1>0, <2>0, <3>2, <3>3, PosIs, PosNext, OrderIs DEF FlowTypes, CodeType
    <3>5. worker.s = "execution" => git.built[worker.p] = worker.p
      BY <1>0, <3>1 DEF CodeInv
    <3>6. /\ worker.s \in Checks => worker.s \in checked'[worker.p]
          /\ worker.s = "qa" => green'[worker.p] = files.green
          /\ files'.green = files.green
      BY <1>0, <2>4 DEF StagePasses, FlowTypes, CodeType, FileStates
    <3>8. \A t \in Stages : t = worker.s => Stands(worker.p, t)'
      BY <1>0, <2>0, <3>2, CodeStep, PosNext
    <3>9. \A t \in Stages : t = worker'.s => Stands(worker.p, t)'
      BY <1>0, <3>2, <3>3, <3>5, <3>6, <3>8, PosIs, OrderIs DEF Stands, Checks
    <3> QED
      BY <1>5, <3>2, <3>4, <3>9
  <2>5. CASE Handoff
    <3>1. Advance /\ worker.s = "handoff"
      BY <2>5, StopLeaves DEF Handoff, BlockRun, Throw
    <3>2. worker'.p = worker.p + 1 /\ worker'.s = "requirements"
      BY <1>0, <3>1, AdvanceIs
    <3>3. Done(worker.p)
      BY <1>0, <2>0, <3>1, StandsDone
    <3>4. UNCHANGED checked /\ git'.built = git.built
      BY <2>5 DEF Handoff, histVars, FlowTypes, CodeType, Branches
    <3>5. \A p \in 1..(worker'.p - 1) : p = worker.p \/ p \in 1..(worker.p - 1)
      BY <1>0, <3>2
    <3> QED
      BY <1>0, <1>5, <3>2, <3>3, <3>4, <3>5, PosIs DEF Done, Stands
  <2>6. CASE StageFails \/ ProjectIsRefused
    BY <2>6, StopLeaves DEF StageFails, ProjectIsRefused, StageStops, BlockRun
  <2> QED
    BY <2>1, <2>2, <2>3, <2>4, <2>5, <2>6 DEF ProjectStep
\* To the gate.
<1>10. Unmixed /\ AtGate' => AllDone'
  <2> SUFFICES ASSUME Unmixed, AtGate' PROVE AllDone'
    OBVIOUS
  <2>1. worker'.at = "merge-gate" /\ worker.s = "handoff" /\ worker.p = files.projects
    BY <1>1, ProjectPlace DEF AtGate
  <2>2. Stands(worker.p, "handoff") /\ \A p \in 1..(worker.p - 1) : Done(p)
    BY <1>0, <2>1 DEF CodeInv
  <2>3. Done(worker.p) /\ green[worker.p] = files.green
    BY <1>0, <2>2, StandsDone
  <2>4. UNCHANGED <<checked, green>> /\ git'.built = git.built /\ files'.green = files.green
    <3>1. Handoff \/ ~(StageSaves \/ CodeChanges \/ StagePasses)
      BY <1>0, <2>1 DEF StageSaves, CodeChanges, StagePasses, PlaceInv
    <3> QED
      BY <3>1 DEF ProjectStep, StageBegins, StageIsLoaded, StageFails, ProjectIsRefused, Handoff,
                  histVars, FlowTypes, FileStates, CodeType, Branches
  <2>5. \A p \in 1..files.projects : p = worker.p \/ p \in 1..(worker.p - 1)
    BY <1>0, <2>1
  <2> QED
    BY <1>0, <2>1, <2>2, <2>3, <2>4, <2>5 DEF Done, AllDone
<1>11. AutoPromotionIsGreen'
  BY <1>0, <1>1 DEF AutoPromotionIsGreen
<1>12. /\ files'.projects = 1 /\ run'.stage \in Stages => Stands(1, run.stage)'
       /\ files'.projects = 1 => Stands(1, plan.from[1])'
  BY <1>0, <1>6, <1>7, <1>8
<1>13. Unmixed /\ worker'.at = "projects" => Stands(worker.p, worker.s)'
  <2>1. worker'.at = "projects" => worker'.s \in Stages
    BY PlaceActs, ProjectStepActs DEF Acts, PlaceInv
  <2> QED
    BY <1>9, <2>1
<1> QED
  BY <1>0, <1>2, <1>9, <1>10, <1>11, <1>12, <1>13 DEF CodeInv

LEMMA CodeOutside ==
    ASSUME FlowTypes, RowInv, PlaceInv, CodeInv,
           \/ WorkerIsLost \/ ResumeRun
           \/ ReplanBegins \/ ReplanSwaps \/ ReplanRecords \/ ReplanAborts
    PROVE  CodeInv'
<1>0. /\ files'.projects = files.projects /\ files'.green = files.green
      /\ run'.stage = run.stage /\ UNCHANGED <<ctx, git, checked, green, auto>>
  BY OutsideKeeps DEF KeepsItem, histVars
<1>1. \A p, t : Stands(p, t)' <=> Stands(p, t)
  BY <1>0 DEF Stands
<1>2. \A p : Done(p)' <=> Done(p)
  BY <1>0 DEF Done
<1>3. CASE ResumeRun
  <2>1. worker'.at = "start" /\ plan' = ResumePlan(ResumeStage)
    BY <1>3, ResumeIs
  <2>2. resumes' # 0 /\ (Unmixed' => Unmixed)
    <3>1. resumes' = resumes + 1 /\ resumes \in Nat
      BY <1>3, BoundAssumption DEF ResumeRun, FlowTypes, FrameType
    <3> QED
      BY <1>0, <3>1 DEF Unmixed
  <2>3. AtGate' => AtGate
    BY <1>0, <2>1 DEF AtGate
  <2>4. files.projects = 1 => Stands(1, plan.from[1])'
    <3>1. plan'.from[1] = IF ResumeStage \in Stages THEN ResumeStage ELSE "requirements"
      BY <2>1, OneId DEF ResumePlan, From
    <3>2. files.projects = 1 /\ ResumeStage \in Stages => Stands(1, ResumeStage)
      BY <1>3, ResumeStageIs, StandsEarly DEF CodeInv
    <3> QED
      BY <1>1, <3>1, <3>2, StandsEarly
  <2> QED
    BY <1>0, <1>1, <1>2, <2>1, <2>2, <2>3, <2>4 DEF CodeInv, AllDone, AutoPromotionIsGreen
<1>4. CASE ~ResumeRun
  <2>1. UNCHANGED <<plan, resumes>> /\ (worker' = worker \/ worker'.at = "off")
    BY <1>4, OutsideKeeps, OffIs
  <2>2. Unmixed' = Unmixed /\ (AtGate' => AtGate)
    BY <1>0, <2>1 DEF Unmixed, AtGate
  <2> QED
    BY <1>0, <1>1, <1>2, <2>1, <2>2 DEF CodeInv, AllDone, AutoPromotionIsGreen
<1> QED
  BY <1>3, <1>4

-----------------------------------------------------------------------------
(* What a replan asked for.                                                *)

\* A plan that was asked for is executed next: a run of one project stands before
\* the end of its execution and is resumed from there, and it has the new plan in
\* hand when it begins to execute.
DueInv ==
    /\ \A p \in Ids : due[p] # 0 => p <= files.projects /\ files.disk["planning"] # 0
    /\ resumes = 0 /\ worker.at # "off" => replan.at = "none" /\ \A p \in Ids : due[p] = 0
    /\ files.projects = 1 /\ due[1] # 0 =>
           /\ run.stage \in Stages /\ Pos[run.stage] <= Pos["execution"]
           /\ worker.at # "off" =>
                  /\ worker.at \in {"start", "load", "projects"}
                  /\ plan.item = "projects" /\ plan.manual = "none"
                  /\ Pos[plan.from[1]] <= Pos["execution"]
           /\ worker.at = "projects" =>
                  /\ Pos[worker.s] <= Pos["execution"]
                  /\ Pos[worker.s] > Pos["planning"] => due[1] <= rev.ctx /\ worker.phase # "saved"
    /\ ReplannedIsExecuted

\* What a worker does before its projects where a plan is due.
LEMMA DueLoads ==
    ASSUME FlowTypes, RowInv, PlaceInv, PrepInv, ItemStep,
           worker.at \in {"start", "load"}, plan.item = "projects", plan.manual = "none",
           run.stage \in Stages
    PROVE  worker'.at \in {"off", "load", "projects"} /\ run'.stage = run.stage
<1> USE DEF At, BlockRun, StageStops, Throw
<1>1. CASE Prepare
  <2>1. Stop("blocked", "run", "none") \/ (Go("load") /\ UNCHANGED run)
    BY <1>1 DEF Prepare
  <2> QED
    BY <2>1, StopLeaves, GoIs
<1>2. CASE LoadProjects
  <2>1. Prepared
    BY DEF PrepInv
  <2>2. ~files.ui \/ plan.skipPrep \/ (~RunsVisual /\ ~RunsFrontend)
    BY <2>1 DEF Prepared, RowInv, RunsVisual, RunsFrontend
  <2>3. Stop("blocked", "run", "none") \/ Over("failed") \/ (ToProjects /\ UNCHANGED run)
    BY <1>2, <2>2 DEF LoadProjects, ToFrontend
  <2>4. ToProjects => worker'.at = "projects"
    BY DEF ToProjects
  <2> QED
    BY <2>3, <2>4, StopLeaves
<1> QED
  BY <1>1, <1>2 DEF ItemStep, BrainstormBegins, BrainstormSaves, BrainstormEnds,
                    DesignBegins, DesignSaves, DesignEnds, GateOpens, GateAnswered, Finish, Design

LEMMA DueItem ==
    ASSUME FlowTypes, RowInv, PlaceInv, PrepInv, GateInv', DueInv, ItemStep
    PROVE  DueInv'
<1>0. /\ worker.at # "off" /\ worker.at # "projects" /\ UNCHANGED <<plan, replan, rev, due, resumes>>
      /\ files'.disk = files.disk
  BY ItemStepActs, ItemKeeps, ItemPlace
<1>1. worker.at = "brainstorm" => \A p \in Ids : due[p] = 0
  BY OrderIs DEF PrepInv, Empty, DueInv
<1>2. \A p \in Ids : due'[p] # 0 => p <= files'.projects /\ files'.disk["planning"] # 0
  BY <1>0, <1>1, ItemCtx DEF DueInv
<1>3. ASSUME files'.projects = 1, due[1] # 0
      PROVE  /\ run'.stage \in Stages /\ Pos[run'.stage] <= Pos["execution"]
             /\ worker'.at # "off" =>
                    /\ worker'.at \in {"start", "load", "projects"}
                    /\ plan.item = "projects" /\ plan.manual = "none"
                    /\ Pos[plan.from[1]] <= Pos["execution"]
             /\ worker'.at = "projects" => worker'.s = "requirements"
  <2>1. files.projects = 1
    BY <1>1, <1>3, OneId, ItemCtx
  <2>2. /\ run.stage \in Stages /\ Pos[run.stage] <= Pos["execution"]
        /\ worker.at \in {"start", "load"}
        /\ plan.item = "projects" /\ plan.manual = "none"
        /\ Pos[plan.from[1]] <= Pos["execution"]
    BY <1>0, <1>3, <2>1 DEF DueInv
  <2>3. worker'.at = "projects" => worker'.s = "requirements"
    BY ItemPlace DEF At1
  <2> QED
    BY <2>2, <2>3, DueLoads
<1>4. ReplannedIsExecuted'
  <2> SUFFICES ASSUME git'.base, Unmixed' PROVE \A p \in Ids : due'[p] = 0
    BY DEF ReplannedIsExecuted
  <2>1. CASE resumes = 0
    BY <1>0, <2>1 DEF DueInv
  <2>2. CASE files'.projects = 1
    <3>1. run'.stage \notin Stages
      BY OrderIs DEF GateInv
    <3>2. \A p \in Ids : due[p] # 0 => p = 1
      BY <1>0, <1>2, <2>2, BoundAssumption DEF Ids
    <3> QED
      BY <1>0, <1>3, <2>2, <3>1, <3>2
  <2> QED
    BY <1>0, <2>1, <2>2 DEF Unmixed
<1> QED
  BY <1>0, <1>2, <1>3, <1>4, PosIs DEF DueInv

LEMMA DueProject ==
    ASSUME FlowTypes, RowInv, PlaceInv, ReplanInv, GateInv, DueInv, ProjectStep
    PROVE  DueInv'
<1> USE DEF OnStage
<1>0. /\ worker.at = "projects" /\ worker.s \in Stages
      /\ worker.p \in 1..files.projects /\ worker.p \in Ids /\ worker.p # 0
      /\ files'.projects = files.projects /\ files.projects \in Nat
      /\ UNCHANGED <<plan, replan, resumes>> /\ git'.base = git.base /\ rev'.disk = rev.disk
      /\ \A p \in Ids : due'[p] \in {due[p], 0}
  BY ProjectStepActs, ProjectKeeps, ProjectIds DEF PlaceInv, KeepsItem
<1>1. ~git.base
  BY <1>0 DEF GateInv
<1>2. files.disk["planning"] # 0 => files'.disk["planning"] # 0
  BY <1>0, ProjectKeeps, OrderIs
<1>3. ASSUME files.projects = 1, due'[1] # 0
      PROVE  /\ run'.stage \in Stages /\ Pos[run'.stage] <= Pos["execution"]
             /\ worker'.at \in {"off", "projects"}
             /\ worker'.at = "projects" =>
                    /\ Pos[worker'.s] <= Pos["execution"]
                    /\ Pos[worker'.s] > Pos["planning"] =>
                           due'[1] <= rev'.ctx /\ worker'.phase # "saved"
  <2>0. /\ worker.p = 1 /\ due[1] # 0 /\ due'[1] = due[1] /\ 1 \in Ids
        /\ run.stage \in Stages /\ Pos[run.stage] <= Pos["execution"]
        /\ plan.from[1] \in Stages /\ Pos[plan.from[1]] <= Pos["execution"]
        /\ Pos[worker.s] <= Pos["execution"]
        /\ Pos[worker.s] > Pos["planning"] => due[1] <= rev.ctx /\ worker.phase # "saved"
    BY <1>0, <1>3, OneId, ProjectIds DEF DueInv
  <2>1. run'.stage \in Stages /\ Pos[run'.stage] <= Pos["execution"]
    BY <1>0, <2>0, ProjectPlace
  <2>2. CASE StageBegins
    <3>1. worker'.at = "projects" /\ worker'.s = worker.s /\ worker'.phase = "busy" /\ rev' = rev
      BY <1>0, <2>2 DEF StageBegins, Begin, FlowTypes, RowType, Places, Keep, revVars
    <3> QED
      BY <2>0, <2>1, <3>1
  <2>3. CASE StageIsLoaded
    <3>1. CASE worker'.at = "off"
      BY <2>1, <3>1
    <3>2. CASE worker'.at # "off"
      <4>1. Advance /\ Pos[worker.s] < Pos[plan.from[1]]
            /\ (worker.s = "planning" => rev'.ctx = rev.disk)
        BY <1>0, <2>0, <2>3, <3>2, StopLeaves, PosNext
        DEF StageIsLoaded, Throw, ShouldRun, FlowTypes, RevType
      <4>2. worker.s # "handoff"
        BY <2>0, PosIs
      <4>3. /\ worker'.at = "projects" /\ worker'.phase = "next"
            /\ worker'.s \in Stages /\ Pos[worker'.s] = Pos[worker.s] + 1
        BY <1>0, <4>1, <4>2, AdvanceIs
      <4>4. Pos[worker'.s] <= Pos["execution"]
        BY <1>0, <2>0, <4>1, <4>3, PosNext, PosIs
      <4>5. Pos[worker'.s] > Pos["planning"] => worker.s = "planning"
        BY <1>0, <4>3, <4>4, PosNext, PosIs, OrderIs
      <4>6. due[1] <= rev.disk
        BY <2>0 DEF ReplanInv
      <4> QED
        BY <2>0, <2>1, <4>1, <4>3, <4>4, <4>5, <4>6
    <3> QED
      BY <3>1, <3>2
  <2>4. CASE StageSaves
    <3>1. worker.s # "execution" /\ worker.s # "planning"
      <4>1. worker.s = "planning" => due'[1] = 0
        BY <2>0, <2>4 DEF StageSaves, PlanWritten, FlowTypes, RevType
      <4> QED
        BY <1>3, <2>4, <4>1 DEF StageSaves
    <3>2. worker'.at = "projects" /\ worker'.s = worker.s
      BY <1>0, <2>4 DEF StageSaves, FlowTypes, RowType, Places
    <3>3. ~(Pos[worker.s] > Pos["planning"])
      BY <1>0, <2>0, <3>1, PosIs, PosNext, OrderIs
    <3> QED
      BY <2>0, <2>1, <3>2, <3>3
  <2>5. CASE CodeChanges
    <3>1. due[1] <= rev.ctx
      BY <2>0, <2>5, PosIs DEF CodeChanges
    <3>2. due'[1] = 0
      BY <2>0, <2>5, <3>1 DEF CodeChanges, FlowTypes, RevType
    <3> QED
      BY <1>3, <3>2
  <2>6. CASE StagePasses
    <3>1. worker.phase = "saved" /\ Advance
      BY <2>6 DEF StagePasses
    <3>2. worker.s # "planning"
      <4>1. worker.s = "planning" => due'[1] = 0
        BY <2>0, <2>6 DEF StagePasses, PlanWritten, FlowTypes, RevType
      <4> QED
        BY <1>3, <4>1
    <3>3. Pos[worker.s] < Pos["planning"] /\ worker.s # "handoff"
      BY <1>0, <2>0, <3>1, <3>2, PosIs, PosNext, OrderIs
    <3>4. worker'.at = "projects" /\ worker'.s \in Stages /\ Pos[worker'.s] = Pos[worker.s] + 1
      BY <1>0, <3>1, <3>3, AdvanceIs
    <3>5. Pos[worker'.s] <= Pos["planning"]
      BY <1>0, <3>3, <3>4, PosIs, PosNext
    <3> QED
      BY <2>1, <3>4, <3>5, PosIs, PosNext
  <2>7. CASE StageFails \/ ProjectIsRefused
    BY <2>1, <2>7, StopLeaves DEF StageFails, ProjectIsRefused, StageStops, BlockRun
  <2>8. CASE Handoff
    BY <2>0, <2>8, PosIs DEF Handoff
  <2> QED
    BY <2>2, <2>3, <2>4, <2>5, <2>6, <2>7, <2>8 DEF ProjectStep
<1>4. ReplannedIsExecuted'
  BY <1>0, <1>1 DEF ReplannedIsExecuted
<1>5. \A p \in Ids : due'[p] # 0 => due[p] # 0
  BY <1>0
<1>6. resumes = 0 => replan'.at = "none" /\ \A p \in Ids : due'[p] = 0
  BY <1>0 DEF DueInv
<1>7. files.projects = 1 /\ due'[1] # 0 =>
          plan.item = "projects" /\ plan.manual = "none" /\ Pos[plan.from[1]] <= Pos["execution"]
  BY <1>0, <1>5, OneId DEF DueInv
<1> QED
  BY <1>0, <1>2, <1>3, <1>4, <1>5, <1>6, <1>7 DEF DueInv

LEMMA DueOutside ==
    ASSUME FlowTypes, RowInv, PlaceInv, ReplanInv, PrepInv, GateInv, DueInv,
           \/ WorkerIsLost \/ ResumeRun
           \/ ReplanBegins \/ ReplanSwaps \/ ReplanRecords \/ ReplanAborts
    PROVE  DueInv'
<1> USE DEF KeepWorker, revVars
<1>0. /\ files'.projects = files.projects /\ files'.disk = files.disk
      /\ run'.stage = run.stage /\ git' = git
  BY OutsideKeeps DEF KeepsItem
<1>1. CASE ResumeRun
  <2>1. worker'.at = "start" /\ plan' = ResumePlan(ResumeStage) /\ due' = due
    BY <1>1, ResumeIs DEF ResumeRun
  <2>2. resumes' # 0 /\ (Unmixed' => Unmixed)
    <3>1. resumes' = resumes + 1 /\ resumes \in Nat
      BY <1>1, BoundAssumption DEF ResumeRun, FlowTypes, FrameType
    <3> QED
      BY <1>0, <3>1 DEF Unmixed
  <2>3. ASSUME files.projects = 1, due[1] # 0
        PROVE  /\ plan'.item = "projects" /\ plan'.manual = "none"
               /\ Pos[plan'.from[1]] <= Pos["execution"]
    <3>1. ResumeStage \in Stages /\ Pos[ResumeStage] <= Pos["execution"]
      BY <1>1, <2>3, ResumeStageIs, OrderIs, PosIs DEF DueInv
    <3>2. ResumeStage \notin ItemStages
      BY <3>1, OrderIs DEF ItemStages, Design
    <3> QED
      BY <2>1, <3>1, <3>2, OneId DEF ResumePlan, From
  <2> QED
    BY <1>0, <2>1, <2>2, <2>3 DEF DueInv, ReplannedIsExecuted
<1>2. CASE WorkerIsLost
  <2>1. worker'.at = "off" /\ UNCHANGED <<due, resumes>>
    BY <1>2, OffIs DEF WorkerIsLost, Stop
  <2> QED
    BY <1>0, <2>1 DEF DueInv, ReplannedIsExecuted, Unmixed
<1>3. CASE ReplanBegins
  BY <1>0, <1>3 DEF ReplanBegins, DueInv, ReplannedIsExecuted, Unmixed
<1>4. CASE ReplanSwaps
  <2>1. /\ replan.at = "prepared" /\ UNCHANGED <<worker, plan, resumes>>
        /\ rev'.ctx = rev.ctx
    BY <1>4 DEF ReplanSwaps, FlowTypes, RevType
  <2> DEFINE asked == ~replan.raced /\ run.stage \in Stages /\ Pos[run.stage] <= Pos["execution"]
  <2>2. CASE asked
    <3>1. worker.at = "off" /\ files.disk["planning"] # 0
      BY <2>1, <2>2 DEF ReplanInv
    <3>2. \A p \in Ids : due'[p] # due[p] => p = files.disk["planning"]
      BY <1>4, <2>2 DEF ReplanSwaps, FlowTypes, RevType
    <3>3. files.disk["planning"] <= files.projects
      BY OrderIs DEF PrepInv
    <3>4. ~git.base
      BY <2>2, OrderIs DEF GateInv
    <3> QED
      BY <1>0, <2>1, <2>2, <3>1, <3>2, <3>3, <3>4 DEF DueInv, ReplannedIsExecuted
  <2>3. CASE ~asked
    <3>1. due' = due
      BY <1>4, <2>3 DEF ReplanSwaps
    <3>2. ~(resumes = 0 /\ worker.at # "off")
      BY <2>1 DEF DueInv
    <3> QED
      BY <1>0, <2>1, <3>1, <3>2 DEF DueInv, ReplannedIsExecuted, Unmixed
  <2> QED
    BY <2>2, <2>3
<1>5. CASE ReplanRecords \/ ReplanAborts
  BY <1>0, <1>5 DEF ReplanRecords, ReplanAborts, NoReplan, DueInv, ReplannedIsExecuted, Unmixed
<1> QED
  BY <1>1, <1>2, <1>3, <1>4, <1>5

-----------------------------------------------------------------------------
(* How a run begins.                                                       *)

LEMMA Least ==
    ASSUME NEW T \in SUBSET Nat, T # {}
    PROVE  \E p \in T : \A q \in T : p <= q
<1> DEFINE R == OpToRel(<, Nat)
<1>1. \E x \in T : \A y \in T : ~ (<<y, x>> \in R)
  <2>1. IsWellFoundedOn(R, Nat)
    BY NatLessThanWellFounded, Zenon
  <2> HIDE DEF R
  <2> QED
    BY <2>1, WFMin
<1>2. \A x, y \in T : <<y, x>> \notin R => x <= y
  BY DEF OpToRel
<1> HIDE DEF R
<1> QED
  BY <1>1, <1>2

\* What the kinds of a start have in common: nothing is on disk, except the PRD of an
\* import, and only a project that came with its PRD begins after the requirements.
Starts ==
    /\ imported \in BOOLEAN /\ files \in FileStates /\ plan \in Plans
    /\ ~files.json /\ plan.skipPrep = imported /\ plan.item # "merge-gate"
    /\ plan.item \in ItemStages => plan.from = From("requirements")
    /\ plan.item = "brainstorm" => plan.manual = "none" /\ Empty
    /\ files.projects = 0 => plan.item = "brainstorm"
    /\ plan.manual = "frontend-design" => files.wire
    /\ \A s \in Stages : files.disk[s] <= files.projects
    /\ files.own # {} => files.disk["requirements"] # 0 /\ "requirements" \in files.passed
    /\ \A p \in Ids : plan.from[p] \in {"requirements", "architecture"}
    /\ \A p \in 1..files.projects : plan.from[p] = "architecture" => p \in files.own

LEMMA NoFilesIs ==
    /\ NoFiles \in FileStates /\ ~NoFiles.json /\ NoFiles.projects = 0 /\ NoFiles.own = {}
    /\ NoFiles.disk = [s \in Stages |-> 0]
BY BoundAssumption DEF NoFiles, FileStates

LEMMA StartPlanIs ==
    ASSUME NEW item \in ItemStages \cup {"projects"}, NEW manual \in Design \cup {"none"}
    PROVE  /\ StartPlan(item, manual) \in Plans
           /\ StartPlan(item, manual).item = item /\ StartPlan(item, manual).manual = manual
           /\ StartPlan(item, manual).skipPrep = FALSE
           /\ StartPlan(item, manual).from = From("requirements")
           /\ \A p \in Ids : From("requirements")[p] = "requirements"
BY OrderIs DEF StartPlan, Plans, From

LEMMA SeededStarts ==
    ASSUME NEW n \in Ids, NEW ui \in BOOLEAN, NEW wire \in BOOLEAN, NEW design \in BOOLEAN,
           NEW item \in {"projects"} \cup Design, NEW manual \in Design \cup {"none"},
           manual = "frontend-design" => wire,
           Begins(FALSE, Seeded(n, ui, wire, design), StartPlan(item, manual))
    PROVE  Starts
<1>1. n \in 0..MaxProjects /\ n # 0 /\ n \in Nat
  BY BoundAssumption DEF Ids
<1> DEFINE frozen == IF wire THEN n ELSE 0
<1>2. frozen \in 0..MaxProjects
  BY <1>1, BoundAssumption
<1> HIDE DEF frozen
<1>3. files = [NoFiles EXCEPT !.projects = n, !.ui = ui, !.wire = wire, !.design = design,
                             !.frozen = frozen]
  BY DEF Begins, Seeded, frozen
<1>4. /\ files \in FileStates /\ ~files.json /\ files.projects = n /\ files.own = {}
      /\ files.wire = wire /\ files.disk = [s \in Stages |-> 0]
  BY <1>1, <1>2, <1>3, NoFilesIs DEF FileStates
<1>5. item \in ItemStages \cup {"projects"} /\ item \notin {"brainstorm", "merge-gate"}
  BY DEF ItemStages, Design
<1>6. \A s \in Stages : files.disk[s] <= files.projects
  BY <1>1, <1>4
<1>7. /\ imported = FALSE /\ plan \in Plans /\ plan.item = item /\ plan.manual = manual
      /\ plan.skipPrep = FALSE /\ plan.from = From("requirements")
      /\ \A p \in Ids : plan.from[p] = "requirements"
  BY <1>5, StartPlanIs DEF Begins
<1>8. \A p \in 1..files.projects : p \in Ids
  BY <1>1, <1>4, BoundAssumption DEF Ids
<1> QED
  BY <1>1, <1>4, <1>5, <1>6, <1>7, <1>8 DEF Starts

LEMMA ImportedStarts ==
    ASSUME NEW n \in Ids, NEW own \in SUBSET Ids, Begins(TRUE, Imported(n, own), ImportPlan(own))
    PROVE  Starts
<1>1. n \in 0..MaxProjects /\ n # 0 /\ n \in Nat
  BY BoundAssumption DEF Ids
<1> DEFINE ready == own \cap 1..n
           prd == IF ready = {} THEN 0 ELSE CHOOSE p \in ready : \A q \in ready : p <= q
           passed == IF ready = {} THEN {} ELSE {"requirements"}
<1>2. prd \in 0..n /\ (ready # {} => prd # 0)
  <2>1. ASSUME ready # {} PROVE prd \in ready
    <3>1. ready \in SUBSET Nat
      OBVIOUS
    <3>2. \E p \in ready : \A q \in ready : p <= q
      BY <2>1, <3>1, Least
    <3> QED
      BY <2>1, <3>2
  <2>2. ready = {} => prd = 0
    OBVIOUS
  <2>3. \A p \in ready : p \in 1..n
    OBVIOUS
  <2> HIDE DEF ready, prd
  <2> QED
    BY <1>1, <2>1, <2>2, <2>3
<1>3. ready \subseteq Ids /\ passed \subseteq Stages /\ (ready # {} => "requirements" \in passed)
  BY OrderIs
<1>4. /\ files = [NoFiles EXCEPT !.projects = n, !.own = ready,
                                 !.disk["requirements"] = prd, !.passed = passed]
      /\ imported = TRUE /\ plan = ImportPlan(own)
  BY Zenon DEF Begins, Imported
<1>5. \A p \in 1..n : p \in own => p \in ready
  OBVIOUS
<1> HIDE DEF ready, prd, passed
<1>6. /\ files \in FileStates /\ ~files.json /\ files.projects = n /\ files.own = ready
      /\ files.disk = [[s \in Stages |-> 0] EXCEPT !["requirements"] = prd]
      /\ files.passed = passed
  <2>1. prd \in 0..MaxProjects
    BY <1>1, <1>2, BoundAssumption
  <2>2. files.disk = [NoFiles.disk EXCEPT !["requirements"] = prd]
    BY <1>4, NoFilesIs DEF FileStates
  <2>3. files.disk \in [Stages -> 0..MaxProjects]
    <3>1. [s \in Stages |-> 0] \in [Stages -> 0..MaxProjects]
      BY BoundAssumption
    <3> DEFINE none == [s \in Stages |-> 0]
    <3> HIDE DEF none
    <3>2. none \in [Stages -> 0..MaxProjects] /\ files.disk = [none EXCEPT !["requirements"] = prd]
      BY <2>2, <3>1, NoFilesIs DEF none
    <3> QED
      BY <2>1, <3>2
  <2>4. /\ files.json = NoFiles.json /\ files.projects = n /\ files.ui = NoFiles.ui
        /\ files.wire = NoFiles.wire /\ files.design = NoFiles.design
        /\ files.frozen = NoFiles.frozen /\ files.own = ready /\ files.passed = passed
        /\ files.green = NoFiles.green
    BY <1>4, NoFilesIs DEF FileStates
  <2>5. files = [json |-> files.json, projects |-> files.projects, ui |-> files.ui,
                 wire |-> files.wire, design |-> files.design, frozen |-> files.frozen,
                 own |-> files.own, disk |-> files.disk, passed |-> files.passed,
                 green |-> files.green]
    BY <1>4, NoFilesIs DEF FileStates
  <2>6. files \in FileStates
    BY <1>1, <1>3, <2>3, <2>4, <2>5, NoFilesIs DEF FileStates
  <2> QED
    BY <2>2, <2>4, <2>6, NoFilesIs
<1>7. \A s \in Stages : files.disk[s] <= files.projects
  BY <1>1, <1>2, <1>6
<1>8. files.disk["requirements"] = prd
  BY <1>6, OrderIs
<1>9. /\ plan \in Plans /\ plan.item = "projects" /\ plan.manual = "none" /\ plan.skipPrep = TRUE
      /\ \A p \in Ids : plan.from[p] = IF p \in own THEN "architecture" ELSE "requirements"
  BY <1>4, OrderIs DEF ImportPlan, Plans
<1>10. "projects" \notin ItemStages
  BY DEF ItemStages, Design
<1>11. \A p \in 1..n : p \in Ids
  BY <1>1, BoundAssumption DEF Ids
<1> QED
  BY <1>1, <1>2, <1>3, <1>4, <1>5, <1>6, <1>7, <1>8, <1>9, <1>10, <1>11 DEF Starts

LEMMA StartRunStarts == ASSUME StartRun PROVE Starts
<1>1. CASE Begins(FALSE, NoFiles, StartPlan("brainstorm", "none"))
  <2>1. \A s \in Stages : files.disk[s] = 0
    BY <1>1, NoFilesIs DEF Begins
  <2>2. "brainstorm" \in ItemStages \cup {"projects"} /\ "none" \in Design \cup {"none"}
    BY DEF ItemStages
  <2>3. /\ imported = FALSE /\ plan \in Plans /\ plan.item = "brainstorm" /\ plan.manual = "none"
        /\ plan.skipPrep = FALSE /\ plan.from = From("requirements")
        /\ \A p \in Ids : plan.from[p] = "requirements"
    BY <1>1, <2>2, StartPlanIs DEF Begins
  <2>4. files \in FileStates /\ ~files.json /\ files.projects = 0 /\ files.own = {}
    BY <1>1, NoFilesIs DEF Begins
  <2>5. /\ \A p \in 1..files.projects : FALSE
        /\ \A s \in Stages : files.disk[s] <= files.projects
    BY <2>1, <2>4
  <2> QED
    BY <2>1, <2>3, <2>4, <2>5 DEF Starts, Empty, ItemStages
<1>2. CASE \E n \in Ids, ui, wire, design \in BOOLEAN, item \in {"projects", "visual-companion"} :
               /\ design => wire
               /\ Begins(FALSE, Seeded(n, ui, wire, design), StartPlan(item, "none"))
  <2>1. PICK n \in Ids, ui, wire, design \in BOOLEAN, item \in {"projects", "visual-companion"} :
            Begins(FALSE, Seeded(n, ui, wire, design), StartPlan(item, "none"))
    BY <1>2
  <2>2. item \in {"projects"} \cup Design /\ "none" # "frontend-design"
    BY DEF Design
  <2> QED
    BY <2>1, <2>2, SeededStarts
<1>3. CASE \E n \in Ids, manual \in Design :
               Begins(FALSE, Seeded(n, TRUE, manual = "frontend-design", FALSE),
                      StartPlan(manual, manual))
  <2>1. PICK n \in Ids, manual \in Design :
            Begins(FALSE, Seeded(n, TRUE, manual = "frontend-design", FALSE),
                   StartPlan(manual, manual))
    BY <1>3
  <2> DEFINE wire == manual = "frontend-design"
  <2>2. wire \in BOOLEAN /\ (manual = "frontend-design" => wire)
    OBVIOUS
  <2>3. Begins(FALSE, Seeded(n, TRUE, wire, FALSE), StartPlan(manual, manual))
    BY <2>1
  <2> HIDE DEF wire
  <2> QED
    BY <2>2, <2>3, SeededStarts
<1>4. CASE \E n \in Ids, own \in SUBSET Ids : Begins(TRUE, Imported(n, own), ImportPlan(own))
  BY <1>4, ImportedStarts
<1> QED
  BY <1>1, <1>2, <1>3, <1>4 DEF StartRun

-----------------------------------------------------------------------------
(* The invariant, and what it is for.                                      *)

FlowInv ==
    /\ FlowTypes /\ RowInv /\ PlaceInv /\ ReplanInv /\ PrepInv
    /\ ArtifactInv /\ GateInv /\ CodeInv /\ DueInv /\ NoDeadEnd

LEMMA FlowInvInit == ASSUME FlowInit PROVE FlowInv
<1>0. Starts
  BY StartRunStarts DEF FlowInit
<1>1. /\ worker \in Places /\ worker.at = "start" /\ worker.p = 0 /\ worker.s = "none"
      /\ worker.phase = "next"
  BY OffIs DEF FlowInit
<1>2. /\ run \in RunRows /\ run.stage = "none" /\ run.ref = "none" /\ run.scope = "none"
      /\ ctx = [s \in Stages |-> 0] /\ git.base = FALSE /\ auto = FALSE
      /\ replan.at = "none" /\ due = [p \in Ids |-> 0] /\ rev = [disk |-> 0, ctx |-> 0]
      /\ resumes = 0
  BY DEF FlowInit, RunRows, NoCtx, NoReplan
<1>3. "none" \notin Stages /\ "none" \notin ItemStages /\ "start" \notin Design
  BY OrderIs DEF ItemStages, Design
<1>4. FlowTypes
  <2>1. CodeType
    <3>1. git \in Branches
      BY BoundAssumption DEF FlowInit, Branches
    <3>2. ctx \in [Stages -> 0..MaxProjects]
      BY <1>2, BoundAssumption
    <3>3. checked \in [Ids -> SUBSET Checks] /\ green \in [Ids -> BOOLEAN]
      BY DEF FlowInit
    <3> QED
      BY <1>2, <3>1, <3>2, <3>3 DEF CodeType
  <2>2. RevType
    BY <1>2, BoundAssumption DEF RevType
  <2>3. FrameType
    BY <1>0, BoundAssumption DEF FlowInit, NoReplan, Replans, FrameType, Starts
  <2> QED
    BY <1>0, <1>1, <1>2, <2>1, <2>2, <2>3 DEF FlowTypes, RowType, Starts
<1>5. RowInv /\ PlaceInv /\ NoDeadEnd
  BY <1>0, <1>1, <1>2 DEF RowInv, PlaceInv, NoDeadEnd, Starts
<1>6. ReplanInv
  <2>1. \A p \in Ids : due[p] <= rev.disk
    BY <1>2
  <2> QED
    BY <1>2, <2>1 DEF ReplanInv
<1>7. PrepInv
  BY <1>0, <1>1, <1>2, <1>3 DEF PrepInv, Starts
<1>8. ArtifactInv
  <2>1. \A s \in Behind("architecture") : s = "requirements"
    BY OrderIs, PosIs DEF Behind
  <2>2. ASSUME NEW p \in 1..files.projects, NEW s \in Behind(plan.from[p]) PROVE Loadable(p, s)
    <3>1. p \in Ids /\ p # 0
      BY <1>4, ProjectIds
    <3>2. plan.from[p] = "architecture" /\ s = "requirements"
      BY <1>0, <2>1, <2>2, <3>1, BehindIs DEF Starts
    <3> QED
      BY <1>0, <3>1, <3>2 DEF Loadable, Source, Starts
  <2> QED
    BY <1>0, <1>1, <1>2, <1>3, <2>2 DEF ArtifactInv, BuildsOnPassed, Starts
<1>9. GateInv
  BY <1>0, <1>1, <1>2 DEF GateInv, AtGate, Starts
<1>10. CodeInv
  <2>1. \A p \in Ids : Pos[plan.from[p]] <= Pos["architecture"] /\ Stands(p, plan.from[p])
    BY <1>0, PosIs DEF Starts, Stands
  <2> QED
    BY <1>1, <1>2, <1>3, <2>1, OneId DEF CodeInv, AtGate, AutoPromotionIsGreen
<1>11. DueInv
  BY <1>2, OneId DEF DueInv, ReplannedIsExecuted
<1> QED
  BY <1>4, <1>5, <1>6, <1>7, <1>8, <1>9, <1>10, <1>11 DEF FlowInv

LEMMA FlowInvItem == ASSUME FlowInv, ItemStep PROVE FlowInv'
<1> USE DEF FlowInv
<1>1. FlowTypes'
  BY ItemStepType DEF ItemStep
<1>2. RowInv' /\ PlaceInv'
  BY ItemStepActs, RowActs, PlaceActs
<1>3. ReplanInv' /\ PrepInv' /\ NoDeadEnd'
  BY ReplanItem, PrepItem, NoDeadEndItem
<1>4. ArtifactInv' /\ GateInv' /\ CodeInv'
  BY <1>1, ArtifactItem, GateItem, CodeItem
<1>5. DueInv'
  BY <1>4, DueItem
<1> QED
  BY <1>1, <1>2, <1>3, <1>4, <1>5

LEMMA FlowInvProject == ASSUME FlowInv, ProjectStep PROVE FlowInv'
<1> USE DEF FlowInv
<1>1. FlowTypes'
  BY ProjectStepType DEF ProjectStep
<1>2. RowInv' /\ PlaceInv'
  <2>1. worker.at # "off" /\ Acts /\ UNCHANGED <<imported, plan>>
    BY ProjectStepActs DEF Acts
  <2> QED
    BY <2>1, RowActs, PlaceActs
<1>3. ReplanInv' /\ PrepInv' /\ NoDeadEnd'
  BY ReplanProject, PrepProject, NoDeadEndProject
<1>4. ArtifactInv' /\ GateInv' /\ CodeInv'
  BY <1>1, <1>2, ArtifactProject, GateProject, CodeProject
<1>5. DueInv'
  BY DueProject
<1> QED
  BY <1>1, <1>2, <1>3, <1>4, <1>5

LEMMA FlowInvOutside ==
    ASSUME FlowInv,
           \/ WorkerIsLost \/ ResumeRun
           \/ ReplanBegins \/ ReplanSwaps \/ ReplanRecords \/ ReplanAborts
    PROVE  FlowInv'
<1> USE DEF FlowInv
<1>1. FlowTypes' /\ RowInv' /\ PlaceInv'
  BY OutsideStepType, OutsideRow
<1>2. ReplanInv' /\ PrepInv' /\ NoDeadEnd'
  BY ReplanOutside, PrepOutside, NoDeadEndOutside
<1>3. ArtifactInv' /\ GateInv' /\ CodeInv'
  BY ArtifactOutside, GateOutside, CodeOutside
<1>4. DueInv'
  BY DueOutside
<1> QED
  BY <1>1, <1>2, <1>3, <1>4

LEMMA FlowInvStutter == ASSUME FlowInv, UNCHANGED flowVars PROVE FlowInv'
<1> USE DEF flowVars, runVars, histVars, revVars
<1>1. FlowTypes' /\ RowInv' /\ PlaceInv' /\ ReplanInv' /\ PrepInv'
  BY DEF FlowInv, FlowTypes, RowType, CodeType, RevType, FrameType, RowInv, PlaceInv, ShouldRun,
         ReplanInv, PrepInv, Prepared, Empty
<1>2. ArtifactInv'
  BY DEF FlowInv, ArtifactInv, Left, Loadable, Source, BuildsOnPassed
<1>3. GateInv' /\ CodeInv'
  BY DEF FlowInv, GateInv, AtGate, CodeInv, Unmixed, AllDone, Done, Stands, AutoPromotionIsGreen
<1>4. DueInv' /\ NoDeadEnd'
  BY DEF FlowInv, DueInv, ReplannedIsExecuted, Unmixed, NoDeadEnd
<1> QED
  BY <1>1, <1>2, <1>3, <1>4 DEF FlowInv

LEMMA FlowInvStep == ASSUME FlowInv, [FlowNext]_flowVars PROVE FlowInv'
<1>1. CASE ItemStep
  BY <1>1, FlowInvItem
<1>2. CASE ProjectStep
  BY <1>2, FlowInvProject
<1>3. CASE \/ WorkerIsLost \/ ResumeRun
           \/ ReplanBegins \/ ReplanSwaps \/ ReplanRecords \/ ReplanAborts
  BY <1>3, FlowInvOutside
<1>4. CASE UNCHANGED flowVars
  BY <1>4, FlowInvStutter
<1> QED
  BY <1>1, <1>2, <1>3, <1>4 DEF FlowNext, ItemStep, ProjectStep

LEMMA FlowInvAlways == FlowSpec => []FlowInv
<1>1. FlowInit => FlowInv
  BY FlowInvInit
<1>2. FlowInv /\ [FlowNext]_flowVars => FlowInv'
  BY FlowInvStep
<1> QED
  BY <1>1, <1>2, PTL DEF FlowSpec

\* Every variable of the workflow keeps its type: no context, no branch and no due
\* revision is ever set from a stage or a project that is not there.
THEOREM FlowTypeCorrect == FlowSpec => []FlowTypeOK
<1>1. FlowInv => FlowTypeOK
  BY FlowTypeIs DEF FlowInv
<1> QED
  BY <1>1, FlowInvAlways, PTL

\* What reaches the base branch was merged by the handoff of every project, and where
\* the projects do not share stage directories it was built from the plan of its own
\* project and passed the project review and the QA after its last change
\* (workflow.ts runWorkflow, core/projectStageRegistry.ts, core/resume.ts).
THEOREM MergesReviewedCode == FlowSpec => []CodeIsReviewed
<1>1. FlowInv => CodeIsReviewed
  BY DEF FlowInv, GateInv, AtGate, CodeInv, AllDone, Done, CodeIsReviewed
<1> QED
  BY <1>1, FlowInvAlways, PTL

\* The engine answers the gate only on the report of the QA that followed the last
\* change of the last project (shouldAutoPromoteOnGreenQa).
THEOREM AutoPromotesGreenOnly == FlowSpec => []AutoPromotionIsGreen
<1>1. FlowInv => AutoPromotionIsGreen
  BY DEF FlowInv, CodeInv
<1> QED
  BY <1>1, FlowInvAlways, PTL

\* The context of a project holds the artifacts of stages that passed, whatever was
\* saved, reviewed, lost and resumed before (resumeFromDisk, resumeCurrentStage).
THEOREM ResumesOnPassed == FlowSpec => []BuildsOnPassed
<1>1. FlowInv => BuildsOnPassed
  BY DEF FlowInv, ArtifactInv
<1> QED
  BY <1>1, FlowInvAlways, PTL

\* A plan that was regenerated in time is executed before the item reaches the base
\* branch (activatePreparedReplan and the resume after it).
THEOREM ExecutesReplanned == FlowSpec => []ReplannedIsExecuted
<1>1. FlowInv => ReplannedIsExecuted
  BY DEF FlowInv, DueInv
<1> QED
  BY <1>1, FlowInvAlways, PTL

\* A run that ends short of its end has a recovery, except where the handoff conflicts
\* or a design stops (run_finished with no recovery recorded).
THEOREM EndsRecoverably == FlowSpec => []NoDeadEnd
<1>1. FlowInv => NoDeadEnd
  BY DEF FlowInv
<1> QED
  BY <1>1, FlowInvAlways, PTL
=============================================================================

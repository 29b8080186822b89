-------------------------- MODULE ItemProjection --------------------------
(***************************************************************************)
(* What the board shows of an item: core/dbSync.ts projects the events of  *)
(* the runs of one item onto its row, core/orphanRecovery.ts does so for a *)
(* run it finds without a worker, and the item actions move the item when  *)
(* they start a run.  Several runs of an item may be live at once; only    *)
(* the one that has no live sibling may write.                             *)
(*                                                                         *)
(* A worker is one start or one resume of a run.  A handler, which has no  *)
(* await in it, is one step.                                               *)
(***************************************************************************)
EXTENDS Integers, FiniteSets

CONSTANTS
    Runs,       \* the runs of the item
    Workers,
    run,        \* the run of a worker
    StageKeys   \* the stages the workflow may enter

None == "none"

ASSUME WorkerAssumption == run \in [Workers -> Runs]

Implementation ==
    {"architecture", "planning", "execution", "project-review", "qa",
     "documentation", "handoff"}

AllStages ==
    Implementation \cup
    {"brainstorm", "visual-companion", "frontend-design", "requirements", "merge-gate"}

ASSUME StageAssumption == StageKeys \subseteq AllStages

VARIABLES
    status,     \* runs.status
    recovery,   \* runs.recovery_status is set
    stage,      \* runs.current_stage
    pc,         \* per worker, see PCs
    open,       \* the stage a worker is in
    item,       \* items.current_column, phase_status and current_stage
    outlived    \* the runs that were ended from outside under a worker

runVars == <<status, recovery, stage>>
workerVars == <<pc, open>>
vars == <<runVars, workerVars, item, outlived>>

Columns == {"idea", "brainstorm", "frontend", "requirements", "implementation", "merge", "done"}
Phases == {"draft", "running", "review_required", "completed", "failed"}
Statuses == {"absent", "queued", "running", "blocked", "failed", "completed"}

\* Workers with a heartbeat, or that can still write.
Active == {"prepared", "refused", "working", "throwing", "failing", "cancelled", "completing", "closing"}

PCs == Active \cup {"idle", "deferred", "done"}

TypeOK ==
    /\ status \in [Runs -> Statuses]
    /\ recovery \in [Runs -> BOOLEAN]
    /\ stage \in [Runs -> AllStages \cup {None}]
    /\ pc \in [Workers -> PCs]
    /\ open \in [Workers -> AllStages \cup {None}]
    /\ item \in [column : Columns, phase : Phases, stage : AllStages \cup {None}]
    /\ outlived \subseteq Runs

-----------------------------------------------------------------------------
(* The projection. *)

\* mapStageToColumn, the column alone.
StageColumn(s) ==
    CASE s = "brainstorm" -> "brainstorm"
      [] s \in {"visual-companion", "frontend-design"} -> "frontend"
      [] s = "requirements" -> "requirements"
      [] s \in Implementation -> "implementation"
      [] s = "merge-gate" -> "merge"

Live == {"running", "blocked"}

\* mapStageToColumn, column and phase.
Shown(s, outcome) ==
    CASE s # "merge-gate" -> [column |-> StageColumn(s), phase |-> outcome]
      [] s = "merge-gate" /\ outcome = "completed" -> [column |-> "done", phase |-> "completed"]
      [] s = "merge-gate" /\ outcome # "completed" -> [column |-> "merge", phase |-> "review_required"]

\* Faulty: a blocked sibling does not count.
AloneAmongRunning(r) == \A other \in Runs \ {r} : status[other] # "running"

\* isAuthoritative, for a run that has not failed, wasSoleLiveRun and
\* ~hasOtherLiveRunForItem.
Alone(r) == \A other \in Runs \ {r} : status[other] \notin Live

\* updateAuthoritativeItemColumn, with setItemCurrentStage.
Project(r, shown, newStage) ==
    item' = IF Alone(r)
            THEN [column |-> shown.column, phase |-> shown.phase, stage |-> newStage]
            ELSE item

\* setItemCurrentStage(null) of the sole live run.
ClearStage(r) == item' = IF Alone(r) THEN [item EXCEPT !.stage = None] ELSE item

-----------------------------------------------------------------------------
(* Beginning a worker. *)

\* The item actions that start a run, by the column they lead to.
CanStart(column) ==
    \/ column = "brainstorm" /\ item.column = "idea" /\ item.phase = "draft"
    \/ column = "frontend" /\ item.column \notin {"idea", "merge"}
    \/ column = "implementation"
         /\ item.column \in {"idea", "brainstorm", "frontend", "requirements"}

\* handleStartRunItemAction: the row is created, running and leased or queued
\* and not leased, and the item moves, whatever else runs for it.
Create(w) ==
    /\ pc[w] = "idle" /\ status[run[w]] = "absent"
    /\ \/ /\ status' = [status EXCEPT ![run[w]] = "running"]
          /\ pc' = [pc EXCEPT ![w] = "prepared"]
       \/ /\ status' = [status EXCEPT ![run[w]] = "queued"]
          /\ pc' = [pc EXCEPT ![w] = "deferred"]
    /\ \E column \in {"brainstorm", "frontend", "implementation"} :
        /\ CanStart(column)
        /\ item' = [item EXCEPT !.column = column, !.phase = "running"]
    /\ UNCHANGED <<recovery, stage, open>>

\* run_started.
Begin(w) ==
    /\ pc[w] \in {"prepared", "deferred"}
    /\ status' = [status EXCEPT ![run[w]] = "running"]
    /\ pc' = [pc EXCEPT ![w] = "working"]
    /\ UNCHANGED <<recovery, stage, open, item>>

\* performResume, by an operator or by the startup recovery; neither looks at
\* the status of the run.
Resume(w) ==
    /\ pc[w] = "idle" /\ recovery[run[w]]
    /\ status' = [status EXCEPT ![run[w]] = "running"]
    /\ recovery' = [recovery EXCEPT ![run[w]] = FALSE]
    /\ pc' = [pc EXCEPT ![w] = "working"]
    /\ UNCHANGED <<stage, open, item>>

\* prepareForegroundResumeRun without a slot.
QueueResume(r) ==
    /\ recovery[r] /\ status[r] # "queued"
    /\ status' = [status EXCEPT ![r] = "queued"]
    /\ UNCHANGED <<recovery, stage, workerVars, item>>

\* promote_to_requirements.
Promote ==
    /\ item.column \in {"brainstorm", "frontend"}
    /\ item' = [item EXCEPT !.column = "requirements", !.phase = "draft"]
    /\ UNCHANGED <<runVars, workerVars>>

-----------------------------------------------------------------------------
(* The events of a workflow. *)

\* stage_started.
StageStarted(w, s) ==
    /\ pc[w] = "working" /\ open[w] = None
    /\ open' = [open EXCEPT ![w] = s]
    /\ stage' = [stage EXCEPT ![run[w]] = s]
    /\ Project(run[w], Shown(s, "running"), s)
    /\ UNCHANGED <<status, recovery, pc>>

\* stage_completed of a stage that returned.
StageCompleted(w) ==
    /\ pc[w] = "working" /\ open[w] # None
    /\ open' = [open EXCEPT ![w] = None]
    /\ Project(run[w], Shown(open[w], "completed"), item.stage)
    /\ UNCHANGED <<runVars, pc>>

\* Faulty: the item keeps its stage.
RunFailedKeepsStage(w) ==
    /\ pc[w] = "working" /\ open[w] # None
    /\ status' = [status EXCEPT ![run[w]] = "failed"]
    /\ recovery' = [recovery EXCEPT ![run[w]] = TRUE]
    /\ pc' = [pc EXCEPT ![w] = "throwing"]
    /\ UNCHANGED <<stage, open, item>>

\* run_failed, of the stage runtime, which then throws.
RunFailed(w) ==
    /\ pc[w] = "working" /\ open[w] # None
    /\ status' = [status EXCEPT ![run[w]] = "failed"]
    /\ recovery' = [recovery EXCEPT ![run[w]] = TRUE]
    /\ ClearStage(run[w])
    /\ pc' = [pc EXCEPT ![w] = "throwing"]
    /\ UNCHANGED <<stage, open>>

\* run_blocked; the stage it happens in is left without an event.
RunBlocked(w) ==
    /\ pc[w] = "working"
    /\ status' = [status EXCEPT ![run[w]] = "blocked"]
    /\ recovery' = [recovery EXCEPT ![run[w]] = TRUE]
    /\ ClearStage(run[w])
    /\ pc' = [pc EXCEPT ![w] = "failing"]
    /\ open' = [open EXCEPT ![w] = None]
    /\ UNCHANGED stage

\* An error leaves the workflow, with the stage_completed of its stage.
Throws(w) ==
    /\ pc[w] \in {"working", "throwing"}
    /\ pc' = [pc EXCEPT ![w] = "failing"]
    /\ open' = [open EXCEPT ![w] = None]
    /\ IF open[w] = None THEN UNCHANGED item
       ELSE Project(run[w], Shown(open[w], "failed"), item.stage)
    /\ UNCHANGED runVars

\* The catch of start and performResume: silent when a recovery is recorded.
Catch(w) ==
    /\ pc[w] \in {"failing", "cancelled", "refused"}
    /\ pc' = [pc EXCEPT ![w] =
                IF recovery[run[w]] \/ @ = "refused" THEN "done" ELSE "closing"]
    /\ UNCHANGED <<runVars, open, item>>

\* run_finished, failed, after the await of persistWorkflowRunState.
FinishedFailed(w) ==
    /\ pc[w] = "closing"
    /\ status' = [status EXCEPT ![run[w]] = "failed"]
    /\ ClearStage(run[w])
    /\ pc' = [pc EXCEPT ![w] = "done"]
    /\ UNCHANGED <<recovery, stage, open>>

\* The workflow returns.
Return(w) ==
    /\ pc[w] = "working" /\ open[w] = None
    /\ pc' = [pc EXCEPT ![w] = IF recovery[run[w]] THEN "done" ELSE "completing"]
    /\ UNCHANGED <<runVars, open, item>>

\* run_finished, completed; the column is that of the item's stage.
FinishedCompleted(w) ==
    /\ pc[w] = "completing"
    /\ status' = [status EXCEPT ![run[w]] = "completed"]
    /\ LET s == IF item.stage = None THEN "documentation" ELSE item.stage
       IN  Project(run[w], Shown(s, "completed"), None)
    /\ pc' = [pc EXCEPT ![w] = "done"]
    /\ UNCHANGED <<recovery, stage, open>>

-----------------------------------------------------------------------------
(* What ends a run from outside its workflow. *)

\* A fatal heartbeat: the row is failed if it says running, the workflow is
\* cancelled and emits nothing any more, but for the run_finished of its catch.
FatalBeat(w) ==
    /\ pc[w] \in Active \ {"cancelled", "refused"}
    /\ IF status[run[w]] = "running"
       THEN /\ status' = [status EXCEPT ![run[w]] = "failed"]
            /\ recovery' = [recovery EXCEPT ![run[w]] = TRUE]
       ELSE UNCHANGED <<status, recovery>>
    /\ pc' = [pc EXCEPT ![w] =
                CASE @ = "prepared" -> "refused"
                  [] @ \in {"completing", "closing"} -> @
                  [] OTHER -> "cancelled"]
    /\ open' = [open EXCEPT ![w] = None]
    /\ UNCHANGED <<stage, item>>

\* Its process dies.
Dies(w) ==
    /\ pc[w] \in Active \cup {"deferred"}
    /\ pc' = [pc EXCEPT ![w] = "done"]
    /\ open' = [open EXCEPT ![w] = None]
    /\ UNCHANGED <<runVars, item>>

\* markRunFailedRecoverable, with projectRecoveredRunToItem.
MarkFailed(r) ==
    /\ status' = [status EXCEPT ![r] = "failed"]
    /\ recovery' = [recovery EXCEPT ![r] = TRUE]
    /\ Project(r, [column |-> IF stage[r] = None THEN item.column ELSE Shown(stage[r], "failed").column,
                   phase |-> "failed"], None)
    /\ UNCHANGED stage

\* The startup scan or the shutdown of an engine finds a running row.
Recover(r) ==
    /\ status[r] = "running"
    /\ MarkFailed(r)
    /\ UNCHANGED workerVars

\* The lease of a deferred start cannot be claimed.
Refuse(w) ==
    /\ pc[w] = "deferred"
    /\ MarkFailed(run[w])
    /\ pc' = [pc EXCEPT ![w] = "done"]
    /\ UNCHANGED open

-----------------------------------------------------------------------------
Init ==
    /\ status = [r \in Runs |-> "absent"]
    /\ recovery = [r \in Runs |-> FALSE]
    /\ stage = [r \in Runs |-> None]
    /\ pc = [w \in Workers |-> "idle"]
    /\ open = [w \in Workers |-> None]
    /\ item = [column |-> "idea", phase |-> "draft", stage |-> None]
    /\ outlived = {}

\* What a worker's own events do.
WorkerStep(w) ==
    \/ \E s \in StageKeys : StageStarted(w, s)
    \/ StageCompleted(w) \/ RunFailed(w) \/ RunBlocked(w) \/ Throws(w)
    \/ Catch(w) \/ FinishedFailed(w) \/ Return(w) \/ FinishedCompleted(w)

Step ==
    \/ \E w \in Workers :
        \/ Create(w) \/ Begin(w) \/ Resume(w) \/ Refuse(w) \/ WorkerStep(w)
        \/ FatalBeat(w) \/ Dies(w)
    \/ \E r \in Runs : QueueResume(r) \/ Recover(r)
    \/ Promote

\* Not state of the program: the runs that ended under a worker that had not
\* itself come to a failure.
Outlives ==
    outlived' = outlived \cup
        {r \in Runs :
            /\ status'[r] \notin Live
            /\ \E w \in Workers : run[w] = r /\ pc'[w] \in Active \ {"throwing", "failing"}}

Next == Step /\ Outlives

Spec == Init /\ [][Next]_vars

-----------------------------------------------------------------------------
(* Properties. *)

RunWrites(r) ==
    \/ Recover(r)
    \/ \E w \in Workers : run[w] = r /\ (WorkerStep(w) \/ Refuse(w))

\* Neither the events of a run, however late, nor its recovery touch the item
\* while another run of the item is live.
SideRunsKeepOut ==
    [][\A r \in Runs :
        RunWrites(r) /\ item' # item
            => \A other \in Runs \ {r} : status[other] \notin Live]_vars

\* The item names a stage only while one of its runs is live or waits for a
\* slot; what else leaves a stage behind is a run that was ended from outside
\* under its worker.
StageHasOwner ==
    item.stage # None =>
        \E r \in Runs : status[r] \in Live \cup {"queued"} \/ r \in outlived
=============================================================================

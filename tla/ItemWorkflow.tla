---------------------------- MODULE ItemWorkflow ----------------------------
(***************************************************************************)
(* workflow.ts, core/projectStageRegistry.ts and the resume plan of        *)
(* core/resume.ts: one run of an item takes its brainstorm, the design     *)
(* preparation, eight stages of each project and the merge gate. A run     *)
(* that is blocked, fails or loses its worker is resumed from the stage    *)
(* its recovery names; the stages before it are loaded from disk.  While   *)
(* it stands still an operator may have its plan regenerated               *)
(* (core/replan.ts), and resume it before that is done.                    *)
(*                                                                         *)
(* The projects of a run are 1..files.projects. They share the one         *)
(* directory stages/<stage> of the run: files.disk says whose artifact it  *)
(* holds, 0 while it holds none.                                           *)
(***************************************************************************)
EXTENDS Integers, Sequences

CONSTANTS
    MaxProjects,   \* bound: projects that the brainstorm can find
    MaxResumes,    \* bound: resumes
    MaxCrashes,    \* bound: workers that are lost
    MaxReplans     \* bound: plans that are regenerated

ASSUME BoundAssumption ==
    /\ MaxProjects \in Nat \ {0}
    /\ MaxResumes \in Nat /\ MaxCrashes \in Nat /\ MaxReplans \in Nat

Order == <<"requirements", "architecture", "planning", "execution",
           "project-review", "qa", "documentation", "handoff">>
Stages == {Order[i] : i \in 1..8}
Pos == [s \in Stages |-> CHOOSE i \in 1..8 : Order[i] = s]
Design == {"visual-companion", "frontend-design"}
ItemStages == Design \cup {"brainstorm", "merge-gate"}
Ids == 1..MaxProjects

\* Stages that check the code of a project.
Checks == {"project-review", "qa"}

VARIABLES
    imported, \* the run has a snapshot of a prepared import
    run,      \* its row: status, current_stage, recovery_scope and its ref
    files,    \* what the run has on disk
    plan,     \* where this start of the workflow begins
    worker,   \* where it is: the stage, its project, and how far it is in it
    ctx,      \* ProjectContext: the project whose artifact each field holds
    git,      \* the branches
    replan,   \* how far a replan is, and the recovery it read; raced is history
    rev,      \* revisions of the plan on disk and in the context
    due,      \* history: the revision that a project still has to execute, or 0
    checked,  \* history: the checks that passed since the code last changed
    green,    \* history: the verdict of the last QA of a project
    auto,     \* history: the gate was answered by the engine
    resumes,  \* bound
    crashes   \* bound

runVars == <<imported, run>>
histVars == <<checked, green, auto>>
revVars == <<rev, due>>
flowVars == <<runVars, files, plan, worker, ctx, git, replan, revVars, histVars, resumes, crashes>>

NoCtx == [s \in Stages |-> 0]
NoReplan == [at |-> "none", recoverable |-> FALSE, raced |-> FALSE]
Off == [at |-> "off", p |-> 0, s |-> "none", phase |-> "next"]

FlowTypeOK ==
    /\ imported \in BOOLEAN
    /\ run \in [status : {"running", "blocked", "failed", "completed"},
                stage : Stages \cup ItemStages \cup {"none"},
                scope : {"none", "run", "stage", "story"},
                ref : Stages \cup ItemStages \cup {"none"}]
    /\ files \in [json : BOOLEAN, projects : 0..MaxProjects, ui : BOOLEAN, wire : BOOLEAN,
                  design : BOOLEAN, frozen : 0..MaxProjects, own : SUBSET Ids,
                  disk : [Stages -> 0..MaxProjects], passed : SUBSET Stages, green : BOOLEAN]
    /\ plan \in [item : ItemStages \cup {"projects"}, manual : Design \cup {"none"},
                 skipPrep : BOOLEAN, from : [Ids -> Stages]]
    /\ worker \in [at : {"off", "start", "load", "projects", "finish"} \cup ItemStages,
                   p : 0..MaxProjects, s : Stages \cup {"none"},
                   phase : {"next", "busy", "saved"}]
    /\ ctx \in [Stages -> 0..MaxProjects]
    /\ git \in [built : [Ids -> 0..MaxProjects], merged : SUBSET Ids, base : BOOLEAN]
    /\ replan \in [at : {"none", "prepared", "swapped"}, recoverable : BOOLEAN, raced : BOOLEAN]
    /\ rev \in [disk : 0..MaxReplans, ctx : 0..MaxReplans]
    /\ due \in [Ids -> 0..MaxReplans]
    /\ checked \in [Ids -> SUBSET Checks]
    /\ green \in [Ids -> BOOLEAN]
    /\ auto \in BOOLEAN
    /\ resumes \in 0..MaxResumes
    /\ crashes \in 0..MaxCrashes

-----------------------------------------------------------------------------
(* How a run begins. *)

From(s) == [p \in Ids |-> s]

NoFiles ==
    [json |-> FALSE, projects |-> 0, ui |-> TRUE, wire |-> FALSE, design |-> FALSE,
     frozen |-> 0, own |-> {}, disk |-> [s \in Stages |-> 0], passed |-> {}, green |-> FALSE]

\* Stages copied from an earlier run of the item.
Seeded(n, ui, wire, design) ==
    [NoFiles EXCEPT !.projects = n, !.ui = ui, !.wire = wire, !.design = design,
                    !.frozen = IF wire THEN n ELSE 0]

StartPlan(item, manual) ==
    [item |-> item, manual |-> manual, skipPrep |-> FALSE, from |-> From("requirements")]

\* prd.json is the PRD of the first project that came with one.
Imported(n, own) ==
    LET ready == own \cap 1..n IN
    [NoFiles EXCEPT !.projects = n, !.own = ready,
                    !.disk["requirements"] =
                        IF ready = {} THEN 0 ELSE CHOOSE p \in ready : \A q \in ready : p <= q,
                    !.passed = IF ready = {} THEN {} ELSE {"requirements"}]

ImportPlan(own) ==
    [item |-> "projects", manual |-> "none", skipPrep |-> TRUE,
     from |-> [p \in Ids |-> IF p \in own THEN "architecture" ELSE "requirements"]]

Begins(i, f, pl) == imported = i /\ files = f /\ plan = pl

\* An idea; the implementation of a designed item; its design anew; one design stage
\* by hand; a prepared import.
StartRun ==
    \/ Begins(FALSE, NoFiles, StartPlan("brainstorm", "none"))
    \/ \E n \in Ids, ui, wire, design \in BOOLEAN, item \in {"projects", "visual-companion"} :
           /\ design => wire
           /\ Begins(FALSE, Seeded(n, ui, wire, design), StartPlan(item, "none"))
    \/ \E n \in Ids, manual \in Design :
           Begins(FALSE, Seeded(n, TRUE, manual = "frontend-design", FALSE),
                  StartPlan(manual, manual))
    \/ \E n \in Ids, own \in SUBSET Ids : Begins(TRUE, Imported(n, own), ImportPlan(own))

FlowInit ==
    /\ StartRun
    /\ run = [status |-> "running", stage |-> "none", scope |-> "none", ref |-> "none"]
    /\ worker = [Off EXCEPT !.at = "start"]
    /\ ctx = NoCtx
    /\ git = [built |-> [p \in Ids |-> 0], merged |-> {}, base |-> FALSE]
    /\ replan = NoReplan
    /\ rev = [disk |-> 0, ctx |-> 0]
    /\ due = [p \in Ids |-> 0]
    /\ checked = [p \in Ids |-> {}]
    /\ green = [p \in Ids |-> FALSE]
    /\ auto = FALSE
    /\ resumes = 0 /\ crashes = 0

-----------------------------------------------------------------------------
(* How a run stops. *)

Stop(status, scope, ref) ==
    /\ run' = [run EXCEPT !.status = status, !.scope = scope, !.ref = ref]
    /\ worker' = Off

\* blockRunForWorkspaceState, by default for the whole run.
BlockRun == Stop("blocked", "run", "none")

\* run_finished, unless the row shows a recovery: then it is left as it is.
Over(status) ==
    IF run.scope = "none" THEN Stop(status, "none", "none")
    ELSE worker' = Off /\ UNCHANGED run

\* An error that no recovery was recorded for.
Throw == Over("failed")

\* A stage blocks itself, or its error becomes a failed recovery of the stage.
StageStops(s) == \E status \in {"blocked", "failed"} : Stop(status, "stage", s)

KeepRow == UNCHANGED <<imported, plan, replan, resumes, crashes>>
Keep == KeepRow /\ UNCHANGED revVars

-----------------------------------------------------------------------------
(* The item stages. *)

Go(at) == worker' = [Off EXCEPT !.at = at]
At(at, phase) == worker.at = at /\ worker.phase = phase

Begin(s) ==   \* stage_started
    /\ worker' = [worker EXCEPT !.phase = "busy"]
    /\ run' = [run EXCEPT !.stage = s]

\* The git adapter, the item branch and the base branch are in order, or not.
Prepare ==
    /\ worker.at = "start"
    /\ \/ BlockRun
       \/ Go(IF plan.item = "brainstorm" THEN "brainstorm" ELSE "load") /\ UNCHANGED run
    /\ UNCHANGED <<files, ctx, git, histVars>> /\ Keep

BrainstormBegins ==
    /\ At("brainstorm", "next")
    /\ Begin("brainstorm")
    /\ files' = [files EXCEPT !.json = TRUE]
    /\ UNCHANGED <<ctx, git, histVars>> /\ Keep

BrainstormSaves ==
    /\ At("brainstorm", "busy")
    /\ worker' = [worker EXCEPT !.phase = "saved"]
    /\ \E n \in Ids, ui \in BOOLEAN :
           files' = [files EXCEPT !.projects = n, !.ui = ui]
    /\ UNCHANGED <<run, ctx, git, histVars>> /\ Keep

BrainstormEnds ==
    /\ worker.at = "brainstorm" /\ worker.phase # "next"
    /\ \/ StageStops("brainstorm")
       \/ worker.phase = "saved" /\ Go("load") /\ UNCHANGED run
    /\ UNCHANGED <<files, ctx, git, histVars>> /\ Keep

\* buildDesignPrepPlan
RunsVisual ==
    IF plan.manual # "none" THEN plan.manual = "visual-companion"
    ELSE plan.item \in {"brainstorm", "visual-companion"} \/ ~files.wire

RunsFrontend ==
    IF plan.manual # "none" THEN plan.manual = "frontend-design"
    ELSE RunsVisual \/ plan.item = "frontend-design" \/ ~files.design

\* The run goes to its projects, or past them to the gate.
ToProjects ==
    IF plan.item = "merge-gate" THEN Go("merge-gate")
    ELSE worker' = [at |-> "projects", p |-> 1, s |-> "requirements", phase |-> "next"]

ToFrontend ==
    IF RunsFrontend THEN Go("frontend-design") /\ UNCHANGED run
    ELSE IF ~files.design THEN Throw
    ELSE ToProjects /\ UNCHANGED run

\* resolveWorkflowProjects, assertDesignPrepProjectFreeze, resolveDesignPrepArtifacts
LoadProjects ==
    /\ worker.at = "load"
    /\ IF files.projects = 0 THEN Throw
       ELSE IF plan.item = "projects" /\ files.frozen \notin {0, files.projects} THEN BlockRun
       ELSE IF ~files.ui \/ plan.skipPrep THEN ToProjects /\ UNCHANGED run
       ELSE IF RunsVisual THEN Go("visual-companion") /\ UNCHANGED run
       ELSE IF ~files.wire THEN Throw
       ELSE ToFrontend
    /\ ctx' = NoCtx
    /\ UNCHANGED <<files, git, histVars>> /\ Keep

DesignBegins ==
    \E s \in Design :
        /\ At(s, "next")
        /\ Begin(s)
        /\ files' = [files EXCEPT !.json = TRUE]
        /\ UNCHANGED <<ctx, git, histVars>> /\ Keep

DesignSaves ==
    \E s \in Design :
        /\ At(s, "busy")
        /\ worker' = [worker EXCEPT !.phase = "saved"]
        /\ files' = IF s = "visual-companion"
                    THEN [files EXCEPT !.wire = TRUE, !.frozen = files.projects]
                    ELSE [files EXCEPT !.design = TRUE]
        /\ UNCHANGED <<run, ctx, git, histVars>> /\ Keep

\* A revision that the user asked for stops under a run id that has no row, so
\* nothing of it reaches the run; the cap of the rounds is no stage error either.
DesignEnds ==
    \E s \in Design :
        /\ worker.at = s /\ worker.phase # "next"
        /\ \/ StageStops(s)
           \/ worker.phase = "saved" /\ Throw
           \/ /\ worker.phase = "saved"
              /\ IF s = "visual-companion" THEN ToFrontend ELSE ToProjects /\ UNCHANGED run
        /\ UNCHANGED <<files, ctx, git, histVars>> /\ Keep

-----------------------------------------------------------------------------
(* The stages of a project. *)

OnStage(s, phase) == worker.at = "projects" /\ worker.s = s /\ worker.phase = phase

\* shouldRunProjectStage; a run that is not resumed begins with the first stage.
ShouldRun(p, s) == Pos[s] >= Pos[plan.from[p]]

\* The next stage, or the first one of the next project, or the gate.
Advance ==
    IF worker.s # "handoff"
    THEN worker' = [worker EXCEPT !.s = Order[Pos[worker.s] + 1], !.phase = "next"]
    ELSE IF worker.p < files.projects
    THEN worker' = [worker EXCEPT !.p = worker.p + 1, !.s = "requirements", !.phase = "next"]
    ELSE Go("merge-gate")

\* The next project begins with a fresh context.
NextCtx(c) == IF worker.s = "handoff" THEN NoCtx ELSE c

\* loadPrd prefers the PRD of the project; every other loader reads the directory
\* that the projects share.
Source(p, s) == IF s = "requirements" /\ p \in files.own THEN p ELSE files.disk[s]

StageBegins ==
    /\ worker.at = "projects" /\ worker.phase = "next"
    /\ ShouldRun(worker.p, worker.s)
    /\ Begin(worker.s)
    /\ files' = [files EXCEPT !.json = @ \/ worker.s # "handoff"]
    /\ UNCHANGED <<ctx, git, histVars>> /\ Keep

\* resumeFromDisk. QA and the handoff have nothing to load.
StageIsLoaded ==
    LET s == worker.s IN
    /\ worker.at = "projects" /\ worker.phase = "next"
    /\ ~ShouldRun(worker.p, s)
    /\ IF s \in {"qa", "handoff"} THEN Advance /\ ctx' = NextCtx(ctx) /\ UNCHANGED run
       ELSE IF Source(worker.p, s) = 0 THEN Throw /\ UNCHANGED ctx
       ELSE Advance /\ ctx' = [ctx EXCEPT ![s] = Source(worker.p, s)] /\ UNCHANGED run
    /\ rev' = [rev EXCEPT !.ctx = IF s = "planning" THEN rev.disk ELSE @]
    /\ UNCHANGED <<files, git, due, histVars>> /\ KeepRow

\* The plan on disk is the one that the planning of this project has in hand.
PlanWritten ==
    IF worker.s = "planning"
    THEN rev' = [rev EXCEPT !.ctx = rev.disk] /\ due' = [due EXCEPT ![worker.p] = 0]
    ELSE UNCHANGED revVars

\* persistRunArtifacts: on disk before the review, in every round of it.
StageSaves ==
    /\ worker.at = "projects" /\ worker.phase = "busy"
    /\ worker.s \notin {"execution", "handoff"}
    /\ worker' = [worker EXCEPT !.phase = "saved"]
    /\ \E g \in BOOLEAN :
           /\ worker.s # "qa" => g = files.green
           /\ files' = [files EXCEPT !.disk[worker.s] = worker.p, !.passed = @ \ {worker.s},
                                     !.green = g]
    /\ PlanWritten
    /\ UNCHANGED <<run, ctx, git, histVars>> /\ KeepRow

\* A wave of the plan in the context reaches the branch of the project.
CodeChanges ==
    /\ OnStage("execution", "busy")
    /\ worker' = [worker EXCEPT !.phase = "saved"]
    /\ git' = [git EXCEPT !.built[worker.p] = ctx["planning"], !.merged = @ \ {worker.p}]
    /\ checked' = [checked EXCEPT ![worker.p] = {}]
    /\ green' = [green EXCEPT ![worker.p] = FALSE]
    /\ due' = [due EXCEPT ![worker.p] = IF @ <= rev.ctx THEN 0 ELSE @]
    /\ UNCHANGED <<run, files, ctx, auto, rev>> /\ KeepRow

StagePasses ==
    LET p == worker.p
        s == worker.s
    IN
    /\ worker.at = "projects" /\ worker.phase = "saved"
    /\ Advance
    /\ ctx' = [ctx EXCEPT ![s] = p]
    /\ files' = [files EXCEPT !.disk[s] = p, !.passed = @ \cup {s}]
    /\ checked' = [checked EXCEPT ![p] = @ \cup (Checks \cap {s})]
    /\ green' = [green EXCEPT ![p] = IF s = "qa" THEN files.green ELSE @]
    /\ PlanWritten
    /\ UNCHANGED <<run, git, auto>> /\ KeepRow

StageFails ==
    /\ worker.at = "projects" /\ worker.phase # "next" /\ worker.s # "handoff"
    /\ \/ StageStops(worker.s)
       \/ worker.s = "execution" /\ (Stop("blocked", "story", "execution") \/ BlockRun)
    /\ UNCHANGED <<files, ctx, git, histVars>> /\ Keep

\* ensureProjectBranch
ProjectIsRefused ==
    /\ OnStage("requirements", "next")
    /\ BlockRun
    /\ UNCHANGED <<files, ctx, git, histVars>> /\ Keep

\* mergeProjectIntoItem; the error of a conflict is not one of "git:".
Handoff ==
    /\ OnStage("handoff", "busy")
    /\ \/ BlockRun /\ UNCHANGED <<ctx, git>>
       \/ Throw /\ UNCHANGED <<ctx, git>>
       \/ /\ Advance
          /\ ctx' = NoCtx
          /\ git' = [git EXCEPT !.merged = @ \cup {worker.p}]
          /\ UNCHANGED run
    /\ UNCHANGED <<files, histVars>> /\ Keep

-----------------------------------------------------------------------------
(* The merge gate and the end. *)

GateOpens ==
    /\ At("merge-gate", "next")
    /\ Begin("merge-gate")
    /\ UNCHANGED <<files, ctx, git, histVars>> /\ Keep

\* Faulty: any report promotes.
AutoPromotesAny == files.disk["qa"] # 0

\* shouldAutoPromoteOnGreenQa, where the workspace has not switched it off.
AutoPromotes == files.disk["qa"] # 0 /\ files.green

GateAnswered ==
    /\ At("merge-gate", "busy")
    /\ \/ \E byEngine \in BOOLEAN :
              /\ byEngine => AutoPromotes
              /\ git' = [git EXCEPT !.base = TRUE]
              /\ auto' = byEngine
              /\ Go("finish") /\ UNCHANGED run
       \/ Stop("blocked", "stage", "merge-gate") /\ UNCHANGED <<git, auto>>
    /\ UNCHANGED <<files, ctx, checked, green>> /\ Keep

Finish ==
    /\ worker.at = "finish"
    /\ Over("completed")
    /\ UNCHANGED <<files, ctx, git, histVars>> /\ Keep

-----------------------------------------------------------------------------
(* Crash and resume. *)

\* The worker is lost and markRunFailedRecoverable finds its run.
WorkerIsLost ==
    /\ worker.at # "off"
    /\ crashes < MaxCrashes /\ crashes' = crashes + 1
    /\ Stop("failed", "run", "none")
    /\ UNCHANGED <<imported, plan, files, ctx, git, replan, revVars, histVars, resumes>>

\* Faulty: the stage after the one that stopped.
ResumeAfter ==
    LET s == IF run.scope = "run" THEN run.stage ELSE run.ref IN
    IF s \in Stages /\ s # "handoff" THEN Order[Pos[s] + 1] ELSE s

\* Faulty: a stage whose artifact is on disk is done.
ResumeSaved ==
    IF run.scope # "run" THEN run.ref
    ELSE IF run.stage \in Stages /\ files.disk[run.stage] # 0 THEN Order[Pos[run.stage] + 1]
    ELSE run.stage

\* Faulty: planning is always done.
ResumePlanned ==
    IF run.scope # "run" THEN run.ref
    ELSE IF run.stage \in {"none", "planning"} THEN "execution"
    ELSE run.stage

\* resumeCurrentStage
ResumeStage ==
    IF run.scope # "run" THEN run.ref
    ELSE IF run.stage \in {"none", "planning"} /\ files.disk["planning"] # 0 THEN "execution"
    ELSE run.stage

\* normalizeItemResume and normalizeProjectResume
ResumePlan(stage) ==
    [item |-> IF stage \in ItemStages THEN stage ELSE "projects",
     manual |-> "none",
     skipPrep |-> imported,
     from |-> From(IF stage \in Stages THEN stage ELSE "requirements")]

\* loadResumeReadiness needs the run.json of the run, which its first stage writes.
ResumeRun ==
    /\ worker.at = "off" /\ run.scope # "none" /\ files.json
    /\ resumes < MaxResumes /\ resumes' = resumes + 1
    /\ plan' = ResumePlan(ResumeStage)
    /\ run' = [run EXCEPT !.status = "running", !.scope = "none", !.ref = "none"]
    /\ replan' = [replan EXCEPT !.raced = @ \/ replan.at = "prepared"]
    /\ Go("start")
    /\ UNCHANGED <<imported, files, ctx, git, revVars, histVars, crashes>>

-----------------------------------------------------------------------------
(* Replan, in a process of its own. *)

KeepWorker == UNCHANGED <<imported, plan, worker, ctx, git, histVars, resumes, crashes>>

\* Faulty: a run that is at work is replanned as well.
ReplanAnyway ==
    /\ replan.at = "none" /\ rev.disk < MaxReplans
    /\ files.disk["planning"] # 0
    /\ replan' = [at |-> "prepared", recoverable |-> run.scope # "none", raced |-> FALSE]
    /\ UNCHANGED <<run, files, revVars>> /\ KeepWorker

\* replanRunInProcess and performExplicitReplan up to the new plan, which a
\* planning of its own prepares in a directory of its own: there is a plan, no
\* worker beats, the row is read.
ReplanBegins ==
    /\ replan.at = "none" /\ rev.disk < MaxReplans
    /\ worker.at = "off"
    /\ files.disk["planning"] # 0
    /\ replan' = [at |-> "prepared", recoverable |-> run.scope # "none", raced |-> FALSE]
    /\ UNCHANGED <<run, files, revVars>> /\ KeepWorker

\* activatePreparedReplan: the new plan replaces the old one.
ReplanSwaps ==
    /\ replan.at = "prepared"
    /\ replan' = [replan EXCEPT !.at = "swapped", !.raced = FALSE]
    /\ rev' = [rev EXCEPT !.disk = @ + 1]
    /\ LET asked == ~replan.raced /\ run.stage \in Stages /\ Pos[run.stage] <= Pos["execution"] IN
       due' = IF asked THEN [due EXCEPT ![files.disk["planning"]] = rev'.disk] ELSE due
    /\ files' = [files EXCEPT !.passed = @ \cup {"planning"}]
    /\ UNCHANGED run /\ KeepWorker

\* Its recovery, as it was read, is written back for the whole run.
ReplanRecords ==
    /\ replan.at = "swapped"
    /\ replan' = NoReplan
    /\ run' = [run EXCEPT !.scope = IF replan.recoverable THEN "run" ELSE "none", !.ref = "none"]
    /\ UNCHANGED <<files, revVars>> /\ KeepWorker

\* An error or a crash after the swap: the plan is not put back.
ReplanAborts ==
    /\ replan.at = "swapped"
    /\ replan' = NoReplan
    /\ UNCHANGED <<run, files, revVars>> /\ KeepWorker

FlowNext ==
    \/ Prepare \/ BrainstormBegins \/ BrainstormSaves \/ BrainstormEnds \/ LoadProjects
    \/ DesignBegins \/ DesignSaves \/ DesignEnds
    \/ StageBegins \/ StageIsLoaded \/ StageSaves \/ CodeChanges \/ StagePasses \/ StageFails
    \/ ProjectIsRefused \/ Handoff
    \/ GateOpens \/ GateAnswered \/ Finish
    \/ WorkerIsLost \/ ResumeRun
    \/ ReplanBegins \/ ReplanSwaps \/ ReplanRecords \/ ReplanAborts

FlowSpec == FlowInit /\ [][FlowNext]_flowVars

-----------------------------------------------------------------------------
(* Properties. *)

\* The projects of a run share its stage directories, so the rest holds of runs with
\* one project, and of runs that were never resumed.
Unmixed == files.projects = 1 \/ resumes = 0

\* Wherever the run stopped and was taken up again, the item reaches the base branch
\* with what the handoff of every project merged (flowDefinition.ts: the gate runs once
\* after every handoff), and this code was built from the plan of its project and passed
\* the project review and the QA after its last change.
CodeIsReviewed ==
    git.base =>
        /\ 1..files.projects \subseteq git.merged
        /\ Unmixed => \A p \in 1..files.projects : git.built[p] = p /\ checked[p] = Checks

\* The engine answers the gate itself only where the QA that followed the last change
\* of the last project passed without findings: a report that an earlier attempt left
\* on disk does not promote.
AutoPromotionIsGreen == auto /\ Unmixed => green[files.projects]

\* A resume builds on no artifact that its stage wrote and did not pass, except the
\* plan: a run lost in planning goes on with the plan it finds on disk.
BuildsOnPassed ==
    worker.at = "projects" =>
        \A s \in Stages \ {"planning"} : ctx[s] # 0 => s \in files.passed

\* A plan that was regenerated before the execution of its project had passed is
\* executed before the item reaches the base branch, wherever the replan stops half
\* way and whatever the row says then; only a resume that overtakes the replan, which
\* nothing keeps from it, goes on with the old plan.
ReplannedIsExecuted == git.base /\ Unmixed => \A p \in Ids : due[p] = 0

\* No resume fails on an artifact that is not there. A run ends without a recovery
\* and short of its end only where the handoff conflicts, where a revision of a design stops, or
\* where the run was started for the visual companion alone and finds no design.
NoDeadEnd ==
    worker.at = "off" /\ run.status # "completed" /\ run.scope = "none" =>
        run.stage \in Design \cup {"handoff"}

=============================================================================

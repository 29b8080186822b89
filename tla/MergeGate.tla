------------------------------ MODULE MergeGate ------------------------------
(***************************************************************************)
(* stages/mergeGate: the items of one workspace that wait to be promoted   *)
(* into its base branch, one run each. A gate asks, is answered by the     *)
(* operator, by a resume that brings the answer along or by the engine,    *)
(* merges in the primary checkout of the workspace, and may migrate the    *)
(* production database. A conflict is resolved by hand in that same        *)
(* checkout and confirmed.                                                 *)
(***************************************************************************)
EXTENDS Integers, FiniteSets

CONSTANTS
    GateRuns,
    MaxStarts,     \* bound: starts of the workflow for one run
    MaxHands,      \* bound: merges that the operator begins by hand
    MaxCrashes     \* bound: workers that are lost

ASSUME BoundAssumption == MaxStarts \in Nat \ {0} /\ MaxHands \in Nat /\ MaxCrashes \in Nat

Exact == {"promote", "cancel"}          \* the values of the actions of the prompt
Yes == {"promote", "yes"}
Answers == Exact \cup {"yes", "no", "free text"}

VARIABLES
    ws,         \* the workspace: its Supabase mode, and which runs promote themselves
    row,        \* runs: status and recovery
    worker,     \* the worker, and the answer that its start brought or the gate was given;
                \* pipe: a CLI whose stdin is no terminal
    rows,       \* pending_prompts that nobody answered: of this opening, of earlier ones
    root,       \* the primary checkout: the merge that goes on in it by hand;
                \* loose: its changes are there, and MERGE_HEAD is not
    base,       \* the items whose branch the base branch contains
    head,       \* the commits on the base branch, whose HEAD the checkout shows
    recorded,   \* merge-conflict-recovery.json: HEAD when the conflict was met
    retained,   \* runs in lifecycle state retained-for-diagnosis
    prod,       \* runs whose migrations were applied to production
    decided,    \* history: items that the operator wanted in the base branch
    starts,     \* bound
    hands,      \* bound
    crashes     \* bound

gateVars == <<ws, row, worker, rows, root, base, head, recorded, retained, prod, decided,
              starts, hands, crashes>>

Blocked == {"gate", "conflict", "workspace"}
Clean == [state |-> "clean", of |-> {}]

Workspaces ==
    [branching : BOOLEAN, protect : BOOLEAN, destructive : BOOLEAN,
     auto : SUBSET GateRuns, db : SUBSET GateRuns, validated : SUBSET GateRuns]

Off == [pc |-> "off", pipe |-> FALSE, shot |-> "none", answer |-> "none", skip |-> FALSE]

GateTypeOK ==
    /\ ws \in Workspaces
    /\ row \in [GateRuns -> Blocked \cup {"running", "lost", "failed", "completed"}]
    /\ worker \in [GateRuns -> [pc : {"off", "start", "opening", "waiting", "answered", "merging",
                                  "migrating", "ending"},
                            pipe : BOOLEAN, shot : Exact \cup {"none"},
                            answer : {"none", "promote", "refused"}, skip : BOOLEAN]]
    /\ rows \in [GateRuns -> [own : BOOLEAN, stale : 0..MaxStarts]]
    /\ root \in [state : {"clean", "conflicted", "staged", "loose"}, of : SUBSET GateRuns]
    /\ base \in SUBSET GateRuns
    /\ head \in Nat
    /\ recorded \in [GateRuns -> Nat]
    /\ retained \in SUBSET GateRuns
    /\ prod \in SUBSET GateRuns
    /\ decided \in SUBSET GateRuns
    /\ starts \in [GateRuns -> 1..MaxStarts]
    /\ hands \in 0..MaxHands
    /\ crashes \in 0..MaxCrashes

\* Every run has come to its gate.
GateInit ==
    /\ ws \in Workspaces
    /\ ws.validated \subseteq ws.db
    /\ ~ws.branching => ~ws.protect /\ ~ws.destructive /\ ws.db = {}
    /\ row = [r \in GateRuns |-> "running"]
    /\ \E pipes \in SUBSET GateRuns :
           worker = [r \in GateRuns |-> [Off EXCEPT !.pc = "opening", !.pipe = r \in pipes]]
    /\ rows = [r \in GateRuns |-> [own |-> FALSE, stale |-> 0]]
    /\ root = Clean
    /\ base = {} /\ head = 0
    /\ recorded = [r \in GateRuns |-> 0]
    /\ retained = {} /\ prod = {} /\ decided = {}
    /\ starts = [r \in GateRuns |-> 1]
    /\ hands = 0 /\ crashes = 0

-----------------------------------------------------------------------------
(* Prompts and how a run is taken up again. *)

\* mergeGatePromptStillActionable, for the prompts of a gate.
Actionable(r) == row[r] \in {"running", "gate", "conflict"}

Unanswered(r) == rows[r].own \/ rows[r].stale > 0

\* getOpenPrompt: there is one, and it is the newest.
HasOpenPrompt(r) == Actionable(r) /\ Unanswered(r)

\* Faulty: an older row is answered.
AnswerOlder(r) == rows' = [rows EXCEPT ![r].stale = @ - 1]

AnswerNewest(r) ==
    rows' = IF rows[r].own THEN [rows EXCEPT ![r].own = FALSE]
            ELSE [rows EXCEPT ![r].stale = @ - 1]

\* Faulty: a row that is obsolete is still in the way.
AnyRowIsOpen(r) == Unanswered(r)

\* loadResumeReadiness
OpenPromptRefuses(r) == HasOpenPrompt(r)

Resumable(r) == row[r] \in Blocked \cup {"lost"} /\ ~OpenPromptRefuses(r)

\* Faulty: whoever answers wants to promote.
ShotForAny(answer) == "promote"

\* attachOneShotPromptAnswer answers only with the value of an action.
Shot(answer) == IF answer \in Exact THEN answer ELSE "none"

\* performResume
Starts(r, pipe, shot, skip) ==
    /\ starts[r] < MaxStarts
    /\ starts' = [starts EXCEPT ![r] = @ + 1]
    /\ row' = [row EXCEPT ![r] = "running"]
    /\ worker' = [worker EXCEPT ![r] = [Off EXCEPT !.pc = "start", !.pipe = pipe,
                                                   !.shot = shot, !.skip = skip]]

Decides(r, answer) == decided' = decided \cup {q \in {r} : answer \in Yes}

ByEngine == UNCHANGED <<ws, decided, starts, hands, crashes>>
ByOperator == UNCHANGED <<ws, base, head, recorded, retained, prod, hands, crashes>>

-----------------------------------------------------------------------------
(* The steps of the gate. *)

Stop(r, status) == row' = [row EXCEPT ![r] = status] /\ worker' = [worker EXCEPT ![r] = Off]
GoOn(r, to) == worker' = [worker EXCEPT ![r] = [Off EXCEPT !.pc = to]] /\ UNCHANGED row

\* normalizeMergeGateAnswer; nobody answers for a stdin that has ended.
Gets(r, answer) ==
    /\ worker' = [worker EXCEPT ![r] = [Off EXCEPT !.pc = "answered",
                                        !.answer = IF answer \in Yes THEN "promote" ELSE "refused"]]
    /\ UNCHANGED row

\* ensureWorkflowGitAdapter refuses a checkout with changes; other states of the
\* repository are refused too.
WorkflowStarts(r) ==
    /\ worker[r].pc = "start"
    /\ \/ Stop(r, "workspace")
       \/ /\ root = Clean
          /\ worker' = [worker EXCEPT ![r].pc = IF worker[r].skip THEN "ending" ELSE "opening"]
          /\ UNCHANGED row
    /\ UNCHANGED <<rows, root, base, head, recorded, retained, prod>> /\ ByEngine

\* A row for this opening, answered or not, beside those of the earlier ones.
AddRow(r, open) ==
    rows' = [rows EXCEPT ![r] = [own |-> open, stale |-> @.stale + IF @.own THEN 1 ELSE 0]]

\* shouldAutoPromoteOnGreenQa
AutoPromotes(r) == r \in ws.auto

\* promptForMergeAnswer. A stdin that has ended answers before the one-shots do, and
\* the one-shot of the resume was subscribed before the one of a green QA.
GateOpens(r) ==
    /\ worker[r].pc = "opening"
    /\ \/ Stop(r, "workspace") /\ UNCHANGED <<rows, decided>>
       \/ /\ worker[r].pipe
          /\ \/ Gets(r, "nobody") /\ AddRow(r, TRUE) /\ UNCHANGED decided
             \/ \E a \in Answers : Gets(r, a) /\ AddRow(r, FALSE) /\ Decides(r, a)
       \/ /\ UNCHANGED decided
          /\ IF worker[r].shot # "none" THEN Gets(r, worker[r].shot) /\ AddRow(r, FALSE)
             ELSE IF AutoPromotes(r) THEN Gets(r, "promote") /\ AddRow(r, FALSE)
             ELSE GoOn(r, "waiting") /\ AddRow(r, TRUE)
    /\ UNCHANGED <<ws, root, base, head, recorded, retained, prod, starts, hands, crashes>>

\* requirePromotionAnswer
AnswerIsRead(r) ==
    /\ worker[r].pc = "answered"
    /\ IF worker[r].answer = "promote" THEN GoOn(r, "merging") ELSE Stop(r, "gate")
    /\ UNCHANGED <<rows, root, base, head, recorded, retained, prod>> /\ ByEngine

\* finalWaveValidationGate
Validated(r) == r \in ws.db => r \in ws.validated \ retained

\* Both gates of a branching workspace; its destructive findings are never confirmed.
GateRefuses(r) ==
    /\ worker[r].pc = "merging" /\ ws.branching
    /\ ~Validated(r) \/ ws.destructive
    /\ Stop(r, "gate")
    /\ UNCHANGED <<rows, root, base, head, recorded, retained, prod>> /\ ByEngine

MayMerge(r) ==
    worker[r].pc = "merging" /\ (ws.branching => Validated(r) /\ ~ws.destructive)

\* git checkout of the base branch forgets that a merge is going on.
CheckedOut == IF root.state = "staged" THEN [root EXCEPT !.state = "loose"] ELSE root

\* Faulty: what is in the way of the checkout is thrown away.
CheckOutByForce == root' = Clean

\* It refuses unmerged paths.
CheckOut == root.state # "conflicted" /\ root' = CheckedOut

\* mergeBranchInto: the branch is there already, or it is merged into a clean checkout;
\* merge_completed.
MergeSucceeds(r) ==
    /\ MayMerge(r)
    /\ CheckOut
    /\ r \in base \/ root = Clean
    /\ base' = base \cup {r}
    /\ head' = IF r \in base THEN head ELSE head + 1
    /\ GoOn(r, IF ws.branching /\ ws.protect THEN "migrating" ELSE "ending")
    /\ UNCHANGED <<rows, recorded, retained, prod>> /\ ByEngine

\* Faulty: the error of a conflict is not caught.
ConflictThrows(r) ==
    /\ MayMerge(r)
    /\ root = Clean /\ r \notin base
    /\ Stop(r, "failed")
    /\ UNCHANGED <<rows, root, base, head, recorded, retained, prod>> /\ ByEngine

\* GitMergeConflictError after merge --abort. The gate of a branching workspace does
\* not catch it, and its message is not one of "git:".
MergeConflicts(r) ==
    /\ MayMerge(r)
    /\ root = Clean /\ r \notin base
    /\ IF ws.branching THEN Stop(r, "failed") /\ UNCHANGED recorded
       ELSE Stop(r, "conflict") /\ recorded' = [recorded EXCEPT ![r] = head]
    /\ UNCHANGED <<rows, root, base, head, retained, prod>> /\ ByEngine

\* The checkout or the merge is refused; there is no merge to abort.
MergeIsRefused(r) ==
    /\ MayMerge(r)
    /\ Stop(r, IF ws.branching THEN "workspace" ELSE "gate")
    /\ UNCHANGED root \/ CheckOut
    /\ UNCHANGED <<rows, base, head, recorded, retained, prod>> /\ ByEngine

\* Faulty: the merge is there, so the run goes on.
MigrationGoesOn(r) ==
    /\ worker[r].pc = "migrating"
    /\ \/ GoOn(r, "ending") /\ prod' = prod \cup {r} /\ UNCHANGED retained
       \/ GoOn(r, "ending") /\ retained' = retained \cup {r} /\ UNCHANGED prod
    /\ UNCHANGED <<rows, root, base, head, recorded>> /\ ByEngine

\* mergeWithProtectionSwitch
Migrates(r) ==
    /\ worker[r].pc = "migrating"
    /\ \/ GoOn(r, "ending") /\ prod' = prod \cup {r} /\ UNCHANGED retained
       \/ Stop(r, "gate") /\ retained' = retained \cup {r} /\ UNCHANGED prod
    /\ UNCHANGED <<rows, root, base, head, recorded>> /\ ByEngine

Completes(r) ==
    /\ worker[r].pc = "ending"
    /\ Stop(r, "completed")
    /\ UNCHANGED <<rows, root, base, head, recorded, retained, prod>> /\ ByEngine

\* The worker is lost and markRunFailedRecoverable finds its run.
WorkerIsLost(r) ==
    /\ worker[r].pc # "off"
    /\ crashes < MaxCrashes /\ crashes' = crashes + 1
    /\ Stop(r, "lost")
    /\ UNCHANGED <<ws, rows, root, base, head, recorded, retained, prod, decided, starts, hands>>

-----------------------------------------------------------------------------
(* The operator. *)

\* An answer to the prompt that a gate waits on.
Answer(r) ==
    /\ worker[r].pc = "waiting"
    /\ \E a \in Answers : Gets(r, a) /\ Decides(r, a)
    /\ AnswerNewest(r)
    /\ UNCHANGED <<root, starts>> /\ ByOperator

\* An answer to a row that an earlier opening left: recorded, and heard by nobody.
AnswerStale(r) ==
    /\ row[r] = "running" /\ worker[r].pc # "waiting"
    /\ HasOpenPrompt(r) /\ ~rows[r].own
    /\ \E a \in Answers : Decides(r, a)
    /\ AnswerNewest(r)
    /\ UNCHANGED <<row, worker, root, starts>> /\ ByOperator

\* An answer to a blocked run resumes it, unless another row is open still or the run
\* is retained for diagnosis. The API takes the answer along, the CLI does not.
AnswerBlocked(r) ==
    /\ row[r] \in {"gate", "conflict"} /\ HasOpenPrompt(r)
    /\ AnswerNewest(r)
    /\ \E a \in Answers :
           /\ Decides(r, a)
           /\ IF rows'[r].own \/ rows'[r].stale > 0 \/ r \in retained
              THEN UNCHANGED <<row, worker, starts>>
              ELSE \/ Starts(r, FALSE, Shot(a), FALSE)
                   \/ \E pipe \in BOOLEAN : Starts(r, pipe, "none", FALSE)
    /\ UNCHANGED root /\ ByOperator

\* resume_run and retry-retained
ResumeGate(r) ==
    /\ Resumable(r)
    /\ \E pipe \in BOOLEAN : Starts(r, pipe, "none", FALSE)
    /\ UNCHANGED <<rows, root, decided>> /\ ByOperator

\* promote_to_base: the CLI that carries it out reads no stdin.
PromoteToBase(r) ==
    /\ row[r] \in {"gate", "conflict"} /\ Resumable(r)
    /\ Starts(r, FALSE, "promote", FALSE)
    /\ Decides(r, "promote")
    /\ UNCHANGED <<rows, root>> /\ ByOperator

\* validateMergeConflictResolution: HEAD has moved since the conflict.
LooksResolved(r) ==
    /\ ~(root.state = "conflicted" /\ root.of = {r})
    /\ head # recorded[r]

\* confirm_merge_resolved
Confirm(r) ==
    /\ row[r] = "conflict" /\ Resumable(r)
    /\ LooksResolved(r)
    /\ \E pipe \in BOOLEAN : Starts(r, pipe, "none", TRUE)
    /\ UNCHANGED <<rows, root, decided>> /\ ByOperator

\* The operator follows the guidance of the artifact: merges by hand, stages what was
\* in conflict, commits; or gives the merge up. A commit of loose changes is no merge.
ByHand == UNCHANGED <<ws, row, worker, rows, recorded, retained, prod, starts, crashes>>

MergeByHand(r) ==
    /\ row[r] = "conflict" /\ r \notin base /\ root = Clean
    /\ hands < MaxHands /\ hands' = hands + 1
    /\ root' = [state |-> "conflicted", of |-> {r}]
    /\ decided' = decided \cup {r}
    /\ UNCHANGED <<base, head>> /\ ByHand

StageByHand ==
    /\ root.state = "conflicted"
    /\ root' = [root EXCEPT !.state = "staged"]
    /\ UNCHANGED <<base, head, decided, hands>> /\ ByHand

CommitByHand ==
    /\ root.state \in {"staged", "loose"}
    /\ root' = Clean
    /\ head' = head + 1
    /\ base' = IF root.state = "staged" THEN base \cup root.of ELSE base
    /\ UNCHANGED <<decided, hands>> /\ ByHand

GiveUpByHand ==
    /\ root # Clean /\ root' = Clean
    /\ UNCHANGED <<base, head, decided, hands>> /\ ByHand

GateNext ==
    \/ \E r \in GateRuns :
           \/ WorkflowStarts(r) \/ GateOpens(r) \/ AnswerIsRead(r) \/ GateRefuses(r)
           \/ MergeSucceeds(r) \/ MergeConflicts(r) \/ MergeIsRefused(r)
           \/ Migrates(r) \/ Completes(r) \/ WorkerIsLost(r)
           \/ Answer(r) \/ AnswerStale(r) \/ AnswerBlocked(r)
           \/ ResumeGate(r) \/ PromoteToBase(r) \/ Confirm(r) \/ MergeByHand(r)
    \/ StageByHand \/ CommitByHand \/ GiveUpByHand

GateSpec == GateInit /\ [][GateNext]_gateVars

-----------------------------------------------------------------------------
(* Properties. *)

\* No item is in the base branch that nobody wanted there: the operator promoted it or
\* merged it by hand, or its QA was green in a workspace that promotes on green. A
\* refusal, a lost worker, a left-over prompt or a resume never becomes a promotion.
PromotedByDecision == base \subseteq decided \cup {r \in GateRuns : AutoPromotes(r)}

\* Production never runs ahead of the base branch, and where it is protected no run
\* completes before its migrations were applied, whatever failed and was taken up again.
ProductionInStep ==
    /\ prod \subseteq base
    /\ ws.branching /\ ws.protect =>
           \A r \in GateRuns : row[r] = "completed" => r \in prod

\* A gate of another item never touches a merge that the operator has not yet staged.
UnresolvedKept == [][root.state = "conflicted" /\ root' # root => UNCHANGED worker]_root

\* No run hangs. One that stopped can be taken up: its prompt can be answered or it can
\* be resumed, whichever rows earlier openings have left behind. One whose row says that
\* it runs has a worker, and a worker that waits has a prompt that an answer reaches.
WayOut ==
    \A r \in GateRuns :
        /\ row[r] \in Blocked \cup {"lost"} => HasOpenPrompt(r) \/ Resumable(r)
        /\ row[r] = "running" <=> worker[r].pc # "off"
        /\ worker[r].pc = "waiting" => HasOpenPrompt(r) /\ rows[r].own

\* merge-gate-policy: failures retain recovery state. Outside a branching workspace no
\* failure at the gate ends a run without one.
RetainsRecovery == (\E r \in GateRuns : row[r] = "failed") => ws.branching

=============================================================================

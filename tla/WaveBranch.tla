------------------------------ MODULE WaveBranch ------------------------------
(***************************************************************************)
(* core/supabase and stages/execution/supabaseWaveGate: the database       *)
(* branches of one run. Every wave of the run needs a branch of its own on *)
(* the provider: it is adopted or created, polled, validated, used by the  *)
(* stories of the wave and given up. Where a step fails the run is blocked *)
(* and an operator sends it back to the branch or to a fresh one. The      *)
(* worker, the provider and the operator's commands interleave.            *)
(***************************************************************************)
EXTENDS Integers, FiniteSets

CONSTANTS
    MaxWaves,     \* waves of the run
    MaxRefs,      \* bound: branches that the provider creates
    MaxFaults,    \* bound: calls that fail or never settle
    MaxUpsets     \* bound: engine deaths and recovery actions of the operator

ASSUME BoundAssumption ==
    /\ MaxWaves \in Nat \ {0} /\ MaxRefs \in Nat
    /\ MaxFaults \in Nat /\ MaxUpsets \in Nat

Waves == 1..MaxWaves
Refs == 1..MaxRefs
None == 0

VARIABLES
    policy,     \* supabase_cleanup_policy of the workspace, chosen when it is first read
    name,       \* the wave in the name of each branch of the provider
    health,     \* its status there
    row,        \* the run: status, recovery_status, supabase_branch_ref and its lifecycle
    plan,       \* recovery_payload_json: the blocked wave, a branch, the operator's choice
    worker,     \* where it is, its wave, the branch it was given
    command,    \* a clear-and-fresh under way, and the branch that it destroys
    merged,     \* waves that are merged into the project
    suspect,    \* history: branches on which a step failed, not validated since
    strays,     \* history: branches whose creation or destruction was called and failed
    cleared,    \* history: the operator has cleared the run
    faults, crashes, moves   \* bounds

provider == <<name, health>>
bounds == <<faults, crashes, moves>>
vars == <<policy, name, health, row, plan, worker, command, merged, suspect,
          strays, cleared, faults, crashes, moves>>

Policies == {"on-success-immediate", "ttl-after-success", "manual"}
Lifecycles == {"none", "provisioning", "ready", "validating", "validated",
               "retained-pending-cleanup", "retained-for-diagnosis", "destroyed"}

NoPlan == [wave |-> None, ref |-> None, action |-> "none"]
Off == [at |-> "off", wave |-> None, ref |-> None]
NoCommand == [on |-> FALSE, ref |-> None]

TypeOK ==
    /\ policy \in Policies \cup {"unread"}
    /\ name \in [Refs -> Waves \cup {None}]
    /\ health \in [Refs -> {"unused", "building", "healthy", "broken", "gone"}]
    /\ row \in [status : {"running", "blocked", "failed"}, rec : {"none", "blocked", "failed"},
                ref : Refs \cup {None}, life : Lifecycles]
    /\ plan \in [wave : Waves \cup {None}, ref : Refs \cup {None},
                 action : {"none", "attach", "discard"}]
    /\ worker \in [at : {"off", "provision", "create", "record", "poll", "handoff", "validate",
                         "stories", "cleanup", "gate"},
                   wave : Waves \cup {None}, ref : Refs \cup {None}]
    /\ command \in [on : BOOLEAN, ref : Refs \cup {None}]
    /\ merged \in Waves \cup {None}
    /\ suspect \in SUBSET Refs /\ strays \in SUBSET Refs
    /\ cleared \in BOOLEAN
    /\ faults \in 0..MaxFaults /\ crashes \in 0..MaxUpsets /\ moves \in 0..MaxUpsets

Init ==
    /\ policy = "unread"
    /\ name = [b \in Refs |-> None] /\ health = [b \in Refs |-> "unused"]
    /\ row = [status |-> "running", rec |-> "none", ref |-> None, life |-> "none"]
    /\ plan = NoPlan
    /\ worker = [at |-> "provision", wave |-> 1, ref |-> None]
    /\ command = NoCommand
    /\ merged = None
    /\ suspect = {} /\ strays = {} /\ cleared = FALSE
    /\ faults = 0 /\ crashes = 0 /\ moves = 0

Fault == faults < MaxFaults /\ faults' = faults + 1 /\ UNCHANGED <<crashes, moves>>
NoFault == UNCHANGED bounds

-----------------------------------------------------------------------------
(* What the provider shows. *)

Alive(b) == health[b] \in {"building", "healthy", "broken"}
Named(w) == {b \in Refs : Alive(b) /\ name[b] = w}

\* Faulty: any healthy branch will do.
UsableByHealth(b, w) == b \in Refs /\ health[b] = "healthy"

Usable(b, w) == b \in Named(w) /\ health[b] = "healthy"

\* The wave and the branch of the step that the worker is at.
Wave == worker.wave
Target == worker.ref

Goes(place, b) == worker' = [worker EXCEPT !.at = place, !.ref = b]
Lives(r, state) == [r EXCEPT !.life = state]

-----------------------------------------------------------------------------
(* How a wave is stopped. *)

Blocks(r, b) ==
    /\ row' = [r EXCEPT !.status = "blocked", !.rec = "blocked", !.life = "retained-for-diagnosis"]
    /\ plan' = [wave |-> Wave, ref |-> b, action |-> "none"]
    /\ worker' = Off

\* Faulty: the branch goes at once, as after a success.
FailsAndDestroys ==
    /\ Blocks(row, Target)
    /\ suspect' = suspect \cup {Target}
    /\ IF policy = "on-success-immediate"
         THEN health' = [health EXCEPT ![Target] = "gone"] /\ UNCHANGED name
         ELSE UNCHANGED provider

\* A step on the worker's branch failed.
Fails ==
    /\ Blocks(row, Target)
    /\ suspect' = suspect \cup {Target}
    /\ UNCHANGED provider

-----------------------------------------------------------------------------
(* provisionBranch: adopt a branch or create one. *)

Adopts(b) ==
    /\ row' = [row EXCEPT !.ref = b, !.life = "ready"]
    /\ Goes("poll", b)
    /\ UNCHANGED plan

\* The recovery of a blocked run that names a branch, or leaves it to the run.
Recovers == row.rec = "blocked" /\ plan.wave # None /\ plan.action # "discard"
Recorded == IF row.ref # None THEN row.ref ELSE plan.ref

ReuseSelected ==
    /\ Recovers /\ plan.action = "attach"
    /\ IF Usable(Recorded, Wave) THEN Adopts(Recorded) ELSE Blocks(row, Recorded)

ReuseRecorded ==
    /\ Recovers /\ plan.action = "none"
    /\ \/ /\ plan.wave # Wave
          /\ Blocks(row, Recorded)
       \/ /\ plan.wave = Wave /\ Cardinality(Named(Wave)) > 1
          /\ Blocks(row, None)
       \/ /\ plan.wave = Wave /\ Named(Wave) = {}
          /\ Blocks(row, Recorded)
       \/ \E b \in Refs :
             /\ plan.wave = Wave /\ Named(Wave) = {b}
             /\ IF Usable(b, Wave) THEN Adopts(b) ELSE Blocks(row, b)

\* The run's branch is gone or bears the name of another wave: the row lets go of it.
Stale == row.ref # None /\ row.ref \notin Named(Wave)
Unattached == IF Stale THEN [row EXCEPT !.ref = None, !.life = "none"] ELSE row

Fresh == Stale \/ plan.action = "discard"

\* Faulty: no branch is looked for by name.
ReuseNothing ==
    /\ ~Recovers
    /\ row' = Unattached /\ Goes("create", None) /\ UNCHANGED plan

ReuseNamed ==
    /\ ~Recovers
    /\ \/ /\ Cardinality(Named(Wave)) > 1
          /\ Blocks(Unattached, None)
       \/ \E b \in Refs :
             /\ Named(Wave) = {b}
             /\ \/ Usable(b, Wave) /\ Adopts(b)
                \/ ~Usable(b, Wave) /\ ~Fresh /\ Blocks(Unattached, b)
       \/ /\ \/ Named(Wave) = {}
             \/ \E b \in Refs : Named(Wave) = {b} /\ ~Usable(b, Wave) /\ Fresh
          /\ row' = Unattached /\ Goes("create", None) /\ UNCHANGED plan

Unchecked == <<policy, command, merged, suspect, strays, cleared>>

Provision ==
    /\ worker.at = "provision"
    /\ ReuseSelected \/ ReuseRecorded \/ ReuseNamed
    /\ NoFault
    /\ UNCHANGED provider /\ UNCHANGED Unchecked

\* The row may have let go of its branch before the call that fails.
ProvisionFails ==
    /\ worker.at \in {"provision", "create"}
    /\ \/ Blocks(row, None)
       \/ ~Recovers /\ Blocks(Unattached, None)
    /\ Fault
    /\ UNCHANGED provider /\ UNCHANGED Unchecked

\* createBranch at the provider.
Creates(b) ==
    /\ health[b] = "unused" /\ \A c \in Refs : health[c] = "unused" => b <= c
    /\ name' = [name EXCEPT ![b] = Wave]
    /\ health' = [health EXCEPT ![b] = "building"]

\* The provider has the branch before the row has it.
Create ==
    /\ worker.at = "create"
    /\ \E b \in Refs : Creates(b) /\ Goes("record", b)
    /\ NoFault
    /\ UNCHANGED <<row, plan>> /\ UNCHANGED Unchecked

\* The answer is lost: the provider has the branch and the run is blocked.
CreateLost ==
    /\ worker.at = "create"
    /\ \E b \in Refs : Creates(b) /\ strays' = strays \cup {b}
    /\ Blocks(row, None)
    /\ Fault
    /\ UNCHANGED <<policy, command, merged, suspect, cleared>>

Record ==
    /\ worker.at = "record"
    /\ row' = [row EXCEPT !.ref = Target, !.life = "provisioning"]
    /\ Goes("poll", Target)
    /\ NoFault
    /\ UNCHANGED plan /\ UNCHANGED provider /\ UNCHANGED Unchecked

-----------------------------------------------------------------------------
(* The steps on the branch: poll, handoff, validate, stories, cleanup. *)

Poll ==
    /\ worker.at = "poll" /\ health[Target] = "healthy"
    /\ row' = Lives(row, "ready")
    /\ Goes("handoff", Target)
    /\ NoFault
    /\ UNCHANGED plan /\ UNCHANGED provider /\ UNCHANGED Unchecked

\* It is gone, or does not settle within ten minutes.
PollFails ==
    /\ worker.at = "poll" /\ health[Target] # "healthy"
    /\ Fails
    /\ IF health[Target] = "building" THEN Fault ELSE NoFault
    /\ UNCHANGED <<policy, command, merged, strays, cleared>>

\* The handoff file is written or found, and the validation begins.
Handoff ==
    /\ worker.at = "handoff"
    /\ row' = Lives(row, "validating")
    /\ Goes("validate", Target)
    /\ NoFault
    /\ UNCHANGED plan /\ UNCHANGED provider /\ UNCHANGED Unchecked

HandoffFails ==
    /\ worker.at = "handoff"
    /\ Fails
    /\ Fault
    /\ UNCHANGED <<policy, command, merged, strays, cleared>>

Validate ==
    /\ worker.at = "validate" /\ health[Target] = "healthy"
    /\ row' = Lives(row, "validated")
    /\ Goes("stories", Target)
    /\ suspect' = suspect \ {Target}
    /\ NoFault
    /\ UNCHANGED plan /\ UNCHANGED provider /\ UNCHANGED <<policy, command, merged, strays, cleared>>

ValidateFails ==
    /\ worker.at = "validate"
    /\ Fails
    /\ IF health[Target] = "healthy" THEN Fault ELSE NoFault
    /\ UNCHANGED <<policy, command, merged, strays, cleared>>

Stories ==
    /\ worker.at = "stories"
    /\ merged' = Wave
    /\ Goes("cleanup", Target)
    /\ NoFault
    /\ UNCHANGED <<row, plan>> /\ UNCHANGED provider
    /\ UNCHANGED <<policy, command, suspect, strays, cleared>>

\* A worker takes up the waves after the merged ones.
From(w) ==
    IF w > MaxWaves THEN [at |-> "gate", wave |-> None, ref |-> None]
                    ELSE [at |-> "provision", wave |-> w, ref |-> None]

\* deleteBranch: a branch that is gone already counts as destroyed.
Destroyed(b) == [health EXCEPT ![b] = "gone"]

\* cleanupSuccessfulBranch. With a TTL nothing is scheduled: the wave passes no store for it.
Cleans(p) ==
    \/ /\ row.life = "retained-for-diagnosis" \/ p = "ttl-after-success"
       /\ NoFault
       /\ UNCHANGED <<row, health, strays>>
    \/ /\ row.life # "retained-for-diagnosis" /\ p = "manual"
       /\ row' = Lives(row, "retained-pending-cleanup")
       /\ NoFault
       /\ UNCHANGED <<health, strays>>
    \/ /\ row.life # "retained-for-diagnosis" /\ p = "on-success-immediate"
       /\ row' = Lives(row, "destroyed")
       /\ health' = Destroyed(Target)
       /\ NoFault
       /\ UNCHANGED strays
    \/ /\ row.life # "retained-for-diagnosis" /\ p = "on-success-immediate"
       /\ row' = Lives(row, "retained-for-diagnosis")
       /\ strays' = strays \cup {Target}
       /\ Fault
       /\ UNCHANGED health

CleanUp ==
    /\ worker.at = "cleanup"
    /\ worker' = From(Wave + 1)
    /\ policy' \in IF policy = "unread" THEN Policies ELSE {policy}
    /\ Cleans(policy')
    /\ UNCHANGED <<name, plan, command, merged, suspect, cleared>>

WorkerStep ==
    \/ Provision \/ ProvisionFails \/ Create \/ CreateLost \/ Record \/ Poll \/ PollFails
    \/ Handoff \/ HandoffFails \/ Validate \/ ValidateFails \/ Stories \/ CleanUp

-----------------------------------------------------------------------------
(* How a stopped run is taken up again. *)

\* A recovery that has a payload stays on the row until the run ends.
Resumes(r, p) ==
    /\ row' = [r EXCEPT !.status = "running", !.rec = IF p = NoPlan THEN "none" ELSE @]
    /\ worker' = From(merged + 1)

Idle == worker.at = "off" /\ row.rec # "none"

\* retainedDiagnosisRecoveryDecision
NeedsDecision ==
    row.status = "blocked" /\ row.rec = "blocked" /\ row.life = "retained-for-diagnosis"

Resume ==
    /\ Idle /\ ~NeedsDecision
    /\ Resumes(row, plan)
    /\ NoFault
    /\ UNCHANGED plan /\ UNCHANGED provider /\ UNCHANGED Unchecked

RetryRetained ==
    /\ Idle /\ NeedsDecision
    /\ Resumes(row, plan)
    /\ NoFault
    /\ UNCHANGED plan /\ UNCHANGED provider /\ UNCHANGED Unchecked

Discarded == [plan EXCEPT !.ref = None, !.action = "discard"]

\* Faulty: the payload keeps the branch.
ClearKeepsPlan ==
    /\ Idle /\ NeedsDecision /\ plan # NoPlan /\ ~command.on
    /\ row' = [row EXCEPT !.ref = None, !.life = "none"]
    /\ command' = [on |-> TRUE, ref |-> row.ref]
    /\ cleared' = TRUE
    /\ NoFault
    /\ UNCHANGED plan
    /\ UNCHANGED provider /\ UNCHANGED <<policy, worker, merged, suspect, strays>>

\* Faulty: the branch to destroy is read after the row let go of it.
ClearForgetsBranch ==
    /\ Idle /\ NeedsDecision /\ plan # NoPlan /\ ~command.on
    /\ row' = [row EXCEPT !.ref = None, !.life = "none"]
    /\ plan' = Discarded
    /\ command' = [on |-> TRUE, ref |-> row'.ref]
    /\ cleared' = TRUE
    /\ NoFault
    /\ UNCHANGED provider /\ UNCHANGED <<policy, worker, merged, suspect, strays>>

\* clear-and-fresh: the row lets go of its branch, whichever it is, ...
ClearAndFresh ==
    /\ Idle /\ NeedsDecision /\ plan # NoPlan /\ ~command.on
    /\ row' = [row EXCEPT !.ref = None, !.life = "none"]
    /\ plan' = Discarded
    /\ command' = [on |-> TRUE, ref |-> row.ref]
    /\ cleared' = TRUE
    /\ NoFault
    /\ UNCHANGED provider /\ UNCHANGED <<policy, worker, merged, suspect, strays>>

\* ... the provider destroys it or fails to, and the run is resumed unless it was meanwhile.
ClearEnds ==
    /\ command.on
    /\ command' = NoCommand
    /\ \/ /\ health' = IF command.ref # None THEN Destroyed(command.ref) ELSE health
          /\ NoFault
          /\ UNCHANGED strays
       \/ /\ command.ref # None
          /\ strays' = strays \cup {command.ref}
          /\ Fault
          /\ UNCHANGED health
    /\ IF Idle THEN Resumes(row, plan) ELSE UNCHANGED <<row, worker>>
    /\ UNCHANGED <<policy, name, plan, merged, suspect, cleared>>

\* A run whose worker is lost is marked as failed and keeps its payload.
Crash ==
    /\ crashes + moves < MaxUpsets /\ crashes' = crashes + 1
    /\ worker.at \notin {"off", "gate"} \/ command.on
    /\ worker.at # "gate"
    /\ row' = IF worker.at # "off" THEN [row EXCEPT !.status = "failed", !.rec = "failed"]
                                   ELSE row
    /\ worker' = Off /\ command' = NoCommand
    /\ UNCHANGED provider
    /\ UNCHANGED <<policy, plan, merged, suspect, strays, cleared, faults, moves>>

-----------------------------------------------------------------------------
(* The operator's recovery actions: none of them asks whether the run is at work. *)

Blocked == row.rec = "blocked" /\ plan # NoPlan

Attach(b) ==
    /\ Blocked
    /\ row' = [row EXCEPT !.ref = b, !.life = IF @ = "none" THEN "provisioning" ELSE @]
    /\ plan' = [plan EXCEPT !.ref = b, !.action = "attach"]

Discard ==
    /\ Blocked
    /\ row' = [row EXCEPT !.ref = None, !.life = "none"]
    /\ plan' = Discarded

Retained == row.life = "retained-for-diagnosis" /\ (plan.ref # None \/ row.ref # None)

RecoverFresh ==
    /\ Blocked /\ plan.action = "none" /\ ~Retained
    /\ plan' = Discarded
    /\ UNCHANGED row

ChooseRetained ==
    /\ Blocked /\ plan.action = "none" /\ Retained
    /\ plan' = [plan EXCEPT !.ref = Recorded, !.action = "attach"]
    /\ UNCHANGED row

ChooseFresh ==
    /\ Blocked /\ plan.action = "none" /\ Retained
    /\ row' = [row EXCEPT !.ref = None]
    /\ plan' = Discarded

ClearPayload == plan # NoPlan /\ plan' = NoPlan /\ UNCHANGED row
ClearRef == row.ref # None /\ row' = [row EXCEPT !.ref = None] /\ UNCHANGED plan
ClearLifecycle == row.life # "none" /\ row' = Lives(row, "none") /\ UNCHANGED plan

Move ==
    /\ crashes + moves < MaxUpsets /\ moves' = moves + 1
    /\ worker.at # "gate"
    /\ \/ \E b \in Refs : health[b] # "unused" /\ Attach(b)
       \/ Discard \/ RecoverFresh \/ ChooseRetained \/ ChooseFresh
       \/ ClearPayload \/ ClearRef \/ ClearLifecycle
    /\ UNCHANGED provider
    /\ UNCHANGED <<policy, worker, command, merged, suspect, strays, cleared, faults, crashes>>

-----------------------------------------------------------------------------
(* The provider finishes a branch, or breaks it. *)

Builds ==
    /\ \E b \in Refs : health[b] = "building" /\ health' = [health EXCEPT ![b] = "healthy"]
    /\ NoFault
    /\ UNCHANGED <<name, row, plan, worker>> /\ UNCHANGED Unchecked

Breaks ==
    /\ \E b \in Refs : health[b] = "building" /\ health' = [health EXCEPT ![b] = "broken"]
    /\ Fault
    /\ UNCHANGED <<name, row, plan, worker>> /\ UNCHANGED Unchecked

Next ==
    \/ WorkerStep
    \/ Resume \/ RetryRetained \/ ClearAndFresh \/ ClearEnds
    \/ Crash \/ Move
    \/ Builds \/ Breaks

Spec == Init /\ [][Next]_vars

\* A worker and a command go on, the provider finishes a branch, and the operator resumes a
\* run that is stopped and, where it waits for a decision, comes to clear it.
FairSpec ==
    /\ Spec
    /\ WF_vars(WorkerStep) /\ WF_vars(ClearEnds) /\ WF_vars(Builds)
    /\ WF_vars(Resume) /\ WF_vars(RetryRetained) /\ SF_vars(ClearAndFresh)

-----------------------------------------------------------------------------
(* Properties *)

\* What is done for a wave, its validation, its stories and its cleanup, is done on a branch that
\* bears the name of the wave, whatever was attached, discarded or found by name before.
OwnBranch ==
    worker.at \in {"handoff", "validate", "stories", "cleanup"} => name[Target] = Wave

\* docs/TECHNICAL.md:213: a branch on which a step failed, and which did not pass since, leaves
\* the provider only where the operator cleared it; no worker destroys it.
DiagnosisKept ==
    [][\A b \in suspect \cup suspect' :
          Alive(b) => Alive(b)' \/ (command.on /\ command.ref = b)]_vars

\* As long as the operator only retries, a wave never has two branches of its name: what a lost
\* call left at the provider is found by its name, and so is, in the first wave, what a crash
\* left there between the creation and the row.
OneBranch ==
    \A w \in Waves :
        (~cleared /\ moves = 0 /\ (w > 1 => crashes = 0)) => Cardinality(Named(w)) <= 1

\* Under on-success-immediate the waves end with no branch left at the provider but those of a
\* failed call and the one that is being cleared, unless a crash or an action of the operator
\* came between.
NothingLeft ==
    (worker.at = "gate" /\ policy = "on-success-immediate" /\ crashes = 0 /\ moves = 0)
        => \A b \in Refs : Alive(b) => b \in strays \cup {command.ref}

\* However the steps fail, a run whose operator keeps clearing it gets through its waves, unless
\* a wave is left with two branches of its name, which only an attachment resolves.
WavesEnd ==
    <>(worker.at = "gate") \/ <>[](\E w \in Waves : Cardinality(Named(w)) > 1)

\* finalWaveValidationGate
ValidationGate == row.ref # None => row.life = "validated"

\* docs/TECHNICAL.md:207 "final wave validation green" opens the merge gate: a run that got
\* through its waves, none of which is merged unvalidated, passes it.
GreenWavesMerge ==
    (worker.at = "gate" /\ crashes = 0 /\ moves = 0 /\ faults = 0) => ValidationGate

=============================================================================

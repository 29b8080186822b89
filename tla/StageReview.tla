----------------------------- MODULE StageReview -----------------------------
(***************************************************************************)
(* core/stageRuntime and core/stageWithUserReview, as visual-companion and *)
(* frontend-design use them: one design stage of one run. The stage asks   *)
(* its clarifications, an agent produces an artifact, a reviewer passes it *)
(* or sends it back, and the user approves it or asks for another round,   *)
(* which is a stage run of its own under a run id of its own. The stages   *)
(* that follow work with the artifact, from memory or from disk.           *)
(***************************************************************************)
EXTENDS Integers

CONSTANTS
    Questions,     \* what the agent itself may ask, beside the clarifications
    MaxReviews,    \* maxReviews
    MaxRounds,     \* maxUserReviewRounds
    MaxStarts      \* bound: times that a worker takes up the run

ASSUME BoundAssumption ==
    MaxReviews \in Nat \ {0} /\ MaxRounds \in Nat /\ MaxStarts \in Nat \ {0}

MaxIdenticalPrompts == 2

Clarifications == {"mode", "details", "tone", "constraints"}
Prompts == Clarifications \cup {"invalid mode"} \cup Questions

ASSUME QuestionAssumption == Questions \cap (Clarifications \cup {"invalid mode"}) = {}

VARIABLES
    run,        \* the row: status and recovery ("stage": this one, "later": one that follows)
    worker,     \* where it is; piped: its stdin is no terminal
    round,      \* userReviewRound, of the last start
    state,      \* the state of the agent: inputMode and clarificationCount
    stageRun,   \* reviewIteration, and how often each prompt is in the log of this stage run
    artifact,   \* the artifact of this stage run, as a version; 0 before there is one
    made,       \* history: versions that the agent produced
    file,       \* the artifact in the directory of each round's run id; 0 when there is none
    passed,     \* history: versions that the reviewer passed
    approved,   \* history: the version that the user approved
    used,       \* the version that the stages which follow were given
    open,       \* a row of pending_prompts waits for an answer
    starts      \* bound

vars == <<run, worker, round, state, stageRun, artifact, made, file, passed, approved, used,
          open, starts>>

Rounds == 0..MaxRounds

TypeOK ==
    /\ run \in [status : {"running", "blocked", "failed", "completed"},
                recovery : {"none", "stage", "later"}]
    /\ worker \in [at : {"off", "begin", "waiting", "thinking", "writing", "reviewing", "gate",
                         "later"},
                   piped : BOOLEAN]
    /\ round \in Rounds
    /\ state \in [mode : {"none", "references"}, count : 0..4]
    /\ stageRun \in [reviews : Nat, asked : [Prompts -> 0..MaxIdenticalPrompts]]
    /\ artifact \in Nat /\ made \in Nat
    /\ file \in [Rounds -> Nat]
    /\ passed \in SUBSET Nat
    /\ approved \in Nat /\ used \in Nat
    /\ open \in BOOLEAN
    /\ starts \in 1..MaxStarts

FreshState == [mode |-> "none", count |-> 0]
FreshStageRun == [reviews |-> 0, asked |-> [q \in Prompts |-> 0]]

Init ==
    /\ run = [status |-> "running", recovery |-> "none"]
    /\ \E piped \in BOOLEAN : worker = [at |-> "begin", piped |-> piped]
    /\ round = 0 /\ state = FreshState /\ stageRun = FreshStageRun
    /\ artifact = 0 /\ made = 0
    /\ file = [r \in Rounds |-> 0]
    /\ passed = {} /\ approved = 0 /\ used = 0
    /\ open = FALSE
    /\ starts = 1

At(place) == worker.at = place
Goes(place) == worker' = [worker EXCEPT !.at = place]

-----------------------------------------------------------------------------
(* How a worker leaves the run. *)

\* The recovery of a stage run is recorded for its own run id, which only in the first
\* round is the id of a row.
RecoveryOf(r) == IF r = 0 THEN "stage" ELSE "none"

\* A run that is blocked without a recovery ends as failed.
Stops(status) ==
    /\ run' = [status |-> IF round = 0 THEN status ELSE "failed", recovery |-> RecoveryOf(round)]
    /\ Goes("off")

-----------------------------------------------------------------------------
(* What the agent asks. *)

MaxClarifications(s) == IF s.mode = "references" THEN 4 ELSE 3
Clarified(s) == s.count >= MaxClarifications(s)

NextClarification(s) ==
    CASE s.count = 0 -> "mode"
      [] s.count > 0 /\ s.mode = "references" -> <<"details", "tone", "constraints">>[s.count]
      [] OTHER -> <<"tone", "constraints">>[s.count]

\* Faulty: the log of the stage run does not show what was asked.
AsksUncounted(q) ==
    /\ Goes("waiting")
    /\ open' = TRUE
    /\ UNCHANGED stageRun

Asks(q) ==
    /\ stageRun' = [stageRun EXCEPT !.asked[q] = @ + 1]
    /\ Goes("waiting")
    /\ open' = TRUE

\* The third time that the agent puts the same question the run is blocked instead.
Puts(q) ==
    \/ /\ stageRun.asked[q] < MaxIdenticalPrompts
       /\ Asks(q)
       /\ UNCHANGED run
    \/ /\ stageRun.asked[q] >= MaxIdenticalPrompts
       /\ Stops("blocked")
       /\ open' = FALSE
       /\ UNCHANGED stageRun

Begin ==
    /\ At("begin")
    /\ \/ ~Clarified(state) /\ Puts(NextClarification(state))
       \/ Clarified(state) /\ Goes("thinking") /\ UNCHANGED <<run, stageRun, open>>
    /\ UNCHANGED <<round, state, artifact, made, file, passed, approved, used, starts>>

Unchanged == UNCHANGED <<round, artifact, made, file, passed, approved, used, starts>>

\* The first clarification must be answered with one of two words.
ReplyInvalid ==
    /\ At("waiting") /\ state.count = 0
    /\ Puts("invalid mode")
    /\ UNCHANGED state
    /\ Unchanged

Clarify(mode) ==
    state' = [mode |-> IF state.count = 0 THEN mode ELSE state.mode, count |-> state.count + 1]

Reply ==
    /\ At("waiting")
    /\ \/ /\ ~Clarified(state)
          /\ \E mode \in {"none", "references"} : Clarify(mode)
          /\ \/ ~Clarified(state') /\ Puts(NextClarification(state'))
             \/ /\ Clarified(state')
                /\ Goes("thinking") /\ open' = FALSE /\ UNCHANGED <<run, stageRun>>
       \/ /\ Clarified(state)
          /\ Goes("thinking") /\ open' = FALSE /\ UNCHANGED <<run, state, stageRun>>
    /\ Unchanged

\* The answers on stdin are used up: the prompt stays open, and the run is blocked.
NoAnswer ==
    /\ At("waiting") \/ At("gate")
    /\ worker.piped
    /\ Stops("blocked")
    /\ UNCHANGED <<state, stageRun, open>>
    /\ Unchanged

-----------------------------------------------------------------------------
(* From the artifact to the gate. *)

AgentAsks ==
    /\ At("thinking")
    /\ \E q \in Questions : Puts(q)
    /\ UNCHANGED state
    /\ Unchanged

AgentProduces ==
    /\ At("thinking")
    /\ made' = made + 1
    /\ artifact' = made + 1
    /\ Goes("writing")
    /\ UNCHANGED <<run, round, state, stageRun, file, passed, approved, used, open, starts>>

\* Faulty: a file that is there is not written again.
WriteOnce ==
    file' = [file EXCEPT ![round] = IF @ = 0 THEN artifact ELSE @]

WriteFile == file' = [file EXCEPT ![round] = artifact]

\* persistArtifacts: the JSON is on disk before anything is rendered, and rendering may throw.
Write ==
    /\ At("writing")
    /\ WriteFile
    /\ \/ /\ Goes("reviewing")
          /\ stageRun' = [stageRun EXCEPT !.reviews = @ + 1]
          /\ UNCHANGED run
       \/ Stops("failed") /\ UNCHANGED stageRun
    /\ UNCHANGED <<round, state, artifact, made, passed, approved, used, open, starts>>

Throw ==
    /\ worker.at \in {"thinking", "writing", "reviewing"}
    /\ Stops("failed")
    /\ UNCHANGED <<state, stageRun, open>>
    /\ Unchanged

ReviewPasses ==
    /\ At("reviewing")
    /\ passed' = passed \cup {artifact}
    /\ Goes("gate")
    /\ open' = TRUE
    /\ UNCHANGED <<run, round, state, stageRun, artifact, made, file, approved, used, starts>>

ReviewBlocks ==
    /\ At("reviewing")
    /\ Stops("blocked")
    /\ UNCHANGED <<state, stageRun, open>>
    /\ Unchanged

ReviewRevises ==
    /\ At("reviewing")
    /\ \/ stageRun.reviews < MaxReviews /\ Goes("thinking") /\ UNCHANGED run
       \/ stageRun.reviews >= MaxReviews /\ Stops("blocked")
    /\ UNCHANGED <<state, stageRun, open>>
    /\ Unchanged

-----------------------------------------------------------------------------
(* The gate. Any other reply puts the same prompt again. *)

Approve ==
    /\ At("gate")
    /\ approved' = artifact
    /\ used' = artifact
    /\ open' = FALSE
    /\ Goes("later")
    /\ UNCHANGED <<run, round, state, stageRun, artifact, made, file, passed, starts>>

\* Faulty: a new round begins with a fresh state.
ForgetState == state' = FreshState

CarryState == state' = [state EXCEPT !.count = MaxClarifications(state)]

Revise ==
    /\ At("gate") /\ round < MaxRounds
    /\ round' = round + 1
    /\ CarryState
    /\ stageRun' = FreshStageRun
    /\ artifact' = 0
    /\ open' = FALSE
    /\ Goes("begin")
    /\ UNCHANGED <<run, made, file, passed, approved, used, starts>>

\* The cap on the rounds throws where no stage run records it.
ReviseTooOften ==
    /\ At("gate") /\ round = MaxRounds
    /\ run' = [status |-> "failed", recovery |-> "none"]
    /\ Goes("off")
    /\ open' = FALSE
    /\ UNCHANGED <<state, stageRun>>
    /\ Unchanged

-----------------------------------------------------------------------------
(* The stages that follow, workers that are lost, and resumes. *)

Finish ==
    /\ At("later")
    /\ run' = [status |-> "completed", recovery |-> "none"]
    /\ Goes("off")
    /\ UNCHANGED <<state, stageRun, open>>
    /\ Unchanged

LaterStops ==
    /\ At("later")
    /\ \E status \in {"blocked", "failed"} : run' = [status |-> status, recovery |-> "later"]
    /\ Goes("off")
    /\ UNCHANGED <<state, stageRun, open>>
    /\ Unchanged

Crash ==
    /\ ~At("off")
    /\ run' = [status |-> "failed", recovery |-> IF At("later") THEN "later" ELSE "stage"]
    /\ Goes("off")
    /\ UNCHANGED <<state, stageRun, open>>
    /\ Unchanged

\* A prompt that a worker left behind is answered; nobody reads the answer.
AnswerLeft ==
    /\ At("off") /\ open
    /\ open' = FALSE
    /\ UNCHANGED <<run, worker, state, stageRun>>
    /\ Unchanged

CanResume == At("off") /\ run.recovery # "none" /\ ~open /\ starts < MaxStarts

Restarts ==
    /\ run.recovery = "stage"
    /\ Goes("begin")
    /\ round' = 0 /\ state' = FreshState /\ stageRun' = FreshStageRun
    /\ artifact' = 0
    /\ UNCHANGED used

\* Faulty: a resume goes on behind the stage that did not end.
LoadsWhatIsThere ==
    /\ worker' = [worker EXCEPT !.at = "later"]
    /\ used' = file[0]
    /\ UNCHANGED <<round, state, stageRun, artifact>>

\* A stage that is not run again is read from the directory of the run.
Loads ==
    /\ run.recovery = "later"
    /\ Goes("later")
    /\ used' = file[0]
    /\ UNCHANGED <<round, state, stageRun, artifact>>

Resume ==
    /\ CanResume
    /\ Restarts \/ Loads
    /\ run' = [status |-> "running", recovery |-> "none"]
    /\ starts' = starts + 1
    /\ UNCHANGED <<made, file, passed, approved, open>>

\* The next stage as a run of its own, that copies the directory of this one.
StartNext ==
    /\ At("off") /\ run.status = "completed"
    /\ used' = file[0]
    /\ UNCHANGED <<run, worker, round, state, stageRun, artifact, made, file, passed, approved,
                   open, starts>>

-----------------------------------------------------------------------------
Stage ==
    \/ Begin \/ AgentAsks \/ AgentProduces \/ Write \/ Throw
    \/ ReviewPasses \/ ReviewBlocks \/ ReviewRevises

User == Reply \/ ReplyInvalid \/ NoAnswer \/ Approve \/ Revise \/ ReviseTooOften

Next ==
    \/ Stage \/ User
    \/ Finish \/ LaterStops \/ Crash
    \/ AnswerLeft \/ Resume \/ StartNext

Spec == Init /\ [][Next]_vars

\* Whoever works on the stage goes on, a prompt is answered, and so does what follows.
FairSpec == Spec /\ WF_vars(Stage) /\ WF_vars(User) /\ WF_vars(Finish)

-----------------------------------------------------------------------------
(* Properties. *)

\* What the user is asked to approve is what the files of that round show, and the reviewer
\* passed it: onApproved and persistArtifacts before readUserReviewDecision.
GateShowsDisk == At("gate") => file[round] = artifact /\ artifact \in passed

\* No stage that follows works with an artifact that the reviewer did not pass, whether it
\* comes from memory, from disk after a resume or from a run that is started behind this one.
UsedWasPassed == used # 0 => used \in passed

\* In a round that the user asked for nothing is clarified again (runStageWithUserReview: "does
\* not re-ask questions it already has answers for").
AnsweredOnce == round > 0 => \A q \in Clarifications \cup {"invalid mode"} : stageRun.asked[q] = 0

\* With an agent that has finitely many questions every start of the stage ends.
StageEnds == At("begin") ~> (At("off") \/ At("later"))

\* What is loaded is what the user approved ('Type "approve" to commit').
ApprovedIsUsed == used # 0 /\ approved # 0 => used = approved

=============================================================================

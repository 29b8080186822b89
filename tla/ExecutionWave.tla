--------------------------- MODULE ExecutionWave ---------------------------
(***************************************************************************)
(* One wave of the execution stage: stages/execution/waveExecution.ts runs *)
(* the stories of the wave one after the other or all at once, each in a   *)
(* git worktree of its own, ralphStoryLoop.ts iterates a story until its   *)
(* review gate opens, and a queue merges the stories into the wave branch  *)
(* one at a time.  The process may die at any await; core/resume.ts starts *)
(* the wave again from the checkpoints, the branches and the recovery that *)
(* the run row records.                                                    *)
(*                                                                         *)
(* The coder, the reviewers and git's verdict on a conflict are the        *)
(* environment.  The continuation of a queued operation runs before the    *)
(* next operation starts, so the two are one step.                         *)
(***************************************************************************)
EXTENDS Naturals, Sequences, FiniteSets

CONSTANTS
    Stories,
    Earlier,        \* the stories the plan lists before a story
    MaxCycles,      \* maxReviewCycles
    MaxIterations,  \* maxIterationsPerCycle
    CommitsFail,    \* git may refuse a commit, e.g. one it cannot sign
    MaxAttempts     \* bound: how often the wave is started

ASSUME WaveAssumption ==
    /\ Earlier \in [Stories -> SUBSET Stories]
    /\ CommitsFail \in BOOLEAN
    /\ MaxCycles \in Nat \ {0} /\ MaxIterations \in Nat \ {0}
    /\ MaxAttempts \in Nat

None == "none"
ASSUME NoneAssumption == {None, "run", "stage"} \cap Stories = {}

VARIABLES
    disk,       \* implementation.json of a story
    revise,     \* story-review.json asks for changes
    remedy,     \* the stories with a pending-remediation.json
    branched,   \* the stories that have a branch
    base,       \* the stories whose merges a branch contains
    wave,       \* the stories merged into the wave branch
    project,    \* the wave branch is merged into the project branch
    work,       \* the changes of a story that its branch should have: see Works
    phase,      \* see Phases
    scope,      \* runs.recovery_scope, the story itself for a story scope
    attempt,    \* the number of starts of the wave
    parallel,   \* parallelEnabled: the plan allows it, and so does the process's
                \* BEERENGINEER_EXECUTION_PARALLEL_STORIES
    pc,         \* where a story is, see PCs
    next,       \* where it goes when its checkpoint is written
    mem,        \* its implementation, in memory
    cycle,      \* its review cycle
    feedback,   \* what the cycle answers: see Feedbacks
    announced,  \* the merges the coordinator was told of: its generation
    seen,       \* lastSeen: the generation a story knows
    queue       \* waveBranchOpQueue

disks == <<disk, revise, remedy>>
gits == <<branched, base, wave, project, work>>
runs == <<phase, scope, attempt, parallel>>
loops == <<pc, next, mem, cycle, feedback>>
coordinator == <<announced, seen, queue>>
vars == <<disks, gits, runs, loops, coordinator>>

Phases == {"running", "stopped", "done"}
Feedbacks == {None, "findings", "remediation"}
Works == {"none", "saved", "unsaved", "lost"}
Working == {"cycle", "rebasing", "coding", "reviewing", "recording"}
PCs == Working \cup
    {"waiting", "preparing", "reporting", "passed", "blocked", "merging", "abandoning",
     "done", "threw"}
Implementations ==
    [status : {"absent", "in_progress", "ready_for_review", "passed", "blocked"},
     cycle  : 0..MaxCycles,
     iterations : [0..MaxCycles -> 0..MaxIterations]]

Absent == [status |-> "absent", cycle |-> 0, iterations |-> [c \in 0..MaxCycles |-> 0]]

TypeOK ==
    /\ disk \in [Stories -> Implementations]
    /\ revise \in [Stories -> BOOLEAN] /\ remedy \subseteq Stories
    /\ branched \subseteq Stories /\ base \in [Stories -> SUBSET Stories]
    /\ wave \subseteq Stories /\ project \in BOOLEAN
    /\ work \in [Stories -> Works]
    /\ phase \in Phases /\ scope \in {None, "run", "stage"} \cup Stories
    /\ attempt \in 1..(MaxAttempts + 1) /\ parallel \in BOOLEAN
    /\ pc \in [Stories -> PCs]
    /\ next \in [Stories -> {"cycle", "coding", "reviewing", "reporting", "passed"}]
    /\ mem \in [Stories -> Implementations]
    /\ cycle \in [Stories -> 0..MaxCycles]
    /\ feedback \in [Stories -> Feedbacks]
    /\ announced \subseteq Stories /\ seen \in [Stories -> SUBSET Stories]
    /\ queue \in Seq(Stories)

-----------------------------------------------------------------------------
(* Entering a story. *)

\* Faulty: a story that was rejected is waited for.
SettledDone(s) == pc[s] = "done"

\* Promise.allSettled.
Settled(s) == pc[s] \in {"done", "threw"}

\* The stories that start now: all of the wave, or the next of the plan.
Starting ==
    IF parallel THEN {s \in Stories : \A t \in Stories : pc[t] = "waiting"}
    ELSE {s \in Stories : pc[s] = "waiting" /\ \A t \in Earlier[s] : pc[t] = "done"}

\* ensureStoryWorktree makes the branch of a story from the head of the wave,
\* unless it exists.
Start ==
    /\ phase = "running" /\ Starting # {}
    /\ branched' = branched \cup Starting
    /\ base' = [s \in Stories |-> IF s \in Starting \ branched THEN wave ELSE base[s]]
    /\ pc' = [s \in Stories |-> IF s \in Starting THEN "preparing" ELSE pc[s]]
    /\ UNCHANGED <<disks, wave, project, work, runs, next, mem, cycle, feedback, coordinator>>

\* newImplementation.
New == [Absent EXCEPT !.status = "in_progress"]

\* implementStory and runRalphStory return a story whose checkpoint says passed
\* or blocked; runRalphLoop takes up the findings and the remediation of others.
Enter(s) ==
    /\ phase = "running" /\ pc[s] = "preparing"
    /\ mem' = [mem EXCEPT ![s] = IF disk[s].status = "absent" THEN New ELSE disk[s]]
    /\ \/ /\ disk[s].status \in {"passed", "blocked"}
          /\ pc' = [pc EXCEPT ![s] = disk[s].status]
          /\ UNCHANGED <<remedy, cycle, feedback>>
       \/ /\ disk[s].status \notin {"passed", "blocked"}
          /\ pc' = [pc EXCEPT ![s] = "cycle"]
          /\ cycle' = [cycle EXCEPT ![s] = disk[s].cycle]
          /\ feedback' = [feedback EXCEPT ![s] = IF s \in remedy THEN "remediation"
                                                 ELSE IF revise[s] THEN "findings" ELSE None]
          /\ remedy' = remedy \ {s}
    /\ UNCHANGED <<disk, revise, gits, runs, next, coordinator>>

-----------------------------------------------------------------------------
(* The loop of a story. *)

\* The implementation of s becomes i; it is being written to its checkpoint.
Record(s, i, then) ==
    /\ mem' = [mem EXCEPT ![s] = i]
    /\ pc' = [pc EXCEPT ![s] = "recording"]
    /\ next' = [next EXCEPT ![s] = then]

\* The cycle begins, after its boundary.
EnterCycle(s) ==
    /\ mem' = [mem EXCEPT ![s].cycle = cycle[s]]
    /\ pc' = [pc EXCEPT ![s] =
                IF mem[s].status = "ready_for_review" THEN "reviewing" ELSE "coding"]

\* runCycledLoop has a cycle left.
More(s) == cycle[s] < MaxCycles

\* shouldRebase.
ShouldRebase(s) == parallel /\ seen[s] # announced

\* Faulty: the story is marked as rebased before it is.
BoundaryMarksEarly(s) ==
    /\ phase = "running" /\ pc[s] = "cycle" /\ More(s)
    /\ \/ /\ ShouldRebase(s)
          /\ queue' = Append(queue, s)
          /\ seen' = [seen EXCEPT ![s] = announced]
          /\ pc' = [pc EXCEPT ![s] = "rebasing"]
          /\ UNCHANGED <<mem, announced>>
       \/ ~ShouldRebase(s) /\ EnterCycle(s) /\ UNCHANGED coordinator
    /\ UNCHANGED <<disks, gits, runs, next, cycle, feedback>>

\* onCycleBoundary.
Boundary(s) ==
    /\ phase = "running" /\ pc[s] = "cycle" /\ More(s)
    /\ \/ /\ ShouldRebase(s)
          /\ queue' = Append(queue, s)
          /\ pc' = [pc EXCEPT ![s] = "rebasing"]
          /\ UNCHANGED <<mem, announced, seen>>
       \/ ~ShouldRebase(s) /\ EnterCycle(s) /\ UNCHANGED coordinator
    /\ UNCHANGED <<disks, gits, runs, next, cycle, feedback>>

\* onAllCyclesExhausted: the gate never opened, the story passes all the same.
GateStaysShut(s) ==
    /\ phase = "running" /\ pc[s] = "cycle" /\ ~More(s)
    /\ Record(s, [mem[s] EXCEPT !.status = "passed"], "passed")
    /\ UNCHANGED <<disks, gits, runs, cycle, feedback, coordinator>>

\* runOneIteration: the second iteration of a cycle is green, and the first of
\* one that answers findings.  commitAll commits all that the worktree holds.
Iterate(s) ==
    /\ phase = "running" /\ pc[s] = "coding"
    /\ mem[s].iterations[cycle[s]] < MaxIterations
    /\ LET n     == mem[s].iterations[cycle[s]] + 1
           green == n >= 2 \/ feedback[s] # None
       IN  Record(s, [mem[s] EXCEPT !.iterations[cycle[s]] = n,
                                    !.status = IF green THEN "ready_for_review" ELSE "in_progress"],
                  IF green THEN "reviewing" ELSE "coding")
    /\ \E w \in IF CommitsFail THEN {"saved", "unsaved"} ELSE {"saved"} :
        work' = [work EXCEPT ![s] = IF @ = "lost" THEN @ ELSE w]
    /\ UNCHANGED <<disks, branched, base, wave, project, runs, cycle, feedback, coordinator>>

\* The iterations of the cycle are used up, those before a restart included.
Exhausted(s) ==
    /\ phase = "running" /\ pc[s] = "coding"
    /\ mem[s].iterations[cycle[s]] = MaxIterations
    /\ Record(s, [mem[s] EXCEPT !.status = "blocked"], "reporting")
    /\ UNCHANGED <<disks, gits, runs, cycle, feedback, coordinator>>

\* runOneReviewCycle.
ReviewPasses(s) ==
    /\ phase = "running" /\ pc[s] = "reviewing"
    /\ revise' = [revise EXCEPT ![s] = FALSE]
    /\ Record(s, [mem[s] EXCEPT !.status = "passed"], "passed")
    /\ UNCHANGED <<disk, remedy, gits, runs, cycle, feedback, coordinator>>

ReviewRevises(s) ==
    /\ phase = "running" /\ pc[s] = "reviewing"
    /\ revise' = [revise EXCEPT ![s] = TRUE]
    /\ feedback' = [feedback EXCEPT ![s] = "findings"]
    /\ cycle' = [cycle EXCEPT ![s] = @ + 1]
    /\ Record(s, [mem[s] EXCEPT !.status = "in_progress"], "cycle")
    /\ UNCHANGED <<disk, remedy, gits, runs, coordinator>>

\* The write of the checkpoint ends.
Recorded(s) ==
    /\ phase = "running" /\ pc[s] = "recording"
    /\ disk' = [disk EXCEPT ![s] = mem[s]]
    /\ pc' = [pc EXCEPT ![s] = next[s]]
    /\ UNCHANGED <<revise, remedy, gits, runs, next, mem, cycle, feedback, coordinator>>

\* recordStoryBlocked.
ReportBlocked(s) ==
    /\ phase = "running" /\ pc[s] = "reporting"
    /\ scope' = s
    /\ pc' = [pc EXCEPT ![s] = "blocked"]
    /\ UNCHANGED <<disks, gits, phase, attempt, parallel, next, mem, cycle, feedback, coordinator>>

\* The finally of a story removes its worktree, with what is not committed.
RemoveWorktree(s) == work' = [work EXCEPT ![s] = IF @ = "unsaved" THEN "lost" ELSE @]

\* The worktree of a story cannot be made, or the test writer, the coder or a
\* reviewer throws.
Throws(s) ==
    /\ phase = "running" /\ pc[s] \in {"preparing", "coding", "reviewing"}
    /\ pc' = [pc EXCEPT ![s] = "threw"]
    /\ RemoveWorktree(s)
    /\ UNCHANGED <<disks, branched, base, wave, project, runs, next, mem, cycle, feedback,
                   coordinator>>

-----------------------------------------------------------------------------
(* The operations on the wave branch. *)

\* Faulty: a story joins the queue while its checkpoint is still written.
EnqueueEarly(s) ==
    /\ phase = "running"
    /\ \/ pc[s] = "blocked"
       \/ mem[s].status = "passed" /\ pc[s] \in {"recording", "passed"}
    /\ queue' = Append(queue, s)
    /\ pc' = [pc EXCEPT ![s] = IF mem[s].status = "passed" THEN "merging" ELSE "abandoning"]
    /\ UNCHANGED <<disks, gits, runs, next, mem, cycle, feedback, announced, seen>>

\* enqueueWaveBranchOp of a story that returned.
Enqueue(s) ==
    /\ phase = "running" /\ pc[s] \in {"passed", "blocked"}
    /\ queue' = Append(queue, s)
    /\ pc' = [pc EXCEPT ![s] = IF @ = "passed" THEN "merging" ELSE "abandoning"]
    /\ UNCHANGED <<disks, gits, runs, next, mem, cycle, feedback, announced, seen>>

\* The operation of s, at step p, is the head of the queue; it leaves the queue
\* whether it succeeds or not.
Served(s, p) ==
    /\ phase = "running" /\ queue # <<>> /\ Head(queue) = s /\ pc[s] = p
    /\ queue' = Tail(queue)

\* rebaseStoryOntoWave: a branch that has all merges is left alone, and git
\* does not rebase a worktree with changes.
Rebase(s) ==
    /\ Served(s, "rebasing")
    /\ wave \subseteq base[s] \/ work[s] # "unsaved"
    /\ base' = [base EXCEPT ![s] = @ \cup wave]
    /\ seen' = [seen EXCEPT ![s] = announced]
    /\ EnterCycle(s)
    /\ UNCHANGED <<disks, branched, wave, project, work, runs, next, cycle, feedback, announced>>

\* A conflict, or changes in the worktree; nothing is refused to a branch
\* without changes.
RebaseRefused(s) ==
    /\ Served(s, "rebasing")
    /\ ~(wave \subseteq base[s]) /\ work[s] # "none"
    /\ Record(s, [mem[s] EXCEPT !.status = "blocked"], "reporting")
    /\ UNCHANGED <<disks, gits, runs, cycle, feedback, announced, seen>>

\* mergeStoryIntoWave and notifyMergedStory.
Merge(s) ==
    /\ Served(s, "merging")
    /\ wave' = wave \cup {s}
    /\ announced' = announced \cup {s}
    /\ pc' = [pc EXCEPT ![s] = "done"]
    /\ RemoveWorktree(s)
    /\ UNCHANGED <<disks, branched, base, project, runs, next, mem, cycle, feedback, seen>>

\* A conflict that the merge resolver does not resolve.
MergeFails(s) ==
    /\ Served(s, "merging")
    /\ s \notin wave
    /\ pc' = [pc EXCEPT ![s] = "threw"]
    /\ RemoveWorktree(s)
    /\ UNCHANGED <<disks, branched, base, wave, project, runs, next, mem, cycle, feedback,
                   announced, seen>>

\* The worktree of the story, which holds its branch, is there from Start to
\* the end of the story's promise.
Held(s) == pc[s] \notin {"waiting", "done", "threw"}

\* abandonStoryBranch: git deletes no branch that a worktree holds.
Abandon(s) ==
    /\ Served(s, "abandoning")
    /\ branched' = IF Held(s) THEN branched ELSE branched \ {s}
    /\ pc' = [pc EXCEPT ![s] = "done"]
    /\ RemoveWorktree(s)
    /\ UNCHANGED <<disks, base, wave, project, runs, next, mem, cycle, feedback, announced, seen>>

-----------------------------------------------------------------------------
(* The end of the wave. *)

\* Faulty: the summary counts rejected stories as neither merged nor blocked.
BlockedOnly == {s \in Stories : mem[s].status = "blocked"}

\* storiesBlocked: blocked, or, among parallel stories, rejected.
BlockedStories == {s \in Stories : pc[s] = "threw" \/ mem[s].status = "blocked"}

\* recordBlockedWave: the recovery is that of the stage.
BlockWave ==
    /\ phase = "running" /\ \A s \in Stories : Settled(s)
    /\ parallel \/ \A s \in Stories : pc[s] = "done"
    /\ BlockedStories # {}
    /\ scope' = "stage"
    /\ phase' = "stopped"
    /\ UNCHANGED <<disks, gits, attempt, parallel, loops, coordinator>>

\* A story throws out of a sequential wave; handleWorkflowFailure records a
\* recovery for an error of git.
FailWave ==
    /\ phase = "running" /\ ~parallel /\ \E s \in Stories : pc[s] = "threw"
    /\ scope' \in {scope, "run"}
    /\ phase' = "stopped"
    /\ UNCHANGED <<disks, gits, attempt, parallel, loops, coordinator>>

\* mergeWaveIntoProject.
MergeWave ==
    /\ phase = "running" /\ \A s \in Stories : Settled(s)
    /\ parallel \/ \A s \in Stories : pc[s] = "done"
    /\ BlockedStories = {}
    /\ \/ project' = TRUE /\ phase' = "done" /\ UNCHANGED scope
       \/ phase' = "stopped" /\ scope' \in {scope, "run"} /\ UNCHANGED project
    /\ UNCHANGED <<disks, branched, base, wave, work, attempt, parallel, loops, coordinator>>

\* The process dies.  A checkpoint that is being written is the old one, the
\* new one or cut off, and then read as absent; the recovery of lost workers
\* records a recovery of the run unless a story has blocked it.
Crash ==
    /\ phase = "running"
    /\ \E write \in [{s \in Stories : pc[s] = "recording"} -> {"old", "new", "torn"}] :
        disk' = [s \in Stories |->
            IF s \notin DOMAIN write \/ write[s] = "old" THEN disk[s]
            ELSE IF write[s] = "new" THEN mem[s] ELSE Absent]
    /\ scope' = IF scope = None THEN "run" ELSE scope
    /\ phase' = "stopped"
    /\ UNCHANGED <<revise, remedy, gits, attempt, parallel, loops, coordinator>>

\* The memory of a process that enters the wave.
Fresh ==
    /\ pc' = [s \in Stories |-> "waiting"]
    /\ next' = [s \in Stories |-> "cycle"]
    /\ mem' = [s \in Stories |-> Absent]
    /\ cycle' = [s \in Stories |-> 0]
    /\ feedback' = [s \in Stories |-> None]
    /\ announced' = {}
    /\ seen' = [s \in Stories |-> {}]
    /\ queue' = <<>>

\* Faulty: nothing is remembered of the runs that were resumed.
ResumableByRow == scope # None

\* loadResumeReadiness: the run row has a recovery, and this process has not
\* resumed the run already (inflightResumes).
Resumable == scope # None /\ (phase = "stopped" \/ attempt = 1)

\* performResume of a run that no worker executes: prepareStoryScopeForResume
\* unblocks the story the recovery names, which must have a checkpoint.
Resume ==
    /\ Resumable /\ phase = "stopped"
    /\ attempt < MaxAttempts
    /\ scope \in Stories => disk[scope].status # "absent"
    /\ IF scope \in Stories
       THEN /\ disk' = [disk EXCEPT ![scope].status = IF @ = "blocked" THEN "in_progress" ELSE @]
            /\ remedy' = remedy \cup {scope}
       ELSE UNCHANGED <<disk, remedy>>
    /\ scope' = None /\ phase' = "running" /\ attempt' = attempt + 1
    /\ parallel' \in BOOLEAN
    /\ Fresh
    /\ UNCHANGED <<revise, gits>>

-----------------------------------------------------------------------------
Init ==
    /\ disk = [s \in Stories |-> Absent]
    /\ revise = [s \in Stories |-> FALSE] /\ remedy = {}
    /\ branched = {} /\ base = [s \in Stories |-> {}]
    /\ wave = {} /\ project = FALSE /\ work = [s \in Stories |-> "none"]
    /\ phase = "running" /\ scope = None /\ attempt = 1 /\ parallel \in BOOLEAN
    /\ pc = [s \in Stories |-> "waiting"]
    /\ next = [s \in Stories |-> "cycle"]
    /\ mem = [s \in Stories |-> Absent]
    /\ cycle = [s \in Stories |-> 0] /\ feedback = [s \in Stories |-> None]
    /\ announced = {} /\ seen = [s \in Stories |-> {}] /\ queue = <<>>

StoryStep(s) ==
    \/ Enter(s) \/ Boundary(s) \/ GateStaysShut(s) \/ Iterate(s) \/ Exhausted(s)
    \/ ReviewPasses(s) \/ ReviewRevises(s) \/ Recorded(s) \/ ReportBlocked(s) \/ Throws(s)
    \/ Enqueue(s) \/ Rebase(s) \/ RebaseRefused(s) \/ Merge(s) \/ MergeFails(s) \/ Abandon(s)

WaveStep == Start \/ BlockWave \/ FailWave \/ MergeWave

Next ==
    \/ \E s \in Stories : StoryStep(s)
    \/ WaveStep
    \/ Crash \/ Resume

Spec == Init /\ [][Next]_vars

\* The event loop runs whatever is ready, and the coder, the reviewers and git
\* answer or fail.
FairSpec == Spec /\ (\A s \in Stories : WF_vars(StoryStep(s))) /\ WF_vars(WaveStep)

-----------------------------------------------------------------------------
(* Properties. *)

\* A story whose work is in the wave branch is recorded as passed, so that no
\* restart, wherever it comes, gives it to the coder again.
MergedIsRecorded == \A s \in wave : disk[s].status = "passed"

\* The wave reaches the project branch whole: a story that was blocked, was
\* rejected or died is not left out of it.
ProjectIsWhole == project => wave = Stories

\* A story at work has in its branch every merge the coordinator counts as
\* seen by it, whatever the queue did between its boundary and its rebase.
SeenIsInBranch == \A s \in Stories : pc[s] \in Working => seen[s] \subseteq base[s]

\* A worker that executes the wave comes to an end.
WaveEnds == phase = "running" ~> phase # "running"

\* A run that can be resumed has no worker that executes it, at least while its
\* stories run one after the other, whatever mode the starts before had, and a
\* cycle has more than its one first iteration, which is never green: a first
\* start then blocks no story, so none records a recovery beside the others.
OneWorkerInTurn ==
    MaxIterations > 1 /\ Resumable /\ ~parallel => phase # "running"

=============================================================================

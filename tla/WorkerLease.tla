---------------------------- MODULE WorkerLease ----------------------------
(***************************************************************************)
(* The worker lease of one run row: core/workerLease.ts with the callers   *)
(* that create, start, finish, skip and recover the run.                   *)
(*                                                                         *)
(* A process (an API engine boot or a CLI invocation) hosts workers.  A    *)
(* worker is one call of startWorkerLeaseHeartbeat with the workflow it    *)
(* guards.  The identity a worker writes into the row, the pair            *)
(* (worker_instance_id, worker_owner_kind), is the identity of its         *)
(* process: two workers of one process share it, as they do in the code.   *)
(*                                                                         *)
(* Time is an integer clock.  A heartbeat is due every Interval; a worker  *)
(* whose event loop sleeps past a due beat is `late` until its next        *)
(* successful beat.                                                        *)
(***************************************************************************)
EXTENDS Integers, FiniteSets

CONSTANTS
    Api,            \* API engine boots, each a fresh instance identity
    Cli,            \* CLI processes
    Importers,      \* the CLI processes that install run death handlers
    Workers,        \* heartbeats, one per started or resumed workflow
    home,           \* home[w] is the process of worker w
    Interval,       \* WORKER_HEARTBEAT_INTERVAL_MS
    StaleAfter,     \* STALE_WORKER_HEARTBEAT_MS
    FailureLimit,   \* WORKER_HEARTBEAT_FAILURE_LIMIT
    ReplanWindow,   \* REPLAN_ACTIVE_HEARTBEAT_WINDOW_MS
    MaxClock        \* bound on the modelled time

ASSUME TimingAssumption ==
    /\ Interval \in Nat \ {0}
    /\ StaleAfter \in Nat
    /\ FailureLimit \in Nat \ {0}
    /\ ReplanWindow \in Nat
    /\ MaxClock \in Nat
    /\ FailureLimit * Interval <= StaleAfter
    /\ Interval < ReplanWindow

ASSUME ProcessAssumption ==
    /\ Api \cap Cli = {}
    /\ Importers \subseteq Cli
    /\ home \in [Workers -> Api \cup Cli]

Processes == Api \cup Cli
NoOwner == "no owner"
ASSUME NoOwnerAssumption == NoOwner \notin Processes

VARIABLES
    clock,
    status,     \* runs.status, "absent" before the row exists
    holder,     \* the identity in the lease columns, NoOwner when they are null
    beatAt,     \* runs.worker_heartbeat_at
    alive,      \* processes that run
    booted,     \* processes that have ever run
    closing,    \* API processes between requestShutdown and exit
    signalled,  \* CLI processes ended by a signal (history)
    phase,      \* per worker: idle, claimed, working, gone
    fails,      \* per worker: consecutiveFailures
    due,        \* per worker: when its interval timer fires next
    late,       \* per worker: a due beat was slept through (history)
    lostAt,     \* per worker: when its process last lost the lease (history)
    contested   \* the lease was taken from a ticking worker (history)

rowVars == <<status, holder, beatAt>>
processVars == <<alive, booted, closing, signalled>>
timerVars == <<fails, due, late>>
vars == <<clock, rowVars, processVars, phase, timerVars, lostAt, contested>>

Statuses == {"absent", "queued", "running", "blocked", "failed", "completed"}
Phases == {"idle", "claimed", "working", "gone"}

TypeOK ==
    /\ clock \in Nat
    /\ status \in Statuses
    /\ holder \in Processes \cup {NoOwner}
    /\ beatAt \in Nat
    /\ alive \subseteq Processes
    /\ booted \subseteq Processes
    /\ closing \subseteq Api
    /\ signalled \subseteq Cli
    /\ phase \in [Workers -> Phases]
    /\ fails \in [Workers -> 0 .. FailureLimit]
    /\ due \in [Workers -> Nat]
    /\ late \in [Workers -> BOOLEAN]
    /\ lostAt \in [Workers -> Nat]
    /\ contested \in BOOLEAN

-----------------------------------------------------------------------------
(* The questions the code asks of the row. *)

Ticking(w) == phase[w] \in {"claimed", "working"}

Age == clock - beatAt

\* Faulty: a row of an earlier engine boot is judged by its age only.
OrphanedByAgeOnly(p) == holder = NoOwner \/ Age > StaleAfter

\* hasOrphanedWorkerLease, asked by the API instance p.
Orphaned(p) ==
    IF holder \in Api THEN holder # p
    ELSE holder = NoOwner \/ Age > StaleAfter

\* The negation of skipCurrentStageWorkerIsLive.
Skippable == holder = NoOwner \/ Age >= StaleAfter

\* runAppearsActiveForReplan.
ActiveForReplan ==
    status = "running" /\ holder # NoOwner /\ Age < ReplanWindow

\* Every failure path updates the row only while it says running.
FailIfRunning == IF status = "running" THEN "failed" ELSE status

\* How the history variables see the lease columns change to `new`.
LeaseBecomes(new) ==
    /\ holder' = new
    /\ lostAt' = [v \in Workers |->
                    IF Ticking(v) /\ home[v] = holder /\ holder # new
                    THEN clock ELSE lostAt[v]]
    /\ contested' = (contested \/ \E v \in Workers : Ticking(v))

\* stop, and the end of a process: the workers of S and their timers are gone.
Gone(S) ==
    /\ phase' = [w \in Workers |-> IF w \in S THEN "gone" ELSE phase[w]]
    /\ fails' = [w \in Workers |-> IF w \in S THEN 0 ELSE fails[w]]
    /\ due' = [w \in Workers |-> IF w \in S THEN 0 ELSE due[w]]
    /\ late' = [w \in Workers |-> IF w \in S THEN FALSE ELSE late[w]]
    /\ lostAt' = [w \in Workers |-> IF w \in S THEN 0 ELSE lostAt[w]]

-----------------------------------------------------------------------------
(* Workers. *)

\* Faulty: the claim leaves worker_heartbeat_at to the first beat.
ClaimWithoutBeat(w) ==
    /\ LeaseBecomes(home[w])
    /\ beatAt' = beatAt
    /\ phase' = [phase EXCEPT ![w] = "claimed"]
    /\ fails' = [fails EXCEPT ![w] = 0]
    /\ due' = [due EXCEPT ![w] = clock + Interval]
    /\ late' = [late EXCEPT ![w] = FALSE]

\* claimWorkerLease and startWorkerLeaseHeartbeat: unconditional on the row.
ClaimAndBeat(w) ==
    /\ LeaseBecomes(home[w])
    /\ beatAt' = clock
    /\ phase' = [phase EXCEPT ![w] = "claimed"]
    /\ fails' = [fails EXCEPT ![w] = 0]
    /\ due' = [due EXCEPT ![w] = clock + Interval]
    /\ late' = [late EXCEPT ![w] = FALSE]

\* prepareRun: the row is inserted as running and leased at once.
Create(w) ==
    /\ phase[w] = "idle" /\ home[w] \in alive
    /\ status = "absent"
    /\ status' = "running"
    /\ ClaimAndBeat(w)
    /\ UNCHANGED <<clock, processVars>>

\* prepareRun when the claim or the heartbeat throws: the row is failed.
CreateFails(w) ==
    /\ phase[w] = "idle" /\ home[w] \in alive
    /\ status = "absent"
    /\ status' = "failed"
    /\ Gone({w})
    /\ UNCHANGED <<clock, holder, beatAt, processVars, contested>>

\* prepareRun with deferWorkerLease: the row waits for admission.
CreateQueued(w) ==
    /\ phase[w] = "idle" /\ home[w] \in alive
    /\ status = "absent"
    /\ status' = "queued"
    /\ UNCHANGED <<clock, holder, beatAt, processVars, phase, timerVars, lostAt, contested>>

\* A resume, or the admitted start of a queued run, takes the lease.
Claim(w) ==
    /\ phase[w] = "idle" /\ home[w] \in alive
    /\ status # "absent"
    /\ ClaimAndBeat(w)
    /\ UNCHANGED <<clock, status, processVars>>

\* run_started, or performResume's update, makes the row running.
Start(w) ==
    /\ phase[w] = "claimed"
    /\ status' = "running"
    /\ phase' = [phase EXCEPT ![w] = "working"]
    /\ UNCHANGED <<clock, holder, beatAt, processVars, timerVars, lostAt, contested>>

\* The workflow ends; run_finished, run_blocked or nothing is written, and
\* the heartbeat stops.
Finish(w) ==
    /\ phase[w] = "working"
    /\ status' \in {"completed", "blocked", "failed"} \cup ({status} \ {"running"})
    /\ Gone({w})
    /\ UNCHANGED <<clock, holder, beatAt, processVars, contested>>

-----------------------------------------------------------------------------
(* The heartbeat's tick. *)

Due(w) == Ticking(w) /\ clock >= due[w]

\* Faulty: the beat's UPDATE does not compare the owner.
BeatAnyOwner(w) ==
    /\ Due(w)
    /\ beatAt' = clock
    /\ fails' = [fails EXCEPT ![w] = 0]
    /\ due' = [due EXCEPT ![w] = clock + Interval]
    /\ late' = [late EXCEPT ![w] = FALSE]
    /\ UNCHANGED <<clock, status, holder, processVars, phase, lostAt, contested>>

BeatRefreshed(w) ==
    /\ Due(w)
    /\ holder = home[w]
    /\ beatAt' = clock
    /\ fails' = [fails EXCEPT ![w] = 0]
    /\ due' = [due EXCEPT ![w] = clock + Interval]
    /\ late' = [late EXCEPT ![w] = FALSE]
    /\ UNCHANGED <<clock, status, holder, processVars, phase, lostAt, contested>>

\* failRecoverably: whoever owns the row, it fails if it says running.
GiveUp(w) ==
    /\ status' = FailIfRunning
    /\ Gone({w})
    /\ UNCHANGED <<clock, holder, beatAt, processVars, contested>>

BeatLost(w) ==
    /\ Due(w)
    /\ holder # home[w]
    /\ GiveUp(w)

BeatThrows(w) ==
    /\ Due(w)
    /\ fails[w] + 1 < FailureLimit
    /\ fails' = [fails EXCEPT ![w] = @ + 1]
    /\ due' = [due EXCEPT ![w] = clock + Interval]
    /\ UNCHANGED <<clock, rowVars, processVars, phase, late, lostAt, contested>>

BeatExhausted(w) ==
    /\ Due(w)
    /\ fails[w] + 1 >= FailureLimit
    /\ GiveUp(w)

\* The beat throws at the limit and marking the row throws too: the timer
\* callback throws, so the heartbeat is neither stopped nor fatal.  The CLI
\* dies of it; the API turns it into requestShutdown, whose own scan of the
\* row is caught when it throws.
Die(p) ==
    /\ alive' = alive \ {p}
    /\ closing' = closing \ {p}
    /\ Gone({w \in Workers : home[w] = p})

BeatUncaught(w) ==
    /\ Due(w)
    /\ fails[w] + 1 >= FailureLimit
    /\ IF home[w] \in Api
       THEN /\ closing' = closing \cup {home[w]}
            /\ fails' = [fails EXCEPT ![w] = FailureLimit]
            /\ due' = [due EXCEPT ![w] = clock + Interval]
            /\ UNCHANGED <<alive, phase, late, lostAt>>
       ELSE Die(home[w])
    /\ UNCHANGED <<clock, rowVars, booted, signalled, contested>>

-----------------------------------------------------------------------------
(* Processes. *)

\* An API engine boots; before it listens, recoverLostWorkerRuns fails a
\* running row whose lease is orphaned.  One engine process at a time.
BootApi(p) ==
    /\ p \in Api \ booted
    /\ alive \cap Api = {}
    /\ alive' = alive \cup {p}
    /\ booted' = booted \cup {p}
    /\ status' = IF Orphaned(p) THEN FailIfRunning ELSE status
    /\ UNCHANGED <<clock, holder, beatAt, closing, signalled, phase, timerVars, lostAt, contested>>

BootCli(p) ==
    /\ p \in Cli \ booted
    /\ alive' = alive \cup {p}
    /\ booted' = booted \cup {p}
    /\ UNCHANGED <<clock, rowVars, closing, signalled, phase, timerVars, lostAt, contested>>

\* requestShutdown and recoverApiRunsForShutdown.  Workers keep running
\* until the process exits.
Shutdown(p) ==
    /\ p \in (alive \cap Api) \ closing
    /\ closing' = closing \cup {p}
    /\ status' = IF holder = p THEN FailIfRunning ELSE status
    /\ UNCHANGED <<clock, holder, beatAt, alive, booted, signalled, phase, timerVars, lostAt, contested>>

\* The end of a graceful shutdown, or a crash at any time.
Crash(p) ==
    /\ p \in alive
    /\ Die(p)
    /\ UNCHANGED <<clock, rowVars, booted, signalled, contested>>

\* prepareRun dies between inserting the row and claiming the lease.
CreateCrash(p) ==
    /\ p \in alive
    /\ status = "absent"
    /\ status' = "running"
    /\ Die(p)
    /\ UNCHANGED <<clock, holder, beatAt, booted, signalled, contested>>

\* SIGINT, SIGTERM or SIGHUP ends a CLI process.  Only a process that called
\* installCliRunDeathHandlers fails the row first, if any CLI leases it.
Signal(p) ==
    /\ p \in alive \cap Cli
    /\ \E w \in Workers : home[w] = p /\ Ticking(w)
    /\ status' = IF p \in Importers /\ holder \in Cli THEN FailIfRunning ELSE status
    /\ signalled' = signalled \cup {p}
    /\ Die(p)
    /\ UNCHANGED <<clock, holder, beatAt, booted, contested>>

\* skipCurrentStageInProcess, run by the API while no worker looks live.
SkipCurrentStage ==
    /\ alive \cap Api # {}
    /\ status \notin {"absent", "completed"}
    /\ Skippable
    /\ status' = "blocked"
    /\ LeaseBecomes(NoOwner)
    /\ UNCHANGED <<clock, beatAt, processVars, phase, timerVars>>

\* Time passes.  A shutdown lasts less than a unit of time.
Tick ==
    /\ clock < MaxClock
    /\ closing = {}
    /\ clock' = clock + 1
    /\ late' = [w \in Workers |-> late[w] \/ (Ticking(w) /\ clock >= due[w])]
    /\ UNCHANGED <<rowVars, processVars, phase, fails, due, lostAt, contested>>

-----------------------------------------------------------------------------
Init ==
    /\ clock = 0
    /\ status = "absent"
    /\ holder = NoOwner
    /\ beatAt = 0
    /\ alive = {} /\ booted = {} /\ closing = {} /\ signalled = {}
    /\ phase = [w \in Workers |-> "idle"]
    /\ fails = [w \in Workers |-> 0]
    /\ due = [w \in Workers |-> 0]
    /\ late = [w \in Workers |-> FALSE]
    /\ lostAt = [w \in Workers |-> 0]
    /\ contested = FALSE

WorkerStep(w) ==
    \/ Create(w) \/ CreateFails(w) \/ CreateQueued(w)
    \/ Claim(w) \/ Start(w) \/ Finish(w)
    \/ BeatRefreshed(w) \/ BeatLost(w) \/ BeatThrows(w)
    \/ BeatExhausted(w) \/ BeatUncaught(w)

ProcessStep(p) ==
    \/ BootApi(p) \/ BootCli(p) \/ Shutdown(p)
    \/ Crash(p) \/ CreateCrash(p) \/ Signal(p)

Next ==
    \/ \E w \in Workers : WorkerStep(w)
    \/ \E p \in Processes : ProcessStep(p)
    \/ SkipCurrentStage
    \/ Tick

Spec == Init /\ [][Next]_vars

-----------------------------------------------------------------------------
(* Properties. *)

Punctual(w) == Ticking(w) /\ ~late[w]

\* A worker whose timers fire on time and whose process holds the lease is
\* never old enough to be judged stale, however its database writes fail:
\* three failed beats make it give up before the 120 seconds are over.
PunctualOwnerFresh ==
    \A w \in Workers :
        Punctual(w) /\ holder = home[w] => Age <= StaleAfter

\* A worker that lost the lease to another process keeps writing for at most
\* the beats that still may fail: the overlap of two workers is bounded.
DisplacedStopsSoon ==
    \A w \in Workers :
        Punctual(w) /\ holder # home[w]
            => clock - lostAt[w] <= (fails[w] + 1) * Interval

\* While an API engine is up, a running row leased by an API engine has a
\* live worker of that engine, unless the lease was taken from a worker
\* that was still ticking: no other sequence of crashes, restarts,
\* shutdowns and failed beats leaves the row running for nobody.
ApiRunHasWorker ==
    ~contested /\ status = "running" /\ holder \in Api /\ alive \cap Api # {}
        => \E w \in Workers : Ticking(w) /\ home[w] = holder

\* The startup scan never fails a row that a punctual worker owns.
BootSparesPunctual ==
    [][\A p \in Api :
         p \notin alive /\ p \in alive' /\ status' # status
            => \A w \in Workers : Punctual(w) => holder # home[w]]_vars

\* A CLI worker that is ended by a signal leaves no row running in its name:
\* its death handlers fail the row on the way out.
SignalledRunFailed ==
    ~contested /\ status = "running" => holder \notin signalled

\* The replan route refuses a run whose worker beats on time: only a worker
\* whose last write failed can be old enough to be taken for inactive.
ReplanRefusedWhileBeating ==
    \A w \in Workers :
        (/\ status = "running" /\ holder = home[w]
         /\ phase[w] = "working" /\ ~late[w] /\ fails[w] = 0)
            => ActiveForReplan
=============================================================================

-------------------------- MODULE WorkerAdmission --------------------------
(***************************************************************************)
(* core/workerAdmission.ts and its callers in core/runService.ts: how many *)
(* workflows may run, and who waits for a slot.                            *)
(*                                                                         *)
(* A request is one call of a prepareForeground...Run function with the    *)
(* start() it returns: a fresh request creates its run, a resume request   *)
(* revives one.  Every process has an admission controller of its own over *)
(* the shared runs table; the code between two awaits of a process is one  *)
(* step.                                                                   *)
(***************************************************************************)
EXTENDS Integers, FiniteSets

CONSTANTS
    Processes,  \* engine and CLI processes
    Api,        \* the processes that come back after they die
    Requests,
    Fresh,      \* the requests that create their run
    Runs,
    proc,       \* the process of a request
    run,        \* the run of a request
    Cap         \* effectiveWorkerCap

None == "none"

ASSUME RequestAssumption ==
    /\ IsFiniteSet(Requests) /\ IsFiniteSet(Runs)
    /\ Api \subseteq Processes
    /\ Fresh \subseteq Requests
    /\ proc \in [Requests -> Processes]
    /\ run \in [Requests -> Runs]
    /\ \A q1, q2 \in Fresh : run[q1] = run[q2] => q1 = q2
    /\ None \notin Requests \cup Processes

ASSUME CapAssumption == Cap \in Nat \ {0}

VARIABLES
    status,     \* runs.status, "absent" before the row exists
    recovery,   \* runs.recovery_status is set
    born,       \* runs.created_at, as a rank
    lessee,     \* the process in the run's lease columns
    pc,         \* per request, see PCs
    pending,    \* per process: Map from runs to deferred starts
    launching,  \* per process: Set of runs
    inflight    \* per process: inflightResumes

rowVars == <<status, recovery, born, lessee>>
controllerVars == <<pending, launching, inflight>>
vars == <<rowVars, pc, controllerVars>>

Statuses == {"absent", "queued", "running", "blocked", "failed", "completed"}

PCs == {"idle",
        "ready",      \* a resume whose readiness was read
        "admitted",   \* prepared with a slot, start() not yet called
        "deferred",   \* prepared without a slot, start() not yet called
        "pending",    \* its start waits in the pending map
        "setup",      \* launched, the row does not yet say running
        "body",       \* the workflow runs
        "refused",    \* start() threw before the workflow ran
        "unwinding",  \* the workflow has written its outcome, not returned
        "done",
        "abandoned",  \* prepared, then dropped by a failed seed
        "lost"}       \* its process restarted

Rows == {r \in Runs : status[r] # "absent"}

TypeOK ==
    /\ status \in [Runs -> Statuses]
    /\ recovery \in [Runs -> BOOLEAN]
    /\ born \in [Runs -> Nat]
    /\ lessee \in [Runs -> Processes \cup {None}]
    /\ pc \in [Requests -> PCs]
    /\ pending \in [Processes -> [Runs -> Requests \cup {None}]]
    /\ launching \in [Processes -> SUBSET Runs]
    /\ inflight \in [Processes -> SUBSET Runs]

-----------------------------------------------------------------------------
(* Capacity. *)

Running == {r \in Runs : status[r] = "running"}

\* Faulty: a launch is not counted before its row says running.
ReservedNothing(p) == {}

\* pendingLaunchReservations.  A resumed row still says blocked or failed
\* while it is launched, and is not counted.
Reserved(p) ==
    {r \in launching[p] :
        status[r] \notin {"running", "completed", "failed", "blocked"}}

HasCapacity(p) == Cardinality(Running) + Cardinality(Reserved(p)) < Cap

-----------------------------------------------------------------------------
(* Preparing a request. *)

\* prepareForegroundIdeaRun, prepareForegroundItemRun and
\* prepareForegroundPreparedImportRun: with a slot free the row is created
\* running and leased, else queued and not leased.
AdmitFresh(q) ==
    LET p == proc[q]  r == run[q] IN
    /\ q \in Fresh /\ pc[q] = "idle"
    /\ status[r] = "absent" /\ HasCapacity(p)
    /\ born' = [born EXCEPT ![r] = Cardinality(Rows) + 1]
    /\ status' = [status EXCEPT ![r] = "running"]
    /\ lessee' = [lessee EXCEPT ![r] = p]
    /\ pc' = [pc EXCEPT ![q] = "admitted"]
    /\ UNCHANGED <<recovery, controllerVars>>

QueueFresh(q) ==
    LET p == proc[q]  r == run[q] IN
    /\ q \in Fresh /\ pc[q] = "idle"
    /\ status[r] = "absent" /\ ~HasCapacity(p)
    /\ born' = [born EXCEPT ![r] = Cardinality(Rows) + 1]
    /\ status' = [status EXCEPT ![r] = "queued"]
    /\ pc' = [pc EXCEPT ![q] = "deferred"]
    /\ UNCHANGED <<recovery, lessee, controllerVars>>

\* prepareRun throws because the lease cannot be claimed: the row is failed.
PrepareFreshFails(q) ==
    LET r == run[q] IN
    /\ q \in Fresh /\ pc[q] = "idle"
    /\ status[r] = "absent" /\ HasCapacity(proc[q])
    /\ born' = [born EXCEPT ![r] = Cardinality(Rows) + 1]
    /\ status' = [status EXCEPT ![r] = "failed"]
    /\ recovery' = [recovery EXCEPT ![r] = TRUE]
    /\ pc' = [pc EXCEPT ![q] = "done"]
    /\ UNCHANGED <<lessee, controllerVars>>

\* The artifacts of earlier stages cannot be seeded: prepare returns
\* seed_failed and leaves the row, its lease and its heartbeat behind.
SeedFails(q) ==
    /\ q \in Fresh /\ pc[q] \in {"admitted", "deferred"}
    /\ pc' = [pc EXCEPT ![q] = "abandoned"]
    /\ UNCHANGED <<rowVars, controllerVars>>

\* loadResumeReadiness; whatever the row's status is.
Readiness(p, r) == recovery[r] /\ r \notin inflight[p]

ReadResume(q) ==
    /\ q \notin Fresh /\ pc[q] = "idle"
    /\ Readiness(proc[q], run[q])
    /\ pc' = [pc EXCEPT ![q] = "ready"]
    /\ UNCHANGED <<rowVars, controllerVars>>

\* The rest of prepareForegroundResumeRun, after its await.
AdmitResume(q) ==
    /\ q \notin Fresh /\ pc[q] = "ready" /\ HasCapacity(proc[q])
    /\ pc' = [pc EXCEPT ![q] = "admitted"]
    /\ UNCHANGED <<rowVars, controllerVars>>

QueueResume(q) ==
    /\ q \notin Fresh /\ pc[q] = "ready" /\ ~HasCapacity(proc[q])
    /\ status' = [status EXCEPT ![run[q]] = "queued"]
    /\ pc' = [pc EXCEPT ![q] = "deferred"]
    /\ UNCHANGED <<recovery, born, lessee, controllerVars>>

-----------------------------------------------------------------------------
(* The controller. *)

\* start() of an admitted request: runAdmitted, launch.
Launch(q) ==
    /\ pc[q] = "admitted"
    /\ pc' = [pc EXCEPT ![q] = "setup"]
    /\ launching' = [launching EXCEPT ![proc[q]] = @ \cup {run[q]}]
    /\ UNCHANGED <<rowVars, pending, inflight>>

\* start() of a deferred request: enqueue.  A Map keeps one start per run.
Enqueue(q) ==
    /\ pc[q] = "deferred"
    /\ pc' = [pc EXCEPT ![q] = "pending"]
    /\ pending' = [pending EXCEPT ![proc[q]][run[q]] = q]
    /\ UNCHANGED <<rowVars, launching, inflight>>

Waiting(p) ==
    {r \in Runs : status[r] = "queued" /\ pending[p][r] # None /\ r \notin launching[p]}

\* Faulty: the loop breaks at a queued run that has no start.
DrainStopsAtStartless(p) ==
    \E r \in Waiting(p) :
        /\ HasCapacity(p)
        /\ \A other \in Runs : status[other] = "queued" => born[r] <= born[other]
        /\ launching' = [launching EXCEPT ![p] = @ \cup {r}]
        /\ pc' = [pc EXCEPT ![pending[p][r]] = "setup"]
        /\ UNCHANGED <<rowVars, pending, inflight>>

\* One turn of drain's loop: the oldest queued run that has a start here.
Drain(p) ==
    \E r \in Waiting(p) :
        /\ HasCapacity(p)
        /\ \A other \in Waiting(p) : born[r] <= born[other]
        /\ launching' = [launching EXCEPT ![p] = @ \cup {r}]
        /\ pc' = [pc EXCEPT ![pending[p][r]] = "setup"]
        /\ UNCHANGED <<rowVars, pending, inflight>>

\* Faulty: the end of a launch empties the pending map.
LeaveClearsPending(q) ==
    LET p == proc[q]  r == run[q] IN
    /\ pc[q] \in {"refused", "unwinding"}
    /\ pc' = [pc EXCEPT ![q] = "done"]
    /\ launching' = [launching EXCEPT ![p] = @ \ {r}]
    /\ pending' = [pending EXCEPT ![p] = [x \in Runs |-> None]]
    /\ inflight' = IF q \notin Fresh /\ pc[q] = "unwinding"
                   THEN [inflight EXCEPT ![p] = @ \ {r}] ELSE inflight
    /\ UNCHANGED rowVars

\* The finally of launch, and of performResume once it has registered.
Leave(q) ==
    LET p == proc[q]  r == run[q] IN
    /\ pc[q] \in {"refused", "unwinding"}
    /\ pc' = [pc EXCEPT ![q] = "done"]
    /\ launching' = [launching EXCEPT ![p] = @ \ {r}]
    /\ pending' = [pending EXCEPT ![p][r] = None]
    /\ inflight' = IF q \notin Fresh /\ pc[q] = "unwinding"
                   THEN [inflight EXCEPT ![p] = @ \ {r}] ELSE inflight
    /\ UNCHANGED rowVars

-----------------------------------------------------------------------------
(* The run itself. *)

\* start of prepareRun: the lease is claimed, run_started is emitted.
BeginFresh(q) ==
    LET r == run[q] IN
    /\ q \in Fresh /\ pc[q] = "setup"
    /\ status' = [status EXCEPT ![r] = "running"]
    /\ lessee' = [lessee EXCEPT ![r] = proc[q]]
    /\ pc' = [pc EXCEPT ![q] = "body"]
    /\ UNCHANGED <<recovery, born, controllerVars>>

\* The claim throws while the row is not yet leased by this start.
BeginFreshFails(q) ==
    LET r == run[q] IN
    /\ q \in Fresh /\ pc[q] = "setup" /\ status[r] = "queued"
    /\ status' = [status EXCEPT ![r] = "failed"]
    /\ recovery' = [recovery EXCEPT ![r] = TRUE]
    /\ pc' = [pc EXCEPT ![q] = "refused"]
    /\ UNCHANGED <<born, lessee, controllerVars>>

\* The heartbeat of a prepared run gives up before its workflow starts: the
\* row is failed if it says running, and start() throws.
FatalBeat(q) ==
    LET r == run[q] IN
    /\ q \in Fresh
    /\ pc[q] = "setup" \/ (pc[q] = "abandoned" /\ status[r] = "running")
    /\ status' = [status EXCEPT ![r] = IF @ = "running" THEN "failed" ELSE @]
    /\ recovery' = IF status[r] = "running" THEN [recovery EXCEPT ![r] = TRUE] ELSE recovery
    /\ pc' = [pc EXCEPT ![q] = IF @ = "setup" THEN "refused" ELSE @]
    /\ UNCHANGED <<born, lessee, controllerVars>>

\* performResume: registered as in flight, leased, cleared of its recovery.
BeginResume(q) ==
    LET p == proc[q]  r == run[q] IN
    /\ q \notin Fresh /\ pc[q] = "setup"
    /\ Readiness(p, r)
    /\ inflight' = [inflight EXCEPT ![p] = @ \cup {r}]
    /\ status' = [status EXCEPT ![r] = "running"]
    /\ recovery' = [recovery EXCEPT ![r] = FALSE]
    /\ lessee' = [lessee EXCEPT ![r] = p]
    /\ pc' = [pc EXCEPT ![q] = "body"]
    /\ UNCHANGED <<born, pending, launching>>

\* performResume throws: not ready any more, an invalid checkpoint, a failed
\* claim.  The row is left as it is.
BeginResumeFails(q) ==
    /\ q \notin Fresh /\ pc[q] = "setup"
    /\ pc' = [pc EXCEPT ![q] = "refused"]
    /\ UNCHANGED <<rowVars, controllerVars>>

\* run_finished, run_blocked, run_failed or a fatal heartbeat.
End(q) ==
    LET r == run[q] IN
    /\ pc[q] = "body"
    /\ \E outcome \in {"completed", "blocked", "failed"}, recoverable \in BOOLEAN :
        /\ outcome = "completed" => ~recoverable
        /\ outcome = "blocked" => recoverable
        /\ status' = [status EXCEPT ![r] = outcome]
        /\ recovery' = [recovery EXCEPT ![r] = recoverable]
    /\ pc' = [pc EXCEPT ![q] = "unwinding"]
    /\ UNCHANGED <<born, lessee, controllerVars>>

\* An API engine dies and boots again: its requests and its controller are
\* gone, its running rows are failed by the startup scan, queued rows stay.
Restart(p) ==
    /\ p \in Api
    /\ \E q \in Requests : proc[q] = p /\ pc[q] \notin {"idle", "done", "lost"}
    /\ LET orphans == {r \in Running : lessee[r] = p} IN
       /\ status' = [r \in Runs |-> IF r \in orphans THEN "failed" ELSE status[r]]
       /\ recovery' = [r \in Runs |-> r \in orphans \/ recovery[r]]
    /\ pc' = [q \in Requests |->
                IF proc[q] = p /\ pc[q] \notin {"idle", "done"} THEN "lost" ELSE pc[q]]
    /\ pending' = [pending EXCEPT ![p] = [r \in Runs |-> None]]
    /\ launching' = [launching EXCEPT ![p] = {}]
    /\ inflight' = [inflight EXCEPT ![p] = {}]
    /\ UNCHANGED <<born, lessee>>

-----------------------------------------------------------------------------
\* The runs of the fresh requests do not exist yet; the others failed earlier.
Init ==
    LET new == {run[q] : q \in Fresh} IN
    /\ status = [r \in Runs |-> IF r \in new THEN "absent" ELSE "failed"]
    /\ recovery = [r \in Runs |-> r \notin new]
    /\ born = [r \in Runs |-> 0]
    /\ lessee = [r \in Runs |-> None]
    /\ pc = [q \in Requests |-> "idle"]
    /\ pending = [p \in Processes |-> [r \in Runs |-> None]]
    /\ launching = [p \in Processes |-> {}]
    /\ inflight = [p \in Processes |-> {}]

\* What a started request does without anybody asking again.
Progress(q) ==
    \/ Launch(q) \/ Enqueue(q) \/ Leave(q)
    \/ BeginFresh(q) \/ BeginFreshFails(q)
    \/ BeginResume(q) \/ BeginResumeFails(q)
    \/ End(q)

Next ==
    \/ \E q \in Requests :
        \/ AdmitFresh(q) \/ QueueFresh(q) \/ PrepareFreshFails(q)
        \/ SeedFails(q) \/ FatalBeat(q)
        \/ ReadResume(q) \/ AdmitResume(q) \/ QueueResume(q)
        \/ Progress(q)
    \/ \E p \in Processes : Drain(p) \/ Restart(p)

Spec == Init /\ [][Next]_vars

\* Promises settle, the one second reconciliation interval keeps firing, and
\* every workflow ends: those that wait for an operator are answered.
FairSpec ==
    /\ Spec
    /\ \A q \in Requests : WF_vars(Progress(q))
    /\ \A p \in Processes : WF_vars(Drain(p))

-----------------------------------------------------------------------------
(* Properties. *)

\* The runs a process has started afresh and that are not over.
FreshStarted(p) ==
    {r \in Runs : \E q \in Fresh :
        /\ proc[q] = p /\ run[q] = r
        /\ pc[q] \in {"admitted", "setup", "body"}}

\* However fresh starts, resumes, refused starts and freed slots interleave,
\* a process never has more fresh runs under way than the worker cap.
FreshWithinCap ==
    \A p \in Processes : Cardinality(FreshStarted(p)) <= Cap

\* A run that waits for a slot keeps its start: no resume, failed start or
\* finished launch of another run takes it out of the pending map.
FreshKeepsItsStart ==
    \A q \in Fresh : pc[q] = "pending" =>
        /\ status[run[q]] = "queued"
        /\ pending[proc[q]][run[q]] = q
        /\ run[q] \notin launching[proc[q]]

\* A row that nobody will ever move again although it says running.
Stuck(r) ==
    /\ status[r] = "running"
    /\ \A q \in Requests : run[q] = r => pc[q] \notin {"admitted", "setup", "body"}

\* A queued fresh run is started once slots become free; only a restart, or
\* a slot held by an abandoned row, keeps it from that.
FreshStarts ==
    \A q \in Fresh :
        (pc[q] = "pending") ~> (pc[q] # "pending" \/ \E r \in Runs : Stuck(r))
=============================================================================

----------------------------- MODULE UpdateMode -----------------------------
(***************************************************************************)
(* core/updateMode, api/routes/update.ts, bin/update-switcher.js and       *)
(* core/managedInstall: an operation stages a release under update.lock    *)
(* and hands it to a detached switcher, which stops the engine, moves the  *)
(* pointer install/current, starts the engine again and judges it.         *)
(*                                                                         *)
(* The engine, each command line and each switcher are processes that      *)
(* share the lock file, the pid file, the pointer, the table               *)
(* update_attempts and the port; every statement on one of them is a step. *)
(***************************************************************************)
EXTENDS Integers, FiniteSets

CONSTANTS
    Ops,         \* operations; an operation stages the release of its name
    Plans,       \* the kinds of the operations, see PlanAssumption
    MaxFaults    \* bound: crashes, locks that grow old, engines that a user
                 \* starts or stops

NoRelease == "none"   \* there is no install/current
Previous == "previous"   \* the release installed before every operation
Checkout == "checkout"   \* an engine that runs from a checkout
NoLock == [op |-> "nobody", by |-> "parent", aged |-> FALSE]

\* POST /update/apply without and with the one Idempotency-Key, and the commands
\* "update", "update --dry-run" and "install".
ASSUME PlanAssumption == Plans \subseteq [Ops -> {"api", "keyed", "cli", "dry", "install"}]
ASSUME NameAssumption == Ops \cap {NoRelease, Previous, Checkout, "nobody"} = {}
ASSUME BoundAssumption ==
    MaxFaults \in Nat /\ IsFiniteSet(Ops)

\* The first engine, those of the users and two of each switcher.
Engines == 1..(1 + MaxFaults + 2 * Cardinality(Ops))
Releases == Ops \cup {Previous}

VARIABLES
    kind,     \* of an operation
    pc,       \* of an operation, in the process that serves it
    host,     \* the engine that serves an API operation
    lock,     \* update.lock: operationId, whose pid it holds, two hours old
    attempt,  \* update_attempts.status
    sw,       \* the switcher of an operation
    prev,     \* its previousCurrent
    current,  \* install/current
    proc,     \* a process of the engine
    runs,     \* the release a process of the engine was started from
    pidFile,  \* engine.pid, 0 while there is none
    stolen,   \* history: a lock was taken from a live process
    faults    \* bound

opVars == <<kind, pc, host>>
rowVars == <<attempt>>
swVars == <<sw, prev>>
engineVars == <<proc, runs, pidFile>>
vars == <<opVars, lock, rowVars, swVars, current, engineVars, stolen, faults>>

TypeOK ==
    /\ kind \in Plans
    /\ pc \in [Ops -> {"idle", "checked", "reclaim", "rewrite", "locked", "prepared",
                       "left", "ended"}]
    /\ host \in [Ops -> Engines \cup {0}]
    /\ lock \in [op : Ops, by : {"parent", "switcher"}, aged : BOOLEAN] \cup {NoLock}
    /\ attempt \in [Ops -> {"none", "queued", "in-flight", "succeeded", "failed-rolled-back",
                            "failed-no-rollback", "aborted-dry-run"}]
    /\ sw \in [Ops -> {"none", "start", "claim", "stop", "backup", "health", "verify",
                       "rollback", "rollbackHealth", "release", "ended"}]
    /\ prev \in [Ops -> Releases \cup {NoRelease}]
    /\ current \in Releases \cup {NoRelease}
    /\ proc \in [Engines -> {"unborn", "starting", "up", "closing", "dead"}]
    /\ runs \in [Engines -> Releases \cup {Checkout}]
    /\ pidFile \in Engines \cup {0}
    /\ stolen \in BOOLEAN
    /\ faults \in 0..MaxFaults

-----------------------------------------------------------------------------
(* Processes. *)

EngineAlive(i) == proc[i] \in {"starting", "up", "closing"}
Serving(v) == \E i \in Engines : proc[i] = "up" /\ runs[i] = v   \* answers on the port
SomeoneServes == \E i \in Engines : proc[i] = "up"

IsApi(o) == kind[o] \in {"api", "keyed"}
IsApply(o) == IsApi(o) \/ kind[o] = "cli"

ParentAlive(o) ==
    IF IsApi(o)
    THEN host[o] \in Engines /\ EngineAlive(host[o])
    ELSE pc[o] \in {"checked", "reclaim", "rewrite", "locked", "prepared"}

SwitcherAlive(o) == sw[o] \notin {"none", "ended"}

HolderAlive == IF lock.by = "switcher" THEN SwitcherAlive(lock.op) ELSE ParentAlive(lock.op)

\* lock.ts:43: the pid is gone, or the lock is more than two hours old.
Stale == lock.aged \/ ~HolderAlive

Spawn(v) ==
    \E i \in Engines :
        /\ proc[i] = "unborn" /\ \A j \in 1..(i - 1) : proc[j] # "unborn"
        /\ proc' = [proc EXCEPT ![i] = "starting"]
        /\ runs' = [runs EXCEPT ![i] = v]

Fault == faults < MaxFaults /\ faults' = faults + 1

-----------------------------------------------------------------------------
(* The lock. *)

Remove == lock' = NoLock /\ stolen' = (stolen \/ (lock # NoLock /\ HolderAlive))

Held(o) == [op |-> o, by |-> "parent", aged |-> FALSE]

\* releaseUpdateLock and releaseLock: only the lock of the operation.
Released(o) == IF lock.op = o THEN NoLock ELSE lock

-----------------------------------------------------------------------------
(* An operation, until the switcher takes over. *)

Step(o, from) == pc[o] = from /\ ParentAlive(o)

GoesTo(o, to) == pc' = [pc EXCEPT ![o] = to]

Records(o, s) == attempt' = [attempt EXCEPT ![o] = s]

\* Faulty: two rows may have one key.
KeyIsAlwaysFree(o) == TRUE

\* update_attempts_idempotency_key_idx
KeyIsFree(o) ==
    kind[o] = "keyed" => \A p \in Ops : kind[p] = "keyed" => attempt[p] = "none"

\* handleUpdateApply: the row of the key answers for it.
Replayed(o) ==
    /\ kind[o] = "keyed"
    /\ \E p \in Ops : kind[p] = "keyed" /\ attempt[p] \in {"queued", "in-flight"}

\* assertUpdateSafety; that the engine is idle is left out, it only refuses more.
Safe == lock = NoLock \/ Stale

\* maybeSubmitRemoteUpdateApply: a managed engine that answers is asked to do it.
Remote == current # NoRelease /\ pidFile # 0 /\ SomeoneServes

\* An operation looks around before it looks the release up, and acts after.
Begin(o) ==
    /\ pc[o] = "idle"
    /\ \/ /\ IsApi(o)
          /\ \E i \in Engines : proc[i] = "up" /\ host' = [host EXCEPT ![o] = i]
          /\ GoesTo(o, IF Safe /\ ~Replayed(o) THEN "checked" ELSE "ended")
       \/ /\ kind[o] = "cli" /\ ~Remote
          /\ GoesTo(o, IF Safe THEN "checked" ELSE "ended")
          /\ UNCHANGED host
       \/ /\ kind[o] = "dry"
          /\ GoesTo(o, IF Safe THEN "checked" ELSE "ended")
          /\ UNCHANGED host
       \/ /\ kind[o] = "install"   \* a release without its wrapper is installed anew
          /\ GoesTo(o, "checked") \/ (current # NoRelease /\ GoesTo(o, "ended"))
          /\ UNCHANGED host
    /\ UNCHANGED <<kind, lock, rowVars, swVars, current, engineVars, stolen, faults>>

\* The first write of acquireUpdateLock; it fails on a file that exists.
Acquire(o) ==
    /\ Step(o, "checked")
    /\ IF lock = NoLock
       THEN lock' = Held(o) /\ GoesTo(o, "locked")
       ELSE lock' = lock /\ GoesTo(o, IF Stale THEN "reclaim" ELSE "ended")
    /\ UNCHANGED <<kind, host, rowVars, swVars, current, engineVars, stolen, faults>>

\* It unlinks the file there is, which need not be the one it judged.
Reclaim(o) ==
    /\ Step(o, "reclaim")
    /\ Remove
    /\ GoesTo(o, "rewrite")
    /\ UNCHANGED <<kind, host, rowVars, swVars, current, engineVars, faults>>

Rewrite(o) ==
    /\ Step(o, "rewrite")
    /\ IF lock = NoLock
       THEN lock' = Held(o) /\ GoesTo(o, "locked")
       ELSE lock' = lock /\ GoesTo(o, "ended")
    /\ UNCHANGED <<kind, host, rowVars, swVars, current, engineVars, stolen, faults>>

\* prepareUpdateApply: the release is staged, the switcher written, the row saved.
Prepare(o) ==
    /\ Step(o, "locked") /\ IsApply(o)
    /\ KeyIsFree(o)
    /\ Records(o, "queued")
    /\ GoesTo(o, "prepared")
    /\ UNCHANGED <<kind, host, lock, swVars, current, engineVars, stolen, faults>>

\* Faulty: the lock is not released.
PrepareFailsHolding(o) ==
    /\ Step(o, "locked") /\ IsApply(o)
    /\ IF KeyIsFree(o) THEN Records(o, "failed-no-rollback") ELSE UNCHANGED attempt
    /\ GoesTo(o, "ended")
    /\ UNCHANGED <<kind, host, lock, swVars, current, engineVars, stolen, faults>>

\* Its catch; a key that has a row makes the row of the failure fail as well.
PrepareFails(o) ==
    /\ Step(o, "locked") /\ IsApply(o)
    /\ lock' = Released(o)
    /\ IF KeyIsFree(o) THEN Records(o, "failed-no-rollback") ELSE UNCHANGED attempt
    /\ GoesTo(o, "ended")
    /\ UNCHANGED <<kind, host, swVars, current, engineVars, stolen, faults>>

EndDryRun(o) ==
    /\ Step(o, "locked") /\ kind[o] = "dry"
    /\ lock' = Released(o)
    /\ Records(o, "aborted-dry-run")
    /\ GoesTo(o, "ended")
    /\ UNCHANGED <<kind, host, swVars, current, engineVars, stolen, faults>>

\* runManagedInstallReleaseWorkflow: the release is activated under the lock.
Activate(o) ==
    /\ Step(o, "locked") /\ kind[o] = "install"
    /\ current' = o
    /\ GoesTo(o, "prepared")
    /\ UNCHANGED <<kind, host, lock, rowVars, swVars, engineVars, stolen, faults>>

\* Its finally, which a failed download reaches as well.
EndInstall(o) ==
    /\ (Step(o, "locked") \/ Step(o, "prepared"))
    /\ kind[o] = "install"
    /\ lock' = Released(o)
    /\ GoesTo(o, "ended")
    /\ UNCHANGED <<kind, host, rowVars, swVars, current, engineVars, stolen, faults>>

\* Nothing to switch: the attempt stays queued. A command line ends, and its
\* lock is stale; an engine goes on, and its lock is held.
Leave(o) ==
    /\ Step(o, "prepared")
    /\ \/ IsApi(o) /\ current = NoRelease /\ GoesTo(o, "left")
       \/ kind[o] = "cli" /\ (current = NoRelease \/ pidFile # 0) /\ GoesTo(o, "ended")
    /\ UNCHANGED <<kind, host, lock, rowVars, swVars, current, engineVars, stolen, faults>>

\* markPreparedUpdateInFlight, the spawn, and requestShutdown of the engine.
HandOff(o) ==
    /\ Step(o, "prepared") /\ IsApply(o)
    /\ current # NoRelease
    /\ attempt[o] = "queued"
    /\ Records(o, "in-flight")
    /\ sw' = [sw EXCEPT ![o] = "start"]
    /\ GoesTo(o, "ended")
    /\ IF IsApi(o)
       THEN proc' = [proc EXCEPT ![host[o]] = "closing"]
       ELSE pidFile = 0 /\ UNCHANGED proc
    /\ UNCHANGED <<kind, host, lock, prev, current, runs, pidFile, stolen, faults>>

\* The catch of executePreparedApply: the prepared switcher is gone.
HandOffFails(o) ==
    /\ Step(o, "prepared") /\ IsApi(o)
    /\ lock' = Released(o)
    /\ Records(o, "failed-no-rollback")
    /\ GoesTo(o, "ended")
    /\ UNCHANGED <<kind, host, swVars, current, engineVars, stolen, faults>>

-----------------------------------------------------------------------------
(* The switcher. *)

Switches(o, from) == sw[o] = from

SwitchTo(o, to) == sw' = [sw EXCEPT ![o] = to]

\* verifyAndClaimLock reads the lock twice and then writes it.
VerifyLock(o) ==
    /\ Switches(o, "start")
    /\ SwitchTo(o, IF lock.op = o THEN "claim" ELSE "release")
    /\ UNCHANGED <<opVars, lock, rowVars, prev, current, engineVars, stolen, faults>>

\* Faulty: the pid of the parent stays.
ClaimedAlready(o) == [op |-> o, by |-> "parent", aged |-> lock.op = o /\ lock.aged]

Claimed(o) == [op |-> o, by |-> "switcher", aged |-> lock.op = o /\ lock.aged]

\* It writes what it read, over whatever lock there is now.
ClaimLock(o) ==
    /\ Switches(o, "claim")
    /\ lock' = Claimed(o)
    /\ stolen' = (stolen \/ (lock.op # o /\ lock # NoLock /\ HolderAlive))
    /\ SwitchTo(o, "stop")
    /\ UNCHANGED <<opVars, rowVars, prev, current, engineVars, faults>>

\* waitForShutdown: the process of the pid file ends, or is killed.
StopEngine(o) ==
    /\ Switches(o, "stop")
    /\ IF pidFile = 0 THEN UNCHANGED <<proc, pidFile>>
       ELSE /\ proc' = [proc EXCEPT ![pidFile] = "dead"]
            /\ pidFile' \in {pidFile, 0}   \* SIGKILL leaves the file
    /\ SwitchTo(o, "backup")
    /\ UNCHANGED <<opVars, lock, rowVars, prev, current, runs, stolen, faults>>

\* A backup that fails, or a database below its level: main's catch, which
\* leaves the attempt and the engine as they are.
SwitcherFails(o) ==
    /\ (Switches(o, "backup") \/ Switches(o, "verify"))
    /\ SwitchTo(o, "release")
    /\ UNCHANGED <<opVars, lock, rowVars, prev, current, engineVars, stolen, faults>>

\* installPreparedRelease, after the backup.
Swap(o) ==
    /\ Switches(o, "backup")
    /\ prev' = [prev EXCEPT ![o] = current]
    /\ current' = o
    /\ Spawn(o)
    /\ SwitchTo(o, "health")
    /\ UNCHANGED <<opVars, lock, rowVars, pidFile, stolen, faults>>

\* waitForHealth asks the port.
Healthy(o) ==
    /\ Switches(o, "health")
    /\ SomeoneServes
    /\ SwitchTo(o, "verify")
    /\ UNCHANGED <<opVars, lock, rowVars, prev, current, engineVars, stolen, faults>>

\* It gives up after 30 seconds, on an engine that starts slowly as well.
Unhealthy(o) ==
    /\ Switches(o, "health")
    /\ SwitchTo(o, "rollback")
    /\ UNCHANGED <<opVars, lock, rowVars, prev, current, engineVars, stolen, faults>>

\* validateRestartedUpdateStatus: the target version answers, and is ready.
Valid(o) == Serving(o)

Succeed(o) ==
    /\ Switches(o, "verify")
    /\ Valid(o)
    /\ Records(o, "succeeded")
    /\ SwitchTo(o, "release")
    /\ UNCHANGED <<opVars, lock, prev, current, engineVars, stolen, faults>>

\* The status is not fetched, is of another version, or is not ready.
Reject(o) ==
    /\ Switches(o, "verify")
    /\ SwitchTo(o, "rollback")
    /\ UNCHANGED <<opVars, lock, rowVars, prev, current, engineVars, stolen, faults>>

\* Faulty: the pointer stays.
RollBackInPlace(o) ==
    /\ Switches(o, "rollback")
    /\ Spawn(prev[o])
    /\ SwitchTo(o, "rollbackHealth")
    /\ UNCHANGED <<opVars, lock, rowVars, prev, current, pidFile, stolen, faults>>

\* rollbackManagedInstall: the pointer goes back and that release is started;
\* the engine that was started before is not stopped.
RollBack(o) ==
    /\ Switches(o, "rollback")
    /\ current' = prev[o]
    /\ Spawn(prev[o])
    /\ SwitchTo(o, "rollbackHealth")
    /\ UNCHANGED <<opVars, lock, rowVars, prev, pidFile, stolen, faults>>

\* The second waitForHealth, and what rollbackOrFailUpdate records of it.
Settle(o) ==
    /\ Switches(o, "rollbackHealth")
    /\ \/ SomeoneServes /\ Records(o, "failed-rolled-back")
       \/ Records(o, "failed-no-rollback")
    /\ SwitchTo(o, "release")
    /\ UNCHANGED <<opVars, lock, prev, current, engineVars, stolen, faults>>

ReleaseLock(o) ==
    /\ Switches(o, "release")
    /\ lock' = Released(o)
    /\ SwitchTo(o, "ended")
    /\ UNCHANGED <<opVars, rowVars, prev, current, engineVars, stolen, faults>>

-----------------------------------------------------------------------------
(* The engine. *)

\* server.ts: a process that finds the port taken exits.
Listen(i) ==
    /\ proc[i] = "starting"
    /\ IF SomeoneServes
       THEN proc' = [proc EXCEPT ![i] = "dead"] /\ UNCHANGED pidFile
       ELSE proc' = [proc EXCEPT ![i] = "up"] /\ pidFile' = i
    /\ UNCHANGED <<opVars, lock, rowVars, swVars, current, runs, stolen, faults>>

\* A new release may fail to boot; the one before it did boot.
BootFails(i) ==
    /\ proc[i] = "starting" /\ runs[i] \in Ops
    /\ proc' = [proc EXCEPT ![i] = "dead"]
    /\ UNCHANGED <<opVars, lock, rowVars, swVars, current, runs, pidFile, stolen, faults>>

\* The end of requestShutdown removes the pid file, whoever wrote it.
Exit(i) ==
    /\ proc[i] = "closing"
    /\ proc' = [proc EXCEPT ![i] = "dead"]
    /\ pidFile' = 0
    /\ UNCHANGED <<opVars, lock, rowVars, swVars, current, runs, stolen, faults>>

\* handleUpdateShutdown, for whoever names the operation of the lock.
Shutdown(i) ==
    /\ Fault
    /\ proc[i] = "up" /\ lock # NoLock
    /\ proc' = [proc EXCEPT ![i] = "closing"]
    /\ UNCHANGED <<opVars, lock, rowVars, swVars, current, runs, pidFile, stolen>>

\* "beerengineer start" of a user, at any time.
UserStarts ==
    /\ Fault
    /\ Spawn(IF current = NoRelease THEN Checkout ELSE current)
    /\ UNCHANGED <<opVars, lock, rowVars, swVars, current, pidFile, stolen>>

-----------------------------------------------------------------------------
(* Faults. *)

Age ==
    /\ Fault
    /\ lock # NoLock /\ ~lock.aged
    /\ lock' = [lock EXCEPT !.aged = TRUE]
    /\ UNCHANGED <<opVars, rowVars, swVars, current, engineVars, stolen>>

Crash ==
    /\ Fault
    /\ \/ /\ \E i \in Engines : EngineAlive(i) /\ proc' = [proc EXCEPT ![i] = "dead"]
          /\ UNCHANGED <<pc, sw>>
       \/ /\ \E o \in Ops : ~IsApi(o) /\ ParentAlive(o) /\ GoesTo(o, "ended")
          /\ UNCHANGED <<proc, sw>>
       \/ /\ \E o \in Ops : SwitcherAlive(o) /\ SwitchTo(o, "ended")
          /\ UNCHANGED <<proc, pc>>
    /\ UNCHANGED <<kind, host, lock, rowVars, prev, current, runs, pidFile, stolen>>

-----------------------------------------------------------------------------
Init ==
    /\ kind \in Plans
    /\ pc = [o \in Ops |-> "idle"]
    /\ host = [o \in Ops |-> 0]
    /\ lock = NoLock
    /\ attempt = [o \in Ops |-> "none"]
    /\ sw = [o \in Ops |-> "none"]
    /\ prev = [o \in Ops |-> NoRelease]
    /\ current \in {NoRelease, Previous}
    /\ proc = [i \in Engines |-> IF i = 1 THEN "up" ELSE "unborn"]
    /\ runs = [i \in Engines |-> IF current = NoRelease THEN Checkout ELSE Previous]
    /\ pidFile = 1
    /\ stolen = FALSE
    /\ faults = 0

OpStep(o) ==
    \/ Acquire(o) \/ Reclaim(o) \/ Rewrite(o)
    \/ Prepare(o) \/ PrepareFails(o)
    \/ EndDryRun(o)
    \/ Activate(o) \/ EndInstall(o)
    \/ Leave(o) \/ HandOff(o) \/ HandOffFails(o)

SwitcherStep(o) ==
    \/ VerifyLock(o) \/ ClaimLock(o)
    \/ StopEngine(o) \/ SwitcherFails(o) \/ Swap(o)
    \/ Healthy(o) \/ Unhealthy(o)
    \/ Succeed(o) \/ Reject(o)
    \/ RollBack(o) \/ Settle(o)
    \/ ReleaseLock(o)

EngineStep(i) == Listen(i) \/ BootFails(i) \/ Exit(i)

Next ==
    \/ \E o \in Ops : Begin(o) \/ OpStep(o) \/ SwitcherStep(o)
    \/ \E i \in Engines : EngineStep(i) \/ Shutdown(i)
    \/ UserStarts \/ Age \/ Crash

Spec == Init /\ [][Next]_vars

\* Every process that lives goes on; who asks, stops or kills is not obliged to.
\* A process has finitely many steps, so this is as strong as fairness to each.
Fairness ==
    /\ WF_vars(\E o \in Ops : OpStep(o) \/ SwitcherStep(o))
    /\ WF_vars(\E i \in Engines : EngineStep(i))

FairSpec == Spec /\ Fairness

-----------------------------------------------------------------------------
(* Properties. *)

\* The processes that may move install/current.
Installing ==
    {o \in Ops : \/ sw[o] \in {"stop", "backup", "health", "verify", "rollback", "rollbackHealth"}
                 \/ kind[o] = "install" /\ pc[o] = "locked" /\ ParentAlive(o)}

\* Two processes never move the pointer, and stop and start the engine, at the
\* same time, unless a lock was taken from a process that was alive: update.lock
\* passes from the process that prepares to its switcher, and a lock whose
\* holder ended is taken over.
OneInstaller ==
    ~stolen => \A o, p \in Installing : o = p

\* An update recorded as succeeded has had an engine of its release on the port,
\* whoever else started one, and its release is the installed one then.
SuccessIsInstalled ==
    [][\A o \in Ops :
          attempt[o] # "succeeded" /\ attempt'[o] = "succeeded" =>
              Serving(o) /\ (current = o \/ stolen)]_vars

\* A release that was rolled back is not the installed one any more.
RolledBackIsGone ==
    ~stolen => \A o \in Ops : attempt[o] = "failed-rolled-back" => current # o

\* Of the operations with one Idempotency-Key one at most reaches a switcher, a
\* retry after a failure included.
KeyRunsOnce ==
    \A o, p \in Ops :
        o # p /\ kind[o] = "keyed" /\ kind[p] = "keyed" => sw[o] = "none" \/ sw[p] = "none"

\* A lock does not stay for ever with a holder that lives, but where there is no
\* managed install and the engine leaves the attempt queued.
LockIsFreed ==
    \A o \in Ops : lock.op = o ~> (lock.op # o \/ Stale \/ pc[o] = "left")

=============================================================================

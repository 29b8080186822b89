------------------------- MODULE WorkerLeaseProofs -------------------------
(***************************************************************************)
(* Proofs about WorkerLease for every set of processes and workers, every  *)
(* interval, threshold and limit that satisfy its assumptions.             *)
(***************************************************************************)
EXTENDS WorkerLease, TLAPS

\* A worker ticks only in a live process; at most one API engine is alive;
\* the lease names a process that has booted.
ProcessInv ==
    /\ \A w \in Workers : Ticking(w) => home[w] \in alive
    /\ \A p, q \in alive \cap Api : p = q
    /\ closing \subseteq alive /\ alive \subseteq booted
    /\ holder \in booted \cup {NoOwner}
    /\ status = "absent" => holder = NoOwner
    /\ signalled \subseteq booted \ alive

\* Where the next beat of a punctual worker lies, seen from the last beat of
\* the lease it holds, or from the moment its process lost the lease.
BeatBound(w, from) ==
    \/ /\ fails[w] < FailureLimit
       /\ due[w] <= from + (fails[w] + 1) * Interval
    \/ /\ fails[w] = FailureLimit
       /\ home[w] \in closing
       /\ clock <= from + FailureLimit * Interval

TimerInv ==
    /\ beatAt <= clock
    /\ \A w \in Workers : lostAt[w] <= clock
    /\ \A w \in Workers : Punctual(w) =>
          /\ clock <= due[w]
          /\ due[w] <= clock + Interval
          /\ BeatBound(w, IF holder = home[w] THEN beatAt ELSE lostAt[w])

-----------------------------------------------------------------------------
(* Arithmetic the timer needs. *)

LEMMA OneMoreBeat ==
    ASSUME NEW n \in Nat
    PROVE  /\ n * Interval \in Nat
           /\ (n + 1) * Interval = n * Interval + Interval
           /\ Interval <= (n + 1) * Interval
BY TimingAssumption, SMT

LEMMA BeatsWithinLimit ==
    ASSUME NEW n \in Nat, n < FailureLimit
    PROVE  (n + 1) * Interval <= FailureLimit * Interval
<1> DEFINE k == FailureLimit - (n + 1)
<1>1. k \in Nat /\ FailureLimit = (n + 1) + k
  BY TimingAssumption
<1>2. FailureLimit * Interval = (n + 1) * Interval + k * Interval
  BY <1>1, TimingAssumption, SMT
<1>3. k * Interval \in Nat /\ (n + 1) * Interval \in Nat
  BY <1>1, TimingAssumption, SMT
<1> QED
  BY <1>2, <1>3, SMT

-----------------------------------------------------------------------------
(* Every variable keeps its type: in particular the failure count never    *)
(* leaves 0 .. FailureLimit.                                               *)
THEOREM TypeCorrect == Spec => []TypeOK
<1>a. /\ Interval \in Nat /\ FailureLimit \in Nat /\ 0 \in 0 .. FailureLimit
      /\ FailureLimit \in 0 .. FailureLimit
  BY TimingAssumption
<1> USE <1>a, ProcessAssumption DEF Processes, rowVars, processVars, timerVars
<1>1. Init => TypeOK
  <2> SUFFICES ASSUME Init PROVE TypeOK
    OBVIOUS
  <2>1. late \in [Workers -> BOOLEAN] /\ contested \in BOOLEAN
    BY Zenon DEF Init
  <2> QED
    BY <2>1 DEF Init, TypeOK, Statuses, Phases
<1>2. TypeOK /\ [Next]_vars => TypeOK'
  <2> SUFFICES ASSUME TypeOK, [Next]_vars PROVE TypeOK'
    OBVIOUS
  <2>1. ASSUME NEW w \in Workers, ClaimAndBeat(w), UNCHANGED <<clock, processVars>>,
               status' \in Statuses
        PROVE  TypeOK'
    BY <2>1 DEF TypeOK, ClaimAndBeat, LeaseBecomes, Phases
  <2>2. ASSUME NEW S \in SUBSET Workers, Gone(S)
        PROVE  /\ phase' \in [Workers -> Phases]
               /\ fails' \in [Workers -> 0 .. FailureLimit]
               /\ due' \in [Workers -> Nat]
               /\ late' \in [Workers -> BOOLEAN]
               /\ lostAt' \in [Workers -> Nat]
    <3>1. late' \in [Workers -> BOOLEAN]
      <4>1. \A w \in Workers : (IF w \in S THEN FALSE ELSE late[w]) \in BOOLEAN
        BY DEF TypeOK
      <4> QED
        BY <2>2, <4>1, Zenon DEF Gone
    <3> QED
      BY <2>2, <3>1 DEF TypeOK, Gone, Phases
  <2>3. FailIfRunning \in Statuses
    BY DEF TypeOK, FailIfRunning, Statuses
  <2>4. ASSUME NEW w \in Workers, GiveUp(w)
        PROVE  TypeOK'
    BY <2>2, <2>3, <2>4 DEF TypeOK, GiveUp
  <2>5. ASSUME NEW p \in Processes, Die(p)
        PROVE  /\ phase' \in [Workers -> Phases]
               /\ fails' \in [Workers -> 0 .. FailureLimit]
               /\ due' \in [Workers -> Nat]
               /\ late' \in [Workers -> BOOLEAN]
               /\ lostAt' \in [Workers -> Nat]
               /\ alive' \subseteq Processes
               /\ closing' \subseteq Api
    BY <2>2, <2>5 DEF TypeOK, Die
  <2>6. ASSUME NEW w \in Workers, WorkerStep(w)
        PROVE  TypeOK'
    <3>1. CASE Create(w)
      BY <3>1, <2>1 DEF Create, Statuses
    <3>2. CASE CreateFails(w)
      BY <3>2, <2>2 DEF CreateFails, TypeOK, Statuses
    <3>3. CASE CreateQueued(w)
      BY <3>3 DEF CreateQueued, TypeOK, Statuses
    <3>4. CASE Claim(w)
      BY <3>4, <2>1 DEF Claim, TypeOK
    <3>5. CASE Start(w)
      BY <3>5 DEF Start, TypeOK, Statuses, Phases
    <3>6. CASE Finish(w)
      BY <3>6, <2>2 DEF Finish, TypeOK, Statuses
    <3>7. CASE BeatRefreshed(w)
      BY <3>7 DEF BeatRefreshed, TypeOK
    <3>8. CASE BeatLost(w)
      BY <3>8, <2>4 DEF BeatLost
    <3>9. CASE BeatThrows(w)
      BY <3>9 DEF BeatThrows, TypeOK
    <3>10. CASE BeatExhausted(w)
      BY <3>10, <2>4 DEF BeatExhausted
    <3>11. CASE BeatUncaught(w)
      <4>1. home[w] \in Processes
        OBVIOUS
      <4>2. CASE home[w] \in Api
        BY <3>11, <4>2 DEF BeatUncaught, TypeOK
      <4>3. CASE home[w] \notin Api
        BY <3>11, <4>1, <4>3, <2>5 DEF BeatUncaught, TypeOK
      <4> QED
        BY <4>2, <4>3
    <3> QED
      BY <2>6, <3>1, <3>2, <3>3, <3>4, <3>5, <3>6, <3>7, <3>8, <3>9, <3>10, <3>11
      DEF WorkerStep
  <2>7. ASSUME NEW p \in Processes, ProcessStep(p)
        PROVE  TypeOK'
    <3>1. CASE BootApi(p)
      BY <3>1, <2>3 DEF BootApi, TypeOK
    <3>2. CASE BootCli(p)
      BY <3>2 DEF BootCli, TypeOK
    <3>3. CASE Shutdown(p)
      BY <3>3, <2>3 DEF Shutdown, TypeOK
    <3>4. CASE Crash(p)
      BY <3>4, <2>5 DEF Crash, TypeOK
    <3>5. CASE CreateCrash(p)
      BY <3>5, <2>5 DEF CreateCrash, TypeOK, Statuses
    <3>6. CASE Signal(p)
      BY <3>6, <2>3, <2>5 DEF Signal, TypeOK
    <3> QED
      BY <2>7, <3>1, <3>2, <3>3, <3>4, <3>5, <3>6 DEF ProcessStep
  <2>8. CASE SkipCurrentStage
    BY <2>8 DEF SkipCurrentStage, LeaseBecomes, TypeOK, Statuses
  <2>9. CASE Tick
    BY <2>9 DEF Tick, TypeOK
  <2>10. CASE UNCHANGED vars
    BY <2>10 DEF vars, TypeOK
  <2> QED
    BY <2>6, <2>7, <2>8, <2>9, <2>10 DEF Next
<1> QED
  BY <1>1, <1>2, PTL DEF Spec

-----------------------------------------------------------------------------
LEMMA ProcessInvariant == Spec => []ProcessInv
<1> USE ProcessAssumption, NoOwnerAssumption DEF Processes, rowVars, processVars, timerVars
<1>1. Init => ProcessInv
  BY DEF Init, ProcessInv, Ticking
<1>2. TypeOK /\ ProcessInv /\ [Next]_vars => ProcessInv'
  <2> SUFFICES ASSUME TypeOK, ProcessInv, [Next]_vars PROVE ProcessInv'
    OBVIOUS
  <2> USE DEF TypeOK, Ticking
  <2>1. ASSUME NEW w \in Workers, WorkerStep(w)
        PROVE  ProcessInv'
    <3>1. CASE Create(w) \/ Claim(w)
      BY <3>1 DEF Create, Claim, ClaimAndBeat, LeaseBecomes, ProcessInv
    <3>2. CASE CreateFails(w) \/ CreateQueued(w) \/ Finish(w)
      BY ZenonT(40), <3>2 DEF CreateFails, CreateQueued, Finish, Gone, ProcessInv
    <3>3. CASE Start(w)
      BY <3>3 DEF Start, ProcessInv
    <3>4. CASE BeatRefreshed(w) \/ BeatThrows(w)
      BY <3>4 DEF BeatRefreshed, BeatThrows, ProcessInv
    <3>5. CASE BeatLost(w) \/ BeatExhausted(w)
      <4>1. GiveUp(w)
        BY <3>5 DEF BeatLost, BeatExhausted
      <4>2. /\ status' = "absent" => status = "absent"
            /\ UNCHANGED <<holder, processVars>>
        BY <4>1 DEF GiveUp, FailIfRunning
      <4>3. phase' = [v \in Workers |-> IF v \in {w} THEN "gone" ELSE phase[v]]
        BY <4>1 DEF GiveUp, Gone
      <4> QED
        BY <4>2, <4>3 DEF ProcessInv
    <3>6. CASE BeatUncaught(w)
      <4>1. CASE home[w] \in Api
        <5>1. /\ home[w] \in alive /\ closing' = closing \cup {home[w]}
              /\ UNCHANGED <<status, holder, alive, booted, signalled, phase>>
          BY <3>6, <4>1 DEF BeatUncaught, Due, ProcessInv
        <5> QED
          BY <5>1 DEF ProcessInv
      <4>2. CASE home[w] \notin Api
        BY <3>6, <4>2 DEF BeatUncaught, Die, Gone, ProcessInv
      <4> QED
        BY <4>1, <4>2
    <3> QED
      BY <2>1, <3>1, <3>2, <3>3, <3>4, <3>5, <3>6 DEF WorkerStep
  <2>2. ASSUME NEW p \in Processes, ProcessStep(p)
        PROVE  ProcessInv'
    <3>1. CASE BootApi(p)
      BY <3>1 DEF BootApi, FailIfRunning, ProcessInv
    <3>5. CASE BootCli(p)
      BY <3>5 DEF BootCli, ProcessInv
    <3>2. CASE Shutdown(p)
      BY <3>2 DEF Shutdown, FailIfRunning, ProcessInv
    <3>3. CASE Crash(p) \/ CreateCrash(p)
      BY <3>3 DEF Crash, CreateCrash, Die, Gone, ProcessInv
    <3>4. CASE Signal(p)
      BY <3>4 DEF Signal, FailIfRunning, Die, Gone, ProcessInv
    <3> QED
      BY <2>2, <3>1, <3>2, <3>3, <3>4, <3>5 DEF ProcessStep
  <2>3. CASE SkipCurrentStage
    BY <2>3 DEF SkipCurrentStage, LeaseBecomes, ProcessInv
  <2>4. CASE Tick
    BY <2>4 DEF Tick, ProcessInv
  <2>5. CASE UNCHANGED vars
    BY <2>5 DEF vars, ProcessInv
  <2> QED
    BY <2>1, <2>2, <2>3, <2>4, <2>5 DEF Next
<1> QED
  BY <1>1, <1>2, TypeCorrect, PTL DEF Spec
-----------------------------------------------------------------------------
LEMMA TimerInvariant == Spec => []TimerInv
<1>a. /\ Interval \in Nat /\ FailureLimit \in Nat /\ 0 < FailureLimit
      /\ FailureLimit * Interval \in Nat
  BY TimingAssumption, SMT
<1> USE <1>a, ProcessAssumption DEF Processes, rowVars, processVars, timerVars
<1>1. Init => TimerInv
  BY DEF Init, TimerInv, Punctual, Ticking
<1>2. TypeOK /\ ProcessInv /\ TimerInv /\ [Next]_vars => TimerInv'
  <2> SUFFICES ASSUME TypeOK, ProcessInv, TimerInv, [Next]_vars PROVE TimerInv'
    OBVIOUS
  \* A worker that goes on, with its timer, in a process that stays up.
  <2> DEFINE Same(w) ==
        /\ phase'[w] = phase[w] /\ fails'[w] = fails[w]
        /\ due'[w] = due[w] /\ late'[w] = late[w]
  <2> DEFINE Bounded(w) ==
        Punctual(w) => /\ clock <= due[w]
                       /\ due[w] <= clock + Interval
                       /\ BeatBound(w, IF holder = home[w] THEN beatAt ELSE lostAt[w])
  <2>1. \A w \in Workers : /\ fails[w] \in Nat /\ (fails[w] + 1) * Interval \in Nat
                           /\ Interval <= (fails[w] + 1) * Interval
    BY OneMoreBeat DEF TypeOK
  \* Nothing but the process set and the row's status changes for w.
  <2>2. ASSUME NEW w \in Workers, Same(w), lostAt'[w] = lostAt[w],
               home[w] \in closing => home[w] \in closing',
               UNCHANGED <<clock, holder, beatAt>>
        PROVE  Bounded(w)'
    BY <2>2 DEF TimerInv, Punctual, Ticking, BeatBound
  \* The lease changes hands under w.
  <2>3. ASSUME NEW w \in Workers, Same(w), NEW new, LeaseBecomes(new),
               home[w] \in closing => home[w] \in closing',
               clock' = clock, beatAt' \in {beatAt, clock},
               new = home[w] /\ new # holder => beatAt' = clock
        PROVE  Bounded(w)'
    BY <2>1, <2>3 DEF TimerInv, TypeOK, LeaseBecomes, Punctual, Ticking, BeatBound
  <2>4. ASSUME NEW w \in Workers, ClaimAndBeat(w), UNCHANGED <<clock, closing>>
        PROVE  TimerInv'
    <3>1. \A v \in Workers \ {w} : Same(v)
      BY <2>4 DEF ClaimAndBeat, TypeOK
    <3>2. \A v \in Workers \ {w} : Bounded(v)'
      BY <2>3, <2>4, <3>1 DEF ClaimAndBeat
    <3>3. Bounded(w)'
      <4>1. /\ fails'[w] = 0 /\ due'[w] = clock + Interval
            /\ holder' = home[w] /\ beatAt' = clock
        BY <2>4 DEF ClaimAndBeat, LeaseBecomes, TypeOK
      <4>2. (0 + 1) * Interval = Interval
        BY SMT
      <4> QED
        BY <2>4, <4>1, <4>2 DEF Punctual, BeatBound, TypeOK
    <3>4. beatAt' <= clock' /\ \A v \in Workers : lostAt'[v] <= clock'
      BY <2>4 DEF ClaimAndBeat, LeaseBecomes, TimerInv, TypeOK
    <3> QED
      BY <3>2, <3>3, <3>4 DEF TimerInv
  <2>5. ASSUME NEW S \in SUBSET Workers, Gone(S), UNCHANGED <<clock, holder, beatAt>>,
               \A w \in Workers \ S : home[w] \in closing => home[w] \in closing'
        PROVE  TimerInv'
    <3>1. \A w \in Workers \ S : Same(w) /\ lostAt'[w] = lostAt[w]
      BY <2>5 DEF Gone, TypeOK
    <3>2. \A w \in Workers \ S : Bounded(w)'
      BY <2>2, <2>5, <3>1
    <3>3. \A w \in S : ~Punctual(w)'
      BY <2>5 DEF Gone, Punctual, Ticking
    <3>4. \A w \in Workers : lostAt'[w] <= clock'
      BY <2>5 DEF Gone, TimerInv, TypeOK
    <3> QED
      BY <2>5, <3>2, <3>3, <3>4 DEF TimerInv
  <2>6. ASSUME UNCHANGED <<clock, holder, beatAt, phase, timerVars, lostAt>>,
               closing \subseteq closing'
        PROVE  TimerInv'
    BY <2>6 DEF TimerInv, Punctual, Ticking, BeatBound
  <2>7. ASSUME NEW w \in Workers, WorkerStep(w)
        PROVE  TimerInv'
    <3>1. CASE Create(w) \/ Claim(w)
      BY <3>1, <2>4 DEF Create, Claim
    <3>2. CASE CreateFails(w) \/ Finish(w)
      BY <3>2, <2>5 DEF CreateFails, Finish
    <3>3. CASE CreateQueued(w)
      BY <3>3, <2>6 DEF CreateQueued
    <3>4. CASE Start(w)
      BY <3>4 DEF Start, TimerInv, Punctual, Ticking, BeatBound, TypeOK, Phases
    <3>5. CASE BeatRefreshed(w)
      <4>1. \A v \in Workers \ {w} : Bounded(v)'
        BY <3>5, <2>1 DEF BeatRefreshed, TimerInv, TypeOK, Punctual, Ticking, BeatBound
      <4>2. Bounded(w)'
        <5>1. (0 + 1) * Interval = Interval
          BY SMT
        <5> QED
          BY <3>5, <5>1 DEF BeatRefreshed, TypeOK, Punctual, BeatBound
      <4> QED
        BY <3>5, <4>1, <4>2 DEF BeatRefreshed, TimerInv, TypeOK
    <3>6. CASE BeatLost(w) \/ BeatExhausted(w)
      BY <3>6, <2>5 DEF BeatLost, BeatExhausted, GiveUp
    <3>7. CASE BeatThrows(w)
      <4>1. \A v \in Workers \ {w} : Bounded(v)'
        BY <3>7 DEF BeatThrows, TimerInv, TypeOK, Punctual, Ticking, BeatBound
      <4>2. Bounded(w)'
        <5>1. (fails[w] + 1 + 1) * Interval = (fails[w] + 1) * Interval + Interval
          BY <2>1, OneMoreBeat
        <5>2. fails'[w] = fails[w] + 1 /\ due'[w] = clock + Interval
          BY <3>7 DEF BeatThrows, TypeOK
        <5> QED
          BY <3>7, <2>1, <5>1, <5>2
          DEF BeatThrows, Due, TimerInv, TypeOK, Punctual, Ticking, BeatBound
      <4> QED
        BY <3>7, <4>1, <4>2 DEF BeatThrows, TimerInv
    <3>8. CASE BeatUncaught(w)
      <4>1. CASE home[w] \in Api
        <5>1. \A v \in Workers \ {w} : Bounded(v)'
          BY <3>8, <4>1 DEF BeatUncaught, TimerInv, TypeOK, Punctual, Ticking, BeatBound
        <5>2. Bounded(w)'
          <6>1. fails'[w] = FailureLimit /\ due'[w] = clock + Interval
            BY <3>8, <4>1 DEF BeatUncaught, TypeOK
          <6>2. fails[w] < FailureLimit => fails[w] + 1 = FailureLimit
            BY <3>8 DEF BeatUncaught, TypeOK
          <6> QED
            BY <3>8, <4>1, <2>1, <6>1, <6>2
            DEF BeatUncaught, Due, TimerInv, TypeOK, Punctual, Ticking, BeatBound
        <5> QED
          BY <3>8, <4>1, <5>1, <5>2 DEF BeatUncaught, TimerInv
      <4>2. CASE home[w] \notin Api
        BY <3>8, <4>2, <2>5 DEF BeatUncaught, Die
      <4> QED
        BY <4>1, <4>2
    <3> QED
      BY <2>7, <3>1, <3>2, <3>3, <3>4, <3>5, <3>6, <3>7, <3>8 DEF WorkerStep
  <2>8. ASSUME NEW p \in Processes, ProcessStep(p)
        PROVE  TimerInv'
    <3>1. CASE BootApi(p) \/ BootCli(p) \/ Shutdown(p)
      BY <3>1, <2>6 DEF BootApi, BootCli, Shutdown
    <3>2. CASE Crash(p) \/ CreateCrash(p) \/ Signal(p)
      BY <3>2, <2>5 DEF Crash, CreateCrash, Signal, Die
    <3> QED
      BY <2>8, <3>1, <3>2 DEF ProcessStep
  <2>9. CASE SkipCurrentStage
    <3>1. \A w \in Workers : home[w] # NoOwner
      BY NoOwnerAssumption
    <3>2. \A w \in Workers : Bounded(w)'
      BY <2>9, <2>3, <3>1 DEF SkipCurrentStage
    <3> QED
      BY <2>9, <3>2 DEF SkipCurrentStage, LeaseBecomes, TimerInv, TypeOK
  <2>10. CASE Tick
    <3>1. ASSUME NEW w \in Workers, Punctual(w)'
          PROVE  Punctual(w) /\ clock < due[w]
      <4>1. /\ late' = [v \in Workers |-> late[v] \/ (Ticking(v) /\ clock >= due[v])]
            /\ phase' = phase
        BY <2>10 DEF Tick
      <4>2. Ticking(w)
        BY <3>1, <4>1 DEF Punctual, Ticking
      <4>3. ~late'[w]
        BY <3>1 DEF Punctual
      <4>4. ~late[w] /\ ~(clock >= due[w])
        BY <4>1, <4>2, <4>3, Zenon
      <4> QED
        BY <4>2, <4>4 DEF Punctual, TypeOK
    <3>2. ASSUME NEW w \in Workers PROVE Bounded(w)'
      <4>1. SUFFICES ASSUME Punctual(w)' PROVE Bounded(w)'
        OBVIOUS
      <4>2. /\ clock < due[w] /\ due[w] <= clock + Interval
            /\ fails[w] < FailureLimit
            /\ due[w] <= (IF holder = home[w] THEN beatAt ELSE lostAt[w])
                         + (fails[w] + 1) * Interval
        BY <2>10, <3>1, <4>1 DEF Tick, TimerInv, BeatBound
      <4>3. /\ clock' = clock + 1
            /\ UNCHANGED <<fails, due, beatAt, holder, lostAt>>
        BY <2>10 DEF Tick
      <4>4. clock' <= due'[w] /\ due'[w] <= clock' + Interval
        BY <4>2, <4>3 DEF TypeOK
      <4> QED
        BY <4>2, <4>3, <4>4 DEF BeatBound
    <3> QED
      BY <2>10, <3>2 DEF Tick, TimerInv, TypeOK
  <2>11. CASE UNCHANGED vars
    BY <2>11, <2>6 DEF vars
  <2> QED
    BY <2>7, <2>8, <2>9, <2>10, <2>11 DEF Next
<1> QED
  BY <1>1, <1>2, TypeCorrect, ProcessInvariant, PTL DEF Spec

-----------------------------------------------------------------------------
(* A punctual worker that owns the lease never looks stale: whatever its   *)
(* writes do, it gives up or refreshes before StaleAfter is over.          *)
THEOREM OwnerFresh == Spec => []PunctualOwnerFresh
<1>1. TypeOK /\ TimerInv => PunctualOwnerFresh
  <2> SUFFICES ASSUME TypeOK, TimerInv, NEW w \in Workers,
                      Punctual(w), holder = home[w]
               PROVE  Age <= StaleAfter
    BY DEF PunctualOwnerFresh
  <2>1. BeatBound(w, beatAt) /\ clock <= due[w]
    BY DEF TimerInv
  <2>2. fails[w] < FailureLimit
          => (fails[w] + 1) * Interval <= FailureLimit * Interval
    BY BeatsWithinLimit DEF TypeOK
  <2>3. /\ FailureLimit * Interval <= StaleAfter
        /\ FailureLimit * Interval \in Nat /\ StaleAfter \in Nat
        /\ (fails[w] + 1) * Interval \in Nat
    BY TimingAssumption, SMT DEF TypeOK
  <2>4. clock <= beatAt + FailureLimit * Interval
    BY <2>1, <2>2, <2>3 DEF BeatBound, TypeOK
  <2> QED
    BY <2>3, <2>4 DEF Age, TypeOK
<1> QED
  BY <1>1, TypeCorrect, TimerInvariant, PTL

(* A worker that beats on time is inside the replan window: its next beat  *)
(* is due one interval after the last, and the window is longer.           *)
THEOREM ReplanRefused == Spec => []ReplanRefusedWhileBeating
<1>1. TypeOK /\ TimerInv => ReplanRefusedWhileBeating
  <2> SUFFICES ASSUME TypeOK, TimerInv, NEW w \in Workers,
                      status = "running", holder = home[w],
                      phase[w] = "working", ~late[w], fails[w] = 0
               PROVE  ActiveForReplan
    BY DEF ReplanRefusedWhileBeating
  <2>1. BeatBound(w, beatAt) /\ clock <= due[w]
    BY DEF TimerInv, Punctual, Ticking
  <2>2. (fails[w] + 1) * Interval = Interval
    BY TimingAssumption
  <2>3. clock <= beatAt + Interval
    BY <2>1, <2>2, TimingAssumption DEF BeatBound, TypeOK
  <2>4. holder # NoOwner
    BY ProcessAssumption, NoOwnerAssumption DEF Processes
  <2> QED
    BY <2>3, <2>4, TimingAssumption DEF ActiveForReplan, Age, TypeOK
<1> QED
  BY <1>1, TypeCorrect, TimerInvariant, PTL

(* A worker whose process lost the lease stops within the beats that may   *)
(* still fail, so the overlap with its successor is bounded.               *)
THEOREM DisplacedBounded == Spec => []DisplacedStopsSoon
<1>1. TypeOK /\ TimerInv => DisplacedStopsSoon
  <2> SUFFICES ASSUME TypeOK, TimerInv, NEW w \in Workers,
                      Punctual(w), holder # home[w]
               PROVE  clock - lostAt[w] <= (fails[w] + 1) * Interval
    BY DEF DisplacedStopsSoon
  <2>1. BeatBound(w, lostAt[w]) /\ clock <= due[w]
    BY DEF TimerInv
  <2>2. /\ fails[w] \in Nat /\ fails[w] * Interval \in Nat
        /\ (fails[w] + 1) * Interval = fails[w] * Interval + Interval
    BY OneMoreBeat DEF TypeOK
  <2>3. Interval \in Nat
    BY TimingAssumption
  <2>4. CASE fails[w] < FailureLimit
    BY <2>1, <2>2, <2>3, <2>4, TimingAssumption DEF BeatBound, TypeOK
  <2>5. CASE fails[w] = FailureLimit
    BY <2>1, <2>2, <2>3, <2>5, TimingAssumption DEF BeatBound, TypeOK
  <2> QED
    BY <2>4, <2>5, TimingAssumption DEF TypeOK
<1> QED
  BY <1>1, TypeCorrect, TimerInvariant, PTL

(* The startup scan of recoverLostWorkerRuns never fails a running row     *)
(* whose lease belongs to a punctual worker.                               *)
THEOREM BootSpares == Spec => BootSparesPunctual
<1> DEFINE Spares ==
      \A p \in Api :
         p \notin alive /\ p \in alive' /\ status' # status
            => \A w \in Workers : Punctual(w) => holder # home[w]
<1>1. TypeOK /\ ProcessInv /\ PunctualOwnerFresh /\ [Next]_vars => [Spares]_vars
  <2> SUFFICES ASSUME TypeOK, ProcessInv, PunctualOwnerFresh, [Next]_vars,
                      NEW p \in Api, p \notin alive, p \in alive', status' # status,
                      NEW w \in Workers, Punctual(w), holder = home[w]
               PROVE  FALSE
    OBVIOUS
  <2> USE ProcessAssumption DEF Processes, rowVars, processVars, timerVars
  <2>1. PICK q \in Processes : BootApi(q)
    <3>1. ASSUME NEW v \in Workers, WorkerStep(v) PROVE alive' \subseteq alive
      BY <3>1 DEF WorkerStep, Create, CreateFails, CreateQueued, Claim, Start,
         Finish, BeatRefreshed, BeatLost, BeatThrows, BeatExhausted, GiveUp,
         BeatUncaught, Die
    <3>2. ASSUME NEW q \in Processes, ProcessStep(q), ~BootApi(q)
          PROVE  alive' \subseteq alive \/ status' = status
      BY <3>2 DEF ProcessStep, BootCli, Shutdown, Crash, CreateCrash, Signal, Die
    <3>3. SkipCurrentStage \/ Tick \/ UNCHANGED vars => alive' \subseteq alive
      BY DEF SkipCurrentStage, Tick, vars
    <3> QED
      BY <3>1, <3>2, <3>3 DEF Next
  <2>2. /\ Orphaned(q) /\ alive \cap Api = {}
    BY <2>1 DEF BootApi
  <2>3. home[w] \in alive
    BY DEF ProcessInv, Punctual
  <2>4. home[w] \notin Api /\ holder # NoOwner
    BY <2>2, <2>3, NoOwnerAssumption
  <2>5. Age > StaleAfter /\ Age <= StaleAfter
    BY <2>2, <2>4 DEF Orphaned, PunctualOwnerFresh
  <2> QED
    BY <2>5, TimingAssumption DEF Age, TypeOK
<1> QED
  BY <1>1, TypeCorrect, ProcessInvariant, OwnerFresh, PTL DEF Spec, BootSparesPunctual

-----------------------------------------------------------------------------
\* While no lease was taken from a ticking worker, the workers that tick are
\* those of the process that holds the lease, and the two guarantees about
\* the running row hold.
UncontestedInv ==
    ~contested =>
        /\ \A w \in Workers : Ticking(w) => holder = home[w]
        /\ status = "running" /\ holder \in Api /\ alive \cap Api # {}
             => \E w \in Workers : Ticking(w)
        /\ Importers = Cli => (status = "running" => holder \notin signalled)

LEMMA UncontestedInvariant == Spec => []UncontestedInv
<1> USE ProcessAssumption, NoOwnerAssumption DEF Processes, rowVars, processVars, timerVars
<1>1. Init => UncontestedInv
  BY DEF Init, UncontestedInv, Ticking
<1>2. TypeOK /\ ProcessInv /\ UncontestedInv /\ [Next]_vars => UncontestedInv'
  <2> SUFFICES ASSUME TypeOK, ProcessInv, UncontestedInv, [Next]_vars
               PROVE  UncontestedInv'
    OBVIOUS
  <2>1. ASSUME NEW w \in Workers, home[w] \in alive, ClaimAndBeat(w),
               UNCHANGED <<clock, processVars>>
        PROVE  UncontestedInv'
    <3>1. contested' = (contested \/ \E v \in Workers : Ticking(v))
      BY <2>1 DEF ClaimAndBeat, LeaseBecomes
    <3>2. /\ holder' = home[w] /\ phase' = [phase EXCEPT ![w] = "claimed"]
          /\ UNCHANGED <<alive, signalled>>
      BY <2>1 DEF ClaimAndBeat, LeaseBecomes
    <3>3. home[w] \notin signalled
      BY <2>1 DEF ProcessInv
    <3> QED
      BY <3>1, <3>2, <3>3 DEF UncontestedInv, Ticking, TypeOK
  \* The row does not come out running, and no worker starts to tick.
  <2>2. ASSUME status' # "running", UNCHANGED <<holder, contested>>,
               \A v \in Workers : phase'[v] \in {phase[v], "gone"}
        PROVE  UncontestedInv'
    BY <2>2 DEF UncontestedInv, Ticking
  <2>3. ASSUME NEW w \in Workers, GiveUp(w) PROVE UncontestedInv'
    <3>1. status' # "running" /\ UNCHANGED <<holder, contested>>
      BY <2>3 DEF GiveUp, FailIfRunning
    <3>2. \A v \in Workers : phase'[v] \in {phase[v], "gone"}
      BY <2>3 DEF GiveUp, Gone
    <3> QED
      BY <2>2, <3>1, <3>2
  \* The row and the live workers stay.
  <2>4. ASSUME UNCHANGED <<status, holder, contested, phase, signalled>>,
               alive' \cap Api = alive \cap Api
        PROVE  UncontestedInv'
    BY <2>4 DEF UncontestedInv, Ticking
  \* A process ends; if it was the API engine, no engine is left.
  <2>5. ASSUME NEW p \in alive, Die(p), UNCHANGED <<holder, contested>>,
               \/ status' # "running"
               \/ status' = status /\ signalled' = signalled
               \/ status' = status /\ p \in Cli /\ signalled' = signalled \cup {p}
                  /\ (Importers = Cli => status # "running" \/ holder \notin Cli)
        PROVE  UncontestedInv'
    <3>1. \A v \in Workers : phase'[v] = IF home[v] = p THEN "gone" ELSE phase[v]
      BY <2>5 DEF Die, Gone
    <3>2. alive' = alive \ {p}
      BY <2>5 DEF Die
    <3>3. CASE status' # "running"
      BY <2>2, <2>5, <3>1, <3>3
    <3>4. CASE status' = status
      <4>1. ~contested' => \A v \in Workers : Ticking(v)' => holder' = home[v]
        BY <2>5, <3>1 DEF UncontestedInv, Ticking
      <4>2. ~contested' /\ status' = "running" /\ holder' \in Api /\ alive' \cap Api # {}
              => \E v \in Workers : Ticking(v)'
        <5>1. SUFFICES ASSUME ~contested', status' = "running", holder' \in Api,
                              alive' \cap Api # {}
                       PROVE  \E v \in Workers : Ticking(v)'
          OBVIOUS
        <5>2. p \notin Api
          BY <3>2, <5>1 DEF ProcessInv
        <5>3. PICK v \in Workers : Ticking(v) /\ home[v] = holder
          BY <2>5, <3>2, <3>4, <5>1 DEF UncontestedInv
        <5>4. home[v] # p
          BY <2>5, <5>1, <5>2, <5>3
        <5> QED
          BY <3>1, <5>3, <5>4 DEF Ticking
      <4>3. ~contested' /\ Importers = Cli
              => (status' = "running" => holder' \notin signalled')
        BY <2>5, <3>4 DEF UncontestedInv, TypeOK
      <4> QED
        BY <4>1, <4>2, <4>3 DEF UncontestedInv
    <3> QED
      BY <2>5, <3>3, <3>4
  <2>6. ASSUME NEW w \in Workers, WorkerStep(w)
        PROVE  UncontestedInv'
    <3>1. CASE Create(w) \/ Claim(w)
      BY <3>1, <2>1 DEF Create, Claim
    <3>2. CASE CreateFails(w) \/ Finish(w)
      <4>1. status' # "running" /\ UNCHANGED <<holder, contested>>
        BY <3>2 DEF CreateFails, Finish
      <4>2. \A v \in Workers : phase'[v] \in {phase[v], "gone"}
        BY <3>2 DEF CreateFails, Finish, Gone
      <4> QED
        BY <2>2, <4>1, <4>2
    <3>3. CASE CreateQueued(w)
      BY <3>3, <2>2 DEF CreateQueued
    <3>4. CASE Start(w)
      <4>1. /\ phase' = [phase EXCEPT ![w] = "working"] /\ Ticking(w)
            /\ UNCHANGED <<holder, contested, alive, signalled>>
        BY <3>4 DEF Start, Ticking
      <4>2. home[w] \in alive /\ alive \cap signalled = {}
        BY <4>1 DEF ProcessInv
      <4> QED
        BY <4>1, <4>2 DEF UncontestedInv, Ticking, TypeOK
    <3>5. CASE BeatRefreshed(w) \/ BeatThrows(w)
      BY <3>5, <2>4 DEF BeatRefreshed, BeatThrows
    <3>6. CASE BeatLost(w) \/ BeatExhausted(w)
      BY <3>6, <2>3 DEF BeatLost, BeatExhausted
    <3>7. CASE BeatUncaught(w)
      <4>1. home[w] \in alive
        BY <3>7 DEF BeatUncaught, Due, ProcessInv
      <4>2. CASE home[w] \in Api
        BY <3>7, <4>2, <2>4 DEF BeatUncaught
      <4>3. CASE home[w] \notin Api
        BY <3>7, <4>1, <4>3, <2>5 DEF BeatUncaught
      <4> QED
        BY <4>2, <4>3
    <3> QED
      BY <2>6, <3>1, <3>2, <3>3, <3>4, <3>5, <3>6, <3>7 DEF WorkerStep
  <2>7. ASSUME NEW p \in Processes, ProcessStep(p)
        PROVE  UncontestedInv'
    <3>1. CASE BootApi(p)
      <4>1. /\ p \in Api \ booted /\ alive \cap Api = {}
            /\ status' = "running" => status = "running" /\ ~Orphaned(p)
            /\ UNCHANGED <<holder, contested, phase, signalled>>
        BY <3>1 DEF BootApi, FailIfRunning
      <4>2. holder # p
        BY <4>1 DEF ProcessInv
      <4>3. status' = "running" => status = "running" /\ holder \notin Api
        BY <4>1, <4>2 DEF Orphaned
      <4> QED
        BY <4>1, <4>3 DEF UncontestedInv, Ticking
    <3>2. CASE BootCli(p)
      BY <3>2, <2>4 DEF BootCli
    <3>3. CASE Shutdown(p)
      <4>1. /\ status' # "running" \/ status' = status
            /\ UNCHANGED <<holder, contested, phase, alive, signalled>>
        BY <3>3 DEF Shutdown, FailIfRunning
      <4> QED
        BY <4>1, <2>2, <2>4
    <3>4. CASE Crash(p)
      BY <3>4, <2>5 DEF Crash
    <3>5. CASE CreateCrash(p)
      <4>1. holder' = NoOwner /\ contested' = contested /\ signalled' = signalled
        BY <3>5 DEF CreateCrash, ProcessInv
      <4>2. \A v \in Workers : phase'[v] \in {phase[v], "gone"}
        BY <3>5 DEF CreateCrash, Die, Gone
      <4>3. NoOwner \notin Api /\ NoOwner \notin signalled
        BY DEF TypeOK
      <4>4. holder' = holder
        BY <3>5 DEF CreateCrash
      <4> QED
        BY <4>1, <4>2, <4>3, <4>4 DEF UncontestedInv, Ticking
    <3>6. CASE Signal(p)
      <4>1. /\ p \in alive /\ p \in Cli /\ Die(p)
            /\ UNCHANGED <<holder, contested>> /\ signalled' = signalled \cup {p}
        BY <3>6 DEF Signal
      <4>2. \/ status' # "running"
            \/ status' = status /\ (Importers = Cli => holder \notin Cli)
        BY <3>6, <4>1 DEF Signal, FailIfRunning
      <4> QED
        BY <4>1, <4>2, <2>5
    <3> QED
      BY <2>7, <3>1, <3>2, <3>3, <3>4, <3>5, <3>6 DEF ProcessStep
  <2>8. CASE SkipCurrentStage
    <3>1. /\ status' = "blocked"
          /\ contested' = (contested \/ \E v \in Workers : Ticking(v))
          /\ phase' = phase
      BY <2>8 DEF SkipCurrentStage, LeaseBecomes
    <3> QED
      BY <3>1 DEF UncontestedInv, Ticking
  <2>9. CASE Tick \/ UNCHANGED vars
    BY <2>9, <2>4 DEF Tick, vars
  <2> QED
    BY <2>6, <2>7, <2>8, <2>9 DEF Next
<1> QED
  BY <1>1, <1>2, TypeCorrect, ProcessInvariant, PTL DEF Spec

(* A running row leased by an API engine has a live worker of that engine  *)
(* while any engine is up, as long as ownership was never contested.       *)
THEOREM ApiRunWorked == Spec => []ApiRunHasWorker
<1>1. UncontestedInv => ApiRunHasWorker
  BY DEF UncontestedInv, ApiRunHasWorker
<1> QED
  BY <1>1, UncontestedInvariant, PTL

(* If every CLI process installs the death handlers, none that a signal    *)
(* ends leaves the row running in its name.                                *)
THEOREM SignalledFails ==
    ASSUME Importers = Cli
    PROVE  Spec => []SignalledRunFailed
<1>1. UncontestedInv => SignalledRunFailed
  BY DEF UncontestedInv, SignalledRunFailed
<1> QED
  BY <1>1, UncontestedInvariant, PTL
=============================================================================

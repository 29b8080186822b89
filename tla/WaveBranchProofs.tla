--------------------------- MODULE WaveBranchProofs ---------------------------
(***************************************************************************)
(* Proofs about WaveBranch, for any number of waves and branches and any   *)
(* bound on faults, crashes and actions of the operator: its types, that a *)
(* wave works on a branch of its own name, that no worker destroys a       *)
(* branch that is kept for diagnosis, that a wave gets one branch, and     *)
(* that the waves leave none behind.                                       *)
(***************************************************************************)
EXTENDS WaveBranch, FiniteSetTheorems, TLAPS

RowSet == [status : {"running", "blocked", "failed"}, rec : {"none", "blocked", "failed"},
           ref : Refs \cup {None}, life : Lifecycles]

PlanSet == [wave : Waves \cup {None}, ref : Refs \cup {None},
            action : {"none", "attach", "discard"}]

WorkerSet ==
    [at : {"off", "provision", "create", "record", "poll", "handoff", "validate",
           "stories", "cleanup", "gate"},
     wave : Waves \cup {None}, ref : Refs \cup {None}]

\* The three that a step of the run changes.
RunOK == row \in RowSet /\ plan \in PlanSet /\ worker \in WorkerSet

ProviderOK ==
    /\ name \in [Refs -> Waves \cup {None}]
    /\ health \in [Refs -> {"unused", "building", "healthy", "broken", "gone"}]

\* What the other variables are.
RestOK ==
    /\ policy \in Policies \cup {"unread"}
    /\ command \in [on : BOOLEAN, ref : Refs \cup {None}]
    /\ merged \in Waves \cup {None}
    /\ suspect \in SUBSET Refs /\ strays \in SUBSET Refs
    /\ cleared \in BOOLEAN

BoundsOK ==
    faults \in 0..MaxFaults /\ crashes \in 0..MaxUpsets /\ moves \in 0..MaxUpsets

LEMMA TypeParts == TypeOK <=> RunOK /\ ProviderOK /\ RestOK /\ BoundsOK
BY DEF TypeOK, RunOK, ProviderOK, RestOK, BoundsOK, RowSet, PlanSet, WorkerSet

\* The places at which a worker has a branch, and those at which it was validated.
Using == {"record", "poll", "handoff", "validate", "stories", "cleanup"}
Validated == {"stories", "cleanup"}

\* The worker's branch was created, bears the name of its wave, and is not suspect once it has
\* been validated: this is what the steps keep.
BranchOfWave ==
    /\ worker.at \in Using =>
          Target \in Refs /\ name[Target] = Wave /\ health[Target] # "unused"
    /\ worker.at \in Validated => Target \notin suspect

IInv == RunOK /\ ProviderOK /\ RestOK /\ BoundsOK /\ BranchOfWave

-----------------------------------------------------------------------------
(* The helpers of the steps. *)

\* A bound is counted by one or left alone.
LEMMA FaultType == ASSUME BoundsOK, Fault PROVE BoundsOK'
BY BoundAssumption DEF BoundsOK, Fault

LEMMA NoFaultType == ASSUME BoundsOK, NoFault PROVE BoundsOK'
BY DEF BoundsOK, NoFault, bounds

\* A blocked run has a row and a payload of the right types, and no worker.
LEMMA BlocksType ==
    ASSUME RunOK, NEW r \in RowSet, NEW b \in Refs \cup {None}, Blocks(r, b)
    PROVE  RunOK' /\ worker' = Off
<1>1. row' \in RowSet
  BY DEF Blocks, RowSet, Lifecycles
<1>2. plan' \in PlanSet
  BY DEF Blocks, PlanSet, RunOK, WorkerSet, Wave
<1>3. worker' = Off
  BY DEF Blocks
<1>4. worker' \in WorkerSet
  BY <1>3 DEF Off, WorkerSet
<1> QED
  BY <1>1, <1>2, <1>3, <1>4 DEF RunOK

\* A worker that goes to another place keeps its wave and takes the branch with it.
LEMMA GoesType ==
    ASSUME worker \in WorkerSet, NEW b \in Refs \cup {None}, Goes("create", b) \/ Goes("record", b)
             \/ Goes("poll", b) \/ Goes("handoff", b) \/ Goes("validate", b)
             \/ Goes("stories", b) \/ Goes("cleanup", b)
    PROVE  worker' \in WorkerSet /\ worker'.wave = worker.wave /\ worker'.ref = b
BY DEF Goes, WorkerSet

LEMMA AdoptsType ==
    ASSUME RunOK, NEW b \in Refs, Adopts(b)
    PROVE  RunOK' /\ worker'.at = "poll" /\ worker'.ref = b /\ worker'.wave = worker.wave
<1>1. row' \in RowSet
  BY DEF Adopts, RunOK, RowSet, Lifecycles
<1>2. worker' \in WorkerSet /\ worker'.at = "poll" /\ worker'.ref = b /\ worker'.wave = worker.wave
  BY DEF Adopts, RunOK, Goes, WorkerSet
<1>3. plan' \in PlanSet
  BY DEF Adopts, RunOK
<1> QED
  BY <1>1, <1>2, <1>3 DEF RunOK

\* What the row and the payload record is a branch or none.
LEMMA RecordedType == ASSUME RunOK PROVE Recorded \in Refs \cup {None}
BY DEF RunOK, Recorded, RowSet, PlanSet

LEMMA UnattachedType == ASSUME RunOK PROVE Unattached \in RowSet
<1>1. [row EXCEPT !.ref = None, !.life = "none"] \in RowSet
  BY DEF RunOK, RowSet, Lifecycles
<1> QED
  BY <1>1 DEF RunOK, Unattached

\* A branch that can be used is there, healthy and of that name.
LEMMA UsableIs ==
    ASSUME NEW b, NEW w, Usable(b, w)
    PROVE  b \in Refs /\ name[b] = w /\ health[b] # "unused"
BY DEF Usable, Named, Alive

\* Every way of taking a branch or stopping, as one of three outcomes.
LEMMA ProvisionOutcome ==
    ASSUME RunOK, ReuseSelected \/ ReuseRecorded \/ ReuseNamed
    PROVE  /\ RunOK'
           /\ \/ worker' = Off
              \/ worker'.at = "create"
              \/ \E b \in Refs : /\ Usable(b, Wave) /\ worker'.at = "poll"
                                 /\ worker'.ref = b /\ worker'.wave = worker.wave
<1> DEFINE Taken == \E b \in Refs : /\ Usable(b, Wave) /\ worker'.at = "poll"
                                    /\ worker'.ref = b /\ worker'.wave = worker.wave
           Outcome == RunOK' /\ (worker' = Off \/ worker'.at = "create" \/ Taken)
<1>a. ASSUME NEW b, Usable(b, Wave), Adopts(b) PROVE Outcome
  <2>1. b \in Refs
    BY <1>a, UsableIs
  <2>2. RunOK' /\ worker'.at = "poll" /\ worker'.ref = b /\ worker'.wave = worker.wave
    BY <1>a, <2>1, AdoptsType
  <2> QED
    BY <1>a, <2>1, <2>2
<1>b. ASSUME NEW r \in RowSet, NEW b \in Refs \cup {None}, Blocks(r, b) PROVE Outcome
  BY <1>b, BlocksType
<1>r. row \in RowSet
  BY DEF RunOK
<1> HIDE DEF Outcome
<1> SUFFICES Outcome
  BY DEF Outcome
<1>1. CASE ReuseSelected
  <2>1. CASE Usable(Recorded, Wave)
    BY <1>1, <2>1, <1>a DEF ReuseSelected
  <2>2. CASE ~Usable(Recorded, Wave)
    BY <1>1, <2>2, <1>b, <1>r, RecordedType DEF ReuseSelected
  <2> QED
    BY <2>1, <2>2
<1>2. CASE ReuseRecorded
  <2>1. CASE Blocks(row, Recorded)
    BY <2>1, <1>b, <1>r, RecordedType
  <2>2. CASE Blocks(row, None)
    BY <2>2, <1>b, <1>r
  <2>3. ASSUME NEW b \in Refs, IF Usable(b, Wave) THEN Adopts(b) ELSE Blocks(row, b)
        PROVE  Outcome
    <3>1. CASE Usable(b, Wave)
      BY <2>3, <3>1, <1>a
    <3>2. CASE ~Usable(b, Wave)
      BY <2>3, <3>2, <1>b, <1>r
    <3> QED
      BY <3>1, <3>2
  <2> QED
    BY <1>2, <2>1, <2>2, <2>3 DEF ReuseRecorded
<1>3. CASE ReuseNamed
  <2>u. Unattached \in RowSet
    BY UnattachedType
  <2>1. CASE Blocks(Unattached, None)
    BY <2>1, <2>u, <1>b
  <2>2. ASSUME NEW b \in Refs, Usable(b, Wave), Adopts(b) PROVE Outcome
    BY <2>2, <1>a
  <2>3. ASSUME NEW b \in Refs, Blocks(Unattached, b) PROVE Outcome
    BY <2>3, <2>u, <1>b
  <2>4. CASE row' = Unattached /\ Goes("create", None) /\ UNCHANGED plan
    <3>1. worker' \in WorkerSet /\ worker'.at = "create"
      BY <2>4, GoesType DEF RunOK, Goes, WorkerSet
    <3>2. RunOK'
      BY <2>4, <2>u, <3>1 DEF RunOK
    <3> QED
      BY <3>1, <3>2 DEF Outcome
  <2> QED
    BY <1>3, <2>1, <2>2, <2>3, <2>4 DEF ReuseNamed
<1> QED
  BY <1>1, <1>2, <1>3

\* Where a worker begins it has no branch.
LEMMA FromType ==
    ASSUME NEW w \in Nat \ {0}
    PROVE  From(w) \in WorkerSet /\ From(w).at \in {"gate", "provision"}
<1>1. CASE w > MaxWaves
  BY <1>1 DEF From, WorkerSet
<1>2. CASE ~(w > MaxWaves)
  <2>1. w \in Waves
    BY <1>2, BoundAssumption DEF Waves
  <2> QED
    BY <1>2, <2>1 DEF From, WorkerSet
<1> QED
  BY <1>1, <1>2

LEMMA ResumesType ==
    ASSUME RunOK, RestOK, Resumes(row, plan)
    PROVE  row' \in RowSet /\ worker' \in WorkerSet /\ worker'.at \in {"gate", "provision"}
<1>1. merged + 1 \in Nat \ {0}
  BY BoundAssumption DEF RestOK, Waves, None
<1>2. row' \in RowSet
  BY DEF Resumes, RunOK, RowSet
<1> QED
  BY <1>1, <1>2, FromType DEF Resumes

\* A new branch has the wave's name and is not one that was there.
LEMMA CreatesType ==
    ASSUME ProviderOK, RunOK, NEW b \in Refs, Creates(b)
    PROVE  ProviderOK' /\ name'[b] = Wave /\ health'[b] # "unused"
BY DEF ProviderOK, RunOK, Creates, Wave, WorkerSet

\* A branch destroyed was a branch of the provider.
LEMMA DestroyedType ==
    ASSUME ProviderOK, NEW b \in Refs, health' = Destroyed(b), UNCHANGED name
    PROVE  ProviderOK' /\ \A c \in Refs : health[c] # "unused" => health'[c] # "unused"
BY DEF ProviderOK, Destroyed

\* What a step has to give when the provider stays as it is.
LEMMA KeepsBranch ==
    ASSUME IInv, UNCHANGED <<provider, suspect>>,
           \/ worker'.at \notin Using
           \/ worker.at \in Using /\ worker'.ref = worker.ref /\ worker'.wave = worker.wave
                /\ (worker'.at \in Validated => worker.at \in Validated)
    PROVE  BranchOfWave'
<1>1. CASE worker'.at \notin Using
  BY <1>1 DEF BranchOfWave, Using, Validated
<1>2. CASE /\ worker.at \in Using /\ worker'.ref = worker.ref /\ worker'.wave = worker.wave
           /\ (worker'.at \in Validated => worker.at \in Validated)
  BY <1>2 DEF IInv, BranchOfWave, provider, Wave, Target
<1> QED
  BY <1>1, <1>2

-----------------------------------------------------------------------------
(* The invariant is inductive. *)

LEMMA InitOK == Init => IInv
<1> SUFFICES ASSUME Init PROVE IInv
  OBVIOUS
<1>1. RunOK
  BY BoundAssumption DEF Init, RunOK, RowSet, PlanSet, WorkerSet, NoPlan, Lifecycles, Waves, None
<1>2. ProviderOK
  BY DEF Init, ProviderOK
<1>3. RestOK
  BY DEF Init, RestOK, Policies, NoCommand, None
<1>4. BoundsOK
  BY BoundAssumption DEF Init, BoundsOK
<1>5. BranchOfWave
  BY DEF Init, BranchOfWave, Using, Validated
<1> QED
  BY <1>1, <1>2, <1>3, <1>4, <1>5 DEF IInv

\* provisionBranch.
LEMMA ProvisionOK ==
    ASSUME IInv, Provision \/ ProvisionFails \/ Create \/ CreateLost \/ Record
    PROVE  IInv'
<1>t. RunOK /\ ProviderOK /\ RestOK /\ BoundsOK /\ BranchOfWave
  BY DEF IInv
<1>r. row \in RowSet /\ Unattached \in RowSet /\ worker \in WorkerSet
  BY <1>t, UnattachedType DEF RunOK
<1>1. ASSUME Provision PROVE IInv'
  <2>1. /\ RunOK'
        /\ \/ worker' = Off
           \/ worker'.at = "create"
           \/ \E b \in Refs : /\ Usable(b, Wave) /\ worker'.at = "poll"
                              /\ worker'.ref = b /\ worker'.wave = worker.wave
    BY <1>1, <1>t, ProvisionOutcome DEF Provision
  <2>2. ProviderOK' /\ RestOK' /\ BoundsOK'
    BY <1>1, <1>t, NoFaultType DEF Provision, provider, Unchecked, ProviderOK, RestOK
  <2>3. BranchOfWave'
    <3>1. CASE worker'.at \notin Using
      BY <3>1 DEF BranchOfWave, Using, Validated
    <3>2. CASE \E b \in Refs : /\ Usable(b, Wave) /\ worker'.at = "poll"
                               /\ worker'.ref = b /\ worker'.wave = worker.wave
      <4>1. PICK b \in Refs : /\ Usable(b, Wave) /\ worker'.at = "poll"
                              /\ worker'.ref = b /\ worker'.wave = worker.wave
        BY <3>2
      <4>2. name[b] = Wave /\ health[b] # "unused"
        BY <4>1, UsableIs
      <4>3. name' = name /\ health' = health
        BY <1>1 DEF Provision, provider
      <4> QED
        BY <4>1, <4>2, <4>3 DEF BranchOfWave, Validated, Wave, Target
    <3> QED
      BY <2>1, <3>1, <3>2 DEF Off, Using
  <2> QED
    BY <2>1, <2>2, <2>3 DEF IInv
<1>2. ASSUME ProvisionFails PROVE IInv'
  <2>1. RunOK' /\ worker' = Off
    BY <1>2, <1>t, <1>r, BlocksType DEF ProvisionFails
  <2>2. ProviderOK' /\ RestOK' /\ BoundsOK'
    BY <1>2, <1>t, FaultType DEF ProvisionFails, provider, Unchecked, ProviderOK, RestOK
  <2>3. BranchOfWave'
    BY <2>1 DEF BranchOfWave, Using, Validated, Off
  <2> QED
    BY <2>1, <2>2, <2>3 DEF IInv
<1>3. ASSUME Create PROVE IInv'
  <2>1. PICK b \in Refs : Creates(b) /\ Goes("record", b)
    BY <1>3 DEF Create
  <2>2. ProviderOK' /\ name'[b] = Wave /\ health'[b] # "unused"
    BY <1>t, <2>1, CreatesType
  <2>3. worker' \in WorkerSet /\ worker'.wave = worker.wave /\ worker'.ref = b
        /\ worker'.at = "record"
    BY <1>r, <2>1, GoesType DEF Goes, WorkerSet
  <2>4. RunOK'
    BY <1>3, <1>t, <2>3 DEF Create, RunOK
  <2>5. RestOK' /\ BoundsOK'
    BY <1>3, <1>t, NoFaultType DEF Create, Unchecked, RestOK
  <2>6. BranchOfWave'
    BY <2>2, <2>3 DEF BranchOfWave, Validated, Wave, Target
  <2> QED
    BY <2>2, <2>4, <2>5, <2>6 DEF IInv
<1>4. ASSUME CreateLost PROVE IInv'
  <2>1. PICK b \in Refs : Creates(b) /\ strays' = strays \cup {b}
    BY <1>4 DEF CreateLost
  <2>2. ProviderOK'
    BY <1>t, <2>1, CreatesType
  <2>3. RunOK' /\ worker' = Off
    BY <1>4, <1>t, <1>r, BlocksType DEF CreateLost
  <2>4. RestOK' /\ BoundsOK'
    BY <1>4, <1>t, <2>1, FaultType DEF CreateLost, RestOK
  <2>5. BranchOfWave'
    BY <2>3 DEF BranchOfWave, Using, Validated, Off
  <2> QED
    BY <2>2, <2>3, <2>4, <2>5 DEF IInv
<1>5. ASSUME Record PROVE IInv'
  <2>1. Target \in Refs \cup {None}
    BY <1>r DEF Target, WorkerSet
  <2>2. worker' \in WorkerSet /\ worker'.wave = worker.wave /\ worker'.ref = worker.ref
        /\ worker'.at = "poll"
    BY <1>5, <1>r, <2>1, GoesType DEF Record, Goes, WorkerSet, Target
  <2>3. row' \in RowSet
    BY <1>5, <1>r, <2>1 DEF Record, RowSet, Lifecycles
  <2>4. RunOK' /\ ProviderOK' /\ RestOK' /\ BoundsOK'
    BY <1>5, <1>t, <2>2, <2>3, NoFaultType
      DEF Record, RunOK, provider, Unchecked, ProviderOK, RestOK
  <2>5. BranchOfWave'
    BY <1>5, <2>2, KeepsBranch DEF Record, Unchecked, provider, Using, Validated
  <2> QED
    BY <2>4, <2>5 DEF IInv
<1> QED
  BY <1>1, <1>2, <1>3, <1>4, <1>5

\* A step that fails leaves no worker behind.
LEMMA FailsOK ==
    ASSUME IInv, PollFails \/ HandoffFails \/ ValidateFails
    PROVE  IInv'
<1>t. RunOK /\ ProviderOK /\ RestOK /\ BoundsOK /\ BranchOfWave
  BY DEF IInv
<1>f. Fails /\ Target \in Refs
  BY <1>t DEF PollFails, HandoffFails, ValidateFails, BranchOfWave, Using
<1>1. RunOK' /\ worker' = Off
  BY <1>t, <1>f, BlocksType DEF Fails, RunOK
<1>2. BoundsOK'
  <2>1. Fault \/ NoFault
    BY DEF PollFails, HandoffFails, ValidateFails
  <2> QED
    BY <1>t, <2>1, FaultType, NoFaultType
<1>3. ProviderOK'
  BY <1>t, <1>f DEF Fails, provider, ProviderOK
<1>4. RestOK'
  <2>1. UNCHANGED <<policy, command, merged, strays, cleared>>
    BY DEF PollFails, HandoffFails, ValidateFails
  <2> QED
    BY <1>t, <1>f, <2>1 DEF Fails, RestOK
<1>5. BranchOfWave'
  BY <1>1 DEF BranchOfWave, Using, Validated, Off
<1> QED
  BY <1>1, <1>2, <1>3, <1>4, <1>5 DEF IInv

\* A step on the branch leads to the next one with the same branch.
LEMMA OnBranchOK ==
    ASSUME IInv, Poll \/ Handoff \/ Validate \/ Stories
    PROVE  IInv'
<1>t. RunOK /\ ProviderOK /\ RestOK /\ BoundsOK /\ BranchOfWave
  BY DEF IInv
<1>r. row \in RowSet /\ worker \in WorkerSet /\ Target \in Refs \cup {None}
      /\ Wave \in Waves \cup {None}
  BY <1>t DEF RunOK, WorkerSet, Target, Wave
<1>p. ProviderOK' /\ UNCHANGED provider /\ BoundsOK'
  BY <1>t, NoFaultType DEF Poll, Handoff, Validate, Stories, provider, ProviderOK
<1>w. /\ worker' \in WorkerSet /\ worker'.wave = worker.wave /\ worker'.ref = worker.ref
      /\ worker.at \in Using
  BY <1>r, GoesType DEF Poll, Handoff, Validate, Stories, Target, Using
<1>o. RunOK'
  <2>1. row' \in RowSet
    BY <1>r DEF Poll, Handoff, Validate, Stories, Lives, RowSet, Lifecycles
  <2>2. plan' = plan
    BY DEF Poll, Handoff, Validate, Stories
  <2> QED
    BY <1>t, <1>w, <2>1, <2>2 DEF RunOK
<1>1. CASE Poll \/ Handoff
  <2>1. RestOK' /\ suspect' = suspect
    BY <1>1, <1>t DEF Poll, Handoff, Unchecked, RestOK
  <2>2. worker'.at \notin Validated
    BY <1>1, <1>r DEF Poll, Handoff, Goes, Validated, WorkerSet
  <2>3. BranchOfWave'
    BY <1>w, <1>p, <2>1, <2>2, KeepsBranch
  <2> QED
    BY <1>o, <1>p, <2>1, <2>3 DEF IInv
<1>2. CASE Validate
  <2>1. RestOK' /\ suspect' = suspect \ {Target}
    BY <1>2, <1>t DEF Validate, RestOK
  <2>2. name' = name /\ health' = health
    BY <1>p DEF provider
  <2>3. BranchOfWave'
    BY <1>t, <1>w, <2>1, <2>2 DEF BranchOfWave, Wave, Target
  <2> QED
    BY <1>o, <1>p, <2>1, <2>3 DEF IInv
<1>3. CASE Stories
  <2>1. RestOK' /\ suspect' = suspect
    BY <1>3, <1>r, <1>t DEF Stories, RestOK
  <2>2. worker.at \in Validated
    BY <1>3 DEF Stories, Validated
  <2>3. BranchOfWave'
    BY <1>w, <1>p, <2>1, <2>2, KeepsBranch
  <2> QED
    BY <1>o, <1>p, <2>1, <2>3 DEF IInv
<1> QED
  BY <1>1, <1>2, <1>3

\* cleanupSuccessfulBranch: the branch is destroyed or kept, and the worker leaves it.
LEMMA CleanUpOK == ASSUME IInv, CleanUp PROVE IInv'
<1>t. RunOK /\ ProviderOK /\ RestOK /\ BoundsOK /\ BranchOfWave
  BY DEF IInv
<1>1. worker' \in WorkerSet /\ worker'.at \in {"gate", "provision"}
  <2>1. Wave + 1 \in Nat \ {0}
    BY <1>t DEF RunOK, WorkerSet, Wave, Waves, None
  <2> QED
    BY <2>1, FromType DEF CleanUp
<1>2. Target \in Refs /\ Cleans(policy')
  BY <1>t DEF CleanUp, BranchOfWave, Using
<1>3. row' \in RowSet
  BY <1>t, <1>2 DEF Cleans, Lives, RunOK, RowSet, Lifecycles
<1>4. RunOK'
  BY <1>t, <1>1, <1>3 DEF CleanUp, RunOK
<1>5. ProviderOK'
  BY <1>t, <1>2, DestroyedType DEF CleanUp, Cleans, ProviderOK
<1>6. BoundsOK'
  BY <1>t, <1>2, FaultType, NoFaultType DEF Cleans
<1>7. RestOK'
  BY <1>t, <1>2 DEF CleanUp, Cleans, RestOK, Policies
<1>8. BranchOfWave'
  BY <1>1 DEF BranchOfWave, Using, Validated
<1> QED
  BY <1>4, <1>5, <1>6, <1>7, <1>8 DEF IInv

\* A run that is taken up again begins where it has no branch.
LEMMA ResumeOK == ASSUME IInv, Resume \/ RetryRetained PROVE IInv'
<1>t. RunOK /\ ProviderOK /\ RestOK /\ BoundsOK
  BY DEF IInv
<1>1. row' \in RowSet /\ worker' \in WorkerSet /\ worker'.at \in {"gate", "provision"}
  BY <1>t, ResumesType DEF Resume, RetryRetained
<1>2. ProviderOK' /\ RestOK' /\ BoundsOK' /\ plan' = plan
  BY <1>t, NoFaultType DEF Resume, RetryRetained, provider, Unchecked, ProviderOK, RestOK
<1>3. BranchOfWave'
  BY <1>1 DEF BranchOfWave, Using, Validated
<1> QED
  BY <1>t, <1>1, <1>2, <1>3 DEF IInv, RunOK

\* What the operator discards leaves a payload of the right type.
LEMMA DiscardedType == ASSUME RunOK PROVE Discarded \in PlanSet
BY DEF RunOK, Discarded, PlanSet

LEMMA ClearAndFreshOK == ASSUME IInv, ClearAndFresh PROVE IInv'
<1>t. RunOK /\ ProviderOK /\ RestOK /\ BoundsOK /\ BranchOfWave
  BY DEF IInv
<1>1. row' \in RowSet
  BY <1>t DEF ClearAndFresh, RunOK, RowSet, Lifecycles
<1>2. RunOK'
  BY <1>t, <1>1, DiscardedType DEF ClearAndFresh, RunOK
<1>3. ProviderOK' /\ BoundsOK'
  BY <1>t, NoFaultType DEF ClearAndFresh, provider, ProviderOK
<1>4. command' \in [on : BOOLEAN, ref : Refs \cup {None}]
  BY <1>t DEF ClearAndFresh, RunOK, RowSet
<1>5. RestOK'
  BY <1>t, <1>4 DEF ClearAndFresh, RestOK
<1>6. BranchOfWave'
  BY DEF ClearAndFresh, Idle, BranchOfWave, Using, Validated
<1> QED
  BY <1>2, <1>3, <1>5, <1>6 DEF IInv

\* A branch that is destroyed is no longer used, but it was: its name stays.
LEMMA ClearEndsOK == ASSUME IInv, ClearEnds PROVE IInv'
<1>t. RunOK /\ ProviderOK /\ RestOK /\ BoundsOK /\ BranchOfWave
  BY DEF IInv
<1>c. command \in [on : BOOLEAN, ref : Refs \cup {None}]
  BY <1>t DEF RestOK
<1>1. ProviderOK' /\ name' = name /\ \A c \in Refs : health[c] # "unused" => health'[c] # "unused"
  <2>1. health' = health \/ (command.ref \in Refs /\ health' = Destroyed(command.ref))
    BY <1>c DEF ClearEnds
  <2>2. UNCHANGED name
    BY DEF ClearEnds
  <2>3. CASE health' = health
    BY <1>t, <2>2, <2>3 DEF ProviderOK
  <2>4. CASE command.ref \in Refs /\ health' = Destroyed(command.ref)
    BY <1>t, <2>2, <2>4, DestroyedType
  <2> QED
    BY <2>1, <2>2, <2>3, <2>4
<1>2. BoundsOK'
  BY <1>t, FaultType, NoFaultType DEF ClearEnds
<1>3. RestOK'
  <2>1. strays' \in SUBSET Refs
    BY <1>t, <1>c DEF ClearEnds, RestOK
  <2>2. command' \in [on : BOOLEAN, ref : Refs \cup {None}]
    BY DEF ClearEnds, NoCommand
  <2> QED
    BY <1>t, <2>1, <2>2 DEF ClearEnds, RestOK
<1>4. CASE Idle
  <2>1. row' \in RowSet /\ worker' \in WorkerSet /\ worker'.at \in {"gate", "provision"}
    BY <1>t, <1>4, ResumesType DEF ClearEnds
  <2>2. RunOK'
    BY <1>t, <2>1 DEF ClearEnds, RunOK
  <2>3. BranchOfWave'
    BY <2>1 DEF BranchOfWave, Using, Validated
  <2> QED
    BY <1>1, <1>2, <1>3, <2>2, <2>3 DEF IInv
<1>5. CASE ~Idle
  <2>1. row' = row /\ worker' = worker /\ plan' = plan /\ suspect' = suspect
    BY <1>5 DEF ClearEnds
  <2>2. RunOK'
    BY <1>t, <2>1 DEF RunOK
  <2>3. BranchOfWave'
    BY <1>t, <1>1, <2>1 DEF BranchOfWave, Wave, Target
  <2> QED
    BY <1>1, <1>2, <1>3, <2>2, <2>3 DEF IInv
<1> QED
  BY <1>4, <1>5

LEMMA CrashOK == ASSUME IInv, Crash PROVE IInv'
<1>t. RunOK /\ ProviderOK /\ RestOK /\ BoundsOK /\ BranchOfWave
  BY DEF IInv
<1>1. row' \in RowSet /\ worker' \in WorkerSet /\ worker'.at \notin Using
  BY <1>t DEF Crash, RunOK, RowSet, WorkerSet, Off, None, Using
<1>2. RunOK'
  BY <1>t, <1>1 DEF Crash, RunOK
<1>3. ProviderOK' /\ RestOK'
  BY <1>t DEF Crash, provider, ProviderOK, RestOK, NoCommand
<1>4. BoundsOK'
  BY <1>t, BoundAssumption DEF Crash, BoundsOK
<1>5. BranchOfWave'
  BY <1>1 DEF BranchOfWave, Using, Validated
<1> QED
  BY <1>2, <1>3, <1>4, <1>5 DEF IInv

\* An action of the operator changes the row and the payload, never the worker's branch.
LEMMA MoveOK == ASSUME IInv, Move PROVE IInv'
<1>t. RunOK /\ ProviderOK /\ RestOK /\ BoundsOK /\ BranchOfWave
  BY DEF IInv
<1>0. row \in RowSet /\ plan \in PlanSet /\ Discarded \in PlanSet /\ Recorded \in Refs \cup {None}
  BY <1>t, DiscardedType, RecordedType DEF RunOK
<1>1. row' \in RowSet /\ plan' \in PlanSet
  <2>1. ASSUME NEW b \in Refs, Attach(b) PROVE row' \in RowSet /\ plan' \in PlanSet
    BY <1>0, <2>1 DEF Attach, RowSet, PlanSet, Lifecycles
  <2>2. CASE Discard \/ RecoverFresh \/ ChooseFresh
    BY <1>0, <2>2 DEF Discard, RecoverFresh, ChooseFresh, RowSet, Lifecycles
  <2>3. CASE ChooseRetained
    BY <1>0, <2>3 DEF ChooseRetained, PlanSet
  <2>4. CASE ClearPayload \/ ClearRef \/ ClearLifecycle
    BY <1>0, <2>4
      DEF ClearPayload, ClearRef, ClearLifecycle, Lives, RowSet, PlanSet, NoPlan, Lifecycles
  <2> QED
    BY <2>1, <2>2, <2>3, <2>4 DEF Move
<1>2. RunOK'
  BY <1>t, <1>1 DEF Move, RunOK
<1>3. ProviderOK' /\ RestOK'
  BY <1>t DEF Move, provider, ProviderOK, RestOK
<1>4. BoundsOK'
  BY <1>t, BoundAssumption DEF Move, BoundsOK
<1>5. BranchOfWave'
  BY <1>t DEF Move, provider, BranchOfWave, Wave, Target
<1> QED
  BY <1>2, <1>3, <1>4, <1>5 DEF IInv

LEMMA ProviderStepOK == ASSUME IInv, Builds \/ Breaks PROVE IInv'
<1>t. RunOK /\ ProviderOK /\ RestOK /\ BoundsOK /\ BranchOfWave
  BY DEF IInv
<1>1. PICK b \in Refs, h \in {"healthy", "broken"} : health' = [health EXCEPT ![b] = h]
  BY DEF Builds, Breaks
<1>2. UNCHANGED <<name, row, plan, worker>> /\ UNCHANGED Unchecked
  BY DEF Builds, Breaks
<1>3. ProviderOK' /\ \A c \in Refs : health[c] # "unused" => health'[c] # "unused"
  BY <1>t, <1>1, <1>2 DEF ProviderOK
<1>4. BoundsOK'
  BY <1>t, FaultType, NoFaultType DEF Builds, Breaks
<1>5. RunOK' /\ RestOK'
  BY <1>t, <1>2 DEF RunOK, RestOK, Unchecked
<1>6. BranchOfWave'
  BY <1>t, <1>2, <1>3 DEF Unchecked, BranchOfWave, Wave, Target
<1> QED
  BY <1>3, <1>4, <1>5, <1>6 DEF IInv

LEMMA StepOK == IInv /\ [Next]_vars => IInv'
<1> SUFFICES ASSUME IInv, [Next]_vars PROVE IInv'
  OBVIOUS
<1>1. CASE WorkerStep
  BY <1>1, ProvisionOK, FailsOK, OnBranchOK, CleanUpOK DEF WorkerStep
<1>2. CASE Resume \/ RetryRetained \/ ClearAndFresh \/ ClearEnds
  BY <1>2, ResumeOK, ClearAndFreshOK, ClearEndsOK
<1>3. CASE Crash \/ Move \/ Builds \/ Breaks
  BY <1>3, CrashOK, MoveOK, ProviderStepOK
<1>4. CASE UNCHANGED vars
  BY <1>4 DEF vars, IInv, RunOK, ProviderOK, RestOK, BoundsOK, BranchOfWave, Wave, Target
<1> QED
  BY <1>1, <1>2, <1>3, <1>4 DEF Next

LEMMA Inductive == Spec => []IInv
BY InitOK, StepOK, PTL DEF Spec

-----------------------------------------------------------------------------
(* The theorems. *)

\* The types of every variable are kept by every step.
THEOREM TypeCorrect == Spec => []TypeOK
<1>1. IInv => TypeOK
  BY TypeParts DEF IInv
<1> QED
  BY <1>1, Inductive, PTL

\* The handoff, the validation, the stories and the cleanup of a wave (supabaseWaveGate.ts,
\* waveExecution.ts) are done on a branch with the name of that wave, however many branches the
\* provider has and whatever the operator attached.
THEOREM OwnBranchCorrect == Spec => []OwnBranch
<1>1. IInv => OwnBranch
  BY DEF IInv, BranchOfWave, OwnBranch, Using
<1> QED
  BY <1>1, Inductive, PTL

\* One step destroys no suspect branch but the one that is being cleared.
LEMMA DiagnosisStep ==
    ASSUME IInv, [Next]_vars, NEW b \in suspect \cup suspect', Alive(b)
    PROVE  Alive(b)' \/ (command.on /\ command.ref = b)
<1>t. RunOK /\ ProviderOK /\ RestOK /\ BranchOfWave
  BY DEF IInv
<1>r. b \in Refs
  BY <1>t, StepOK DEF IInv, RestOK
<1>b. CASE health' = health
  BY <1>b DEF Alive
<1>1. CASE Create \/ CreateLost
  <2>1. PICK c \in Refs : Creates(c)
    BY <1>1 DEF Create, CreateLost
  <2> QED
    BY <1>t, <2>1 DEF Creates, Alive, ProviderOK
<1>2. CASE Builds \/ Breaks
  <2>1. PICK c \in Refs, h \in {"healthy", "broken"} : health' = [health EXCEPT ![c] = h]
    BY <1>2 DEF Builds, Breaks
  <2> QED
    BY <1>t, <2>1 DEF Alive, ProviderOK
<1>3. CASE CleanUp
  <2>1. suspect' = suspect /\ Target \notin suspect
    BY <1>3, <1>t DEF CleanUp, BranchOfWave, Validated
  <2>2. health' = health \/ health' = [health EXCEPT ![Target] = "gone"]
    BY <1>3 DEF CleanUp, Cleans, Destroyed
  <2>3. b # Target
    BY <2>1
  <2> QED
    BY <1>t, <1>r, <2>2, <2>3 DEF Alive, ProviderOK
<1>4. CASE ClearEnds
  <2>1. health' = health \/ health' = [health EXCEPT ![command.ref] = "gone"]
    BY <1>4 DEF ClearEnds, Destroyed
  <2>2. command.on
    BY <1>4 DEF ClearEnds
  <2> QED
    BY <1>t, <1>r, <2>1, <2>2 DEF Alive, ProviderOK
<1>5. CASE \/ Provision \/ ProvisionFails \/ Record \/ Poll \/ PollFails \/ Handoff \/ HandoffFails
           \/ Validate \/ ValidateFails \/ Stories
  BY <1>5, <1>b DEF Provision, ProvisionFails, Record, Poll, PollFails, Handoff, HandoffFails,
                    Validate, ValidateFails, Stories, Fails, provider
<1>6. CASE Resume \/ RetryRetained \/ ClearAndFresh \/ Crash \/ Move \/ UNCHANGED vars
  BY <1>6, <1>b DEF Resume, RetryRetained, ClearAndFresh, Crash, Move, provider, vars
<1> QED
  BY <1>1, <1>2, <1>3, <1>4, <1>5, <1>6 DEF Next, WorkerStep

\* A branch kept for diagnosis (provisioningRecovery.ts) leaves the provider by the operator's
\* clear-and-fresh alone: the cleanup of a wave that succeeded destroys a branch that passed.
THEOREM DiagnosisCorrect == Spec => DiagnosisKept
<1>1. IInv /\ [Next]_vars =>
        [\A b \in suspect \cup suspect' :
            Alive(b) => Alive(b)' \/ (command.on /\ command.ref = b)]_vars
  BY DiagnosisStep
<1> QED
  BY <1>1, Inductive, PTL DEF Spec, DiagnosisKept

-----------------------------------------------------------------------------
(* What is left at the provider.                                           *)

Ahead == {"provision", "create", "record", "poll", "handoff", "validate", "stories"}
Recording == {"poll", "handoff", "validate", "stories", "cleanup"}

\* The worker is at the first wave that is not merged; a command has a branch to destroy only
\* while it runs, and runs only after the operator cleared the run. Unless an action of the
\* operator touched them, the payload selects no branch and the row has that of the worker.
StandInv ==
    /\ worker.at \in Ahead => Wave = merged + 1
    /\ worker.at = "cleanup" => Wave = merged /\ merged # None
    /\ command.on \/ command.ref = None
    /\ command.on => cleared
    /\ moves = 0 =>
          /\ plan.action # "attach" /\ (~cleared => plan.action = "none")
          /\ worker.at \in Recording => row.ref = Target
          /\ worker.at \in Validated => row.life = "validated"

Quiet == ~cleared /\ moves = 0
Spared(w) == Quiet /\ (w > 1 => crashes = 0)

\* A worker creates a branch where there is none. In the first wave the row, which survives a
\* crash, has a branch of that wave or none; after it, a run without a crash was either blocked,
\* so that it recovers and creates nothing, or has not named a branch for the waves ahead.
SoleInv ==
    /\ \A w \in Waves : Spared(w) => \A b, c \in Named(w) : b = c
    /\ worker.at = "create" /\ Spared(Wave) => Named(Wave) = {}
    /\ worker.at = "record" /\ Quiet => Alive(Target)
    /\ Quiet /\ merged = None => row.ref = None \/ row.ref \in Named(1)
    /\ Quiet /\ crashes = 0 /\ row.rec # "none" => row.rec = "blocked" /\ plan.wave # None
    /\ Quiet /\ crashes = 0 /\ row.rec = "none" =>
          /\ worker.at # "off"
          /\ \A b \in Refs : name[b] <=
                IF worker.at \in {"provision", "create", "cleanup"} THEN merged ELSE merged + 1

Tidy == crashes = 0 /\ moves = 0 /\ policy \in {"unread", "on-success-immediate"}

\* No failed call and no command accounts for the branch.
Loose(b) == Alive(b) /\ b \notin strays /\ b # command.ref

\* The next worker finds it by the row and its name.
Found(b) ==
    /\ worker.at \in {"off", "provision"}
    /\ row.ref = b /\ row.rec = "blocked" /\ name[b] = merged + 1
    /\ plan.wave = merged + 1 /\ plan.action = "none"

LooseInv == Tidy => \A b \in Refs : Loose(b) => (worker.at \in Using /\ b = Target) \/ Found(b)

\* What the helpers of the steps leave behind.
LEMMA BlocksIs ==
    ASSUME NEW r \in RowSet, NEW b, Blocks(r, b)
    PROVE  /\ row'.ref = r.ref /\ row'.rec = "blocked"
           /\ plan'.wave = Wave /\ plan'.action = "none"
           /\ worker'.at = "off"
BY DEF Blocks, RowSet, Off

LEMMA GoesIs ==
    ASSUME RunOK, NEW place, NEW b, Goes(place, b)
    PROVE  worker'.at = place /\ worker'.wave = worker.wave /\ worker'.ref = b
BY DEF RunOK, Goes, WorkerSet

LEMMA AdoptsIs ==
    ASSUME RunOK, NEW b, Adopts(b)
    PROVE  /\ row'.ref = b /\ row'.rec = row.rec /\ plan' = plan
           /\ worker'.at = "poll" /\ worker'.wave = worker.wave /\ worker'.ref = b
BY GoesIs DEF Adopts, RunOK, RowSet

LEMMA UnattachedIs ==
    ASSUME RunOK
    PROVE  Unattached.rec = row.rec /\ Unattached.ref \in {row.ref, None}
BY DEF RunOK, Unattached, RowSet

LEMMA FromIs ==
    ASSUME NEW w \in Nat
    PROVE  /\ From(w).at \in {"provision", "gate"}
           /\ From(w).at = "provision" => From(w).wave = w
           /\ w \in Waves => From(w).at = "provision"
BY BoundAssumption DEF From, Waves

LEMMA ResumesIs ==
    ASSUME RunOK, RestOK, Resumes(row, plan)
    PROVE  /\ row'.ref = row.ref /\ row'.life = row.life
           /\ row'.rec = IF plan = NoPlan THEN "none" ELSE row.rec
           /\ worker'.at \in {"provision", "gate"}
           /\ worker'.at = "provision" => worker'.wave = merged + 1
           /\ merged + 1 \in Waves => worker'.at = "provision"
<1>1. merged + 1 \in Nat
  BY DEF RestOK, Waves, None
<1>2. row' = [row EXCEPT !.status = "running", !.rec = IF plan = NoPlan THEN "none" ELSE @]
  BY DEF Resumes
<1>3. /\ row'.ref = row.ref /\ row'.life = row.life
      /\ row'.rec = IF plan = NoPlan THEN "none" ELSE row.rec
  BY <1>2 DEF RunOK, RowSet
<1> QED
  BY <1>1, <1>3, FromIs DEF Resumes

\* The ways out of provisionBranch.
BlocksThere ==
    \E b : Blocks(row, b) \/ (~Recovers /\ Blocks(Unattached, b))

TakesBranch ==
    \E b \in Refs : Usable(b, Wave) /\ Adopts(b) /\ (plan.action = "attach" \/ Named(Wave) = {b})

WantsBranch ==
    /\ ~Recovers /\ row' = Unattached /\ Goes("create", None) /\ UNCHANGED plan
    /\ Named(Wave) = {} \/ \E b \in Refs : Named(Wave) = {b} /\ Fresh

LEMMA ProvisionIs ==
    ASSUME ReuseSelected \/ ReuseRecorded \/ ReuseNamed
    PROVE  BlocksThere \/ TakesBranch \/ WantsBranch
<1>1. CASE ReuseSelected
  <2>1. Usable(Recorded, Wave) => Recorded \in Refs
    BY UsableIs
  <2> QED
    BY <1>1, <2>1 DEF ReuseSelected, BlocksThere, TakesBranch
<1>2. CASE ReuseRecorded
  <2>1. CASE Blocks(row, Recorded) \/ Blocks(row, None)
    BY <2>1 DEF BlocksThere
  <2>2. ASSUME NEW b \in Refs, Named(Wave) = {b},
               IF Usable(b, Wave) THEN Adopts(b) ELSE Blocks(row, b)
        PROVE  BlocksThere \/ TakesBranch
    BY <2>2 DEF BlocksThere, TakesBranch
  <2> QED
    BY <1>2, <2>1, <2>2 DEF ReuseRecorded
<1>3. CASE ReuseNamed
  <2>0. ~Recovers
    BY <1>3 DEF ReuseNamed
  <2>1. ASSUME NEW b, Blocks(Unattached, b) PROVE BlocksThere
    BY <2>0, <2>1 DEF BlocksThere
  <2>2. ASSUME NEW b \in Refs, Named(Wave) = {b}, Usable(b, Wave), Adopts(b) PROVE TakesBranch
    BY <2>2 DEF TakesBranch
  <2> QED
    BY <1>3, <2>0, <2>1, <2>2 DEF ReuseNamed, WantsBranch
<1> QED
  BY <1>1, <1>2, <1>3

LEMMA StandInit == Init => StandInv
BY DEF Init, StandInv, Ahead, Recording, Validated, Wave, Target, NoCommand, NoPlan, None

\* A run that is stopped or taken up again has no branch in hand.
LEMMA StandOff ==
    ASSUME StandInv, command'.on \/ command'.ref = None, command'.on => cleared',
           worker'.at \in {"off", "gate", "create"} \/ (worker'.at = "provision" /\ worker'.wave = merged' + 1),
           worker'.at = "create" => worker'.wave = merged' + 1,
           moves' = 0 => plan'.action # "attach" /\ (~cleared' => plan'.action = "none")
    PROVE  StandInv'
BY DEF StandInv, Ahead, Recording, Validated, Wave, Target

LEMMA StandStep == ASSUME IInv, StandInv, [Next]_vars PROVE StandInv'
<1>t. RunOK /\ RestOK /\ BoundsOK
  BY DEF IInv
<1>r. row \in RowSet /\ Unattached \in RowSet /\ merged \in Nat
  BY <1>t, UnattachedType DEF RunOK, RestOK, Waves, None
<1>1. CASE Provision \/ ProvisionFails \/ CreateLost
  <2>1. command' = command /\ cleared' = cleared /\ merged' = merged /\ moves' = moves
    BY <1>1 DEF Provision, ProvisionFails, CreateLost, Unchecked, NoFault, Fault, bounds
  <2>2. worker.at \in {"provision", "create"}
    BY <1>1 DEF Provision, ProvisionFails, CreateLost
  <2>3. ASSUME NEW b, NEW r \in RowSet, Blocks(r, b) PROVE StandInv'
    <3>1. worker'.at = "off" /\ plan'.action = "none"
      BY <2>3, BlocksIs
    <3> QED
      BY <2>1, <3>1, StandOff DEF StandInv
  <2>4. CASE TakesBranch
    <3>1. PICK b \in Refs : Adopts(b)
      BY <2>4 DEF TakesBranch
    <3>2. /\ row'.ref = b /\ plan' = plan
          /\ worker'.at = "poll" /\ worker'.wave = worker.wave /\ worker'.ref = b
      BY <1>t, <3>1, AdoptsIs
    <3> QED
      BY <2>1, <2>2, <3>2 DEF StandInv, Ahead, Validated, Wave, Target
  <2>5. CASE WantsBranch
    <3>1. plan' = plan /\ worker'.at = "create" /\ worker'.wave = worker.wave
      BY <1>t, <2>5, GoesIs DEF WantsBranch
    <3>2. worker'.wave = merged' + 1
      BY <2>1, <2>2, <3>1 DEF StandInv, Ahead, Wave
    <3> QED
      BY <2>1, <3>1, <3>2, StandOff DEF StandInv
  <2>6. BlocksThere \/ TakesBranch \/ WantsBranch
    BY <1>1, ProvisionIs DEF Provision, ProvisionFails, CreateLost, BlocksThere
  <2> QED
    BY <1>r, <2>3, <2>4, <2>5, <2>6 DEF BlocksThere
<1>2. CASE PollFails \/ HandoffFails \/ ValidateFails
  <2>1. /\ command' = command /\ cleared' = cleared /\ merged' = merged /\ moves' = moves
        /\ Blocks(row, Target)
    BY <1>2 DEF PollFails, HandoffFails, ValidateFails, Fails, NoFault, Fault, bounds
  <2>2. worker'.at = "off" /\ plan'.action = "none"
    BY <1>r, <2>1, BlocksIs
  <2> QED
    BY <2>1, <2>2, StandOff DEF StandInv
<1>3. CASE Create \/ Record \/ Poll \/ Handoff \/ Validate
  <2>1. /\ command' = command /\ cleared' = cleared /\ merged' = merged /\ moves' = moves
        /\ plan' = plan /\ worker.at \in Ahead
    BY <1>3 DEF Create, Record, Poll, Handoff, Validate, NoFault, bounds, Unchecked, Ahead
  <2>2. /\ worker'.at \in Ahead /\ worker'.wave = worker.wave
        /\ worker'.at \in Recording => worker'.ref = worker.ref
    BY <1>t, <1>3, GoesIs DEF Create, Record, Poll, Handoff, Validate, Ahead, Recording, Target
  <2>3. moves = 0 /\ worker'.at \in Recording => row'.ref = worker.ref
    <3>1. CASE Create
      BY <1>t, <3>1, GoesIs DEF Create, Recording
    <3>2. CASE Record
      BY <1>t, <3>2 DEF Record, RunOK, RowSet, Target
    <3>3. CASE Poll \/ Handoff \/ Validate
      <4>1. row'.ref = row.ref /\ worker.at \in Recording
        BY <1>t, <3>3 DEF Poll, Handoff, Validate, Lives, RunOK, RowSet, Recording
      <4> QED
        BY <4>1 DEF StandInv, Target
    <3> QED
      BY <1>3, <3>1, <3>2, <3>3
  <2>4. worker'.at \in Validated => row'.life = "validated"
    BY <1>t, <1>3, GoesIs
      DEF Create, Record, Poll, Handoff, Validate, Validated, Lives, RunOK, RowSet
  <2> QED
    BY <2>1, <2>2, <2>3, <2>4 DEF StandInv, Ahead, Wave, Target
<1>4. CASE Stories
  <2>1. /\ command' = command /\ cleared' = cleared /\ merged' = Wave /\ moves' = moves
        /\ plan' = plan /\ row' = row /\ worker.at = "stories"
    BY <1>4 DEF Stories, NoFault, bounds
  <2>2. worker'.at = "cleanup" /\ worker'.wave = worker.wave /\ worker'.ref = worker.ref
    BY <1>t, <1>4, GoesIs DEF Stories, Target
  <2> QED
    BY <1>r, <2>1, <2>2 DEF StandInv, Ahead, Recording, Validated, Wave, Target, None
<1>5. CASE CleanUp
  <2>1. /\ command' = command /\ cleared' = cleared /\ merged' = merged /\ moves' = moves
        /\ plan' = plan /\ worker' = From(Wave + 1) /\ Wave = merged
    BY <1>5 DEF CleanUp, Cleans, NoFault, Fault, bounds, StandInv
  <2>2. worker'.at \in {"provision", "gate"} /\ (worker'.at = "provision" => worker'.wave = merged + 1)
    BY <1>r, <2>1, FromIs
  <2> QED
    BY <2>1, <2>2, StandOff DEF StandInv
<1>6. CASE Resume \/ RetryRetained
  <2>1. /\ command' = command /\ cleared' = cleared /\ merged' = merged /\ moves' = moves
        /\ plan' = plan /\ Resumes(row, plan)
    BY <1>6 DEF Resume, RetryRetained, NoFault, bounds, Unchecked
  <2>2. worker'.at \in {"provision", "gate"} /\ (worker'.at = "provision" => worker'.wave = merged + 1)
    BY <1>t, <2>1, ResumesIs
  <2> QED
    BY <2>1, <2>2, StandOff DEF StandInv
<1>7. CASE ClearAndFresh
  <2>1. command'.on /\ cleared' /\ worker' = worker /\ worker.at = "off"
    BY <1>7 DEF ClearAndFresh, Idle
  <2>2. plan'.action = "discard"
    BY <1>t, <1>7 DEF ClearAndFresh, Discarded, RunOK, PlanSet
  <2> QED
    BY <2>1, <2>2, StandOff
<1>8. CASE ClearEnds
  <2>1. /\ ~command'.on /\ command'.ref = None /\ cleared' = cleared /\ merged' = merged
        /\ moves' = moves /\ plan' = plan
    BY <1>8 DEF ClearEnds, NoCommand, NoFault, Fault, bounds
  <2>2. CASE Idle
    <3>1. worker'.at \in {"provision", "gate"} /\ (worker'.at = "provision" => worker'.wave = merged + 1)
      BY <1>t, <1>8, <2>2, ResumesIs DEF ClearEnds
    <3> QED
      BY <2>1, <3>1, StandOff DEF StandInv
  <2>3. CASE ~Idle
    <3>1. row' = row /\ worker' = worker
      BY <1>8, <2>3 DEF ClearEnds
    <3> QED
      BY <2>1, <3>1 DEF StandInv, Wave, Target
  <2> QED
    BY <2>2, <2>3
<1>9. CASE Crash
  <2>1. /\ worker' = Off /\ command' = NoCommand
        /\ UNCHANGED <<policy, plan, merged, suspect, strays, cleared, faults, moves>>
    BY <1>9 DEF Crash
  <2>2. worker'.at = "off" /\ ~command'.on /\ command'.ref = None
    BY <2>1 DEF Off, NoCommand
  <2> QED
    BY <2>1, <2>2, StandOff DEF StandInv
<1>10. CASE Move
  <2>1. moves' # 0 /\ UNCHANGED <<policy, worker, command, merged, cleared>>
    BY <1>t, <1>10 DEF Move, BoundsOK
  <2> QED
    BY <2>1 DEF StandInv, Wave
<1>11. CASE Builds \/ Breaks \/ UNCHANGED vars
  <2>1. UNCHANGED <<row, plan, worker, command, merged, cleared, moves>>
    BY <1>11 DEF Builds, Breaks, vars, Unchecked, NoFault, Fault, bounds
  <2> QED
    BY <2>1 DEF StandInv, Wave, Target
<1> QED
  BY <1>1, <1>2, <1>3, <1>4, <1>5, <1>6, <1>7, <1>8, <1>9, <1>10, <1>11 DEF Next, WorkerStep

\* What a step that leaves the provider alone leaves as it was, and what a creation adds.
LEMMA SameBranches ==
    ASSUME UNCHANGED provider
    PROVE  /\ \A w : Named(w)' = Named(w)
           /\ \A b : Alive(b)' = Alive(b) /\ name'[b] = name[b]
BY DEF provider, Named, Alive

LEMMA CreatesIs ==
    ASSUME IInv, NEW b \in Refs, Creates(b), NEW w, w = Wave
    PROVE  /\ Named(w)' = Named(w) \cup {b} /\ Alive(b)' /\ ~Alive(b) /\ name'[b] = w
           /\ \A v : v # w => Named(v)' = Named(v)
           /\ \A c \in Refs : c # b => Alive(c)' = Alive(c) /\ name'[c] = name[c]
<1>0. /\ name \in [Refs -> Waves \cup {None}] /\ health[b] = "unused"
      /\ health \in [Refs -> {"unused", "building", "healthy", "broken", "gone"}]
      /\ name' = [name EXCEPT ![b] = w] /\ health' = [health EXCEPT ![b] = "building"]
  BY DEF IInv, ProviderOK, Creates
<1>1. Alive(b)' /\ ~Alive(b) /\ name'[b] = w
  BY <1>0 DEF Alive
<1>2. \A c \in Refs : c # b => Alive(c)' = Alive(c) /\ name'[c] = name[c]
  BY <1>0 DEF Alive
<1>3. Named(w)' = Named(w) \cup {b}
  BY <1>1, <1>2 DEF Named
<1>4. \A v : v # w => Named(v)' = Named(v)
  BY <1>1, <1>2 DEF Named
<1> QED
  BY <1>1, <1>2, <1>3, <1>4

\* A destruction takes one branch away.
LEMMA DestroyedIs ==
    ASSUME ProviderOK, NEW b \in Refs, health' = Destroyed(b), UNCHANGED name
    PROVE  /\ \A w : Named(w)' \subseteq Named(w)
           /\ ~Alive(b)' /\ \A c \in Refs : c # b => Alive(c)' = Alive(c)
<1>1. ~Alive(b)' /\ \A c \in Refs : c # b => Alive(c)' = Alive(c)
  BY DEF ProviderOK, Destroyed, Alive
<1> QED
  BY <1>1 DEF Named

LEMMA SettlesIs ==
    ASSUME ProviderOK, Builds \/ Breaks
    PROVE  /\ \A w : Named(w)' = Named(w)
           /\ \A b \in Refs : Alive(b)' = Alive(b) /\ name'[b] = name[b]
<1>1. PICK b \in Refs, h \in {"healthy", "broken"} :
          health[b] = "building" /\ health' = [health EXCEPT ![b] = h]
  BY DEF Builds, Breaks
<1>2. name' = name
  BY DEF Builds, Breaks
<1>3. \A c \in Refs : Alive(c)' = Alive(c)
  BY <1>1 DEF ProviderOK, Alive
<1> QED
  BY <1>2, <1>3 DEF Named

LEMMA NamedIs ==
    ASSUME NEW w, NEW b \in Named(w) PROVE b \in Refs /\ Alive(b) /\ name[b] = w
BY DEF Named

-----------------------------------------------------------------------------
(* A branch of its own.                                                    *)

LEMMA SoleInit == Init => SoleInv
<1> SUFFICES ASSUME Init PROVE SoleInv
  OBVIOUS
<1>1. /\ \A b \in Refs : name[b] = None /\ ~Alive(b)
      /\ row.rec = "none" /\ row.ref = None /\ merged = None /\ worker.at = "provision"
  BY DEF Init, Alive
<1>2. \A w : Named(w) = {}
  BY <1>1 DEF Named
<1> QED
  BY <1>1, <1>2 DEF SoleInv, None

\* The worker leaves its wave, and the branches stay.
LEMMA SoleOff ==
    ASSUME SoleInv, Quiet, UNCHANGED <<provider, merged, cleared, moves>>,
           crashes' = crashes, worker'.at = "off", row'.ref \in {row.ref, None},
           row'.rec = "blocked", plan'.wave # None
    PROVE  SoleInv'
<1>1. (\A w : Named(w)' = Named(w)) /\ (\A b : Alive(b)' = Alive(b) /\ name'[b] = name[b])
  BY SameBranches
<1> QED
  BY <1>1 DEF SoleInv, Spared, Quiet

\* Where a worker looks for a branch and recovers nothing, it creates one only if there is none.
LEMMA SoleWanted ==
    ASSUME IInv, StandInv, SoleInv, Spared(Wave), worker.at = "provision", WantsBranch
    PROVE  Named(Wave) = {}
<1>1. Wave = merged + 1 /\ merged \in Nat
  BY DEF IInv, RestOK, StandInv, Ahead, Waves, None
<1>2. plan.action = "none"
  BY DEF StandInv, Spared, Quiet
<1>3. CASE merged = None
  <2>1. row.ref = None \/ row.ref \in Named(Wave)
    BY <1>1, <1>3 DEF SoleInv, Spared, None
  <2>2. ~Fresh
    BY <1>2, <2>1 DEF Fresh, Stale
  <2> QED
    BY <2>2 DEF WantsBranch
<1>4. CASE merged # None
  <2>1. crashes = 0 /\ Quiet
    BY <1>1, <1>4 DEF Spared, None
  <2>2. row.rec = "none"
    BY <1>2, <2>1 DEF SoleInv, WantsBranch, Recovers
  <2>3. \A b \in Refs : name[b] <= merged
    BY <2>1, <2>2 DEF SoleInv
  <2>4. \A b \in Refs : name[b] # Wave
    BY <1>1, <2>3 DEF IInv, ProviderOK, Waves, None
  <2> QED
    BY <2>4 DEF Named
<1> QED
  BY <1>3, <1>4

LEMMA SoleStep == ASSUME IInv, StandInv, SoleInv, [Next]_vars PROVE SoleInv'
<1>t. RunOK /\ ProviderOK /\ RestOK /\ BoundsOK
  BY DEF IInv
<1>r. row \in RowSet /\ Unattached \in RowSet /\ merged \in Nat
  BY <1>t, UnattachedType DEF RunOK, RestOK, Waves, None
<1>q. CASE ~Quiet'
  BY <1>q DEF SoleInv, Spared
<1>a. ASSUME Quiet', NEW r \in RowSet, NEW b, Blocks(r, b), r.ref \in {row.ref, None},
             Quiet, UNCHANGED <<provider, merged, cleared, moves>>, crashes' = crashes,
             worker.at \in Ahead
      PROVE  SoleInv'
  <2>1. row'.ref = r.ref /\ row'.rec = "blocked" /\ plan'.wave = Wave /\ worker'.at = "off"
    BY <1>a, BlocksIs
  <2>2. Wave # None
    BY <1>a, <1>r DEF StandInv, None
  <2> QED
    BY <1>a, <2>1, <2>2, SoleOff
<1>1. CASE Quiet' /\ (Provision \/ ProvisionFails)
  <2>1. /\ UNCHANGED <<provider, merged, cleared, moves>> /\ crashes' = crashes
        /\ worker.at \in Ahead /\ Quiet
    BY <1>1 DEF Provision, ProvisionFails, Unchecked, NoFault, Fault, bounds, Ahead, Quiet
  <2>2. (\A w : Named(w)' = Named(w)) /\ (\A b : Alive(b)' = Alive(b) /\ name'[b] = name[b])
    BY <2>1, SameBranches
  <2>3. CASE BlocksThere
    BY <1>a, <1>r, <1>t, <1>1, <2>1, <2>3, UnattachedIs DEF BlocksThere
  <2>4. CASE Provision /\ TakesBranch
    <3>1. PICK b \in Refs : Usable(b, Wave) /\ Adopts(b)
      BY <2>4 DEF TakesBranch
    <3>2. /\ row'.ref = b /\ row'.rec = row.rec /\ plan' = plan /\ worker'.at = "poll"
          /\ b \in Named(Wave)
      BY <1>t, <3>1, AdoptsIs DEF Usable
    <3>3. merged = None => Wave = 1
      BY <2>1 DEF StandInv, None
    <3>4. worker.at = "provision"
      BY <2>4 DEF Provision
    <3>5. Quiet /\ crashes = 0 /\ row.rec = "none" => \A c \in Refs : name'[c] <= merged + 1
      <4>1. SUFFICES ASSUME Quiet, crashes = 0, row.rec = "none", NEW c \in Refs
                     PROVE  name[c] <= merged + 1
        BY <2>2
      <4>2. name[c] <= merged /\ name[c] \in Nat
        BY <1>t, <3>4, <4>1 DEF SoleInv, ProviderOK, Waves, None
      <4> QED
        BY <1>r, <4>2
    <3> QED
      BY <2>1, <2>2, <3>2, <3>3, <3>5 DEF SoleInv, Spared, Quiet
  <2>5. CASE Provision /\ WantsBranch
    <3>1. /\ plan' = plan /\ worker'.at = "create" /\ worker'.wave = worker.wave
          /\ row'.rec = row.rec /\ row'.ref \in {row.ref, None} /\ worker.at = "provision"
      BY <1>t, <2>5, GoesIs, UnattachedIs DEF WantsBranch, Provision
    <3>2. PICK w : w = Wave
      OBVIOUS
    <3>3. Wave' = w /\ (Spared(w)' => Named(w)' = {})
      BY <2>1, <2>2, <2>5, <3>1, <3>2, SoleWanted DEF Wave, Spared, Quiet
    <3>4. worker'.at = "create" /\ Spared(Wave)' => Named(Wave)' = {}
      BY <3>3 DEF Wave, Named, Spared
    <3> QED
      BY <2>1, <2>2, <3>1, <3>4 DEF SoleInv, Spared, Quiet
  <2> QED
    BY <1>1, <2>3, <2>4, <2>5, ProvisionIs DEF Provision, ProvisionFails, BlocksThere
<1>2. CASE Quiet' /\ CreateLost
  <2>1. /\ UNCHANGED <<merged, cleared, moves>> /\ crashes' = crashes
        /\ worker.at = "create" /\ Quiet
    BY <1>2 DEF CreateLost, Fault, Quiet
  <2>2. PICK b \in Refs : Creates(b)
    BY <1>2 DEF CreateLost
  <2>3. /\ row'.ref = row.ref /\ row'.rec = "blocked" /\ plan'.wave = Wave
        /\ worker'.at = "off"
    BY <1>2, <1>r, BlocksIs DEF CreateLost
  <2>4. PICK w : w = Wave
    OBVIOUS
  <2>5. /\ Named(w)' = Named(w) \cup {b}
        /\ \A v : v # w => Named(v)' = Named(v)
    BY <2>2, <2>4, CreatesIs
  <2>6. \A v \in Waves : Spared(v)' => \A c, d \in Named(v)' : c = d
    <3>1. \A v \in Waves : Spared(v)' => Spared(v)
      BY <2>1 DEF Spared, Quiet
    <3>2. Spared(w) => Named(w) = {}
      BY <2>1, <2>4 DEF SoleInv
    <3> QED
      BY <2>5, <3>1, <3>2 DEF SoleInv
  <2>7. w # None
    BY <1>r, <2>1, <2>4 DEF StandInv, Ahead, None
  <2>8. Named(1) \subseteq Named(1)'
    BY <2>5
  <2> QED
    BY <2>1, <2>3, <2>4, <2>6, <2>7, <2>8 DEF SoleInv, Quiet
<1>3. CASE Quiet' /\ Create
  <2>1. /\ UNCHANGED <<row, plan, merged, cleared, moves>> /\ crashes' = crashes
        /\ worker.at = "create" /\ Quiet
    BY <1>3 DEF Create, Unchecked, NoFault, bounds, Quiet
  <2>2. PICK b \in Refs : Creates(b) /\ Goes("record", b)
    BY <1>3 DEF Create
  <2>3. worker'.at = "record" /\ worker'.ref = b
    BY <1>t, <2>2, GoesIs
  <2>4. PICK w : w = Wave
    OBVIOUS
  <2>5. /\ Named(w)' = Named(w) \cup {b} /\ Alive(b)' /\ name'[b] = w
        /\ \A v : v # w => Named(v)' = Named(v)
        /\ \A c \in Refs : c # b => name'[c] = name[c]
    BY <2>2, <2>4, CreatesIs
  <2>6. \A v \in Waves : Spared(v)' => \A c, d \in Named(v)' : c = d
    <3>1. \A v \in Waves : Spared(v)' => Spared(v)
      BY <2>1 DEF Spared, Quiet
    <3>2. Spared(w) => Named(w) = {}
      BY <2>1, <2>4 DEF SoleInv
    <3> QED
      BY <2>5, <3>1, <3>2 DEF SoleInv
  <2>7. Alive(Target)'
    BY <2>3, <2>5 DEF Target, Alive
  <2>8. Named(1) \subseteq Named(1)'
    BY <2>5
  <2>9. w = merged + 1
    BY <2>1, <2>4 DEF StandInv, Ahead
  <2>10. crashes = 0 /\ row.rec = "none" => \A c \in Refs : name'[c] <= merged + 1
    <3>1. SUFFICES ASSUME crashes = 0, row.rec = "none", NEW c \in Refs
                   PROVE  name'[c] <= merged + 1
      OBVIOUS
    <3>2. name[c] <= merged /\ name[c] \in Nat
      BY <1>t, <2>1, <3>1 DEF SoleInv, ProviderOK, Waves, None
    <3> QED
      BY <1>r, <2>5, <2>9, <3>2
  <2> QED
    BY <2>1, <2>3, <2>6, <2>7, <2>8, <2>10 DEF SoleInv, Quiet
<1>4. CASE Quiet' /\ Record
  <2>1. /\ UNCHANGED <<provider, plan, merged, cleared, moves>> /\ crashes' = crashes
        /\ worker.at = "record" /\ Quiet
    BY <1>4 DEF Record, Unchecked, NoFault, bounds, Quiet
  <2>2. (\A w : Named(w)' = Named(w)) /\ (\A b : Alive(b)' = Alive(b) /\ name'[b] = name[b])
    BY <2>1, SameBranches
  <2>3. worker'.at = "poll" /\ row'.ref = Target /\ row'.rec = row.rec
    BY <1>t, <1>4, GoesIs DEF Record, RunOK, RowSet
  <2>4. Target \in Refs /\ name[Target] = Wave /\ Alive(Target)
    BY <2>1 DEF IInv, BranchOfWave, Using, SoleInv
  <2>5. merged = None => Target \in Named(1)
    BY <2>1, <2>4 DEF StandInv, Ahead, Named, None
  <2> QED
    BY <2>1, <2>2, <2>3, <2>5 DEF SoleInv, Spared, Quiet
<1>5. CASE Quiet' /\ (PollFails \/ HandoffFails \/ ValidateFails)
  <2>1. /\ UNCHANGED <<provider, merged, cleared, moves>> /\ crashes' = crashes
        /\ worker.at \in Ahead /\ Quiet /\ Blocks(row, Target)
    BY <1>5 DEF PollFails, HandoffFails, ValidateFails, Fails, NoFault, Fault, bounds, Ahead, Quiet
  <2> QED
    BY <1>a, <1>r, <1>5, <2>1
<1>6. CASE Quiet' /\ (Poll \/ Handoff \/ Validate)
  <2>1. /\ UNCHANGED <<provider, plan, merged, cleared, moves>> /\ crashes' = crashes
        /\ worker.at \in {"poll", "handoff", "validate"} /\ Quiet
    BY <1>6 DEF Poll, Handoff, Validate, Unchecked, NoFault, bounds, Quiet
  <2>2. (\A w : Named(w)' = Named(w)) /\ (\A b : Alive(b)' = Alive(b) /\ name'[b] = name[b])
    BY <2>1, SameBranches
  <2>3. /\ worker'.at \in {"handoff", "validate", "stories"}
        /\ row'.ref = row.ref /\ row'.rec = row.rec
    BY <1>t, <1>6, GoesIs DEF Poll, Handoff, Validate, Lives, RunOK, RowSet
  <2> QED
    BY <2>1, <2>2, <2>3 DEF SoleInv, Spared, Quiet
<1>7. CASE Quiet' /\ Stories
  <2>1. /\ UNCHANGED <<provider, row, plan, cleared, moves>> /\ crashes' = crashes
        /\ worker.at = "stories" /\ Quiet /\ merged' = merged + 1
    BY <1>7 DEF Stories, NoFault, bounds, Quiet, StandInv, Ahead
  <2>2. (\A w : Named(w)' = Named(w)) /\ (\A b : Alive(b)' = Alive(b) /\ name'[b] = name[b])
    BY <2>1, SameBranches
  <2>3. worker'.at = "cleanup" /\ merged' # None
    BY <1>t, <1>r, <1>7, <2>1, GoesIs DEF Stories, None
  <2> QED
    BY <2>1, <2>2, <2>3 DEF SoleInv, Spared, Quiet
<1>8. CASE Quiet' /\ CleanUp
  <2>1. /\ UNCHANGED <<name, plan, merged, cleared, moves>> /\ crashes' = crashes
        /\ worker.at = "cleanup" /\ Quiet /\ merged # None /\ Cleans(policy')
    BY <1>8 DEF CleanUp, Cleans, NoFault, Fault, bounds, Quiet, StandInv
  <2>2. \A w : Named(w)' \subseteq Named(w)
    <3>1. Target \in Refs
      BY <2>1 DEF IInv, BranchOfWave, Using
    <3>2. health' = health \/ health' = Destroyed(Target)
      BY <2>1 DEF Cleans
    <3>3. CASE health' = health
      BY <2>1, <3>3, SameBranches DEF provider
    <3> QED
      BY <1>t, <2>1, <3>1, <3>2, <3>3, DestroyedIs
  <2>3. row'.rec = row.rec
    BY <1>t, <2>1 DEF Cleans, Lives, RunOK, RowSet
  <2>4. worker'.at \in {"provision", "gate"}
    BY <1>r, <1>8, <2>1, FromIs DEF CleanUp, StandInv
  <2>5. crashes = 0 /\ row.rec = "none" =>
            \A b \in Refs : name[b] <= merged /\ name[b] <= merged + 1
    <3>1. SUFFICES ASSUME crashes = 0, row.rec = "none", NEW b \in Refs
                   PROVE  name[b] <= merged /\ name[b] <= merged + 1
      OBVIOUS
    <3>2. name[b] <= merged /\ name[b] \in Nat
      BY <1>t, <2>1, <3>1 DEF SoleInv, ProviderOK, Waves, None
    <3> QED
      BY <1>r, <3>2
  <2> QED
    BY <2>1, <2>2, <2>3, <2>4, <2>5 DEF SoleInv, Spared, Quiet
<1>9. CASE Quiet' /\ (Resume \/ RetryRetained)
  <2>1. /\ UNCHANGED <<provider, plan, merged, cleared, moves>> /\ crashes' = crashes
        /\ Quiet /\ row.rec # "none" /\ Resumes(row, plan)
    BY <1>9 DEF Resume, RetryRetained, Idle, Unchecked, NoFault, bounds, Quiet
  <2>2. (\A w : Named(w)' = Named(w)) /\ (\A b : Alive(b)' = Alive(b) /\ name'[b] = name[b])
    BY <2>1, SameBranches
  <2>3. /\ row'.ref = row.ref /\ worker'.at \in {"provision", "gate"}
        /\ row'.rec = IF plan = NoPlan THEN "none" ELSE row.rec
    BY <1>t, <2>1, ResumesIs
  <2>4. crashes = 0 => row'.rec # "none" /\ row'.rec = row.rec
    BY <2>1, <2>3 DEF SoleInv, NoPlan
  <2> QED
    BY <2>1, <2>2, <2>3, <2>4 DEF SoleInv, Spared, Quiet
<1>10. CASE Quiet' /\ (ClearAndFresh \/ ClearEnds \/ Move)
  <2>1. cleared' \/ moves' # 0
    BY <1>t, <1>10 DEF ClearAndFresh, ClearEnds, Move, StandInv, BoundsOK
  <2> QED
    BY <1>10, <2>1 DEF Quiet
<1>11. CASE Quiet' /\ Crash
  <2>1. /\ UNCHANGED <<provider, merged, cleared, moves>> /\ crashes' # 0
        /\ worker'.at = "off" /\ Quiet
    BY <1>t, <1>11 DEF Crash, Off, Quiet, BoundsOK
  <2>2. (\A w : Named(w)' = Named(w)) /\ (\A b : Alive(b)' = Alive(b) /\ name'[b] = name[b])
    BY <2>1, SameBranches
  <2>3. row'.ref = row.ref
    BY <1>t, <1>11 DEF Crash, RunOK, RowSet
  <2> QED
    BY <2>1, <2>2, <2>3 DEF SoleInv, Spared, Quiet
<1>12. CASE Quiet' /\ (Builds \/ Breaks)
  <2>1. UNCHANGED <<row, plan, worker, merged, cleared, moves, crashes>>
    BY <1>12 DEF Builds, Breaks, Unchecked, NoFault, Fault, bounds
  <2>2. (\A w : Named(w)' = Named(w)) /\ (\A b \in Refs : Alive(b)' = Alive(b) /\ name'[b] = name[b])
    BY <1>t, <1>12, SettlesIs
  <2>3. worker.at = "record" => Target \in Refs
    BY DEF IInv, BranchOfWave, Using
  <2>4. Wave' = Wave /\ Target' = Target
    BY <2>1 DEF Wave, Target
  <2> QED
    BY <2>1, <2>2, <2>3, <2>4 DEF SoleInv, Spared, Quiet, Wave, Target
<1>13. CASE UNCHANGED vars
  <2>1. UNCHANGED <<provider, row, plan, worker, merged, cleared, moves, crashes>>
    BY <1>13 DEF vars, provider
  <2>2. (\A w : Named(w)' = Named(w)) /\ (\A b : Alive(b)' = Alive(b) /\ name'[b] = name[b])
    BY <2>1, SameBranches
  <2> QED
    BY <2>1, <2>2 DEF SoleInv, Spared, Quiet, Wave, Target
<1> QED
  BY <1>q, <1>1, <1>2, <1>3, <1>4, <1>5, <1>6, <1>7, <1>8, <1>9, <1>10, <1>11, <1>12, <1>13
    DEF Next, WorkerStep

LEMMA SoleInductive == Spec => [](IInv /\ StandInv /\ SoleInv)
<1>1. Init => IInv /\ StandInv /\ SoleInv
  BY InitOK, StandInit, SoleInit
<1>2. IInv /\ StandInv /\ SoleInv /\ [Next]_vars => (IInv /\ StandInv /\ SoleInv)'
  BY StepOK, StandStep, SoleStep
<1> QED
  BY <1>1, <1>2, PTL DEF Spec

\* A call that is lost, or a crash between the creation and the row, leaves a branch that the
\* provision of the same wave finds by its name (provisionBranch): however often steps fail and
\* the operator retries, a wave does not get a second one.
THEOREM OneBranchCorrect == Spec => []OneBranch
<1>1. ASSUME SoleInv, NEW w \in Waves, Spared(w) PROVE Cardinality(Named(w)) <= 1
  <2>1. CASE Named(w) = {}
    BY <2>1, FS_EmptySet
  <2>2. CASE Named(w) # {}
    <3>1. PICK b : b \in Named(w)
      BY <2>2
    <3>2. Named(w) = {b}
      BY <1>1, <3>1 DEF SoleInv
    <3> QED
      BY <3>2, FS_Singleton
  <2> QED
    BY <2>1, <2>2
<1>2. SoleInv => OneBranch
  BY <1>1 DEF OneBranch, Spared, Quiet
<1> QED
  BY <1>2, SoleInductive, PTL

-----------------------------------------------------------------------------
(* Nothing is left.                                                        *)

LEMMA LooseInit == Init => LooseInv
BY DEF Init, LooseInv, Loose, Alive

\* A branch that nothing accounts for leads the next worker back to its wave.
LEMMA LooseRecovers ==
    ASSUME IInv, StandInv, LooseInv, Tidy, worker.at = "provision", NEW b \in Refs, Loose(b)
    PROVE  Found(b) /\ Recovers /\ b \in Named(Wave) /\ Recorded = b
<1>1. Found(b) /\ Wave = merged + 1 /\ merged \in Nat
  BY DEF LooseInv, Using, StandInv, Ahead, IInv, RestOK, Waves, None
<1>2. Recovers /\ Recorded = b
  BY <1>1 DEF Found, Recovers, Recorded, None, Refs
<1>3. b \in Named(Wave)
  BY <1>1 DEF Found, Loose, Named
<1> QED
  BY <1>1, <1>2, <1>3

\* A worker that is blocked on the branch of the row, or with none, leaves the next one a trace.
LEMMA LooseBlocks ==
    ASSUME IInv, StandInv, NEW r \in RowSet, NEW t, Blocks(r, t), UNCHANGED <<name, merged>>,
           worker.at \in Ahead, NEW b \in Refs, name[b] = Wave, r.ref = b
    PROVE  Found(b)'
<1>1. /\ row'.ref = r.ref /\ row'.rec = "blocked" /\ plan'.wave = Wave
      /\ plan'.action = "none" /\ worker'.at = "off"
  BY BlocksIs
<1>2. Wave = merged + 1
  BY DEF StandInv
<1> QED
  BY <1>1, <1>2 DEF Found

LEMMA LooseStep == ASSUME IInv, StandInv, LooseInv, [Next]_vars PROVE LooseInv'
<1>t. RunOK /\ ProviderOK /\ RestOK /\ BoundsOK /\ BranchOfWave
  BY DEF IInv
<1>r. row \in RowSet /\ Unattached \in RowSet /\ merged \in Nat
  BY <1>t, UnattachedType DEF RunOK, RestOK, Waves, None
<1>m. Tidy' => Tidy
  BY <1>t DEF Tidy, Next, WorkerStep, Provision, ProvisionFails, Create, CreateLost, Record, Poll,
     PollFails, Handoff, HandoffFails, Validate, ValidateFails, Stories, CleanUp, Resume,
     RetryRetained, ClearAndFresh, ClearEnds, Crash, Move, Builds, Breaks, vars, Unchecked,
     NoFault, Fault, bounds, BoundsOK, Cleans
<1> SUFFICES ASSUME Tidy', Tidy, NEW b \in Refs, Loose(b)'
             PROVE  (worker'.at \in Using /\ b = Target') \/ Found(b)'
  BY <1>m DEF LooseInv
<1>0. Loose(b) => (worker.at \in Using /\ b = Target) \/ Found(b)
  BY DEF LooseInv
<1>1. CASE Provision \/ ProvisionFails
  <2>1. /\ UNCHANGED <<provider, merged, strays, command>> /\ UNCHANGED <<name, merged>>
        /\ worker.at \in {"provision", "create"}
    BY <1>1 DEF Provision, ProvisionFails, Unchecked, provider
  <2>2. Loose(b)
    BY <2>1 DEF Loose, Alive, provider
  <2>3. worker.at = "provision"
    BY <1>0, <2>1, <2>2 DEF Using, Found
  <2>4. Found(b) /\ Recovers /\ b \in Named(Wave)
    BY <2>2, <2>3, LooseRecovers
  <2>5. plan.action # "attach"
    BY <2>4 DEF Found
  <2>6. name[b] = Wave /\ row.ref = b
    BY <2>4 DEF Found, Named
  <2>7. CASE BlocksThere
    <3>1. PICK t : Blocks(row, t)
      BY <2>4, <2>7 DEF BlocksThere
    <3> QED
      BY <1>r, <2>1, <2>3, <2>6, <3>1, LooseBlocks DEF Ahead
  <2>8. CASE TakesBranch
    <3>1. PICK c \in Refs : Adopts(c) /\ Named(Wave) = {c}
      BY <2>5, <2>8 DEF TakesBranch
    <3>2. worker'.at = "poll" /\ worker'.ref = b
      BY <1>t, <2>4, <3>1, AdoptsIs
    <3> QED
      BY <3>2 DEF Using, Target
  <2>9. ~WantsBranch
    BY <2>4 DEF WantsBranch
  <2> QED
    BY <1>1, <2>7, <2>8, <2>9, ProvisionIs DEF Provision, ProvisionFails, BlocksThere
<1>2. CASE Create \/ CreateLost
  <2>1. UNCHANGED <<merged, command>> /\ worker.at = "create"
    BY <1>2 DEF Create, CreateLost, Unchecked
  <2>2. PICK c \in Refs : /\ Creates(c)
                          /\ (Create /\ Goes("record", c)) \/ (CreateLost /\ strays' = strays \cup {c})
    BY <1>2 DEF Create, CreateLost
  <2>3. PICK w : w = Wave
    OBVIOUS
  <2>4. \A d \in Refs : d # c => Alive(d)' = Alive(d)
    BY <2>2, <2>3, CreatesIs
  <2>5. strays \subseteq strays'
    BY <2>2 DEF Create, Unchecked
  <2>6. b = c
    <3>1. SUFFICES ASSUME b # c PROVE FALSE
      OBVIOUS
    <3>2. Loose(b)
      BY <2>1, <2>4, <2>5, <3>1 DEF Loose
    <3> QED
      BY <1>0, <2>1, <3>2 DEF Using, Found
  <2>7. Create /\ Goes("record", c)
    BY <2>2, <2>6 DEF Loose
  <2> QED
    BY <1>t, <2>6, <2>7, GoesIs DEF Using, Target
<1>3. CASE Record \/ Poll \/ Handoff \/ Validate \/ Stories
  <2>1. UNCHANGED <<provider, strays, command>> /\ worker.at \in Using
    BY <1>3 DEF Record, Poll, Handoff, Validate, Stories, Unchecked, Using
  <2>2. Loose(b)
    BY <2>1 DEF Loose, Alive, provider
  <2>3. b = Target
    BY <1>0, <2>1, <2>2 DEF Found, Using
  <2>4. worker'.at \in Using /\ worker'.ref = Target
    BY <1>t, <1>3, GoesIs DEF Record, Poll, Handoff, Validate, Stories, Using
  <2> QED
    BY <2>3, <2>4 DEF Target
<1>4. CASE PollFails \/ HandoffFails \/ ValidateFails
  <2>1. /\ UNCHANGED <<provider, strays, command, merged>> /\ UNCHANGED <<name, merged>>
        /\ worker.at \in {"poll", "handoff", "validate"} /\ Blocks(row, Target)
    BY <1>4 DEF PollFails, HandoffFails, ValidateFails, Fails, provider
  <2>2. Loose(b)
    BY <2>1 DEF Loose, Alive, provider
  <2>3. b = Target /\ name[b] = Wave
    BY <1>0, <1>t, <2>1, <2>2 DEF Found, BranchOfWave, Using
  <2>4. row.ref = b
    BY <2>1, <2>3 DEF StandInv, Recording, Tidy
  <2> QED
    BY <1>r, <2>1, <2>3, <2>4, LooseBlocks DEF Ahead
<1>5. CASE CleanUp
  <2>1. /\ UNCHANGED <<name, command>> /\ worker.at = "cleanup" /\ Cleans(policy')
        /\ policy' \in Policies /\ row.life = "validated" /\ Target \in Refs
    BY <1>5, <1>t DEF CleanUp, StandInv, Validated, Tidy, Policies, BranchOfWave, Using
  <2>2. policy' = "on-success-immediate"
    BY <2>1 DEF Tidy, Policies
  <2>3. \/ health' = Destroyed(Target) /\ strays' = strays
        \/ health' = health /\ strays' = strays \cup {Target}
    BY <2>1, <2>2 DEF Cleans
  <2>4. b # Target
    BY <1>t, <2>1, <2>3, DestroyedIs DEF Loose
  <2>5. Loose(b)
    <3>1. Alive(b)
      BY <1>t, <2>1, <2>3, <2>4, DestroyedIs DEF Loose, Alive
    <3> QED
      BY <2>1, <2>3, <3>1 DEF Loose
  <2> QED
    BY <1>0, <2>1, <2>4, <2>5 DEF Found
<1>r1. ASSUME Resumes(row, plan), UNCHANGED <<name, merged, plan>>, Found(b) PROVE Found(b)'
  <2>1. merged + 1 \in Waves
    BY <1>t, <1>r, <1>r1 DEF Found, ProviderOK, None
  <2>2. plan # NoPlan
    BY <1>r, <1>r1 DEF Found, NoPlan, None
  <2>3. worker'.at = "provision" /\ row'.ref = row.ref /\ row'.rec = row.rec
    BY <1>t, <1>r1, <2>1, <2>2, ResumesIs
  <2> QED
    BY <1>r1, <2>3 DEF Found
<1>6. CASE Resume \/ RetryRetained
  <2>1. /\ UNCHANGED <<provider, strays, command, plan, merged>> /\ worker.at = "off"
        /\ UNCHANGED <<name, merged, plan>> /\ Resumes(row, plan)
    BY <1>6 DEF Resume, RetryRetained, Idle, Unchecked, provider
  <2>2. Loose(b)
    BY <2>1 DEF Loose, Alive, provider
  <2> QED
    BY <1>0, <1>r1, <2>1, <2>2 DEF Using
<1>7. CASE ClearAndFresh
  <2>1. /\ UNCHANGED <<provider, strays>> /\ worker.at = "off" /\ command.ref = None
        /\ command'.ref = row.ref
    BY <1>7 DEF ClearAndFresh, Idle, StandInv
  <2>2. Loose(b) /\ b # row.ref
    BY <2>1 DEF Loose, Alive, provider, None, Refs
  <2> QED
    BY <1>0, <2>1, <2>2 DEF Found, Using
<1>8. CASE ClearEnds
  <2>1. /\ UNCHANGED <<name, merged, plan>> /\ command'.ref = None
        /\ command.ref \in Refs \cup {None}
    BY <1>8, <1>t DEF ClearEnds, NoCommand, RestOK
  <2>2. Loose(b)
    <3>1. CASE command.ref = None
      <4>1. health' = health /\ strays' = strays
        BY <1>8, <3>1 DEF ClearEnds
      <4> QED
        BY <3>1, <4>1 DEF Loose, Alive, None, Refs
    <3>2. CASE command.ref \in Refs
      <4>1. \/ health' = Destroyed(command.ref) /\ strays' = strays
            \/ health' = health /\ strays' = strays \cup {command.ref}
        BY <1>8, <3>2 DEF ClearEnds, None, Refs
      <4>2. b # command.ref
        BY <1>t, <2>1, <3>2, <4>1, DestroyedIs DEF Loose
      <4>3. Alive(b)
        BY <1>t, <2>1, <3>2, <4>1, <4>2, DestroyedIs DEF Loose, Alive
      <4> QED
        BY <4>1, <4>2, <4>3 DEF Loose
    <3> QED
      BY <2>1, <3>1, <3>2
  <2>3. CASE Idle
    <3>1. Resumes(row, plan) /\ worker.at = "off"
      BY <1>8, <2>3 DEF ClearEnds, Idle
    <3> QED
      BY <1>0, <1>r1, <2>1, <2>2, <3>1 DEF Using
  <2>4. CASE ~Idle
    <3>1. row' = row /\ worker' = worker
      BY <1>8, <2>4 DEF ClearEnds
    <3> QED
      BY <1>0, <2>1, <2>2, <3>1 DEF Found, Target
  <2> QED
    BY <2>3, <2>4
<1>9. CASE Crash \/ Move
  <2>1. crashes' # 0 \/ moves' # 0
    BY <1>t, <1>9 DEF Crash, Move, BoundsOK
  <2> QED
    BY <2>1 DEF Tidy
<1>10. CASE Builds \/ Breaks \/ UNCHANGED vars
  <2>1. UNCHANGED <<name, row, plan, worker, merged, strays, command>>
    BY <1>10 DEF Builds, Breaks, Unchecked, vars
  <2>2. Alive(b)' = Alive(b)
    <3>1. CASE Builds \/ Breaks
      BY <1>t, <3>1, SettlesIs
    <3>2. CASE UNCHANGED vars
      BY <3>2 DEF vars, Alive
    <3> QED
      BY <1>10, <3>1, <3>2
  <2>3. Loose(b)
    BY <2>1, <2>2 DEF Loose
  <2> QED
    BY <1>0, <2>1, <2>3 DEF Found, Target
<1> QED
  BY <1>1, <1>2, <1>3, <1>4, <1>5, <1>6, <1>7, <1>8, <1>9, <1>10 DEF Next, WorkerStep

LEMMA LooseInductive == Spec => [](IInv /\ StandInv /\ LooseInv)
<1>1. Init => IInv /\ StandInv /\ LooseInv
  BY InitOK, StandInit, LooseInit
<1>2. IInv /\ StandInv /\ LooseInv /\ [Next]_vars => (IInv /\ StandInv /\ LooseInv)'
  BY StepOK, StandStep, LooseStep
<1> QED
  BY <1>1, <1>2, PTL DEF Spec

\* Under on-success-immediate (cleanupSuccessfulBranch) a run that got through its waves left no
\* branch at the provider but those of failed calls and the one that is being cleared, however
\* often its steps failed and were retried or cleared.
THEOREM NothingLeftCorrect == Spec => []NothingLeft
<1>1. ASSUME LooseInv, worker.at = "gate", policy = "on-success-immediate", crashes = 0,
             moves = 0, NEW b \in Refs, Alive(b)
      PROVE  b \in strays \cup {command.ref}
  BY <1>1 DEF LooseInv, Loose, Tidy, Found, Using
<1>2. LooseInv => NothingLeft
  BY <1>1 DEF NothingLeft
<1> QED
  BY <1>2, LooseInductive, PTL

=============================================================================

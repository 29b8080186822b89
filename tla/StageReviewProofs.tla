-------------------------- MODULE StageReviewProofs --------------------------
(***************************************************************************)
(* Proofs about StageReview, for any questions of the agent and any bounds *)
(* on reviews, rounds and starts: its types, what the gate shows, what the *)
(* following stages are given, and the clarifications asked once.          *)
(***************************************************************************)
EXTENDS StageReview, TLAPS

\* A stage run that is not clarified has one of the four clarifications to ask.
LEMMA NextIsClarification ==
    ASSUME NEW s \in [mode : {"none", "references"}, count : 0..4], ~Clarified(s)
    PROVE  NextClarification(s) \in Clarifications
<1>1. CASE s.count = 0
  BY <1>1 DEF NextClarification, Clarifications
<1>2. CASE s.count # 0 /\ s.mode = "references"
  <2>1. s.count \in 1..3
    BY <1>2 DEF Clarified, MaxClarifications
  <2> QED
    BY <1>2, <2>1 DEF NextClarification, Clarifications
<1>3. CASE s.count # 0 /\ s.mode # "references"
  <2>1. s.count \in 1..2
    BY <1>3 DEF Clarified, MaxClarifications
  <2> QED
    BY <1>3, <2>1 DEF NextClarification, Clarifications
<1> QED
  BY <1>1, <1>2, <1>3

\* One more clarification is answered.
LEMMA ClarifyType ==
    ASSUME state \in [mode : {"none", "references"}, count : 0..4], ~Clarified(state),
           NEW mode \in {"none", "references"}, Clarify(mode)
    PROVE  state' \in [mode : {"none", "references"}, count : 0..4]
BY DEF Clarify, Clarified, MaxClarifications

RunType == run \in [status : {"running", "blocked", "failed", "completed"},
                    recovery : {"none", "stage", "later"}]

WorkerType ==
    worker \in [at : {"off", "begin", "waiting", "thinking", "writing", "reviewing", "gate",
                      "later"},
                piped : BOOLEAN]

StageRunType ==
    stageRun \in [reviews : Nat, asked : [Prompts -> 0..MaxIdenticalPrompts]]

\* Wherever a worker goes, and however it stops.
LEMMA StopsType ==
    ASSUME TypeOK, NEW status \in {"blocked", "failed"}, Stops(status)
    PROVE  RunType' /\ WorkerType'
BY DEF TypeOK, Stops, RecoveryOf, Goes, RunType, WorkerType

LEMMA AsksType ==
    ASSUME TypeOK, NEW q \in Prompts, stageRun.asked[q] < MaxIdenticalPrompts, Asks(q)
    PROVE  StageRunType' /\ WorkerType' /\ open' \in BOOLEAN
BY DEF TypeOK, Asks, Goes, MaxIdenticalPrompts, StageRunType, WorkerType

LEMMA PutsType ==
    ASSUME TypeOK, NEW q \in Prompts, Puts(q)
    PROVE  RunType' /\ StageRunType' /\ WorkerType' /\ open' \in BOOLEAN
<1>1. CASE stageRun.asked[q] < MaxIdenticalPrompts /\ Asks(q) /\ UNCHANGED run
  BY <1>1, AsksType DEF TypeOK, RunType
<1>2. CASE Stops("blocked") /\ open' = FALSE /\ UNCHANGED stageRun
  BY <1>2, StopsType DEF TypeOK, StageRunType
<1> QED
  BY <1>1, <1>2 DEF Puts

\* Every step keeps the types.
LEMMA TypeStep == TypeOK /\ [Next]_vars => TypeOK'
<1> SUFFICES ASSUME TypeOK, [Next]_vars PROVE TypeOK'
  OBVIOUS
<1> USE BoundAssumption
<1> DEFINE StateType == state \in [mode : {"none", "references"}, count : 0..4]
           RestType == /\ round \in Rounds
                       /\ artifact \in Nat /\ made \in Nat
                       /\ file \in [Rounds -> Nat]
                       /\ passed \in SUBSET Nat
                       /\ approved \in Nat /\ used \in Nat
                       /\ starts \in 1..MaxStarts
<1>1. ASSUME Begin PROVE TypeOK'
  <2>1. CASE ~Clarified(state) /\ Puts(NextClarification(state))
    <3>1. NextClarification(state) \in Prompts
      BY <2>1, NextIsClarification DEF TypeOK, Prompts
    <3>2. RunType' /\ StageRunType' /\ WorkerType' /\ open' \in BOOLEAN
      BY <2>1, <3>1, PutsType
    <3>3. StateType' /\ RestType'
      BY <1>1 DEF Begin, TypeOK
    <3> QED
      BY <3>2, <3>3 DEF TypeOK, RunType, StageRunType, WorkerType
  <2>2. CASE Goes("thinking") /\ UNCHANGED <<run, stageRun, open>>
    BY <1>1, <2>2 DEF Begin, TypeOK, Goes
  <2> QED
    BY <1>1, <2>1, <2>2 DEF Begin
<1>2. ASSUME AgentAsks PROVE TypeOK'
  <2>1. PICK q \in Questions : Puts(q)
    BY <1>2 DEF AgentAsks
  <2>2. RunType' /\ StageRunType' /\ WorkerType' /\ open' \in BOOLEAN
    BY <2>1, PutsType DEF Prompts
  <2>3. StateType' /\ RestType'
    BY <1>2 DEF AgentAsks, Unchanged, TypeOK
  <2> QED
    BY <2>2, <2>3 DEF TypeOK, RunType, StageRunType, WorkerType
<1>3. ASSUME ReplyInvalid PROVE TypeOK'
  <2>1. RunType' /\ StageRunType' /\ WorkerType' /\ open' \in BOOLEAN
    BY <1>3, PutsType DEF ReplyInvalid, Prompts
  <2>2. StateType' /\ RestType'
    BY <1>3 DEF ReplyInvalid, Unchanged, TypeOK
  <2> QED
    BY <2>1, <2>2 DEF TypeOK, RunType, StageRunType, WorkerType
<1>4. ASSUME Reply PROVE TypeOK'
  <2>1. RestType'
    BY <1>4 DEF Reply, Unchanged, TypeOK
  <2>2. CASE ~Clarified(state)
    <3>1. PICK mode \in {"none", "references"} : Clarify(mode)
      BY <1>4, <2>2 DEF Reply
    <3>2. StateType'
      BY <2>2, <3>1, ClarifyType DEF TypeOK
    <3>3. CASE ~Clarified(state') /\ Puts(NextClarification(state'))
      <4>1. PICK s \in [mode : {"none", "references"}, count : 0..4] : s = state'
        BY <3>2
      <4>2. NextClarification(s) \in Prompts
        BY <3>3, <4>1, NextIsClarification DEF Prompts
      <4>3. PICK q \in Prompts : Puts(q)
        BY <3>3, <4>1, <4>2
      <4>4. RunType' /\ StageRunType' /\ WorkerType' /\ open' \in BOOLEAN
        BY <4>3, PutsType
      <4> QED
        BY <2>1, <3>2, <4>4 DEF TypeOK, RunType, StageRunType, WorkerType
    <3>4. CASE Goes("thinking") /\ open' = FALSE /\ UNCHANGED <<run, stageRun>>
      BY <2>1, <3>2, <3>4 DEF TypeOK, Goes
    <3> QED
      BY <1>4, <2>2, <3>3, <3>4 DEF Reply
  <2>3. CASE Clarified(state)
    BY <1>4, <2>1, <2>3 DEF Reply, TypeOK, Goes
  <2> QED
    BY <2>2, <2>3
<1>5. ASSUME NEW status \in {"blocked", "failed"}, Stops(status),
             UNCHANGED <<state, stageRun, open>>, Unchanged
      PROVE  TypeOK'
  BY <1>5, StopsType DEF TypeOK, RunType, WorkerType, Unchanged
<1>6. ASSUME NoAnswer PROVE TypeOK'
  BY <1>5, <1>6 DEF NoAnswer
<1>7. ASSUME Throw PROVE TypeOK'
  BY <1>5, <1>7 DEF Throw
<1>8. ASSUME ReviewBlocks PROVE TypeOK'
  BY <1>5, <1>8 DEF ReviewBlocks
<1>9. ASSUME ReviewRevises PROVE TypeOK'
  <2>1. CASE Stops("blocked")
    BY <1>5, <1>9, <2>1 DEF ReviewRevises
  <2>2. CASE Goes("thinking") /\ UNCHANGED run
    BY <1>9, <2>2 DEF ReviewRevises, Goes, Unchanged, TypeOK
  <2> QED
    BY <1>9, <2>1, <2>2 DEF ReviewRevises
<1>10. ASSUME AgentProduces PROVE TypeOK'
  BY <1>10 DEF AgentProduces, Goes, TypeOK
<1>11. ASSUME Write PROVE TypeOK'
  <2>1. file' \in [Rounds -> Nat]
    BY <1>11 DEF Write, WriteFile, TypeOK
  <2>2. CASE Stops("failed") /\ UNCHANGED stageRun
    <3>1. RunType' /\ WorkerType'
      BY <2>2, StopsType
    <3> QED
      BY <1>11, <2>1, <2>2, <3>1 DEF Write, TypeOK, RunType, WorkerType
  <2>3. CASE /\ Goes("reviewing")
             /\ stageRun' = [stageRun EXCEPT !.reviews = @ + 1]
             /\ UNCHANGED run
    BY <1>11, <2>1, <2>3 DEF Write, Goes, TypeOK
  <2> QED
    BY <1>11, <2>2, <2>3 DEF Write
<1>12. ASSUME ReviewPasses PROVE TypeOK'
  BY <1>12 DEF ReviewPasses, Goes, TypeOK
<1>13. ASSUME Approve PROVE TypeOK'
  BY <1>13 DEF Approve, Goes, TypeOK
<1>14. ASSUME Revise PROVE TypeOK'
  <2>1. StateType'
    BY <1>14 DEF Revise, CarryState, MaxClarifications, TypeOK
  <2>2. StageRunType'
    BY <1>14 DEF Revise, FreshStageRun, MaxIdenticalPrompts, StageRunType
  <2>3. round' \in Rounds
    BY <1>14 DEF Revise, Rounds, TypeOK
  <2> QED
    BY <1>14, <2>1, <2>2, <2>3 DEF Revise, Goes, StageRunType, TypeOK
<1>15. ASSUME ReviseTooOften PROVE TypeOK'
  BY <1>15 DEF ReviseTooOften, Goes, Unchanged, TypeOK
<1>16. ASSUME Finish PROVE TypeOK'
  BY <1>16 DEF Finish, Goes, Unchanged, TypeOK
<1>17. ASSUME LaterStops PROVE TypeOK'
  BY <1>17 DEF LaterStops, Goes, Unchanged, TypeOK
<1>18. ASSUME Crash PROVE TypeOK'
  BY <1>18 DEF Crash, Goes, Unchanged, TypeOK
<1>19. ASSUME AnswerLeft PROVE TypeOK'
  BY <1>19 DEF AnswerLeft, Unchanged, TypeOK
<1>20. ASSUME Resume PROVE TypeOK'
  <2>1. starts' \in 1..MaxStarts
    BY <1>20 DEF Resume, CanResume, TypeOK
  <2>2. file[0] \in Nat
    BY DEF Rounds, TypeOK
  <2>3. CASE Restarts
    <3>1. StageRunType'
      BY <2>3 DEF Restarts, FreshStageRun, MaxIdenticalPrompts, StageRunType
    <3>2. StateType' /\ round' \in Rounds
      BY <2>3 DEF Restarts, FreshState, Rounds
    <3> QED
      BY <1>20, <2>1, <2>3, <3>1, <3>2 DEF Resume, Restarts, Goes, StageRunType, TypeOK
  <2>4. CASE Loads
    BY <1>20, <2>1, <2>2, <2>4 DEF Resume, Loads, Goes, TypeOK
  <2> QED
    BY <1>20, <2>3, <2>4 DEF Resume
<1>21. ASSUME StartNext PROVE TypeOK'
  BY <1>21 DEF StartNext, Rounds, TypeOK
<1>22. ASSUME UNCHANGED vars PROVE TypeOK'
  BY <1>22 DEF vars, TypeOK
<1> QED
  BY <1>1, <1>2, <1>3, <1>4, <1>6, <1>7, <1>8, <1>9, <1>10, <1>11, <1>12, <1>13, <1>14,
     <1>15, <1>16, <1>17, <1>18, <1>19, <1>20, <1>21, <1>22 DEF Next, Stage, User

-----------------------------------------------------------------------------
(* The inductive invariant. *)

\* A run with a worker has no recovery.
WorkerRuns == ~At("off") => run = [status |-> "running", recovery |-> "none"]

\* What is reviewed is on disk, and what is at the gate was passed.
DiskOK ==
    /\ At("reviewing") => file[round] = artifact
    /\ GateShowsDisk

\* The first round left an artifact that was passed, as soon as there is a later round or
\* a later stage.
BaseOK ==
    round > 0 \/ At("gate") \/ At("later") \/ run.recovery = "later" \/ run.status = "completed"
        => file[0] \in passed

\* A round after the first is clarified, and asks none of it.
ClarifiedOK == round > 0 => Clarified(state) /\ AnsweredOnce

Inv == TypeOK /\ WorkerRuns /\ DiskOK /\ BaseOK /\ UsedWasPassed /\ ClarifiedOK

\* The faces of a step on what the invariant is about.
LEMMA WorkerRunsStep == Inv /\ [Next]_vars => WorkerRuns'
<1> SUFFICES ASSUME Inv, [Next]_vars PROVE WorkerRuns'
  OBVIOUS
<1> USE DEF Inv, TypeOK, WorkerRuns, At, Goes, Unchanged
<1>1. ASSUME NEW status, Stops(status) PROVE WorkerRuns'
  BY <1>1 DEF Stops
<1>2. ASSUME NEW q, Puts(q), ~At("off") PROVE WorkerRuns'
  BY <1>1, <1>2 DEF Puts
<1>3. ASSUME Begin \/ AgentAsks \/ Reply \/ ReplyInvalid PROVE WorkerRuns'
  BY <1>2, <1>3 DEF Begin, AgentAsks, Reply, ReplyInvalid
<1>4. ASSUME NoAnswer \/ Throw \/ ReviewBlocks \/ ReviewRevises \/ Write PROVE WorkerRuns'
  BY <1>1, <1>4 DEF NoAnswer, Throw, ReviewBlocks, ReviewRevises, Write
<1>5. ASSUME AgentProduces \/ ReviewPasses \/ Approve \/ Revise \/ ReviseTooOften
      PROVE  WorkerRuns'
  BY <1>5 DEF AgentProduces, ReviewPasses, Approve, Revise, ReviseTooOften
<1>6. ASSUME Finish \/ LaterStops \/ Crash \/ AnswerLeft \/ Resume \/ StartNext
      PROVE  WorkerRuns'
  BY <1>6 DEF Finish, LaterStops, Crash, AnswerLeft, Resume, Restarts, Loads, StartNext
<1>7. ASSUME UNCHANGED vars PROVE WorkerRuns'
  BY <1>7 DEF vars
<1> QED
  BY <1>3, <1>4, <1>5, <1>6, <1>7 DEF Next, Stage, User

\* Steps that end a stage run or put a question write nothing and pass nothing.
Silent == UNCHANGED <<round, artifact, file, passed, used>>

LEMMA StopsOK ==
    ASSUME Inv, ~At("off"), NEW status \in {"blocked", "failed"}, Stops(status), Silent
    PROVE  DiskOK' /\ BaseOK'
BY DEF Inv, Stops, RecoveryOf, Goes, At, Silent, DiskOK, GateShowsDisk, BaseOK, TypeOK

LEMMA PutsOK ==
    ASSUME Inv, ~At("off"), NEW q, Puts(q), Silent
    PROVE  DiskOK' /\ BaseOK'
<1>1. CASE Asks(q) /\ UNCHANGED run
  BY <1>1 DEF Inv, Asks, Goes, At, Silent, DiskOK, GateShowsDisk, BaseOK, TypeOK
<1>2. CASE Stops("blocked")
  BY <1>2, StopsOK
<1> QED
  BY <1>1, <1>2 DEF Puts

LEMMA DiskStep == Inv /\ [Next]_vars => DiskOK' /\ BaseOK'
<1> SUFFICES ASSUME Inv, [Next]_vars PROVE DiskOK' /\ BaseOK'
  OBVIOUS
<1> USE DEF At, Unchanged, Silent
<1>1. ASSUME Begin \/ AgentAsks \/ Reply \/ ReplyInvalid PROVE DiskOK' /\ BaseOK'
  <2>1. Silent /\ ~At("off")
    BY <1>1 DEF Begin, AgentAsks, Reply, ReplyInvalid
  <2>2. ASSUME Goes("thinking"), UNCHANGED run PROVE DiskOK' /\ BaseOK'
    BY <2>1, <2>2 DEF Inv, Goes, DiskOK, GateShowsDisk, BaseOK, TypeOK
  <2> QED
    BY <1>1, <2>1, <2>2, PutsOK DEF Begin, AgentAsks, Reply, ReplyInvalid
<1>2. ASSUME NoAnswer \/ Throw \/ ReviewBlocks PROVE DiskOK' /\ BaseOK'
  BY <1>2, StopsOK DEF NoAnswer, Throw, ReviewBlocks
<1>3. ASSUME ReviewRevises PROVE DiskOK' /\ BaseOK'
  <2>1. CASE Stops("blocked")
    BY <1>3, <2>1, StopsOK DEF ReviewRevises
  <2>2. CASE Goes("thinking") /\ UNCHANGED run
    BY <1>3, <2>2 DEF ReviewRevises, Inv, Goes, DiskOK, GateShowsDisk, BaseOK, TypeOK
  <2> QED
    BY <1>3, <2>1, <2>2 DEF ReviewRevises
<1>4. ASSUME Write PROVE DiskOK' /\ BaseOK'
  <2>1. file'[round] = artifact /\ (round > 0 => file'[0] = file[0])
    BY <1>4 DEF Write, WriteFile, Inv, TypeOK, Rounds
  <2>2. run.recovery # "later" /\ run.status # "completed"
    BY <1>4 DEF Write, Inv, WorkerRuns
  <2>3. CASE Goes("reviewing") /\ UNCHANGED run
    BY <1>4, <2>1, <2>2, <2>3 DEF Write, Inv, Goes, DiskOK, GateShowsDisk, BaseOK, TypeOK
  <2>4. CASE Stops("failed")
    BY <1>4, <2>1, <2>2, <2>4
       DEF Write, Inv, Stops, RecoveryOf, Goes, DiskOK, GateShowsDisk, BaseOK, TypeOK
  <2> QED
    BY <1>4, <2>3, <2>4 DEF Write
<1>5. ASSUME AgentProduces PROVE DiskOK' /\ BaseOK'
  BY <1>5 DEF AgentProduces, Inv, Goes, DiskOK, GateShowsDisk, BaseOK, TypeOK
<1>6. ASSUME ReviewPasses PROVE DiskOK' /\ BaseOK'
  <2>1. round = 0 \/ round > 0
    BY DEF Inv, TypeOK, Rounds
  <2> QED
    BY <1>6, <2>1 DEF ReviewPasses, Inv, Goes, DiskOK, GateShowsDisk, BaseOK, TypeOK
<1>7. ASSUME Approve \/ Revise \/ ReviseTooOften PROVE DiskOK' /\ BaseOK'
  BY <1>7 DEF Approve, Revise, ReviseTooOften, Inv, Goes, DiskOK, GateShowsDisk, BaseOK, TypeOK
<1>8. ASSUME Finish \/ LaterStops \/ Crash \/ AnswerLeft \/ StartNext
      PROVE  DiskOK' /\ BaseOK'
  BY <1>8 DEF Finish, LaterStops, Crash, AnswerLeft, StartNext, Inv, Goes, DiskOK,
              GateShowsDisk, BaseOK, TypeOK
<1>9. ASSUME Resume PROVE DiskOK' /\ BaseOK'
  BY <1>9 DEF Resume, Restarts, Loads, Inv, Goes, DiskOK, GateShowsDisk, BaseOK, TypeOK
<1>10. ASSUME UNCHANGED vars PROVE DiskOK' /\ BaseOK'
  BY <1>10 DEF vars, Inv, DiskOK, GateShowsDisk, BaseOK
<1> QED
  BY <1>1, <1>2, <1>3, <1>4, <1>5, <1>6, <1>7, <1>8, <1>9, <1>10 DEF Next, Stage, User

LEMMA UsedStep == Inv /\ [Next]_vars => UsedWasPassed'
<1> SUFFICES ASSUME Inv, [Next]_vars PROVE UsedWasPassed'
  OBVIOUS
<1> USE DEF Inv, UsedWasPassed, Unchanged
<1>1. ASSUME \/ Begin \/ AgentAsks \/ AgentProduces \/ Write \/ Throw \/ ReviewBlocks
             \/ ReviewRevises \/ ReviewPasses
      PROVE  UsedWasPassed'
  BY <1>1 DEF Begin, AgentAsks, AgentProduces, Write, Throw, ReviewBlocks, ReviewRevises,
              ReviewPasses
<1>2. ASSUME Reply \/ ReplyInvalid \/ NoAnswer \/ Revise \/ ReviseTooOften
      PROVE  UsedWasPassed'
  <2>1. UNCHANGED <<passed, used>>
    <3>1. CASE Reply
      BY <3>1 DEF Reply
    <3> QED
      BY <1>2, <3>1 DEF ReplyInvalid, NoAnswer, Revise, ReviseTooOften
  <2> QED
    BY <2>1
<1>3. ASSUME Approve PROVE UsedWasPassed'
  BY <1>3 DEF Approve, DiskOK, GateShowsDisk
<1>4. ASSUME Finish \/ LaterStops \/ Crash \/ AnswerLeft PROVE UsedWasPassed'
  BY <1>4 DEF Finish, LaterStops, Crash, AnswerLeft
<1>5. ASSUME Resume \/ StartNext PROVE UsedWasPassed'
  BY <1>5 DEF Resume, Restarts, Loads, StartNext, BaseOK
<1>6. ASSUME UNCHANGED vars PROVE UsedWasPassed'
  BY <1>6 DEF vars
<1> QED
  BY <1>1, <1>2, <1>3, <1>4, <1>5, <1>6 DEF Next, Stage, User

\* A question of the agent is none of the clarifications.
LEMMA PutsClarified ==
    ASSUME Inv, NEW q \in Questions, Puts(q), UNCHANGED <<round, state>>
    PROVE  ClarifiedOK'
<1>1. \A p \in Clarifications \cup {"invalid mode"} : stageRun'.asked[p] = stageRun.asked[p]
  <2>1. CASE Asks(q)
    BY <2>1, QuestionAssumption DEF Asks, Inv, TypeOK, Prompts
  <2>2. CASE UNCHANGED stageRun
    BY <2>2
  <2> QED
    BY <2>1, <2>2 DEF Puts
<1> QED
  BY <1>1 DEF Inv, ClarifiedOK, AnsweredOnce, Clarified, MaxClarifications

LEMMA ClarifiedStep == Inv /\ [Next]_vars => ClarifiedOK'
<1> SUFFICES ASSUME Inv, [Next]_vars PROVE ClarifiedOK'
  OBVIOUS
<1> USE DEF Unchanged
<1>1. ASSUME UNCHANGED <<round, state, stageRun>> PROVE ClarifiedOK'
  BY <1>1 DEF Inv, ClarifiedOK, AnsweredOnce, Clarified, MaxClarifications
<1>2. ASSUME Begin \/ Reply \/ ReplyInvalid PROVE ClarifiedOK'
  <2>1. CASE round > 0
    <3>1. Clarified(state)
      BY <2>1 DEF Inv, ClarifiedOK
    <3>2. state.count # 0
      BY <3>1 DEF Clarified, MaxClarifications, Inv, TypeOK
    <3>3. UNCHANGED <<round, state, stageRun>>
      BY <1>2, <3>1, <3>2 DEF Begin, Reply, ReplyInvalid
    <3> QED
      BY <1>1, <3>3
  <2>2. CASE ~(round > 0)
    BY <1>2, <2>2 DEF Begin, Reply, ReplyInvalid, ClarifiedOK
  <2> QED
    BY <2>1, <2>2
<1>3. ASSUME AgentAsks PROVE ClarifiedOK'
  BY <1>3, PutsClarified DEF AgentAsks
<1>4. ASSUME Write PROVE ClarifiedOK'
  <2>1. UNCHANGED <<round, state>> /\ stageRun'.asked = stageRun.asked
    BY <1>4 DEF Write, Inv, TypeOK
  <2> QED
    BY <2>1 DEF Inv, ClarifiedOK, AnsweredOnce, Clarified, MaxClarifications
<1>5. ASSUME Revise PROVE ClarifiedOK'
  <2>1. Clarified(state)'
    BY <1>5 DEF Revise, CarryState, Clarified, MaxClarifications, Inv, TypeOK
  <2>2. AnsweredOnce'
    BY <1>5 DEF Revise, FreshStageRun, AnsweredOnce, Prompts
  <2> QED
    BY <2>1, <2>2 DEF ClarifiedOK
<1>6. ASSUME Resume PROVE ClarifiedOK'
  <2>1. CASE Restarts
    BY <2>1 DEF Restarts, ClarifiedOK
  <2>2. CASE Loads
    BY <1>1, <2>2 DEF Loads
  <2> QED
    BY <1>6, <2>1, <2>2 DEF Resume
<1>7. ASSUME \/ AgentProduces \/ Throw \/ ReviewPasses \/ ReviewBlocks \/ ReviewRevises
             \/ NoAnswer \/ Approve \/ ReviseTooOften
      PROVE  ClarifiedOK'
  BY <1>1, <1>7 DEF AgentProduces, Throw, ReviewPasses, ReviewBlocks, ReviewRevises, NoAnswer,
                    Approve, ReviseTooOften
<1>8. ASSUME Finish \/ LaterStops \/ Crash \/ AnswerLeft \/ StartNext \/ UNCHANGED vars
      PROVE  ClarifiedOK'
  BY <1>1, <1>8 DEF Finish, LaterStops, Crash, AnswerLeft, StartNext, vars
<1> QED
  BY <1>2, <1>3, <1>4, <1>5, <1>6, <1>7, <1>8 DEF Next, Stage, User

LEMMA InvInit == Init => Inv
<1> SUFFICES ASSUME Init PROVE Inv
  OBVIOUS
<1>1. TypeOK
  <2>1. worker \in [at : {"begin"}, piped : BOOLEAN]
    BY DEF Init
  <2>2. stageRun \in [reviews : Nat, asked : [Prompts -> 0..MaxIdenticalPrompts]]
    BY DEF Init, FreshStageRun, MaxIdenticalPrompts
  <2>3. /\ state \in [mode : {"none", "references"}, count : 0..4]
        /\ round \in Rounds /\ file \in [Rounds -> Nat] /\ starts \in 1..MaxStarts
    BY BoundAssumption DEF Init, FreshState, Rounds
  <2> QED
    BY <2>1, <2>2, <2>3 DEF Init, TypeOK
<1>2. WorkerRuns /\ DiskOK /\ BaseOK /\ UsedWasPassed /\ ClarifiedOK
  BY DEF Init, At, WorkerRuns, DiskOK, GateShowsDisk, BaseOK, UsedWasPassed, ClarifiedOK
<1> QED
  BY <1>1, <1>2 DEF Inv

LEMMA InvStep == Inv /\ [Next]_vars => Inv'
BY TypeStep, WorkerRunsStep, DiskStep, UsedStep, ClarifiedStep DEF Inv

LEMMA InvHolds == Spec => []Inv
BY InvInit, InvStep, PTL DEF Spec

-----------------------------------------------------------------------------
\* All states have the types of the design: rounds within the cap of the code, questions
\* asked no more often than stageRuntime lets them.
THEOREM TypeCorrect == Spec => []TypeOK
<1>1. Inv => TypeOK
  BY DEF Inv
<1> QED
  BY <1>1, InvHolds, PTL

\* At every gate of every round the files show what is to be approved, and it was passed.
THEOREM GateCorrect == Spec => []GateShowsDisk
<1>1. Inv => GateShowsDisk
  BY DEF Inv, DiskOK
<1> QED
  BY <1>1, InvHolds, PTL

\* The following stages work with nothing that the reviewer did not pass.
THEOREM UsedCorrect == Spec => []UsedWasPassed
<1>1. Inv => UsedWasPassed
  BY DEF Inv
<1> QED
  BY <1>1, InvHolds, PTL

\* A later round asks nothing that the first one asked as a clarification.
THEOREM AnsweredCorrect == Spec => []AnsweredOnce
<1>1. Inv => AnsweredOnce
  BY DEF Inv, ClarifiedOK, AnsweredOnce
<1> QED
  BY <1>1, InvHolds, PTL

=============================================================================

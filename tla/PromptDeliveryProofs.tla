------------------------ MODULE PromptDeliveryProofs ------------------------
(***************************************************************************)
(* Proofs about PromptDelivery: its types, that one prompt is open at a    *)
(* time, that a recorded answer stands, and that the rows, the log and the *)
(* worker keep the contract of PromptContract.                             *)
(***************************************************************************)
EXTENDS PromptDelivery, SequenceTheorems, TLAPS

\* The prompts asked so far are those that have a row; what comes later has
\* neither a row nor an answer the worker went on with.
Frontier ==
    /\ \A p \in Prompts : p <= asked <=> row[p] # "absent"
    /\ \A p \in Prompts : p > asked => got[p] = None
    /\ phase = "waiting" => asked \in Prompts /\ got[asked] = None

\* Only the last prompt may be open, and never beside a worker at work.
LastOpen ==
    /\ \A p \in Prompts : row[p] = Open => p = asked
    /\ phase = "working" => \A p \in Prompts : row[p] # Open

\* An answer in the log is in the table, be it another one.
RecordedIn(s, r) ==
    \A i \in DOMAIN s : s[i].kind = "answered" =>
        s[i].answer \in Answers /\ r[s[i].prompt] \in Answers

LoggedIsRecorded == RecordedIn(log, row)

\* Resolvers wait for prompts that were asked.
ConsoleAsked == \A i \in DOMAIN console : console[i] <= asked

\* Where a surface stands between its statements.
SurfaceRow ==
    \A a \in Surfaces :
        /\ pc[a] = "checked" => target[a] \in Prompts /\ target[a] <= asked /\ choice[a] \in Answers
        /\ pc[a] = "recorded" => target[a] \in Prompts /\ row[target[a]] \in Answers
                                 /\ choice[a] \in Answers

IInv == TypeOK /\ Frontier /\ LastOpen /\ LoggedIsRecorded /\ ConsoleAsked /\ SurfaceRow

-----------------------------------------------------------------------------
(* The log. *)

\* What appending an entry makes public.
LEMMA AnswersAppend ==
  ASSUME NEW s \in Seq(Entries), NEW e \in Entries, NEW p \in Prompts
  PROVE  AnswersIn(Append(s, e), p) =
           AnswersIn(s, p) \cup (IF e.kind = "answered" /\ e.prompt = p THEN {e.answer} ELSE {})
<1> DEFINE t == Append(s, e)
<1>1. /\ DOMAIN s = 1..Len(s) /\ DOMAIN t = 1..(Len(s) + 1) /\ Len(s) \in Nat
      /\ \A i \in 1..Len(s) : t[i] = s[i]
      /\ t[Len(s) + 1] = e
  BY AppendProperties
<1> HIDE DEF t
<1>2. ASSUME NEW i \in DOMAIN t PROVE i = Len(s) + 1 \/ i \in DOMAIN s
  BY <1>1
<1>3. AnswersIn(t, p) \subseteq
        AnswersIn(s, p) \cup (IF e.kind = "answered" /\ e.prompt = p THEN {e.answer} ELSE {})
  BY <1>1, <1>2 DEF AnswersIn
<1>4. AnswersIn(s, p) \subseteq AnswersIn(t, p)
  BY <1>1 DEF AnswersIn
<1>5. e.kind = "answered" /\ e.prompt = p => e.answer \in AnswersIn(t, p)
  BY <1>1 DEF AnswersIn
<1> QED BY <1>3, <1>4, <1>5 DEF t

\* The entries the model writes.
LEMMA AnsweredEntry ==
  ASSUME TypeOK, NEW p \in Prompts, NEW v \in Answers
  PROVE  /\ Entry("answered", p, v, TRUE) \in Entries
         /\ Entry("answered", p, v, TRUE).kind = "answered"
         /\ Entry("answered", p, v, TRUE).prompt = p
         /\ Entry("answered", p, v, TRUE).answer = v
BY DEF Entry, Entries, TypeOK

LEMMA AskedEntry ==
  ASSUME TypeOK, NEW p \in Prompts
  PROVE  /\ Entry("asked", p, None, TRUE) \in Entries
         /\ Entry("asked", p, None, TRUE).kind = "asked"
BY DEF Entry, Entries, TypeOK

\* Appending an entry about an answered prompt.
LEMMA RecordedAppend ==
  ASSUME NEW s \in Seq(Entries), NEW e \in Entries, NEW r, RecordedIn(s, r),
         e.kind = "answered" => e.answer \in Answers /\ r[e.prompt] \in Answers
  PROVE  Append(s, e) \in Seq(Entries) /\ RecordedIn(Append(s, e), r)
<1> DEFINE t == Append(s, e)
<1>1. /\ DOMAIN s = 1..Len(s) /\ DOMAIN t = 1..(Len(s) + 1) /\ Len(s) \in Nat
      /\ \A i \in 1..Len(s) : t[i] = s[i]
      /\ t[Len(s) + 1] = e
      /\ t \in Seq(Entries)
  BY AppendProperties
<1> HIDE DEF t
<1>2. \A i \in DOMAIN t : i = Len(s) + 1 \/ i \in DOMAIN s
  BY <1>1
<1> QED BY <1>1, <1>2 DEF RecordedIn, t

\* Answering more rows.
LEMMA RecordedMono ==
  ASSUME NEW s \in Seq(Entries), NEW r, NEW q, RecordedIn(s, r),
         \A p \in Prompts : r[p] \in Answers => q[p] \in Answers
  PROVE  RecordedIn(s, q)
<1>1. \A i \in DOMAIN s : s[i] \in Entries
  OBVIOUS
<1>2. \A i \in DOMAIN s : s[i].prompt \in Prompts
  BY <1>1 DEF Entries
<1> QED BY <1>2 DEF RecordedIn

-----------------------------------------------------------------------------
(* The invariant. *)

LEMMA InitIInv == Init => IInv
<1> USE TerminalAssumption, AnswerAssumption, BoundAssumption DEF None, Sentinel, Open
<1> SUFFICES ASSUME Init PROVE IInv
  OBVIOUS
<1>1. log = <<>> /\ log \in Seq(Entries) /\ DOMAIN log = {}
  BY DEF Init
<1>2. console = <<>> /\ console \in Seq(Prompts) /\ DOMAIN console = {} /\ typed \in Seq(Answers)
  BY DEF Init
<1>3. terminal \in {"none", "tty", "pipe"}
  BY DEF Init
<1>4. clock \in 0..MaxClock /\ asked \in 0..MaxPrompts /\ cursor \in 0..(MaxClock + 1) /\ lines \in 0..MaxLines
  BY DEF Init
<1>5. TypeOK
  BY <1>1, <1>2, <1>3, <1>4 DEF Init, TypeOK
<1> QED BY <1>1, <1>2, <1>5 DEF IInv, Frontier, LastOpen, LoggedIsRecorded, ConsoleAsked, SurfaceRow, RecordedIn, Init, Prompts

\* What does not touch the tables, the worker or its terminal.
LEMMA QuietStep ==
  ASSUME IInv, TypeOK', UNCHANGED <<row, log, phase, asked, got, console>>, SurfaceRow'
  PROVE  IInv'
BY DEF IInv, Frontier, LastOpen, LoggedIsRecorded, ConsoleAsked

LEMMA TickStep == IInv /\ Tick => IInv'
<1> SUFFICES ASSUME IInv, Tick PROVE IInv'
  OBVIOUS
<1> USE BoundAssumption DEF Tick, tableVars, ioVars, workerVars, surfaceVars
<1>1. clock' \in 0..MaxClock
  BY DEF IInv, TypeOK
<1>2. TypeOK'
  BY <1>1 DEF IInv, TypeOK
<1>3. SurfaceRow'
  BY DEF IInv, SurfaceRow
<1> QED BY <1>2, <1>3, QuietStep

LEMMA CheckStep == IInv /\ (\E a \in Surfaces : Check(a)) => IInv'
<1> SUFFICES ASSUME IInv, NEW a \in Surfaces, Check(a) PROVE IInv'
  OBVIOUS
<1> USE BoundAssumption DEF Check, tableVars, ioVars, workerVars
<1>1. PICK v \in Answers : choice' = [choice EXCEPT ![a] = v]
  OBVIOUS
<1>2. PICK p \in Prompts : row[p] = Open /\ target' = [target EXCEPT ![a] = p]
  BY DEF OpenPrompts
<1>3. TypeOK'
  BY <1>1, <1>2 DEF IInv, TypeOK
<1>4. p <= asked
  BY <1>2, AnswerAssumption DEF IInv, Frontier, Open
<1>5. SurfaceRow'
  BY <1>1, <1>2, <1>4 DEF IInv, SurfaceRow, TypeOK
<1> QED BY <1>3, <1>5, QuietStep

LEMMA DiesStep == IInv /\ (\E a \in Surfaces : Dies(a)) => IInv'
<1> SUFFICES ASSUME IInv, NEW a \in Surfaces, Dies(a) PROVE IInv'
  OBVIOUS
<1> USE DEF Dies, tableVars, ioVars, workerVars
<1>1. TypeOK'
  BY DEF IInv, TypeOK
<1>2. SurfaceRow'
  BY DEF IInv, SurfaceRow, TypeOK
<1> QED BY <1>1, <1>2, QuietStep

\* The worker stops, or loses its terminal.
LEMMA StopStep == IInv /\ (Stop \/ InputEnds) => IInv'
<1> SUFFICES ASSUME IInv, Stop \/ InputEnds PROVE IInv'
  OBVIOUS
<1> USE AnswerAssumption DEF tableVars, ioVars, surfaceVars, Sentinel, None, Open
<1>1. CASE Stop
  <2> USE <1>1 DEF Stop
  <2>1. TypeOK'
    BY DEF IInv, TypeOK
  <2> QED BY <2>1 DEF IInv, Frontier, LastOpen, LoggedIsRecorded, ConsoleAsked, SurfaceRow, RecordedIn
<1>2. CASE InputEnds
  <2> USE <1>2 DEF InputEnds, Resolve
  <2>1. console' = <<>> /\ console' \in Seq(Prompts) /\ DOMAIN console' = {}
    OBVIOUS
  <2>2. \/ UNCHANGED <<got, phase>>
        \/ /\ phase = "waiting" /\ phase' = "stopped"
           /\ got' = [got EXCEPT ![asked] = Sentinel]
    OBVIOUS
  <2>3. TypeOK'
    BY <2>1, <2>2 DEF IInv, TypeOK
  <2>4. Frontier'
    BY <2>2 DEF IInv, Frontier, TypeOK
  <2>5. LastOpen' /\ LoggedIsRecorded' /\ SurfaceRow'
    BY <2>2 DEF IInv, LastOpen, LoggedIsRecorded, SurfaceRow, RecordedIn
  <2> QED BY <2>1, <2>3, <2>4, <2>5 DEF IInv, ConsoleAsked
<1> QED BY <1>1, <1>2

LEMMA ResumeStep == IInv /\ Resume => IInv'
<1> SUFFICES ASSUME IInv, Resume PROVE IInv'
  OBVIOUS
<1> USE BoundAssumption, TerminalAssumption DEF Resume, Resumable, OpenPrompts, tableVars, surfaceVars
<1>1. console' = <<>> /\ console' \in Seq(Prompts) /\ DOMAIN console' = {} /\ typed' \in Seq(Answers)
  OBVIOUS
<1>2. terminal' \in {"none", "tty", "pipe"} /\ cursor' \in 0..(MaxClock + 1)
  BY DEF IInv, TypeOK
<1>4. TypeOK'
  BY <1>1, <1>2 DEF IInv, TypeOK
<1>3. Frontier' /\ LastOpen' /\ LoggedIsRecorded' /\ SurfaceRow'
  BY DEF IInv, Frontier, LastOpen, LoggedIsRecorded, SurfaceRow, RecordedIn
<1> QED BY <1>1, <1>3, <1>4 DEF IInv, ConsoleAsked

\* What a recorded answer leaves of the rows.
LEMMA AnswerRowEffect ==
  ASSUME TypeOK, NEW p \in Prompts, NEW v \in Answers, AnswerRow(p, v)
  PROVE  /\ row' \in [Prompts -> Answers \cup {"absent", Open}]
         /\ row'[p] = IF row[p] = Open THEN v ELSE row[p]
         /\ \A q \in Prompts : q # p => row'[q] = row[q]
         /\ \A q \in Prompts : row[q] \in Answers => row'[q] \in Answers
         /\ row[p] # "absent" => row'[p] \in Answers
         /\ \A q \in Prompts : (row'[q] = "absent") <=> (row[q] = "absent")
         /\ \A q \in Prompts : row'[q] = Open => row[q] = Open
BY AnswerAssumption DEF AnswerRow, TypeOK, Open

LEMMA RecordStep == IInv /\ (\E a \in Surfaces : Record(a)) => IInv'
<1> SUFFICES ASSUME IInv, NEW a \in Surfaces, Record(a) PROVE IInv'
  OBVIOUS
<1> USE DEF Record, ioVars, workerVars
<1>1. target[a] \in Prompts /\ choice[a] \in Answers /\ target[a] <= asked
  BY DEF IInv, SurfaceRow
<1>2. /\ row' \in [Prompts -> Answers \cup {"absent", Open}]
      /\ \A q \in Prompts : row[q] \in Answers => row'[q] \in Answers
      /\ row[target[a]] # "absent" => row'[target[a]] \in Answers
      /\ \A q \in Prompts : (row'[q] = "absent") <=> (row[q] = "absent")
      /\ \A q \in Prompts : row'[q] = Open => row[q] = Open
  BY <1>1, AnswerRowEffect DEF IInv
<1>3. row[target[a]] # "absent"
  BY <1>1 DEF IInv, Frontier
<1>4. TypeOK'
  BY <1>2 DEF IInv, TypeOK
<1>5. Frontier' /\ LastOpen'
  BY <1>2 DEF IInv, Frontier, LastOpen
<1>6. LoggedIsRecorded'
  BY <1>2, RecordedMono DEF IInv, TypeOK, LoggedIsRecorded
<1>7. SurfaceRow'
  BY <1>1, <1>2, <1>3 DEF IInv, SurfaceRow, TypeOK
<1>8. ConsoleAsked'
  BY DEF IInv, ConsoleAsked
<1> QED BY <1>4, <1>5, <1>6, <1>7, <1>8 DEF IInv

LEMMA PublishStep == IInv /\ (\E a \in Surfaces : Publish(a)) => IInv'
<1> SUFFICES ASSUME IInv, NEW a \in Surfaces, Publish(a) PROVE IInv'
  OBVIOUS
<1> USE DEF Publish, ioVars, workerVars
<1> DEFINE e == Entry("answered", target[a], choice[a], FALSE)
<1>1. target[a] \in Prompts /\ choice[a] \in Answers /\ row[target[a]] \in Answers
  BY DEF IInv, SurfaceRow
<1>2. e \in Entries /\ e.answer = choice[a] /\ e.prompt = target[a]
  <2>1. TypeOK
    BY DEF IInv
  <2> QED BY <1>1, <2>1 DEF Entry, Entries, TypeOK
<1> HIDE DEF e
<1>3. log' = Append(log, e)
  BY DEF e
<1>4. log' \in Seq(Entries) /\ RecordedIn(log', row')
  BY <1>1, <1>2, <1>3, RecordedAppend DEF IInv, TypeOK, LoggedIsRecorded
<1>5. TypeOK'
  BY <1>4 DEF IInv, TypeOK
<1>6. SurfaceRow'
  BY DEF IInv, SurfaceRow, TypeOK
<1> QED BY <1>4, <1>5, <1>6 DEF IInv, Frontier, LastOpen, LoggedIsRecorded, ConsoleAsked

\* The promise of the worker settles on an answer to the prompt it waits for.
LEMMA ResolveEffect ==
  ASSUME IInv, NEW p \in Prompts, NEW v \in Answers, Resolve(p, v),
         phase = "waiting" /\ asked = p => row'[p] \in Answers,
         \A q \in Prompts : row'[q] = Open => row[q] = Open,
         \A q \in Prompts : (row'[q] = "absent") <=> (row[q] = "absent"),
         UNCHANGED asked
  PROVE  /\ got' \in [Prompts -> Answers \cup {None, Sentinel}]
         /\ phase' \in {"working", "waiting", "stopped"}
         /\ Frontier' /\ LastOpen'
<1> USE AnswerAssumption DEF Resolve, None, Sentinel, Open
<1>1. CASE phase = "waiting" /\ asked = p
  <2>1. got' = [got EXCEPT ![p] = v] /\ phase' = "working"
    BY <1>1
  <2>2. got' \in [Prompts -> Answers \cup {None, Sentinel}]
    BY <2>1 DEF IInv, TypeOK
  <2>3. Frontier'
    BY <2>1, <1>1 DEF IInv, Frontier, TypeOK
  <2>4. LastOpen'
    BY <2>1, <1>1 DEF IInv, LastOpen
  <2> QED BY <2>1, <2>2, <2>3, <2>4
<1>2. CASE ~(phase = "waiting" /\ asked = p)
  BY <1>2 DEF IInv, TypeOK, Frontier, LastOpen
<1> QED BY <1>1, <1>2

LEMMA PollStep == IInv /\ Poll => IInv'
<1> SUFFICES ASSUME IInv, Poll PROVE IInv'
  OBVIOUS
<1> USE BoundAssumption DEF Poll, tableVars, ioVars, surfaceVars
<1>1. PICK i \in Fresh : cursor' = log[i].at + 1
  OBVIOUS
<1>2. i \in DOMAIN log /\ log[i] \in Entries
  BY DEF Fresh, IInv, TypeOK
<1>3. cursor' \in 0..(MaxClock + 1)
  BY <1>1, <1>2 DEF Entries
<1>4. /\ got' \in [Prompts -> Answers \cup {None, Sentinel}]
      /\ phase' \in {"working", "waiting", "stopped"}
      /\ Frontier' /\ LastOpen'
  <2>1. CASE UNCHANGED <<got, phase>>
    BY <2>1 DEF IInv, TypeOK, Frontier, LastOpen
  <2>2. CASE \E j \in Arrived : Resolve(asked, log[j].answer)
    <3>1. PICK j \in Arrived : Resolve(asked, log[j].answer)
      BY <2>2
    <3>2. /\ j \in DOMAIN log /\ log[j].kind = "answered" /\ log[j].prompt = asked
          /\ log[j] \in Entries
      BY DEF Arrived, Fresh, IInv, TypeOK
    <3>3. asked \in Prompts /\ log[j].answer \in Answers /\ row[asked] \in Answers
      BY <3>2 DEF IInv, LoggedIsRecorded, RecordedIn, Entries
    <3> QED BY <3>1, <3>3, ResolveEffect
  <2> QED BY <2>1, <2>2
<1>5. TypeOK'
  BY <1>3, <1>4 DEF IInv, TypeOK
<1> QED BY <1>4, <1>5 DEF IInv, LoggedIsRecorded, ConsoleAsked, SurfaceRow, RecordedIn

LEMMA LineStep == IInv /\ (\E v \in Answers : Line(v)) => IInv'
<1> SUFFICES ASSUME IInv, NEW v \in Answers, Line(v) PROVE IInv'
  OBVIOUS
<1> USE BoundAssumption DEF Line, tableVars, surfaceVars
<1>0. lines' \in 0..MaxLines
  BY DEF IInv, TypeOK
<1>1. CASE console = <<>>
  <2>1. typed' \in Seq(Answers)
    <3>1. typed \in Seq(Answers) /\ Append(typed, v) \in Seq(Answers)
      BY AppendProperties DEF IInv, TypeOK
    <3> QED BY <1>1, <3>1
  <2>2. TypeOK'
    BY <1>0, <1>1, <2>1 DEF IInv, TypeOK
  <2> QED BY <1>1, <2>2 DEF IInv, Frontier, LastOpen, LoggedIsRecorded, ConsoleAsked, SurfaceRow, RecordedIn
<1>2. CASE console # <<>>
  <2> DEFINE p == Head(console)
             e == Entry("answered", p, v, TRUE)
  <2>1. /\ p \in Prompts /\ p <= asked
        /\ console' \in Seq(Prompts) /\ \A i \in DOMAIN console' : console'[i] <= asked
    <3>1. console \in Seq(Prompts) /\ console' = Tail(console)
      BY <1>2 DEF IInv, TypeOK
    <3>2. /\ p \in Prompts /\ p = console[1] /\ 1 \in DOMAIN console
          /\ Tail(console) \in Seq(Prompts)
          /\ \A i \in DOMAIN Tail(console) : i + 1 \in DOMAIN console /\ Tail(console)[i] = console[i + 1]
      BY <1>2, <3>1, HeadTailProperties
    <3> QED BY <3>1, <3>2 DEF IInv, ConsoleAsked
  <2> HIDE DEF p
  <2>2. EmitAnswer(p, v)
    BY <1>2 DEF p
  <2>3. /\ row' \in [Prompts -> Answers \cup {"absent", Open}]
        /\ \A q \in Prompts : row[q] \in Answers => row'[q] \in Answers
        /\ row[p] # "absent" => row'[p] \in Answers
        /\ \A q \in Prompts : (row'[q] = "absent") <=> (row[q] = "absent")
        /\ \A q \in Prompts : row'[q] = Open => row[q] = Open
    BY <2>1, <2>2, AnswerRowEffect DEF EmitAnswer, IInv
  <2>4. row[p] # "absent" /\ row'[p] \in Answers
    BY <2>1, <2>3 DEF IInv, Frontier
  <2>5. /\ got' \in [Prompts -> Answers \cup {None, Sentinel}]
        /\ phase' \in {"working", "waiting", "stopped"}
        /\ Frontier' /\ LastOpen'
    BY <2>1, <2>2, <2>3, <2>4, ResolveEffect DEF EmitAnswer
  <2>6. e \in Entries /\ e.answer = v /\ e.prompt = p /\ log' = Append(log, e)
    BY <2>1, <2>2, AnsweredEntry DEF EmitAnswer, IInv
  <2> HIDE DEF e
  <2>7. RecordedIn(log, row')
    BY <2>3, RecordedMono DEF IInv, TypeOK, LoggedIsRecorded
  <2>8. log' \in Seq(Entries) /\ RecordedIn(log', row')
    BY <2>4, <2>6, <2>7, RecordedAppend DEF IInv, TypeOK
  <2>9. TypeOK'
    BY <1>0, <1>2, <2>1, <2>3, <2>5, <2>8 DEF IInv, TypeOK
  <2>10. SurfaceRow'
    BY <2>3 DEF IInv, SurfaceRow
  <2> QED BY <2>1, <2>5, <2>8, <2>9, <2>10 DEF IInv, LoggedIsRecorded, ConsoleAsked
<1> QED BY <1>1, <1>2

\* Before it asks, the worker has no open prompt and the next one has no row.
LEMMA AskStart ==
  ASSUME IInv, Ask
  PROVE  /\ asked + 1 \in Prompts /\ row[asked + 1] = "absent" /\ got[asked + 1] = None
         /\ \A q \in Prompts : row[q] # Open
         /\ asked' = asked + 1
<1>1. asked + 1 \in Prompts /\ asked + 1 > asked
  BY BoundAssumption DEF Ask, IInv, TypeOK, Prompts
<1> QED BY <1>1 DEF Ask, IInv, Frontier, LastOpen, TypeOK

LEMMA AskStep == IInv /\ Ask => IInv'
<1> SUFFICES ASSUME IInv, Ask PROVE IInv'
  OBVIOUS
<1> DEFINE p == asked + 1
           q == Entry("asked", p, None, TRUE)
<1>1. /\ p \in Prompts /\ row[p] = "absent" /\ got[p] = None
      /\ \A o \in Prompts : row[o] # Open
      /\ asked' = p
      /\ asked \in 0..MaxPrompts /\ asked' \in 0..MaxPrompts
  BY AskStart, BoundAssumption DEF IInv, TypeOK, Prompts
<1>2. q \in Entries /\ q.kind = "asked"
  BY <1>1, AskedEntry DEF IInv
<1>3. log \in Seq(Entries) /\ RecordedIn(log, row) /\ console \in Seq(Prompts) /\ typed \in Seq(Answers)
  BY DEF IInv, TypeOK, LoggedIsRecorded
<1>4. SurfaceRow'
  <2>1. \A o \in Prompts : o # p => row'[o] = row[o]
    BY DEF Ask, IInv, TypeOK
  <2>2. UNCHANGED <<pc, target, choice>>
    BY DEF Ask, surfaceVars
  <2>3. asked < asked'
    BY <1>1
  <2>4. \A o \in Prompts : row[o] \in Answers => o # p
    BY <1>1, AnswerAssumption
  <2>5. \A o \in Prompts : o <= asked => o <= asked'
    BY <1>1 DEF Prompts
  <2>6. \A o \in Prompts : row[o] \in Answers => row'[o] \in Answers
    BY <2>1, <2>4
  <2> QED BY <2>2, <2>5, <2>6 DEF IInv, SurfaceRow
<1> HIDE DEF q
<1>5. ASSUME NEW v \in Answers, typed # <<>>, v = Head(typed),
             row' = [row EXCEPT ![p] = v],
             log' = Append(Append(log, Entry("answered", p, v, TRUE)), q),
             got' = [got EXCEPT ![p] = v], typed' = Tail(typed),
             UNCHANGED <<clock, cursor, terminal, ended, lines, pc, target, choice, console, phase>>,
             phase = "working"
      PROVE  IInv'
  <2> DEFINE e == Entry("answered", p, v, TRUE)
  <2>1. e \in Entries /\ e.kind = "answered" /\ e.prompt = p /\ e.answer = v
    BY <1>1 DEF IInv, Entry, Entries, TypeOK
  <2> HIDE DEF e
  <2>2. row' \in [Prompts -> Answers \cup {"absent", Open}] /\ row'[p] = v
        /\ \A o \in Prompts : o # p => row'[o] = row[o]
    BY <1>1, <1>5 DEF IInv, TypeOK
  <2>3. RecordedIn(log, row')
    BY <1>3, <2>2, RecordedMono
  <2>4. Append(log, e) \in Seq(Entries) /\ RecordedIn(Append(log, e), row')
    BY <1>3, <2>1, <2>2, <2>3, RecordedAppend
  <2>5. log' = Append(Append(log, e), q)
    BY <1>5 DEF e
  <2>6. log' \in Seq(Entries) /\ RecordedIn(log', row')
    BY <1>2, <2>4, <2>5, RecordedAppend
  <2>7. typed' \in Seq(Answers)
    BY <1>3, <1>5, HeadTailProperties
  <2>8. TypeOK'
    BY <1>1, <1>5, <2>2, <2>6, <2>7 DEF IInv, TypeOK
  <2>9. Frontier'
    BY <1>1, <1>5, <2>2, AnswerAssumption DEF IInv, Frontier, TypeOK, Prompts
  <2>10. LastOpen'
    BY <1>1, <1>5, <2>2, AnswerAssumption DEF LastOpen
  <2>11. ConsoleAsked'
    <3>1. \A i \in DOMAIN console : console[i] \in Prompts /\ console[i] <= asked
      BY <1>3 DEF IInv, ConsoleAsked
    <3> QED BY <1>1, <1>5, <3>1 DEF ConsoleAsked, Prompts
  <2> QED BY <1>4, <2>6, <2>8, <2>9, <2>10, <2>11 DEF IInv, LoggedIsRecorded
<1>6. ASSUME row' = [row EXCEPT ![p] = Open], log' = Append(log, q),
             UNCHANGED <<clock, cursor, terminal, ended, lines, pc, target, choice, typed>>,
             \/ /\ got' = [got EXCEPT ![p] = Sentinel] /\ phase' = "stopped"
                /\ UNCHANGED console
             \/ /\ UNCHANGED got /\ phase' = "waiting"
                /\ console' \in {console, Append(console, p)}
      PROVE  IInv'
  <2>1. row' \in [Prompts -> Answers \cup {"absent", Open}] /\ row'[p] = Open
        /\ \A o \in Prompts : o # p => row'[o] = row[o]
    BY <1>1, <1>6 DEF IInv, TypeOK
  <2>2. RecordedIn(log, row')
    BY <1>1, <1>3, <2>1, RecordedMono, AnswerAssumption
  <2>3. log' \in Seq(Entries) /\ RecordedIn(log', row')
    BY <1>2, <1>3, <1>6, <2>2, RecordedAppend
  <2>4. console' \in Seq(Prompts) /\ \A i \in DOMAIN console' : console'[i] <= asked'
    <3>1. \A i \in DOMAIN console : console[i] \in Prompts /\ console[i] <= asked
      BY <1>3 DEF IInv, ConsoleAsked
    <3>2. /\ Append(console, p) \in Seq(Prompts)
          /\ \A i \in DOMAIN Append(console, p) :
               \/ i \in DOMAIN console /\ Append(console, p)[i] = console[i]
               \/ Append(console, p)[i] = p
      BY <1>1, <1>3, AppendProperties
    <3>3. \A i \in DOMAIN Append(console, p) : Append(console, p)[i] <= p
      BY <1>1, <3>1, <3>2 DEF Prompts
    <3>4. \A i \in DOMAIN console : console[i] <= p
      BY <1>1, <3>1 DEF Prompts
    <3> QED BY <1>1, <1>3, <1>6, <3>2, <3>3, <3>4
  <2>5. got' \in [Prompts -> Answers \cup {None, Sentinel}] /\ \A o \in Prompts : o # p => got'[o] = got[o]
    BY <1>6 DEF IInv, TypeOK
  <2>6. TypeOK'
    BY <1>1, <1>6, <2>1, <2>3, <2>4, <2>5 DEF IInv, TypeOK
  <2>7. Frontier'
    BY <1>1, <1>6, <2>1, <2>5 DEF IInv, Frontier, TypeOK, Prompts, Open
  <2>8. LastOpen'
    BY <1>1, <1>6, <2>1 DEF LastOpen
  <2> QED BY <1>4, <2>3, <2>4, <2>6, <2>7, <2>8 DEF IInv, LoggedIsRecorded, ConsoleAsked
<1>7. typed # <<>> => Head(typed) \in Answers
  BY <1>3, HeadTailProperties
<1> QED BY <1>5, <1>6, <1>7 DEF Ask, surfaceVars, q

LEMMA NextIInv == IInv /\ [Next]_vars => IInv'
<1> SUFFICES ASSUME IInv, [Next]_vars PROVE IInv'
  OBVIOUS
<1>1. CASE UNCHANGED vars
  <2> USE <1>1 DEF vars, tableVars, ioVars, workerVars, surfaceVars
  <2>1. TypeOK' /\ SurfaceRow'
    BY DEF IInv, TypeOK, Entries, SurfaceRow
  <2> QED BY <2>1, QuietStep
<1> QED BY <1>1, AskStep, LineStep, PollStep, StopStep, ResumeStep, TickStep,
           CheckStep, RecordStep, PublishStep, DiesStep DEF Next

THEOREM Invariance == Spec => []IInv
BY InitIInv, NextIInv, PTL DEF Spec

-----------------------------------------------------------------------------
(* The theorems. *)

\* The model has the types of TypeOK: what the code keeps in its tables and
\* in the memory of its processes.
THEOREM TypeCorrect == Spec => []TypeOK
BY Invariance, PTL DEF IInv

\* A run never has two open prompts, whatever stops and resumes it: an answer
\* that names no prompt finds the question the worker waits with.
THEOREM OneOpen == Spec => []OneOpenPrompt
<1>1. IInv => OneOpenPrompt
  BY DEF IInv, LastOpen, OneOpenPrompt, OpenPrompts
<1> QED BY <1>1, Invariance, PTL

\* No step replaces a recorded answer.
LEMMA RowStep ==
  ASSUME IInv, [Next]_vars, NEW p \in Prompts, row[p] \in Answers
  PROVE  row'[p] = row[p]
<1> USE AnswerAssumption DEF Open
<1>1. CASE Ask
  <2>1. row[asked + 1] = "absent"
    BY <1>1, AskStart
  <2>2. row' = row \/ \E v : row' = [row EXCEPT ![asked + 1] = v]
    BY <1>1 DEF Ask
  <2> QED BY <2>1, <2>2 DEF IInv, TypeOK
<1>2. CASE \E v \in Answers : Line(v)
  BY <1>2 DEF Line, EmitAnswer, AnswerRow, tableVars, IInv, TypeOK
<1>3. CASE \E a \in Surfaces : Record(a)
  BY <1>3 DEF Record, AnswerRow, IInv, TypeOK
<1>4. CASE UNCHANGED row
  BY <1>4
<1> QED
  BY <1>1, <1>2, <1>3, <1>4
     DEF Next, vars, tableVars, InputEnds, Poll, Stop, Resume, Tick, Check, Publish, Dies

\* The compare-and-set of answerPendingPrompt, and the check of the bus that a
\* prompt is new, keep a recorded answer for ever.
THEOREM RecordedStands == Spec => RecordedAnswerStands
<1>1. IInv /\ [Next]_vars => [\A p \in Prompts : row[p] \in Answers => row'[p] = row[p]]_vars
  BY RowStep
<1> QED BY <1>1, Invariance, PTL DEF Spec, RecordedAnswerStands

-----------------------------------------------------------------------------
(* The contract. *)

Pub == [p \in Prompts |-> AnswersIn(log, p)]
Went == [p \in Prompts |-> IF got[p] \in Answers THEN got[p] ELSE None]

\* What the promise of the worker does to its mapping.
LEMMA WentOn ==
  ASSUME IInv, NEW p \in Prompts, NEW v \in Answers, Resolve(p, v)
  PROVE  UNCHANGED Went \/ (Went[p] = "none" /\ Went' = [Went EXCEPT ![p] = v])
<1> USE AnswerAssumption DEF None, Went
<1>1. CASE phase = "waiting" /\ asked = p
  <2>1. got' = [got EXCEPT ![p] = v] /\ got[p] = None
    BY <1>1 DEF Resolve, IInv, Frontier
  <2> QED BY <2>1 DEF IInv, TypeOK
<1>2. CASE ~(phase = "waiting" /\ asked = p)
  <2>1. got' = got
    BY <1>2 DEF Resolve
  <2> QED BY <2>1
<1> QED BY <1>1, <1>2

\* A published answer joins those of its prompt.
LEMMA PubAppend ==
  ASSUME IInv, NEW p \in Prompts, NEW e \in Entries, log' = Append(log, e),
         e.kind = "answered", e.prompt = p
  PROVE  Pub' = [Pub EXCEPT ![p] = @ \cup {e.answer}]
<1>1. log \in Seq(Entries)
  BY DEF IInv, TypeOK
<1>2. ASSUME NEW q \in Prompts
      PROVE  AnswersIn(log', q) = IF q = p THEN AnswersIn(log, q) \cup {e.answer} ELSE AnswersIn(log, q)
  <2>1. AnswersIn(log', q) =
          AnswersIn(log, q) \cup (IF e.kind = "answered" /\ e.prompt = q THEN {e.answer} ELSE {})
    BY <1>1, AnswersAppend
  <2> QED BY <2>1
<1>3. Pub' = [q \in Prompts |-> IF q = p THEN AnswersIn(log, q) \cup {e.answer} ELSE AnswersIn(log, q)]
  BY <1>2 DEF Pub
<1> QED BY <1>3 DEF Pub

\* A question publishes nothing.
LEMMA PubAsked ==
  ASSUME IInv, NEW e \in Entries, log' = Append(log, e), e.kind = "asked"
  PROVE  UNCHANGED Pub
<1>1. log \in Seq(Entries)
  BY DEF IInv, TypeOK
<1>2. ASSUME NEW q \in Prompts PROVE AnswersIn(log', q) = AnswersIn(log, q)
  <2>1. AnswersIn(log', q) =
          AnswersIn(log, q) \cup (IF e.kind = "answered" /\ e.prompt = q THEN {e.answer} ELSE {})
    BY <1>1, AnswersAppend
  <2> QED BY <2>1
<1> QED BY <1>2 DEF Pub

LEMMA InitMaps == Init => Contract!Init
<1> SUFFICES ASSUME Init PROVE Contract!Init
  OBVIOUS
<1>1. DOMAIN log = {}
  BY DEF Init
<1>2. \A p \in Prompts : AnswersIn(log, p) = {}
  BY <1>1 DEF AnswersIn
<1> QED BY <1>2, AnswerAssumption DEF Contract!Init, Init, None

LEMMA LineMaps ==
  ASSUME IInv, NEW v \in Answers, Line(v)
  PROVE  Contract!Next \/ UNCHANGED <<row, Pub, Went>>
<1>1. CASE console = <<>>
  BY <1>1 DEF Line, tableVars, Pub, Went
<1>2. CASE console # <<>>
  <2> DEFINE p == Head(console)
             e == Entry("answered", p, v, TRUE)
  <2>1. p \in Prompts /\ p <= asked
    <3>1. p \in Prompts /\ p = console[1] /\ 1 \in DOMAIN console
      BY <1>2, HeadTailProperties DEF IInv, TypeOK
    <3> QED BY <3>1 DEF IInv, ConsoleAsked
  <2> HIDE DEF p
  <2>2. EmitAnswer(p, v)
    BY <1>2 DEF p, Line
  <2>3. row[p] # "absent"
    BY <2>1 DEF IInv, Frontier
  <2>4. row' = [row EXCEPT ![p] = IF @ \in {"absent", "open"} THEN v ELSE @]
    BY <2>1, <2>2, <2>3 DEF EmitAnswer, AnswerRow, Open, IInv, TypeOK
  <2>5. e \in Entries /\ e.answer = v /\ e.prompt = p /\ e.kind = "answered" /\ log' = Append(log, e)
    BY <2>1, <2>2 DEF EmitAnswer, IInv, Entry, Entries, TypeOK
  <2> HIDE DEF e
  <2>6. Pub' = [Pub EXCEPT ![p] = @ \cup {v}]
    BY <2>1, <2>5, PubAppend
  <2>7. UNCHANGED Went \/ (Went[p] = "none" /\ Went' = [Went EXCEPT ![p] = v])
    BY <2>1, <2>2, WentOn DEF EmitAnswer
  <2>8. Contract!Reply(p, v)
    BY <2>3, <2>4, <2>6, <2>7 DEF Contract!Reply, Pub, Went
  <2> QED BY <2>1, <2>8 DEF Contract!Next
<1> QED BY <1>1, <1>2

LEMMA AskMaps ==
  ASSUME IInv, Ask
  PROVE  Contract!Next
<1> DEFINE p == asked + 1
           q == Entry("asked", p, None, TRUE)
<1>1. /\ p \in Prompts /\ row[p] = "absent" /\ got[p] = None
      /\ \A o \in Prompts : row[o] # "open"
  BY AskStart DEF Open
<1>2. q \in Entries /\ q.kind = "asked"
  BY <1>1, AskedEntry DEF IInv
<1> HIDE DEF q
<1>3. ASSUME row' = [row EXCEPT ![p] = Open], log' = Append(log, q),
             UNCHANGED got \/ got' = [got EXCEPT ![p] = Sentinel]
      PROVE  Contract!Next
  <2>1. UNCHANGED Pub
    BY <1>2, <1>3, PubAsked
  <2>2. UNCHANGED Went
    BY <1>1, <1>3, AnswerAssumption DEF Went, None, Sentinel, IInv, TypeOK
  <2>3. Contract!Ask(p)
    BY <1>1, <1>3, <2>1, <2>2 DEF Contract!Ask, Pub, Went, Open
  <2> QED BY <1>1, <2>3 DEF Contract!Next
<1>4. ASSUME NEW v \in Answers, row' = [row EXCEPT ![p] = v],
             log' = Append(Append(log, Entry("answered", p, v, TRUE)), q),
             got' = [got EXCEPT ![p] = v]
      PROVE  Contract!Next
  <2> DEFINE e == Entry("answered", p, v, TRUE)
             l == Append(log, e)
  <2>1. log \in Seq(Entries) /\ e \in Entries /\ e.kind = "answered" /\ e.prompt = p /\ e.answer = v
    BY <1>1 DEF IInv, Entry, Entries, TypeOK
  <2>2. log' = Append(l, q)
    BY <1>4
  <2> HIDE DEF e
  <2>3. l \in Seq(Entries)
    BY <2>1, AppendProperties
  <2>4. ASSUME NEW o \in Prompts
        PROVE  AnswersIn(log', o) = IF o = p THEN AnswersIn(log, o) \cup {v} ELSE AnswersIn(log, o)
    <3>1. AnswersIn(l, o) = AnswersIn(log, o) \cup (IF e.kind = "answered" /\ e.prompt = o THEN {e.answer} ELSE {})
      BY <2>1, AnswersAppend
    <3> HIDE DEF l
    <3>2. AnswersIn(log', o) = AnswersIn(l, o) \cup (IF q.kind = "answered" /\ q.prompt = o THEN {q.answer} ELSE {})
      BY <1>2, <2>2, <2>3, AnswersAppend
    <3>3. AnswersIn(log', o) = AnswersIn(l, o)
      BY <1>2, <3>2
    <3> QED BY <2>1, <3>1, <3>3
  <2>5. Pub' = [o \in Prompts |-> IF o = p THEN AnswersIn(log, o) \cup {v} ELSE AnswersIn(log, o)]
    BY <2>4 DEF Pub
  <2>6. Pub' = [Pub EXCEPT ![p] = @ \cup {v}]
    BY <2>5 DEF Pub
  <2>7. Went[p] = "none" /\ Went' = [Went EXCEPT ![p] = v]
    BY <1>1, <1>4, AnswerAssumption DEF Went, None, IInv, TypeOK
  <2>8. row' = [row EXCEPT ![p] = IF @ \in {"absent", "open"} THEN v ELSE @]
    BY <1>1, <1>4 DEF IInv, TypeOK
  <2>9. Contract!Reply(p, v)
    BY <1>1, <2>6, <2>7, <2>8 DEF Contract!Reply, Pub, Went
  <2> QED BY <1>1, <2>9 DEF Contract!Next
<1>5. typed # <<>> => Head(typed) \in Answers
  BY HeadTailProperties DEF IInv, TypeOK
<1> QED BY <1>3, <1>4, <1>5 DEF Ask, q

LEMMA PollMaps ==
  ASSUME IInv, Poll
  PROVE  Contract!Next \/ UNCHANGED <<row, Pub, Went>>
<1>1. UNCHANGED <<row, log, Pub>>
  BY DEF Poll, tableVars, Pub
<1>2. CASE UNCHANGED got
  BY <1>1, <1>2 DEF Went
<1>3. CASE \E j \in Arrived : Resolve(asked, log[j].answer)
  <2>1. PICK j \in Arrived : Resolve(asked, log[j].answer)
    BY <1>3
  <2>2. /\ j \in DOMAIN log /\ log[j].kind = "answered" /\ log[j].prompt = asked
        /\ log[j] \in Entries
    BY DEF Arrived, Fresh, IInv, TypeOK
  <2>3. asked \in Prompts /\ log[j].answer \in Answers
    BY <2>2 DEF IInv, LoggedIsRecorded, RecordedIn, Entries
  <2>4. PICK p \in Prompts, v \in Answers : p = asked /\ v = log[j].answer
    BY <2>3
  <2>5. v \in Pub[p]
    BY <2>2, <2>3, <2>4 DEF Pub, AnswersIn
  <2>6. UNCHANGED Went \/ (Went[p] = "none" /\ Went' = [Went EXCEPT ![p] = v])
    BY <2>1, <2>4, WentOn
  <2>7. UNCHANGED Went \/ Contract!Act(p, v)
    BY <1>1, <2>5, <2>6 DEF Contract!Act, Pub, Went
  <2>8. Contract!Act(p, v) => Contract!Next
    BY DEF Contract!Next
  <2> QED BY <1>1, <2>7, <2>8
<1> QED BY <1>2, <1>3 DEF Poll

LEMMA SurfaceMaps ==
  ASSUME IInv, NEW a \in Surfaces, Record(a) \/ Publish(a)
  PROVE  Contract!Next \/ UNCHANGED <<row, Pub, Went>>
<1>1. UNCHANGED Went
  BY DEF Record, Publish, workerVars, Went
<1>2. target[a] \in Prompts /\ choice[a] \in Answers
  BY DEF Record, Publish, IInv, SurfaceRow
<1>3. CASE Record(a)
  <2>1. UNCHANGED Pub
    BY <1>3 DEF Record, Pub
  <2>2. \/ UNCHANGED row
        \/ row[target[a]] = "open" /\ row' = [row EXCEPT ![target[a]] = choice[a]]
    BY <1>2, <1>3 DEF Record, AnswerRow, Open, IInv, TypeOK
  <2>3. UNCHANGED row \/ Contract!Record(target[a], choice[a])
    BY <1>1, <2>1, <2>2 DEF Contract!Record, Pub, Went
  <2> QED BY <1>1, <1>2, <2>1, <2>3 DEF Contract!Next
<1>4. CASE Publish(a)
  <2> DEFINE e == Entry("answered", target[a], choice[a], FALSE)
  <2>1. e \in Entries /\ e.kind = "answered" /\ e.prompt = target[a] /\ e.answer = choice[a]
    BY <1>2 DEF IInv, Entry, Entries, TypeOK
  <2>2. log' = Append(log, e) /\ row[target[a]] \in Answers /\ UNCHANGED row
    BY <1>4 DEF Publish, IInv, SurfaceRow
  <2> HIDE DEF e
  <2>3. Pub' = [Pub EXCEPT ![target[a]] = @ \cup {choice[a]}]
    BY <1>2, <2>1, <2>2, PubAppend
  <2>4. Contract!Publish(target[a], choice[a])
    BY <1>1, <2>2, <2>3 DEF Contract!Publish, Pub, Went
  <2> QED BY <1>2, <2>4 DEF Contract!Next
<1> QED BY <1>3, <1>4

LEMMA NextMaps == IInv /\ [Next]_vars => [Contract!Next]_(Contract!vars)
<1> SUFFICES ASSUME IInv, [Next]_vars PROVE Contract!Next \/ UNCHANGED <<row, Pub, Went>>
  BY DEF Contract!vars, Pub, Went
<1>1. CASE InputEnds
  <2>1. \/ UNCHANGED got
        \/ asked \in Prompts /\ got[asked] = None /\ got' = [got EXCEPT ![asked] = Sentinel]
    BY <1>1 DEF InputEnds, Resolve, IInv, Frontier
  <2>2. UNCHANGED Went
    BY <2>1, AnswerAssumption DEF Went, None, Sentinel, IInv, TypeOK
  <2> QED BY <1>1, <2>2 DEF InputEnds, tableVars, Pub
<1>2. CASE Stop \/ Resume \/ Tick \/ UNCHANGED vars \/ \E a \in Surfaces : Check(a) \/ Dies(a)
  <2>1. UNCHANGED <<row, log, got>>
    BY <1>2 DEF Stop, Resume, Tick, Check, Dies, vars, tableVars, workerVars
  <2> QED BY <2>1 DEF Pub, Went
<1> QED BY <1>1, <1>2, AskMaps, LineMaps, PollMaps, SurfaceMaps DEF Next

\* The rows, the log and the worker implement the contract of a question.
THEOREM Refinement == Spec => KeepsContract
<1>1. Init => Contract!Init
  BY InitMaps
<1>2. Spec => Contract!Spec
  BY <1>1, NextMaps, Invariance, PTL DEF Spec, Contract!Spec
<1> QED BY <1>2 DEF KeepsContract

-----------------------------------------------------------------------------
(* Whose answer it is.                                                     *)

\* What was typed for p at a terminal of the worker.
OwnIn(s, p) ==
    {s[i].answer : i \in {j \in DOMAIN s : s[j].kind = "answered" /\ s[j].prompt = p /\ s[j].own}}

Gave(a, p, v) == pc[a] # "idle" /\ target[a] = p /\ choice[a] = v

GivenBy(p, v) == v \in OwnIn(log, p) \/ \E a \in Surfaces : Gave(a, p, v)

\* What is recorded, published or acted on was given by a terminal or a surface.
Sourced ==
    /\ \A p \in Prompts : row[p] \in Answers => GivenBy(p, row[p])
    /\ \A p \in Prompts : \A v \in AnswersIn(log, p) : GivenBy(p, v)
    /\ \A p \in Prompts : got[p] \in Answers => row[p] \in Answers /\ GivenBy(p, got[p])

\* A resolver takes one line and is not made twice, so the terminal answers a prompt once.
TypedOnce ==
    /\ \A p \in Prompts : \A v, w \in OwnIn(log, p) : v = w
    /\ \A i \in DOMAIN console : OwnIn(log, console[i]) = {}
    /\ \A i, j \in DOMAIN console : console[i] = console[j] => i = j

SourceInv == Sourced /\ TypedOnce

LEMMA OwnAppend ==
  ASSUME NEW s \in Seq(Entries), NEW e \in Entries, NEW p \in Prompts
  PROVE  OwnIn(Append(s, e), p) =
           OwnIn(s, p) \cup
             (IF e.kind = "answered" /\ e.prompt = p /\ e.own THEN {e.answer} ELSE {})
<1> DEFINE t == Append(s, e)
           new == IF e.kind = "answered" /\ e.prompt = p /\ e.own THEN {e.answer} ELSE {}
<1>1. /\ DOMAIN s = 1..Len(s) /\ DOMAIN t = 1..(Len(s) + 1) /\ Len(s) \in Nat
      /\ \A i \in 1..Len(s) : t[i] = s[i]
      /\ t[Len(s) + 1] = e
  BY AppendProperties
<1> HIDE DEF t
<1>2. ASSUME NEW i \in DOMAIN t PROVE i = Len(s) + 1 \/ i \in DOMAIN s
  BY <1>1
<1>3. OwnIn(t, p) \subseteq OwnIn(s, p) \cup new
  BY <1>1, <1>2 DEF OwnIn
<1>4. OwnIn(s, p) \subseteq OwnIn(t, p)
  BY <1>1 DEF OwnIn
<1>5. e.kind = "answered" /\ e.prompt = p /\ e.own => e.answer \in OwnIn(t, p)
  BY <1>1 DEF OwnIn
<1> QED BY <1>3, <1>4, <1>5 DEF t

\* An entry of another prompt, or of a question, answers nothing; one of another process
\* is no answer of the terminal.
LEMMA QuietAppend ==
  ASSUME NEW s \in Seq(Entries), NEW e \in Entries, NEW p \in Prompts,
         e.kind # "answered" \/ e.prompt # p
  PROVE  OwnIn(Append(s, e), p) = OwnIn(s, p) /\ AnswersIn(Append(s, e), p) = AnswersIn(s, p)
<1>1. ~(e.kind = "answered" /\ e.prompt = p) /\ ~(e.kind = "answered" /\ e.prompt = p /\ e.own)
  OBVIOUS
<1>2. OwnIn(Append(s, e), p) = OwnIn(s, p) \cup {}
  BY <1>1, OwnAppend
<1>3. AnswersIn(Append(s, e), p) = AnswersIn(s, p) \cup {}
  BY <1>1, AnswersAppend
<1> QED BY <1>2, <1>3

LEMMA TypedAppend ==
  ASSUME NEW s \in Seq(Entries), NEW e \in Entries, e.kind = "answered", e.own,
         e.prompt \in Prompts
  PROVE  /\ OwnIn(Append(s, e), e.prompt) = OwnIn(s, e.prompt) \cup {e.answer}
         /\ AnswersIn(Append(s, e), e.prompt) = AnswersIn(s, e.prompt) \cup {e.answer}
BY OwnAppend, AnswersAppend

LEMMA PublishedAppend ==
  ASSUME NEW s \in Seq(Entries), NEW e \in Entries, ~e.own, NEW p \in Prompts
  PROVE  /\ OwnIn(Append(s, e), p) = OwnIn(s, p)
         /\ AnswersIn(Append(s, e), p) \subseteq AnswersIn(s, p) \cup {e.answer}
         /\ e.prompt # p => AnswersIn(Append(s, e), p) = AnswersIn(s, p)
<1>1. OwnIn(Append(s, e), p) = OwnIn(s, p) \cup {}
  <2>1. ~(e.kind = "answered" /\ e.prompt = p /\ e.own)
    OBVIOUS
  <2> QED BY <2>1, OwnAppend
<1>2. AnswersIn(Append(s, e), p) \subseteq AnswersIn(s, p) \cup {e.answer}
  BY AnswersAppend
<1> QED BY <1>1, <1>2, QuietAppend

\* A terminal's answer is in the log, and none is before its prompt is asked.
LEMMA OwnLogged ==
  ASSUME IInv, NEW p \in Prompts
  PROVE  /\ OwnIn(log, p) \subseteq AnswersIn(log, p)
         /\ AnswersIn(log, p) # {} => row[p] \in Answers
         /\ row[p] \notin Answers => OwnIn(log, p) = {} /\ AnswersIn(log, p) = {}
<1>1. OwnIn(log, p) \subseteq AnswersIn(log, p)
  BY DEF OwnIn, AnswersIn
<1>2. AnswersIn(log, p) # {} => row[p] \in Answers
  BY DEF AnswersIn, IInv, LoggedIsRecorded, RecordedIn
<1> QED BY <1>1, <1>2

\* No surface takes back what it gave.
LEMMA SurfacesStay ==
  ASSUME IInv, [Next]_vars, NEW a \in Surfaces, pc[a] # "idle"
  PROVE  pc'[a] # "idle" /\ target'[a] = target[a] /\ choice'[a] = choice[a]
<1> USE DEF IInv, TypeOK, surfaceVars, workerVars, ioVars, tableVars
<1>1. CASE \E b \in Surfaces : Check(b)
  BY <1>1 DEF Check
<1>2. CASE \E b \in Surfaces : Record(b) \/ Publish(b) \/ Dies(b)
  BY <1>2 DEF Record, Publish, Dies
<1>3. CASE UNCHANGED surfaceVars
  BY <1>3
<1> QED
  BY <1>1, <1>2, <1>3 DEF Next, vars, Ask, InputEnds, Poll, Stop, Resume, Tick, Line

LEMMA GivenStays ==
  ASSUME IInv, [Next]_vars, NEW p \in Prompts, NEW v, GivenBy(p, v),
         OwnIn(log, p) \subseteq OwnIn(log', p)
  PROVE  GivenBy(p, v)'
<1>1. CASE v \in OwnIn(log, p)
  BY <1>1 DEF GivenBy
<1>2. ASSUME NEW a \in Surfaces, Gave(a, p, v) PROVE GivenBy(p, v)'
  BY <1>2, SurfacesStay DEF Gave, GivenBy
<1> QED BY <1>1, <1>2 DEF GivenBy

\* A step that leaves the terminal's entries alone keeps what they, the rows, the log and
\* the worker have, if what it adds was given by somebody.
LEMMA SourceStep ==
  ASSUME IInv, SourceInv, [Next]_vars,
         \A p \in Prompts : OwnIn(log', p) = OwnIn(log, p),
         \A p \in Prompts : row'[p] \in Answers => row'[p] = row[p] \/ GivenBy(p, row'[p]),
         \A p \in Prompts : \A v \in AnswersIn(log', p) : v \in AnswersIn(log, p) \/ GivenBy(p, v),
         \A p \in Prompts : got'[p] \in Answers =>
             got'[p] = got[p] \/ (row[p] \in Answers /\ GivenBy(p, got'[p])),
         \A p \in Prompts : row[p] \in Answers => row'[p] \in Answers
  PROVE  Sourced'
<1>1. \A p \in Prompts : \A v : GivenBy(p, v) => GivenBy(p, v)'
  BY GivenStays
<1>2. \A p \in Prompts : row'[p] \in Answers => GivenBy(p, row'[p])
  BY DEF SourceInv, Sourced
<1>3. \A p \in Prompts : \A v \in AnswersIn(log', p) : GivenBy(p, v)
  BY DEF SourceInv, Sourced
<1>4. \A p \in Prompts : got'[p] \in Answers => row'[p] \in Answers /\ GivenBy(p, got'[p])
  BY DEF SourceInv, Sourced
<1>5. \A p \in Prompts : row'[p] \in Answers => GivenBy(p, row[p])' 
  <2>1. ASSUME NEW p \in Prompts, row'[p] \in Answers, NEW v, v = row'[p] PROVE GivenBy(p, v)'
    BY <1>1, <1>2, <2>1
  <2> QED BY <2>1
<1>6. \A p \in Prompts : \A v \in AnswersIn(log, p)' : GivenBy(p, v)'
  BY <1>1, <1>3
<1>7. \A p \in Prompts : got'[p] \in Answers => row'[p] \in Answers /\ GivenBy(p, got[p])'
  <2>1. ASSUME NEW p \in Prompts, got'[p] \in Answers, NEW v, v = got'[p] PROVE GivenBy(p, v)'
    BY <1>1, <1>4, <2>1
  <2> QED BY <1>4, <2>1
<1> QED BY <1>5, <1>6, <1>7 DEF Sourced
\* A terminal types v for p: nobody at a terminal has answered p before.
LEMMA TypedStep ==
  ASSUME IInv, SourceInv, [Next]_vars, NEW p \in Prompts, NEW v \in Answers,
         OwnIn(log, p) = {},
         \A q \in Prompts : q # p => OwnIn(log', q) = OwnIn(log, q),
         \A q \in Prompts : q # p => AnswersIn(log', q) = AnswersIn(log, q),
         OwnIn(log', p) = {v}, AnswersIn(log', p) = AnswersIn(log, p) \cup {v},
         \A q \in Prompts : q # p => row'[q] = row[q] /\ got'[q] = got[q],
         row'[p] \in {row[p], v}, row'[p] \in Answers, got'[p] \in {got[p], v}
  PROVE  Sourced' /\ \A q \in Prompts : \A w, x \in OwnIn(log', q) : w = x
<1>1. \A q \in Prompts : OwnIn(log, q) \subseteq OwnIn(log', q)
  OBVIOUS
<1>2. \A q \in Prompts : \A w : GivenBy(q, w) => GivenBy(q, w)'
  BY <1>1, GivenStays
<1>3. GivenBy(p, v)'
  BY DEF GivenBy
<1>4. ASSUME NEW q \in Prompts, NEW w, w = row'[q], w \in Answers PROVE GivenBy(q, w)'
  BY <1>2, <1>3, <1>4 DEF SourceInv, Sourced
<1>5. ASSUME NEW q \in Prompts, NEW w \in AnswersIn(log', q) PROVE GivenBy(q, w)'
  BY <1>2, <1>3, <1>5 DEF SourceInv, Sourced
<1>6. ASSUME NEW q \in Prompts, NEW w, w = got'[q], w \in Answers
      PROVE  row'[q] \in Answers /\ GivenBy(q, w)'
  BY <1>2, <1>3, <1>6 DEF SourceInv, Sourced
<1>7. Sourced'
  BY <1>4, <1>5, <1>6 DEF Sourced
<1>8. ASSUME NEW q \in Prompts, NEW w \in OwnIn(log', q), NEW x \in OwnIn(log', q) PROVE w = x
  BY <1>8 DEF SourceInv, TypedOnce
<1> QED BY <1>7, <1>8

LEMMA AskSource == ASSUME IInv, SourceInv, Ask PROVE SourceInv'
<1> DEFINE p == asked + 1
           q == Entry("asked", p, None, TRUE)
<1>0. [Next]_vars
  BY DEF Next
<1>1. /\ p \in Prompts /\ row[p] = "absent" /\ got[p] = None /\ asked' = p
      /\ log \in Seq(Entries) /\ console \in Seq(Prompts)
      /\ row \in [Prompts -> Answers \cup {"absent", Open}]
      /\ got \in [Prompts -> Answers \cup {None, Sentinel}]
  BY AskStart DEF IInv, TypeOK
<1>2. q \in Entries /\ q.kind = "asked"
  BY <1>1, AskedEntry DEF IInv
<1>3. OwnIn(log, p) = {} /\ AnswersIn(log, p) = {}
  BY <1>1, OwnLogged, AnswerAssumption
<1>4. \A i \in DOMAIN console : console[i] \in Prompts /\ console[i] # p
  BY <1>1 DEF IInv, ConsoleAsked, TypeOK
<1> HIDE DEF q
<1>5. ASSUME NEW v \in Answers, row' = [row EXCEPT ![p] = v],
             log' = Append(Append(log, Entry("answered", p, v, TRUE)), q),
             got' = [got EXCEPT ![p] = v], console' = console
      PROVE  SourceInv'
  <2> DEFINE e == Entry("answered", p, v, TRUE)
             t == Append(log, e)
  <2>1. e \in Entries /\ e.kind = "answered" /\ e.prompt = p /\ e.answer = v /\ e.own
    BY <1>1 DEF IInv, Entry, Entries, TypeOK
  <2> HIDE DEF e
  <2>2. t \in Seq(Entries)
    BY <1>1, <2>1, AppendProperties
  <2>3. \A o \in Prompts : /\ OwnIn(t, o) = OwnIn(log, o) \cup (IF o = p THEN {v} ELSE {})
                           /\ AnswersIn(t, o) = AnswersIn(log, o) \cup (IF o = p THEN {v} ELSE {})
    BY <1>1, <2>1, OwnAppend, AnswersAppend
  <2>4. log' = Append(t, q)
    BY <1>5 DEF e
  <2> HIDE DEF t
  <2>5. \A o \in Prompts : OwnIn(log', o) = OwnIn(t, o) /\ AnswersIn(log', o) = AnswersIn(t, o)
    <3>1. q.kind # "answered"
      BY <1>2
    <3> QED BY <1>2, <2>2, <2>4, <3>1, QuietAppend
  <2> HIDE DEF p
  <2>6. Sourced' /\ \A o \in Prompts : \A w, x \in OwnIn(log', o) : w = x
    <3>1. OwnIn(log', p) = {v} /\ AnswersIn(log', p) = AnswersIn(log, p) \cup {v}
      BY <1>1, <1>3, <2>3, <2>5
    <3>2. \A o \in Prompts : o # p => OwnIn(log', o) = OwnIn(log, o)
      BY <2>3, <2>5
    <3>3. \A o \in Prompts : o # p => AnswersIn(log', o) = AnswersIn(log, o)
      BY <2>3, <2>5
    <3>4. /\ \A o \in Prompts : o # p => row'[o] = row[o] /\ got'[o] = got[o]
          /\ row'[p] = v /\ got'[p] = v
      BY <1>1, <1>5
    <3>5. row'[p] \in {row[p], v} /\ row'[p] \in Answers /\ got'[p] \in {got[p], v}
      BY <3>4
    <3> QED BY <1>0, <1>1, <1>3, <3>1, <3>2, <3>3, <3>4, <3>5, TypedStep
  <2>7. \A i \in DOMAIN console' : OwnIn(log', console'[i]) = {}
    BY <1>4, <1>5, <2>3, <2>5 DEF SourceInv, TypedOnce
  <2>8. \A i, j \in DOMAIN console' : console'[i] = console'[j] => i = j
    BY <1>5 DEF SourceInv, TypedOnce
  <2> QED BY <2>6, <2>7, <2>8 DEF SourceInv, TypedOnce
<1>6. ASSUME row' = [row EXCEPT ![p] = Open], log' = Append(log, q),
             got' \in {got, [got EXCEPT ![p] = Sentinel]},
             console' \in {console, Append(console, p)}
      PROVE  SourceInv'
  <2>1. \A o \in Prompts : OwnIn(log', o) = OwnIn(log, o) /\ AnswersIn(log', o) = AnswersIn(log, o)
    <3>1. q.kind # "answered"
      BY <1>2
    <3> QED BY <1>1, <1>2, <1>6, <3>1, QuietAppend
  <2>2. Sourced'
    <3>1. \A o \in Prompts : row'[o] \in Answers => row'[o] = row[o]
      BY <1>1, <1>6, AnswerAssumption
    <3>2. \A o \in Prompts : got'[o] \in Answers => got'[o] = got[o]
      BY <1>1, <1>6, AnswerAssumption
    <3>3. \A o \in Prompts : row[o] \in Answers => row'[o] \in Answers
      BY <1>1, <1>6, AnswerAssumption
    <3> QED BY <1>0, <2>1, <3>1, <3>2, <3>3, SourceStep
  <2>3. /\ DOMAIN Append(console, p) = DOMAIN console \cup {Len(console) + 1}
        /\ Len(console) + 1 \notin DOMAIN console
        /\ \A i \in DOMAIN console : Append(console, p)[i] = console[i]
        /\ Append(console, p)[Len(console) + 1] = p
    BY <1>1, AppendProperties
  <2>4. /\ \A i \in DOMAIN console' : OwnIn(log', console'[i]) = {}
        /\ \A i, j \in DOMAIN console' : console'[i] = console'[j] => i = j
    <3>1. CASE console' = console
      BY <1>4, <2>1, <3>1 DEF SourceInv, TypedOnce
    <3>2. CASE console' = Append(console, p)
      <4> HIDE DEF p
      <4>1. \A i \in DOMAIN console' : i \in DOMAIN console \/ i = Len(console) + 1
        BY <2>3, <3>2
      <4> QED BY <1>1, <1>3, <1>4, <2>1, <2>3, <3>2, <4>1 DEF SourceInv, TypedOnce
    <3> QED BY <1>6, <3>1, <3>2
  <2> QED BY <2>1, <2>2, <2>4 DEF SourceInv, TypedOnce
<1>7. typed # <<>> => Head(typed) \in Answers
  BY HeadTailProperties DEF IInv, TypeOK
<1> QED BY <1>5, <1>6, <1>7 DEF Ask, surfaceVars, q

LEMMA LineSource == ASSUME IInv, SourceInv, NEW v \in Answers, Line(v) PROVE SourceInv'
<1>0. [Next]_vars
  BY DEF Next
<1>1. CASE console = <<>>
  <2>1. UNCHANGED <<row, log, got, console>>
    BY <1>1 DEF Line, tableVars
  <2>2. Sourced'
    BY <1>0, <2>1, SourceStep
  <2> QED BY <2>1, <2>2 DEF SourceInv, TypedOnce
<1>2. CASE console # <<>>
  <2> DEFINE p == Head(console)
             e == Entry("answered", p, v, TRUE)
  <2>1. /\ console \in Seq(Prompts) /\ console' = Tail(console) /\ EmitAnswer(p, v)
    BY <1>2 DEF Line, IInv, TypeOK
  <2>2. /\ p \in Prompts /\ p = console[1] /\ 1 \in DOMAIN console
        /\ \A i \in DOMAIN console' :
               i \in Nat \ {0} /\ i + 1 \in DOMAIN console /\ console'[i] = console[i + 1]
    BY <1>2, <2>1, HeadTailProperties
  <2>3. e \in Entries /\ e.kind = "answered" /\ e.prompt = p /\ e.answer = v /\ e.own
    BY <2>2 DEF IInv, Entry, Entries, TypeOK
  <2>4. log' = Append(log, e) /\ AnswerRow(p, v) /\ Resolve(p, v) /\ log \in Seq(Entries)
    BY <2>1 DEF EmitAnswer, IInv, TypeOK
  <2> HIDE DEF e
  <2>5. \A o \in Prompts : /\ OwnIn(log', o) = OwnIn(log, o) \cup (IF o = p THEN {v} ELSE {})
                           /\ AnswersIn(log', o) = AnswersIn(log, o) \cup (IF o = p THEN {v} ELSE {})
    BY <2>3, <2>4, OwnAppend, AnswersAppend
  <2>6. OwnIn(log, p) = {} /\ p <= asked
    BY <2>2 DEF SourceInv, TypedOnce, IInv, ConsoleAsked
  <2>7. row'[p] \in {row[p], v} /\ row'[p] \in Answers
    <3>1. row[p] # "absent"
      BY <2>2, <2>6 DEF IInv, Frontier
    <3> QED BY <2>2, <2>4, <3>1, AnswerRowEffect DEF IInv
  <2>8. \A q \in Prompts : q # p => row'[q] = row[q]
    BY <2>2, <2>4, AnswerRowEffect DEF IInv
  <2>9. got'[p] \in {got[p], v} /\ \A q \in Prompts : q # p => got'[q] = got[q]
    BY <2>2, <2>4 DEF Resolve, IInv, TypeOK
  <2> HIDE DEF p
  <2>10. Sourced' /\ \A o \in Prompts : \A w, x \in OwnIn(log', o) : w = x
    <3>1. OwnIn(log', p) = {v} /\ AnswersIn(log', p) = AnswersIn(log, p) \cup {v}
      BY <2>2, <2>5, <2>6
    <3>2. \A o \in Prompts : o # p => OwnIn(log', o) = OwnIn(log, o)
      BY <2>5
    <3>3. \A o \in Prompts : o # p => AnswersIn(log', o) = AnswersIn(log, o)
      BY <2>5
    <3>4. \A o \in Prompts : o # p => row'[o] = row[o] /\ got'[o] = got[o]
      BY <2>8, <2>9
    <3> QED BY <1>0, <2>2, <2>6, <2>7, <2>9, <3>1, <3>2, <3>3, <3>4, TypedStep
  <2>11. \A i \in DOMAIN console' : console'[i] \in Prompts /\ console'[i] # p
    <3>1. ASSUME NEW i \in DOMAIN console' PROVE console'[i] \in Prompts /\ console'[i] # p
      <4>1. i + 1 # 1 /\ i + 1 \in DOMAIN console /\ console'[i] = console[i + 1]
        BY <2>2
      <4> QED BY <2>1, <2>2, <4>1 DEF SourceInv, TypedOnce
    <3> QED BY <3>1
  <2>12. \A i \in DOMAIN console' : OwnIn(log', console'[i]) = {}
    BY <2>2, <2>5, <2>11 DEF SourceInv, TypedOnce
  <2>13. \A i, j \in DOMAIN console' : console'[i] = console'[j] => i = j
    <3>1. ASSUME NEW i \in DOMAIN console', NEW j \in DOMAIN console', console'[i] = console'[j]
          PROVE  i = j
      <4>1. i + 1 = j + 1
        BY <2>2, <3>1 DEF SourceInv, TypedOnce
      <4> QED BY <2>2, <4>1
    <3> QED BY <3>1
  <2> QED BY <2>10, <2>12, <2>13 DEF SourceInv, TypedOnce
<1> QED BY <1>1, <1>2

LEMMA PollSource == ASSUME IInv, SourceInv, Poll PROVE SourceInv'
<1>0. [Next]_vars
  BY DEF Next
<1>1. UNCHANGED <<row, log, console>>
  BY DEF Poll, tableVars, ioVars
<1>2. \A p \in Prompts : got'[p] \in Answers =>
          got'[p] = got[p] \/ (row[p] \in Answers /\ GivenBy(p, got'[p]))
  <2>1. CASE UNCHANGED got
    BY <2>1
  <2>2. ASSUME NEW j \in Arrived, Resolve(asked, log[j].answer), got' # got
        PROVE  \A p \in Prompts : got'[p] \in Answers =>
                  got'[p] = got[p] \/ (row[p] \in Answers /\ GivenBy(p, got'[p]))
    <3>1. /\ j \in DOMAIN log /\ log[j].kind = "answered" /\ log[j].prompt = asked
          /\ asked \in Prompts
      BY <2>2 DEF Arrived, Fresh, IInv, Frontier, Resolve
    <3>2. log[j].answer \in AnswersIn(log, asked)
      BY <3>1 DEF AnswersIn
    <3>3. row[asked] \in Answers /\ GivenBy(asked, log[j].answer)
      BY <3>1, <3>2, OwnLogged DEF SourceInv, Sourced
    <3>4. got' = [got EXCEPT ![asked] = log[j].answer]
      BY <2>2 DEF Resolve
    <3> QED BY <3>1, <3>3, <3>4 DEF IInv, TypeOK
  <2> QED BY <2>1, <2>2 DEF Poll
<1>3. Sourced'
  BY <1>0, <1>1, <1>2, SourceStep
<1> QED BY <1>1, <1>3 DEF SourceInv, TypedOnce

LEMMA SurfaceSource ==
  ASSUME IInv, SourceInv, NEW a \in Surfaces,
         Check(a) \/ Record(a) \/ Publish(a) \/ Dies(a)
  PROVE  SourceInv'
<1>0. [Next]_vars /\ UNCHANGED <<got, console>>
  BY DEF Next, Check, Record, Publish, Dies, ioVars, workerVars
<1>1. CASE Check(a) \/ Dies(a)
  <2>1. UNCHANGED <<row, log>>
    BY <1>1 DEF Check, Dies, tableVars
  <2>2. Sourced'
    BY <1>0, <2>1, SourceStep
  <2> QED BY <1>0, <2>1, <2>2 DEF SourceInv, TypedOnce
<1>2. CASE Record(a)
  <2>1. /\ target[a] \in Prompts /\ choice[a] \in Answers /\ AnswerRow(target[a], choice[a])
        /\ Gave(a, target[a], choice[a]) /\ log' = log
    BY <1>2 DEF Record, Gave, IInv, SurfaceRow
  <2>2. \A p \in Prompts : row'[p] = row[p] \/ (p = target[a] /\ row'[p] = choice[a])
    BY <2>1 DEF AnswerRow, IInv, TypeOK
  <2>3. \A p \in Prompts : row[p] \in Answers => row'[p] \in Answers
    BY <2>1, AnswerRowEffect DEF IInv
  <2>4. Sourced'
    BY <1>0, <2>1, <2>2, <2>3, SourceStep DEF GivenBy
  <2> QED BY <1>0, <2>1, <2>4 DEF SourceInv, TypedOnce
<1>3. CASE Publish(a)
  <2> DEFINE e == Entry("answered", target[a], choice[a], FALSE)
  <2>1. /\ target[a] \in Prompts /\ choice[a] \in Answers /\ log \in Seq(Entries)
        /\ Gave(a, target[a], choice[a]) /\ log' = Append(log, e) /\ row' = row
    BY <1>3 DEF Publish, Gave, IInv, SurfaceRow, TypeOK
  <2>2. e \in Entries /\ e.prompt = target[a] /\ e.answer = choice[a] /\ ~e.own
    BY <2>1 DEF Entry, Entries, IInv, TypeOK
  <2> HIDE DEF e
  <2>3. \A p \in Prompts :
          /\ OwnIn(log', p) = OwnIn(log, p)
          /\ \A v \in AnswersIn(log', p) :
                 v \in AnswersIn(log, p) \/ (p = target[a] /\ v = choice[a])
    <3>1. \A p \in Prompts : OwnIn(log', p) = OwnIn(log, p)
      BY <2>1, <2>2, PublishedAppend
    <3>2. \A p \in Prompts : AnswersIn(log', p) \subseteq AnswersIn(log, p) \cup {choice[a]}
      BY <2>1, <2>2, PublishedAppend
    <3>3. \A p \in Prompts : p # target[a] => AnswersIn(log', p) = AnswersIn(log, p)
      BY <2>1, <2>2, PublishedAppend
    <3> QED BY <3>1, <3>2, <3>3
  <2>4. Sourced'
    BY <1>0, <2>1, <2>3, SourceStep DEF GivenBy
  <2>5. \A i \in DOMAIN console : console[i] \in Prompts
    BY DEF IInv, TypeOK
  <2> QED BY <1>0, <2>3, <2>4, <2>5 DEF SourceInv, TypedOnce
<1> QED BY <1>1, <1>2, <1>3

LEMMA EndSource ==
  ASSUME IInv, SourceInv, InputEnds \/ Stop \/ Resume \/ Tick \/ UNCHANGED vars
  PROVE  SourceInv'
<1>0. [Next]_vars
  BY DEF Next
<1>1. UNCHANGED <<row, log>> /\ console' \in {console, <<>>}
  BY DEF InputEnds, Stop, Resume, Tick, vars, tableVars, ioVars
<1>2. \A p \in Prompts : got'[p] \in Answers => got'[p] = got[p]
  <2>1. got' = got \/ got' = [got EXCEPT ![asked] = Sentinel]
    BY DEF InputEnds, Resolve, Stop, Resume, Tick, vars, workerVars
  <2> QED BY <2>1, AnswerAssumption DEF IInv, TypeOK
<1>3. Sourced'
  BY <1>0, <1>1, <1>2, SourceStep
<1>4. CASE console' = console
  BY <1>1, <1>3, <1>4 DEF SourceInv, TypedOnce
<1>5. CASE console' = <<>>
  BY <1>1, <1>3, <1>5 DEF SourceInv, TypedOnce
<1> QED BY <1>1, <1>4, <1>5

LEMMA InitSource == Init => SourceInv
<1> SUFFICES ASSUME Init PROVE SourceInv
  OBVIOUS
<1>1. log = <<>> /\ DOMAIN log = {} /\ DOMAIN console = {}
  BY DEF Init
<1>2. \A p \in Prompts : OwnIn(log, p) = {} /\ AnswersIn(log, p) = {}
  BY <1>1 DEF OwnIn, AnswersIn
<1>3. \A p \in Prompts : row[p] \notin Answers /\ got[p] \notin Answers
  BY AnswerAssumption DEF Init
<1> QED BY <1>1, <1>2, <1>3 DEF SourceInv, Sourced, TypedOnce

\* Two that gave different answers are two.
LEMMA SourcesDiffer ==
  ASSUME SourceInv, NEW p \in Prompts, NEW v, NEW w, v # w, GivenBy(p, v), GivenBy(p, w)
  PROVE  \E a, b \in Contenders(p) : a # b
<1>1. OwnIn(log, p) # {} => "terminal" \in Contenders(p)
  BY DEF OwnIn, Contenders
<1>2. ASSUME NEW a \in Surfaces, NEW x, Gave(a, p, x) PROVE a \in Contenders(p)
  BY <1>2 DEF Gave, Contenders
<1>3. CASE v \in OwnIn(log, p)
  <2>1. w \notin OwnIn(log, p)
    BY <1>3 DEF SourceInv, TypedOnce
  <2>2. PICK b \in Surfaces : Gave(b, p, w)
    BY <2>1 DEF GivenBy
  <2> QED BY <1>1, <1>2, <1>3, <2>2, SurfaceAssumption
<1>4. CASE v \notin OwnIn(log, p)
  <2>1. PICK a \in Surfaces : Gave(a, p, v)
    BY <1>4 DEF GivenBy
  <2>2. CASE w \in OwnIn(log, p)
    BY <1>1, <1>2, <2>1, <2>2, SurfaceAssumption
  <2>3. ASSUME NEW b \in Surfaces, Gave(b, p, w) PROVE a # b
    BY <2>1, <2>3 DEF Gave
  <2> QED BY <1>2, <2>1, <2>2, <2>3 DEF GivenBy
<1> QED BY <1>3, <1>4

\* A worker goes on with another answer than the recorded one only where two gave one:
\* no crash, resume, late line or second poll does that to an answer given alone.
THEOREM ActsOnRecorded == Spec => []ActsOnRecordedAnswer
<1>1. IInv /\ SourceInv /\ [Next]_vars => SourceInv'
  <2> SUFFICES ASSUME IInv, SourceInv, [Next]_vars PROVE SourceInv'
    OBVIOUS
  <2> QED BY AskSource, LineSource, PollSource, SurfaceSource, EndSource DEF Next
<1>2. SourceInv => ActsOnRecordedAnswer
  <2> SUFFICES ASSUME SourceInv, NEW p \in Prompts, got[p] \in Answers, got[p] # row[p]
               PROVE  \E a, b \in Contenders(p) : a # b
    BY DEF ActsOnRecordedAnswer
  <2>1. GivenBy(p, got[p]) /\ GivenBy(p, row[p])
    BY DEF SourceInv, Sourced
  <2> QED BY <2>1, SourcesDiffer
<1> QED BY <1>1, <1>2, InitSource, Invariance, PTL DEF Spec

=============================================================================

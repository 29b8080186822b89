--------------------------- MODULE PromptDelivery ---------------------------
(***************************************************************************)
(* core/bus.ts, core/promptPersistence.ts, core/conversation.ts,           *)
(* core/crossProcessBridge.ts and core/ioCli.ts: a worker asks its         *)
(* operator one question after another; the answer comes from its own      *)
(* terminal or from a surface in another process (the HTTP API, a chat     *)
(* tool, "chat answer" on the command line), which shares nothing with the *)
(* worker but the tables pending_prompts and stage_logs.                   *)
(*                                                                         *)
(* A process is synchronous between two awaits; two processes interleave   *)
(* between SQL statements.                                                 *)
(***************************************************************************)
EXTENDS Integers, Sequences

CONSTANTS
    Surfaces,     \* each answers once
    Answers,
    Terminals,    \* what a worker may be started on, see TerminalAssumption
    MaxPrompts,   \* bound: prompts of the run
    MaxLines,     \* bound: lines typed at the terminal
    MaxClock      \* bound: Date.now(), in milliseconds

None == "none"
Sentinel == "sentinel"   \* NON_INTERACTIVE_NO_ANSWER_SENTINEL
Open == "open"

ASSUME TerminalAssumption == Terminals \subseteq {"none", "tty", "pipe"}
ASSUME AnswerAssumption == {None, Sentinel, Open, "absent"} \cap Answers = {}
ASSUME SurfaceAssumption == "terminal" \notin Surfaces
ASSUME BoundAssumption == MaxPrompts \in Nat /\ MaxLines \in Nat /\ MaxClock \in Nat

Prompts == 1..MaxPrompts

VARIABLES
    clock,
    row,       \* pending_prompts.answer, Open while answered_at is null
    log,       \* stage_logs of the run, in the order of created_at
    phase,     \* "working", "waiting" or "stopped": the promise of the worker
    asked,     \* the last prompt asked
    got,       \* what bus.request resolved to
    cursor,    \* of the bridge
    terminal,  \* of the worker's process
    console,   \* the resolvers that wait for a line, as their prompts
    typed,     \* queuedAnswers
    ended,     \* stdinEnded
    lines,     \* bound: lines typed so far
    pc,        \* of a surface
    target, choice

tableVars == <<row, log>>
ioVars == <<terminal, console, typed, ended, lines>>
workerVars == <<phase, asked, got, cursor>>
surfaceVars == <<pc, target, choice>>
vars == <<clock, tableVars, ioVars, workerVars, surfaceVars>>

Entry(kind, p, v, own) == [kind |-> kind, prompt |-> p, answer |-> v, own |-> own, at |-> clock]

Entries == [kind : {"asked", "answered"}, prompt : Prompts, answer : Answers \cup {None},
            own : BOOLEAN, at : 0..MaxClock]

TypeOK ==
    /\ clock \in 0..MaxClock
    /\ row \in [Prompts -> Answers \cup {"absent", Open}]
    /\ log \in Seq(Entries)
    /\ phase \in {"working", "waiting", "stopped"}
    /\ asked \in 0..MaxPrompts
    /\ got \in [Prompts -> Answers \cup {None, Sentinel}]
    /\ cursor \in 0..(MaxClock + 1)
    /\ terminal \in {"none", "tty", "pipe"}
    /\ console \in Seq(Prompts) /\ typed \in Seq(Answers)
    /\ ended \in BOOLEAN /\ lines \in 0..MaxLines
    /\ pc \in [Surfaces -> {"idle", "checked", "recorded", "done", "dead"}]
    /\ target \in [Surfaces -> Prompts \cup {0}]
    /\ choice \in [Surfaces -> Answers \cup {None}]

-----------------------------------------------------------------------------
(* The bus of the worker. *)

OpenPrompts == {p \in Prompts : row[p] = Open}

\* answerPendingPrompt: UPDATE ... WHERE answered_at IS NULL.
AnswerRow(p, v) == row' = [row EXCEPT ![p] = IF @ = Open THEN v ELSE @]

\* The promise of the prompt the worker waits for resolves to v.
Resolve(p, v) ==
    IF phase = "waiting" /\ asked = p
    THEN /\ got' = [got EXCEPT ![p] = v]
         /\ phase' = IF v = Sentinel THEN "stopped" ELSE "working"
    ELSE UNCHANGED <<got, phase>>

\* Faulty: an answer of the terminal does not go through the persistence.
EmitAnswerUnsaved(p, v) ==
    /\ UNCHANGED row
    /\ log' = Append(log, Entry("answered", p, v, TRUE))
    /\ Resolve(p, v)

\* emit of a prompt_answered of this process: the persistence and the log
\* subscribe before the promise resolves.
EmitAnswer(p, v) ==
    /\ AnswerRow(p, v)
    /\ log' = Append(log, Entry("answered", p, v, TRUE))
    /\ Resolve(p, v)

-----------------------------------------------------------------------------
(* The worker and its terminal. *)

\* request: the row, the log entry and the resolver of the terminal.  A TTY has
\* room for one question: readline drops the callback of a second one.  The
\* resolver subscribes before the log, so that a line that was typed ahead is
\* logged before its question.
Ask ==
    /\ phase = "working" /\ asked < MaxPrompts
    /\ LET p == asked + 1 IN
        /\ asked' = p
        /\ \/ /\ terminal = "pipe" /\ typed # <<>>
              /\ row' = [row EXCEPT ![p] = Head(typed)]
              /\ log' = Append(Append(log, Entry("answered", p, Head(typed), TRUE)),
                               Entry("asked", p, None, TRUE))
              /\ got' = [got EXCEPT ![p] = Head(typed)]
              /\ typed' = Tail(typed)
              /\ UNCHANGED <<console, phase>>
           \/ /\ terminal = "pipe" /\ typed = <<>> /\ ended
              /\ row' = [row EXCEPT ![p] = Open]
              /\ log' = Append(log, Entry("asked", p, None, TRUE))
              /\ got' = [got EXCEPT ![p] = Sentinel]
              /\ phase' = "stopped"
              /\ UNCHANGED <<console, typed>>
           \/ /\ ~(terminal = "pipe" /\ (typed # <<>> \/ ended))
              /\ row' = [row EXCEPT ![p] = Open]
              /\ log' = Append(log, Entry("asked", p, None, TRUE))
              /\ console' = IF terminal = "none" \/ (terminal = "tty" /\ console # <<>>)
                            THEN console ELSE Append(console, p)
              /\ phase' = "waiting"
              /\ UNCHANGED <<got, typed>>
    /\ UNCHANGED <<clock, cursor, terminal, ended, lines, surfaceVars>>

\* A line at the terminal: it goes to the oldest resolver, whose prompt may have
\* been answered elsewhere since.
Line(v) ==
    /\ phase # "stopped" /\ terminal # "none" /\ ~ended /\ lines < MaxLines
    /\ lines' = lines + 1
    /\ IF console # <<>>
       THEN /\ EmitAnswer(Head(console), v)
            /\ console' = Tail(console)
            /\ UNCHANGED typed
       ELSE /\ typed' = IF terminal = "pipe" THEN Append(typed, v) ELSE typed
            /\ UNCHANGED <<tableVars, console, got, phase>>
    /\ UNCHANGED <<clock, terminal, ended, asked, cursor, surfaceVars>>

\* The standard input closes: the resolvers get the sentinel, which is neither
\* persisted nor logged.
InputEnds ==
    /\ phase # "stopped" /\ terminal = "pipe" /\ ~ended
    /\ ended' = TRUE /\ console' = <<>>
    /\ IF \E i \in DOMAIN console : console[i] = asked
       THEN Resolve(asked, Sentinel)
       ELSE UNCHANGED <<got, phase>>
    /\ UNCHANGED <<clock, tableVars, terminal, typed, lines, asked, cursor, surfaceVars>>

\* The rows a poll reads: it looks back to its cursor and no further.
Fresh == {i \in DOMAIN log : log[i].at >= cursor}

\* Among them the answers of other processes to the prompt that is waiting.
Arrived == {i \in Fresh : log[i].kind = "answered" /\ ~log[i].own /\ log[i].prompt = asked}

IsFirst(i, S) == i \in S /\ \A j \in S : i <= j
IsLast(i, S) == i \in S /\ \A j \in S : j <= i

\* Faulty: the cursor jumps to the present.
PollJumps ==
    /\ phase # "stopped" /\ Fresh # {}
    /\ cursor' = clock + 1
    /\ UNCHANGED <<clock, tableVars, ioVars, asked, got, phase, surfaceVars>>

\* attachCrossProcessBridge, one poll.
Poll ==
    /\ phase # "stopped" /\ Fresh # {}
    /\ \E i \in Fresh : IsLast(i, Fresh) /\ cursor' = log[i].at + 1
    /\ \/ Arrived = {} /\ UNCHANGED <<got, phase>>
       \/ \E i \in Arrived : IsFirst(i, Arrived) /\ Resolve(asked, log[i].answer)
    /\ UNCHANGED <<clock, tableVars, ioVars, asked, surfaceVars>>

\* The worker dies, or its run ends or blocks for a reason of its own.
Stop ==
    /\ phase # "stopped"
    /\ phase' = "stopped"
    /\ UNCHANGED <<clock, tableVars, ioVars, asked, got, cursor, surfaceVars>>

\* loadResumeReadiness: no prompt is open.
Resumable == phase = "stopped" /\ OpenPrompts = {}

\* performResume in a new process or on a new bus: the bridge starts at now,
\* nothing is asked again of what was answered meanwhile.
Resume ==
    /\ Resumable
    /\ phase' = "working" /\ cursor' = clock
    /\ terminal' \in Terminals
    /\ console' = <<>> /\ typed' = <<>> /\ ended' = FALSE
    /\ UNCHANGED <<clock, tableVars, lines, asked, got, surfaceVars>>

-----------------------------------------------------------------------------
(* The surfaces: recordAnswer, one statement after the other. *)

\* resolveAnswerTarget: the prompt is the open one.
Check(a) ==
    /\ pc[a] = "idle" /\ OpenPrompts # {}
    /\ \E v \in Answers : choice' = [choice EXCEPT ![a] = v]
    /\ \E p \in OpenPrompts : IsLast(p, OpenPrompts) /\ target' = [target EXCEPT ![a] = p]
    /\ pc' = [pc EXCEPT ![a] = "checked"]
    /\ UNCHANGED <<clock, tableVars, ioVars, workerVars>>

\* answerPendingPrompt: the row it returns is answered, by whomever.
Record(a) ==
    /\ pc[a] = "checked"
    /\ AnswerRow(target[a], choice[a])
    /\ pc' = [pc EXCEPT ![a] = "recorded"]
    /\ UNCHANGED <<clock, log, ioVars, workerVars, target, choice>>

\* Faulty: the log is written first.
PublishFirst(a) ==
    /\ pc[a] = "checked"
    /\ log' = Append(log, Entry("answered", target[a], choice[a], FALSE))
    /\ pc' = [pc EXCEPT ![a] = "done"]
    /\ UNCHANGED <<clock, row, ioVars, workerVars, target, choice>>

\* appendLog.
Publish(a) ==
    /\ pc[a] = "recorded"
    /\ log' = Append(log, Entry("answered", target[a], choice[a], FALSE))
    /\ pc' = [pc EXCEPT ![a] = "done"]
    /\ UNCHANGED <<clock, row, ioVars, workerVars, target, choice>>

Dies(a) ==
    /\ pc[a] \in {"checked", "recorded"}
    /\ pc' = [pc EXCEPT ![a] = "dead"]
    /\ UNCHANGED <<clock, tableVars, ioVars, workerVars, target, choice>>

-----------------------------------------------------------------------------
Tick ==
    /\ clock < MaxClock
    /\ clock' = clock + 1
    /\ UNCHANGED <<tableVars, ioVars, workerVars, surfaceVars>>

Init ==
    /\ clock = 0
    /\ row = [p \in Prompts |-> "absent"] /\ log = <<>>
    /\ phase = "working" /\ asked = 0 /\ got = [p \in Prompts |-> None] /\ cursor = 0
    /\ terminal \in Terminals
    /\ console = <<>> /\ typed = <<>> /\ ended = FALSE /\ lines = 0
    /\ pc = [a \in Surfaces |-> "idle"]
    /\ target = [a \in Surfaces |-> 0] /\ choice = [a \in Surfaces |-> None]

Next ==
    \/ Ask \/ InputEnds \/ Poll \/ Stop \/ Resume \/ Tick
    \/ \E v \in Answers : Line(v)
    \/ \E a \in Surfaces : Check(a) \/ Record(a) \/ Publish(a) \/ Dies(a)

Spec == Init /\ [][Next]_vars

\* The poll is an interval of the worker's process.
FairSpec == Spec /\ WF_vars(Poll)

-----------------------------------------------------------------------------
(* Properties. *)

AnswersIn(s, p) ==
    {s[i].answer : i \in {j \in DOMAIN s : s[j].kind = "answered" /\ s[j].prompt = p}}

Contract == INSTANCE PromptContract WITH
    table <- row,
    published <- [p \in Prompts |-> AnswersIn(log, p)],
    acted <- [p \in Prompts |-> IF got[p] \in Answers THEN got[p] ELSE None]

\* The rows, the log and the promise together keep the contract of a question:
\* asked alone, answered once, published after the answer was recorded, acted
\* on once and only as published.
KeepsContract == Contract!Spec

\* An answer that is in the table stays: whoever comes second, in whichever
\* process, does not replace it.
RecordedAnswerStands ==
    [][\A p \in Prompts : row[p] \in Answers => row'[p] = row[p]]_vars

\* At most one prompt of a run is open, over all resumes, so that an answer
\* without a prompt id means the question the worker waits with.
OneOpenPrompt == \A p, q \in OpenPrompts : p = q

\* Those who have answered p, or are about to.
Contenders(p) ==
    {a \in Surfaces : target[a] = p}
    \cup {"terminal" : i \in {j \in DOMAIN log : log[j].kind = "answered" /\ log[j].prompt = p
                                                   /\ log[j].own}}

\* The worker acts on the recorded answer, unless two surfaces raced for it.
ActsOnRecordedAnswer ==
    \A p \in Prompts : got[p] \in Answers /\ got[p] # row[p] =>
        \E a, b \in Contenders(p) : a # b

\* A published answer to the prompt that waits arrives, unless the poll had
\* passed its millisecond before it was written.
AnswerArrives == (phase = "waiting" /\ Arrived # {}) ~> (phase # "waiting")
=============================================================================

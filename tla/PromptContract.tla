--------------------------- MODULE PromptContract ---------------------------
(***************************************************************************)
(* What core/conversation.ts and its surfaces promise about the questions  *)
(* of a run, whatever carries them: one question at a time, one recorded   *)
(* answer per question, nothing made public before an answer is recorded,  *)
(* and a worker that acts once, on something that was made public.         *)
(***************************************************************************)
CONSTANTS Prompts, Answers

VARIABLES
    table,      \* "absent", "open" or the recorded answer
    published,  \* the answers the log of the run holds for a prompt
    acted       \* what the worker went on with, "none" before it did

vars == <<table, published, acted>>

Init ==
    /\ table = [p \in Prompts |-> "absent"]
    /\ published = [p \in Prompts |-> {}]
    /\ acted = [p \in Prompts |-> "none"]

Ask(p) ==
    /\ table[p] = "absent" /\ \A q \in Prompts : table[q] # "open"
    /\ table' = [table EXCEPT ![p] = "open"]
    /\ UNCHANGED <<published, acted>>

Record(p, v) ==
    /\ table[p] = "open"
    /\ table' = [table EXCEPT ![p] = v]
    /\ UNCHANGED <<published, acted>>

Publish(p, v) ==
    /\ table[p] \in Answers
    /\ published' = [published EXCEPT ![p] = @ \cup {v}]
    /\ UNCHANGED <<table, acted>>

Act(p, v) ==
    /\ acted[p] = "none" /\ v \in published[p]
    /\ acted' = [acted EXCEPT ![p] = v]
    /\ UNCHANGED <<table, published>>

\* The terminal of the worker does at once what takes a surface three steps;
\* a line that was typed ahead comes with its question.
Reply(p, v) ==
    /\ table[p] = "absent" => \A q \in Prompts : table[q] # "open"
    /\ table' = [table EXCEPT ![p] = IF @ \in {"absent", "open"} THEN v ELSE @]
    /\ published' = [published EXCEPT ![p] = @ \cup {v}]
    /\ \/ UNCHANGED acted
       \/ acted[p] = "none" /\ acted' = [acted EXCEPT ![p] = v]

Next ==
    \E p \in Prompts :
        \/ Ask(p)
        \/ \E v \in Answers : Record(p, v) \/ Publish(p, v) \/ Act(p, v) \/ Reply(p, v)

Spec == Init /\ [][Next]_vars
=============================================================================

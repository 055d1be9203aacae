------------------------------ MODULE Runbook ------------------------------
(***************************************************************************)
(* The texts the agent decides by: its playbook, the lessons it writes     *)
(* (internal/agent/agent.go), and how lessons are read again, by the agent *)
(* itself and by `agent skills` (cmd/agent/skills.go).                     *)
(*                                                                         *)
(* A text is a sequence of phrases; Comma is the separator ", ", which may *)
(* also occur inside a remedy.  A kind of incident is one phrase: those of *)
(* the code have no ", " in them.                                          *)
(***************************************************************************)
EXTENDS Sequences, FiniteSetsExt

Comma == ", "
Escalate == <<"escalate">>

Innate == [disk_pressure   |-> <<"page a human">>,
           replication_lag |-> <<"wait and observe">>,
           node_down       |-> <<"page a human">>]

Playbook(kind) == IF kind \in DOMAIN Innate THEN Innate[kind] ELSE Escalate

Remedies == [disk_pressure   |-> <<"truncate WAL and expand the volume before paging">>,
             replication_lag |-> <<"drain the lagging node", Comma, "then restart it">>,
             node_down       |-> <<"verify quorum", Comma, "then rejoin the node">>]

PreferredRemedy(kind) == IF kind \in DOMAIN Remedies THEN Remedies[kind] ELSE Escalate

\* "runbook: for <kind>, <remedy>"
LessonText(kind) == <<"for", kind, Comma>> \o PreferredRemedy(kind)

Commas(text) == {i \in DOMAIN text : text[i] = Comma}

\* Mutant: an earlier version of extractRemedy, which split at the last comma.
ExtractAfterLast(lesson) ==
    IF Commas(lesson) = {} THEN Escalate
    ELSE SubSeq(lesson, Max(Commas(lesson)) + 1, Len(lesson))

ExtractRemedy(lesson) ==
    IF Commas(lesson) = {} THEN Escalate
    ELSE SubSeq(lesson, Min(Commas(lesson)) + 1, Len(lesson))

=============================================================================

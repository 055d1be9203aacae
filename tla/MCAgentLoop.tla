---------------------------- MODULE MCAgentLoop ----------------------------
(***************************************************************************)
(* Small instances of AgentLoop for TLC.  The distances are those of       *)
(* HashEmbedder for these texts, rounded to 1/100:                         *)
(*   wal   disk_pressure: wal segments piling up on roach3                 *)
(*   full  disk_pressure: disk is filling up, write-ahead log segments ... *)
(*   lag   replication_lag: replication lag spiked after the eu-west ...   *)
(*   same  replication_lag: wal segments piling up on roach3               *)
(* wal and full are two reports of one class of incident, as in `demo`;    *)
(* lag is near neither.  wal and same are what the two buttons of the      *)
(* dashboard send, with the default detail of /api/incident.               *)
(***************************************************************************)
EXTENDS AgentLoop, TLC

MCTexts == {"wal", "full", "lag", "same"}

MCKindOf == [x \in MCTexts |->
    IF x \in {"lag", "same"} THEN "replication_lag" ELSE "disk_pressure"]

MCPairs == [wal  |-> [wal |-> 0, full |-> 99, lag |-> 127, same |-> 69],
            full |-> [wal |-> 99, full |-> 0, lag |-> 127, same |-> 118],
            lag  |-> [wal |-> 127, full |-> 127, lag |-> 0, same |-> 101],
            same |-> [wal |-> 69, full |-> 118, lag |-> 101, same |-> 0]]

MCDistance == [x \in MCTexts |-> [y \in MCTexts |-> MCPairs[x][y]]]

\* Two classes of incident, one of them observed on an unknown node.
MCTwoClasses == {[text |-> "wal", region |-> "eu"],
                 [text |-> "lag", region |-> "none"]}

\* Two reports of one class of incident.
MCOneClass == {[text |-> "wal", region |-> "eu"],
               [text |-> "full", region |-> "us"]}

\* The two buttons of the dashboard.
MCButtons == {[text |-> "wal", region |-> "eu"], [text |-> "same", region |-> "eu"]}

\* What each set of signals is chosen for: see ActsOnOwnRunbook.
ASSUME SignalsChosen ==
    /\ Signals = MCTwoClasses => ClassesApart(SignalTexts)
    /\ Signals = MCButtons => ~ClassesApart(SignalTexts)

MCMemIds5 == 1 .. 5
MCMemIds6 == 1 .. 6
MCMemIds9 == 1 .. 9

\* Requests and task ids are interchangeable.
Symmetry == Permutations(Workers) \cup Permutations(TaskIds)

=============================================================================

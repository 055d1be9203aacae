---------------------------- MODULE MCCommands ----------------------------
(***************************************************************************)
(* The texts of `agent demo`: the seeds s1 to s3 and the incidents d1 to   *)
(* d4, and lag, a report `agent serve` may have learned from.  Distances   *)
(* are those of HashEmbedder, rounded to 1/100.                            *)
(***************************************************************************)
EXTENDS Commands, TLC

MCTexts == {"s1", "s2", "s3", "d1", "d2", "d3", "d4", "lag"}

MCKindOf == [x \in MCTexts |->
    IF x = "lag" THEN "replication_lag"
    ELSE IF x \in {"s1", "s2", "s3"} THEN "none" ELSE "disk_pressure"]

MCOrder == <<"s1", "s2", "s3", "d1", "d2", "d3", "d4", "lag">>

MCRows == <<<<0, 126, 129, 69, 108, 109, 102, 127>>,
            <<126, 0, 117, 125, 127, 126, 126, 35>>,
            <<129, 117, 0, 129, 125, 121, 128, 114>>,
            <<69, 125, 129, 0, 104, 106, 89, 125>>,
            <<108, 127, 125, 104, 0, 104, 86, 127>>,
            <<109, 126, 121, 106, 104, 0, 106, 127>>,
            <<102, 126, 128, 89, 86, 106, 0, 127>>,
            <<127, 35, 114, 125, 127, 127, 127, 0>>>>

MCIndex(x) == CHOOSE i \in DOMAIN MCOrder : MCOrder[i] = x

\* What slug leaves of the kinds.
MCWord == [none |-> "none", disk_pressure |-> "disk-pressure",
           replication_lag |-> "replication-lag"]

MCDistance == [x \in MCTexts |-> [y \in MCTexts |-> MCRows[MCIndex(x)][MCIndex(y)]]]

MCSeeds == <<[text |-> "s1", region |-> "us-east-1"],
             [text |-> "s2", region |-> "eu-west-1"],
             [text |-> "s3", region |-> "us-west-2"]>>

\* Observed on roach3, roach2, roach1 and roach3.
MCEncounters == <<[text |-> "d1", region |-> "eu-west-1"],
                  [text |-> "d2", region |-> "us-west-2"],
                  [text |-> "d3", region |-> "us-east-1"],
                  [text |-> "d4", region |-> "eu-west-1"]>>

MCSignals == {MCEncounters[i] : i \in 1 .. 4}
MCTaskIds == 1 .. 4
MCMemIds == 1 .. 20

\* The demo's texts are chosen so; theorems about Commands rest on it.
ASSUME DemoChosen == ClassesApart(LessonTexts) /\ OneClass /\ DemoSuffices

=============================================================================

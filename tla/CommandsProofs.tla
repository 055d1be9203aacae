--------------------------- MODULE CommandsProofs ---------------------------
(***************************************************************************)
(* Theorems about Commands: for any seeds, incidents and numbers of ids,   *)
(* whatever an earlier command, complete or broken off, has left behind,   *)
(* the tables keep what AgentLoopProofs shows of them, and `agent skills`  *)
(* ends with every remedy in a complete file.                              *)
(***************************************************************************)
EXTENDS Commands, AgentLoopProofs, WellFoundedInduction

-----------------------------------------------------------------------------
(* The inductive invariant.                                                *)

\* What the demo's request in progress may still write, and what it has left.
Demand == IF pc[Shell] \in {"recall", "step", "episode"} THEN 2
          ELSE IF pc[Shell] # "idle" THEN 1 ELSE 0
SeedsLeft == IF item <= Len(Seeds) THEN Len(Seeds) - item + 1 ELSE 0
EncountersLeft == IF item <= Len(Seeds) THEN Len(Encounters)
                  ELSE Len(Seeds) + Len(Encounters) - item + 1

\* Only the demo makes requests, and it began with ids for all of them.
Budget ==
    /\ command # "demo" => ~InProgress(Shell)
    /\ command = "demo" =>
         /\ 1 <= item
         /\ Len(about) + Demand + SeedsLeft + 2 * EncountersLeft <= Cardinality(MemIds)

Remedy(id) == ExtractRemedy(Content(id))
Written(id) == \E l \in recalled : files[SkillDir(id)] = l /\ Remedy(l) = Remedy(id)

\* A lesson that is no longer to be written is in a file, or another one with
\* the same directory is being written over it.
SkillsInv ==
    /\ recalled \subseteq DOMAIN about
    /\ command # "skills" => file = NoMemory /\ unwritten = {}
    /\ ended = "skills" => command = "none"
    /\ command = "skills" \/ ended = "skills" =>
         \A id \in recalled \ unwritten :
             Written(id) \/ (file # NoMemory /\ SkillDir(file) = SkillDir(id))

CommandsInv == Inv /\ CommandsTypeOK /\ Budget /\ SkillsInv

-----------------------------------------------------------------------------
(* Steps that are not steps of AgentLoop: a seed, and a command that       *)
(* breaks off between requests.                                            *)

LEMMA OneWorker == Shell \in Workers /\ \A w \in Workers : w = Shell
BY ShellAssumption

LEMMA SeedTypes ==
    ASSUME NEW i \in DOMAIN Seeds
    PROVE  Seeds[i].text \in Texts /\ Seeds[i].region \in Regions
<1> DEFINE Row == [text : Texts, region : Regions]
<1>1. \A row \in Row : row.text \in Texts /\ row.region \in Regions
  OBVIOUS
<1>2. Seeds \in Seq(Row)
  BY DemoAssumption
<1> HIDE DEF Row
<1>3. Seeds[i] \in Row
  BY <1>2
<1> QED
  BY <1>1, <1>3

\* What the agent's variables look like after a step, given their tables.
LEMMA AtRestTypes ==
    ASSUME TypeOK, Tables, TableTypes', UNCHANGED <<pc, req, answer, known, overlap>>,
           faults' \in 0 .. MaxFaults
    PROVE  (TypeOK /\ Tables)'
<1>1. RequestTypes
  BY TypesSplit
<1>2. RequestTypes'
  BY <1>1 DEF RequestTypes
<1>3. (TypeOK /\ Tables)' <=> (TableTypes /\ RequestTypes)'
  BY TypesSplit, PTL
<1> QED
  BY <1>2, <1>3

LEMMA FaultKeepsInv ==
    ASSUME Inv, Fault, UNCHANGED <<tables, pc, req, answer, known, overlap>>
    PROVE  Inv'
<1> USE DEF Inv
<1>1. faults' \in 0 .. MaxFaults /\ faults' # 0
  BY Bounds DEF Fault, TypeOK
<1>2. UNCHANGED <<memories, tasks, log, about>>
  BY DEF tables
<1>3. (TypeOK /\ Tables)'
  <2>1. TableTypes'
    BY <1>2, TypesSplit DEF TableTypes, Tables
  <2> QED
    BY <1>1, <2>1, AtRestTypes
<1>4. Attested'
  BY <1>2 DEF Attested, Attesting, IdAt, EventAt
<1>5. Room' /\ Requests'
  BY <1>2, SameCounts DEF Room, Requests
<1>6. Counted'
  <2>1. \A t \in TaskIds : EpisodesOf(t)' = EpisodesOf(t)
    BY <1>2 DEF EpisodesOf, Attesting, IdAt
  <2> QED
    BY <1>1, <1>2, <2>1, SameCounts DEF Counted, EpisodeFollowsStep
<1>7. Experienced' /\ LessonHasExperience'
  <2>1. \A text : Near(text)' = Near(text)
    BY <1>2 DEF Near, Attesting, IdAt
  <2>2. Attesting("semantic")' = Attesting("semantic") /\ \A i : Behind(i)' = Behind(i)
    BY <1>2 DEF Behind, Attesting, IdAt
  <2>3. LessonHasExperience
          = \A i \in Attesting("semantic") : Cardinality(Behind(i)) >= MinEpisodes
    BY DEF LessonHasExperience, Behind
  <2>4. LessonHasExperience'
          = \A i \in Attesting("semantic")' : Cardinality(Behind(i)') >= MinEpisodes
    BY DEF LessonHasExperience, Behind
  <2> QED
    BY <2>1, <2>2, <2>3, <2>4 DEF Experienced
<1>8. Found' /\ LessonStaysInUse'
  BY <1>2 DEF Found, LessonStaysInUse, Usable, Dist, Drawn
<1>9. Serial' /\ SerialLessonsUnique'
  BY <1>2 DEF Serial, SerialLessonsUnique, InProgress, Lessons, Attesting, IdAt, Drawn
<1> QED
  BY <1>3, <1>4, <1>5, <1>6, <1>7, <1>8, <1>9

\* A seed is an episode without a task, remembered when no request is running.
LEMMA SeedAddsAt ==
    ASSUME Inv, NewId \in MemIds, RememberSeed
    PROVE  \E n \in Nat : AddsAt(n, "episodic", Seeds[item].text, NoTask)
<1>1. item \in DOMAIN Seeds /\ Remember("episodic", Seeds[item].text, Seeds[item].region, NoTask)
  BY DEF RememberSeed
<1>2. Seeds[item].text \in Texts /\ Seeds[item].region \in Regions
  BY <1>1, SeedTypes
<1> QED
  BY <1>1, <1>2, RememberLinks

LEMMA SeedKeepsInv ==
    ASSUME Inv, NewId \in MemIds, RememberSeed, faults' \in 0 .. MaxFaults,
           faults' = 0 => faults = 0
    PROVE  Inv'
<1> USE DEF Inv
<1>1. /\ item \in DOMAIN Seeds
      /\ Remember("episodic", Seeds[item].text, Seeds[item].region, NoTask)
      /\ UNCHANGED <<pc, req, answer, known, overlap>>
      /\ \A w \in Workers : pc[w] = "idle"
  BY OneWorker DEF RememberSeed, Running, InProgress
<1>2. Seeds[item].text \in Texts /\ Seeds[item].region \in Regions
  BY <1>1, SeedTypes
<1>3. TableTypes' /\ DOMAIN about \subseteq DOMAIN about'
  BY <1>1, <1>2, RememberTypes
<1>4. (TypeOK /\ Tables)'
  BY <1>1, <1>3, AtRestTypes
<1>5. Attested'
  BY <1>1, <1>2, RememberAttested
<1>6. PICK n \in Nat : AddsAt(n, "episodic", Seeds[item].text, NoTask)
  BY SeedAddsAt
<1>7. /\ \A i \in DOMAIN log[Agent] : IdAt(i)' = IdAt(i)
      /\ log'[Agent][n].memory_id = NewId /\ n \notin DOMAIN log[Agent]
      /\ Attesting("episodic")' = Attesting("episodic") \cup {n}
      /\ Attesting("semantic")' = Attesting("semantic")
      /\ \A id \in DOMAIN about : about'[id] = about[id]
      /\ about'[NewId].task = NoTask
      /\ Len(about') = Len(about) + 1 /\ UNCHANGED tasks
  BY <1>6 DEF AddsAt
<1>8. \A k \in {"episodic", "semantic"} : \A j \in Attesting(k) :
        j \in DOMAIN log[Agent] /\ IdAt(j) \in DOMAIN about
  BY DEF Attested, Attesting, EventAt
<1>9. Len(about) \in Nat /\ NewId = Len(about) + 1 /\ Len(about') \in Nat
  BY <1>7, Ids
<1>10. Room'
  <2>1. Busy' = {} /\ Early' = {}
    BY <1>1 DEF Busy, Early
  <2>2. Cardinality(Busy)' = 0 /\ Cardinality(Early)' = 0
    BY <2>1, FS_EmptySet
  <2>3. Len(about) + 1 <= Cardinality(MemIds)
    <3>1. NewId \in 1 .. Cardinality(MemIds)
      BY MemIdsAssumption
    <3> QED
      BY <1>9, <3>1
  <2> QED
    BY <1>7, <1>9, <2>2, <2>3, Bounds DEF Room
<1>11. Requests'
  BY <1>1, <1>3 DEF Requests
<1>12. Counted'
  <2>1. \A t \in TaskIds : EpisodesOf(t)' = EpisodesOf(t)
    <3>1. IdAt(n)' = NewId /\ about'[NewId].task \notin TaskIds
      BY <1>7, ShellAssumption DEF IdAt
    <3> QED
      BY <1>7, <1>8, <3>1 DEF EpisodesOf
  <2>2. \A t \in TaskIds : StepsInProgress(t)' = StepsInProgress(t)
    BY <1>1, SameCounts
  <2> QED
    BY <1>7, <2>1, <2>2 DEF Counted, EpisodeFollowsStep
<1>13. Experienced'
  BY <1>1 DEF Experienced
<1>14. LessonHasExperience'
  <2> SUFFICES ASSUME NEW i \in Attesting("semantic")'
               PROVE  Cardinality(Behind(i)') >= MinEpisodes
    BY DEF LessonHasExperience, Behind
  <2>1. i \in Attesting("semantic")
    BY <1>7
  <2>2. /\ IdAt(i)' = IdAt(i) /\ about'[IdAt(i)] = about[IdAt(i)]
        /\ \A j \in Attesting("episodic") :
             /\ j \in Attesting("episodic")'
             /\ IdAt(j)' = IdAt(j) /\ about'[IdAt(j)] = about[IdAt(j)]
    BY <1>7, <1>8, <2>1
  <2>3. Behind(i) \subseteq Behind(i)'
    BY <2>2 DEF Behind
  <2>4. /\ log'[Agent] \in Seq(Event) /\ Behind(i)' \in SUBSET DOMAIN log'[Agent]
        /\ log[Agent] \in Seq(Event) /\ Behind(i) \in SUBSET DOMAIN log[Agent]
    BY <1>4 DEF Tables, Behind, Attesting
  <2>5. /\ IsFiniteSet(Behind(i)') /\ Cardinality(Behind(i)') \in Nat
        /\ IsFiniteSet(Behind(i)) /\ Cardinality(Behind(i)) \in Nat
    BY <2>4, LinksFinite
  <2>6. Cardinality(Behind(i)) <= Cardinality(Behind(i)')
    BY <2>3, <2>5, FS_Subset
  <2>7. Cardinality(Behind(i)) >= MinEpisodes
    BY <2>1 DEF LessonHasExperience, Behind
  <2> QED
    BY <2>5, <2>6, <2>7, Bounds
<1>15. Found'
  BY <1>1 DEF Found
<1>16. Cardinality(Drawn) = Len(about) /\ Cardinality(Drawn') = Len(about')
  <2>1. Drawn' = 1 .. Len(about')
    BY <1>3 DEF TableTypes, Drawn
  <2>2. Cardinality(1 .. Len(about')) = Len(about')
    BY <1>9, UpTo
  <2> QED
    BY <2>1, <2>2, Ids
<1>17. LessonStaysInUse'
  <2> SUFFICES ASSUME NEW w \in Workers, known[w], answer[w].status = "ok",
                      Cardinality(Drawn') <= Candidates
               PROVE  answer[w].from_memory
    BY <1>1 DEF LessonStaysInUse
  <2>1. Cardinality(Drawn) <= Candidates
    BY <1>7, <1>9, <1>16, Bounds
  <2> QED
    BY <2>1 DEF LessonStaysInUse
<1>18. Serial'
  BY <1>1 DEF Serial, InProgress
<1>19. SerialLessonsUnique'
  <2>1. \A k : Lessons(k)' = Lessons(k)
    BY <1>7, <1>8 DEF Lessons
  <2>2. Cardinality(Drawn') <= MinEpisodes + ExtraNeighbours + 1
          => Cardinality(Drawn) <= MinEpisodes + ExtraNeighbours + 1
    BY <1>7, <1>9, <1>16, Bounds
  <2> QED
    BY <1>1, <2>1, <2>2 DEF SerialLessonsUnique
<1> QED
  BY <1>4, <1>5, <1>10, <1>11, <1>12, <1>13, <1>14, <1>15, <1>17, <1>18, <1>19

-----------------------------------------------------------------------------
(* The tables `agent serve` may have left.                                 *)

LearnedLog ==
    LET link(event, id) == [event |-> event, memory_id |-> id]
    IN  <<link("act", NoMemory), link("episodic", 1),
          link("act", NoMemory), link("episodic", 2),
          link("act", NoMemory), link("episodic", 3), link("semantic", 4)>>

LEMMA FourIds == {1, 2, 3, 4} \subseteq MemIds
<1>1. 1 .. 4 \subseteq 1 .. Cardinality(MemIds)
  BY EarlierAssumption, Bounds
<1>2. 1 .. 4 \subseteq MemIds
  BY <1>1, MemIdsAssumption, Zenon
<1> QED
  BY <1>2

LEMMA LearnedLinks ==
    /\ LearnedLog \in Seq(Event) /\ DOMAIN LearnedLog = 1 .. 7
    /\ \A i \in {1, 3, 5} : LearnedLog[i].event = "act"
    /\ \A i \in {2, 4, 6} : LearnedLog[i].event = "episodic"
    /\ LearnedLog[7].event = "semantic" /\ LearnedLog[7].memory_id = 4
    /\ LearnedLog[2].memory_id = 1 /\ LearnedLog[4].memory_id = 2
    /\ LearnedLog[6].memory_id = 3
<1> DEFINE a == [event |-> "act", memory_id |-> NoMemory]
           e(id) == [event |-> "episodic", memory_id |-> id]
           l == [event |-> "semantic", memory_id |-> 4]
<1>1. a \in Event /\ e(1) \in Event /\ e(2) \in Event /\ e(3) \in Event /\ l \in Event
  BY FourIds DEF Event
<1>2. LearnedLog = <<a, e(1), a, e(2), a, e(3), l>>
  BY DEF LearnedLog
<1>3. /\ a.event = "act" /\ l.event = "semantic" /\ l.memory_id = 4
      /\ \A id \in {1, 2, 3} : e(id).event = "episodic" /\ e(id).memory_id = id
  OBVIOUS
<1> HIDE DEF a, e, l
<1>4. /\ LearnedLog \in Seq(Event) /\ DOMAIN LearnedLog = 1 .. 7
      /\ LearnedLog[1] = a /\ LearnedLog[3] = a /\ LearnedLog[5] = a
      /\ LearnedLog[2] = e(1) /\ LearnedLog[4] = e(2) /\ LearnedLog[6] = e(3)
      /\ LearnedLog[7] = l
  BY <1>1, <1>2
<1> QED
  BY <1>3, <1>4

LEMMA LearnedInv ==
    ASSUME LearnedEarlier,
           tasks = [t \in TaskIds |-> [agent_id |-> NoAgent, step |-> 0]],
           pc = [w \in Workers |-> "idle"], req = [w \in Workers |-> NoRequest],
           answer = [w \in Workers |-> Silent], faults = 0,
           known = [w \in Workers |-> FALSE], overlap = FALSE
    PROVE  Inv /\ \A id \in LessonIds : about[id].text = EarlierText
<1>1. /\ memories = {AuditLog!NewMemory(Agent, "semantic", 4)}
      /\ log = [a \in {Agent} |-> LearnedLog]
  BY DEF LearnedEarlier, LearnedLog
<1>2. log[Agent] = LearnedLog /\ log \in [{Agent} -> Seq(Event)]
  BY <1>1, LearnedLinks
<1>3. /\ about \in Seq([text : Texts, region : Regions, task : TaskIds \cup {NoTask}])
      /\ Len(about) = 4 /\ DOMAIN about = 1 .. 4
      /\ \A i \in 1 .. 4 : about[i].text = EarlierText /\ about[i].task = NoTask
  <2> DEFINE row == [text |-> EarlierText, region |-> GatewayRegion, task |-> NoTask]
  <2>1. /\ row \in [text : Texts, region : Regions, task : TaskIds \cup {NoTask}]
        /\ row.text = EarlierText /\ row.task = NoTask
    BY EarlierAssumption, RegionsAssumption
  <2>2. about = [i \in 1 .. 4 |-> row]
    BY DEF LearnedEarlier
  <2> HIDE DEF row
  <2> QED
    BY <2>1, <2>2
<1>4. /\ Attesting("episodic") = {2, 4, 6} /\ Attesting("semantic") = {7}
      /\ IdAt(2) = 1 /\ IdAt(4) = 2 /\ IdAt(6) = 3 /\ IdAt(7) = 4
      /\ \A i \in DOMAIN log[Agent] : EventAt(i) # "act" => i \in {2, 4, 6, 7}
  BY <1>2, LearnedLinks DEF Attesting, IdAt, EventAt
<1>5. Tables /\ TableTypes
  <2>1. AuditLog!NewMemory(Agent, "semantic", 4) \in AuditLog!MemoryRow
    BY FourIds DEF AuditLog!NewMemory, AuditLog!MemoryRow, AuditLog!MemoryKinds
  <2>2. IsFiniteSet(memories)
    BY <1>1, FS_Singleton
  <2> QED
    BY <1>1, <1>2, <1>3, <2>1, <2>2 DEF TableTypes, Tables
<1>6. RequestTypes
  <2>1. 0 \in 0 .. MaxFaults
    BY Bounds
  <2> QED
    BY <2>1, NoRequestType, SilentType DEF RequestTypes
<1>7. Attested
  <2>1. /\ AuditLog!NewMemory(Agent, "semantic", 4).kind = "semantic"
        /\ AuditLog!NewMemory(Agent, "semantic", 4).id = 4
    BY DEF AuditLog!NewMemory
  <2>2. \A i \in DOMAIN log[Agent] : EventAt(i) # "act" => IdAt(i) \in DOMAIN about
    BY <1>3, <1>4
  <2>3. \A i, j \in DOMAIN log[Agent] :
          EventAt(i) # "act" /\ EventAt(j) # "act" /\ IdAt(i) = IdAt(j) => i = j
    BY <1>4
  <2> QED
    BY <1>1, <1>4, <2>1, <2>2, <2>3 DEF Attested
<1>8. Room
  <2>1. Busy = {} /\ Early = {}
    BY DEF Busy, Early
  <2>2. Cardinality(Busy) = 0 /\ Cardinality(Early) = 0
    BY <2>1, FS_EmptySet
  <2> QED
    BY <1>3, <2>2, EarlierAssumption, Bounds DEF Room
<1>9. Requests
  BY DEF Requests, NoRequest
<1>10. Counted
  <2>1. ASSUME NEW t \in TaskIds
        PROVE  /\ Cardinality(EpisodesOf(t)) = 0 /\ Cardinality(StepsInProgress(t)) = 0
               /\ tasks[t].step = 0
    <3>1. EpisodesOf(t) = {}
      BY <1>3, <1>4, ShellAssumption DEF EpisodesOf
    <3>2. StepsInProgress(t) = {}
      BY DEF StepsInProgress
    <3> QED
      BY <3>1, <3>2, FS_EmptySet
  <2> QED
    BY <2>1 DEF Counted, EpisodeFollowsStep
<1>11. Experienced
  BY DEF Experienced
<1>12. LessonHasExperience
  <2>1. Behind(7) = {2, 4, 6}
    <3>1. \A j \in {2, 4, 6} : about[IdAt(j)].text = EarlierText
      BY <1>3, <1>4
    <3>2. about[IdAt(7)].text = EarlierText
      BY <1>3, <1>4
    <3> QED
      BY <1>4, <3>1, <3>2, EarlierAssumption DEF Behind
  <2>2. Cardinality({2, 4, 6}) = 3
    <3>1. Cardinality({2}) = 1 /\ IsFiniteSet({2})
      BY FS_Singleton
    <3>2. 4 \notin {2} /\ 6 \notin {2} \cup {4} /\ {2, 4, 6} = ({2} \cup {4}) \cup {6}
      OBVIOUS
    <3>3. Cardinality({2} \cup {4}) = Cardinality({2}) + 1 /\ IsFiniteSet({2} \cup {4})
      BY <3>1, <3>2, FS_AddElement, Zenon
    <3>4. Cardinality(({2} \cup {4}) \cup {6}) = Cardinality({2} \cup {4}) + 1
      BY <3>2, <3>3, FS_AddElement, Zenon
    <3> QED
      BY <3>1, <3>2, <3>3, <3>4
  <2>3. \A i \in Attesting("semantic") : Cardinality(Behind(i)) >= MinEpisodes
    BY <1>4, <2>1, <2>2, EarlierAssumption, Bounds
  <2> QED
    BY <2>3 DEF LessonHasExperience, Behind
<1>13. Found /\ LessonStaysInUse /\ Serial
  BY DEF Found, LessonStaysInUse, Serial, InProgress
<1>14. SerialLessonsUnique
  <2>1. ASSUME NEW k PROVE Cardinality(Lessons(k)) <= 1
    <3>1. Lessons(k) \subseteq {7}
      BY <1>4 DEF Lessons
    <3>2. IsFiniteSet({7}) /\ Cardinality({7}) = 1
      BY FS_Singleton
    <3> QED
      BY <3>1, <3>2, FS_Subset
  <2> QED
    BY <2>1 DEF SerialLessonsUnique
<1>15. \A id \in LessonIds : about[id].text = EarlierText
  BY <1>3, <1>4 DEF LessonIds
<1> QED
  BY <1>5, <1>6, <1>7, <1>8, <1>9, <1>10, <1>11, <1>12, <1>13, <1>14, <1>15, TypesSplit
     DEF Inv

-----------------------------------------------------------------------------
(* The agent's part of a step.                                             *)

\* What a command does to the agent's variables.
LEMMA AgentCases ==
    ASSUME [CommandsNext]_allVars
    PROVE  \/ [Next]_vars
           \/ RememberSeed /\ (UNCHANGED faults \/ Fault)
           \/ Fault /\ UNCHANGED <<tables, pc, req, answer, known, overlap>>
<1>1. CASE UNCHANGED allVars
  BY <1>1 DEF allVars
<1>2. CASE StartDemo \/ DemoEnds \/ StartSkills \/ WriteFile \/ SkillsEnd
  BY <1>2 DEF StartDemo, DemoEnds, StartSkills, WriteFile, SkillsEnd, agentVars
<1>3. ASSUME NEW id \in MemIds, OpenFile(id) PROVE [Next]_vars
  BY <1>3 DEF OpenFile, agentVars
<1>4. CASE Seed \/ SeedAckLost \/ CommandBreaks
  BY <1>4 DEF Seed, SeedAckLost, CommandBreaks
<1>5. CASE Encounter
  <2>1. PICK i \in DOMAIN Encounters : Request(Shell, Encounters[i], i)
    BY <1>5 DEF Encounter
  <2>2. Encounters[i] \in Signals /\ i \in TaskIds
    BY DemoAssumption, ShellAssumption
  <2> QED
    BY <2>1, <2>2, OneWorker DEF Next
<1>6. CASE HandleStep \/ RequestBreaks
  BY <1>6, OneWorker DEF HandleStep, RequestBreaks, Next
<1>7. ASSUME NEW m \in memories, ForgetBetween(m) PROVE Next
  BY <1>7 DEF ForgetBetween, Next
<1> QED
  BY <1>1, <1>2, <1>3, <1>4, <1>5, <1>6, <1>7 DEF CommandsNext

\* There is an id for each seed.
LEMMA SeedId ==
    ASSUME CommandsInv, RememberSeed
    PROVE  NewId \in MemIds
<1>1. command = "demo" /\ item \in DOMAIN Seeds /\ pc[Shell] = "idle"
  BY DEF RememberSeed, Running, InProgress
<1>2. DOMAIN Seeds = 1 .. Len(Seeds) /\ Len(Seeds) \in Nat /\ Len(Encounters) \in Nat
  BY DemoAssumption
<1>3. SeedsLeft = Len(Seeds) - item + 1 /\ EncountersLeft = Len(Encounters) /\ Demand = 0
  BY <1>1, <1>2 DEF SeedsLeft, EncountersLeft, Demand
<1>4. Len(about) \in Nat /\ NewId = Len(about) + 1
  BY Ids DEF CommandsInv, Inv
<1>5. NewId \in 1 .. Cardinality(MemIds)
  BY <1>1, <1>2, <1>3, <1>4, Bounds DEF CommandsInv, Budget
<1> QED
  BY <1>5, MemIdsAssumption

LEMMA FaultCounts ==
    ASSUME TypeOK, UNCHANGED faults \/ Fault
    PROVE  faults' \in 0 .. MaxFaults /\ (faults' = 0 => faults = 0)
BY Bounds DEF TypeOK, Fault

LEMMA AgentStep ==
    ASSUME CommandsInv, [CommandsNext]_allVars
    PROVE  Inv'
<1>1. CASE [Next]_vars
  BY <1>1, StepInv DEF CommandsInv
<1>2. CASE RememberSeed /\ (UNCHANGED faults \/ Fault)
  <2>1. Inv /\ TypeOK
    BY DEF CommandsInv, Inv
  <2> QED
    BY <1>2, <2>1, SeedId, FaultCounts, SeedKeepsInv
<1>3. CASE Fault /\ UNCHANGED <<tables, pc, req, answer, known, overlap>>
  BY <1>3, FaultKeepsInv DEF CommandsInv
<1> QED
  BY <1>1, <1>2, <1>3, AgentCases

\* What has been remembered stays as it was written.
LEMMA AboutGrows ==
    ASSUME CommandsInv, [CommandsNext]_allVars
    PROVE  /\ DOMAIN about \subseteq DOMAIN about'
           /\ \A id \in DOMAIN about : about'[id] = about[id]
<1>1. CASE [Next]_vars
  BY <1>1, LinksGrow DEF CommandsInv
<1>2. CASE RememberSeed
  <2>1. PICK n \in Nat : AddsAt(n, "episodic", Seeds[item].text, NoTask)
    BY <1>2, SeedId, SeedAddsAt DEF CommandsInv
  <2> QED
    BY <2>1 DEF AddsAt
<1>3. CASE UNCHANGED tables
  BY <1>3 DEF tables
<1> QED
  BY <1>1, <1>2, <1>3, AgentCases

-----------------------------------------------------------------------------
(* Types, and the ids the demo needs.                                      *)

LEMMA DemoLength ==
    /\ Len(Seeds) \in Nat /\ DOMAIN Seeds = 1 .. Len(Seeds)
    /\ Len(Encounters) \in Nat /\ DOMAIN Encounters = 1 .. Len(Encounters)
BY DemoAssumption

\* The directory of a lesson.
LEMMA DirOfLesson ==
    ASSUME TypeOK, NEW id \in DOMAIN about
    PROVE  SkillDir(id) \in Slugs
BY AboutTexts DEF SkillDir, Slugs, Content, Kinds

LEMMA EndsTypes ==
    ASSUME CommandsTypeOK, NEW how \in {"demo", "skills", "error"}, Ends(how)
    PROVE  CommandsTypeOK'
BY DemoLength DEF CommandsTypeOK, Ends

LEMMA CommandsTypesStep ==
    ASSUME CommandsInv, [CommandsNext]_allVars
    PROVE  CommandsTypeOK'
<1> USE DEF CommandsInv
<1>1. CASE UNCHANGED cmdVars
  BY <1>1 DEF CommandsTypeOK, cmdVars
<1>2. CASE StartDemo
  BY <1>2, DemoLength DEF StartDemo, CommandsTypeOK, SkillsInv
<1>3. CASE Seed
  BY <1>3, DemoLength DEF Seed, RememberSeed, CommandsTypeOK, skillVars
<1>4. CASE Encounter
  BY <1>4, DemoLength DEF Encounter, CommandsTypeOK, skillVars
<1>5. CASE StartSkills
  <2>1. {m.id : m \in {n \in memories : n.kind = "semantic"}} \subseteq MemIds
    BY MemoriesWritten
  <2> QED
    BY <1>5, <2>1 DEF StartSkills, CommandsTypeOK, SkillsInv
<1>6. ASSUME NEW id \in MemIds, OpenFile(id) PROVE CommandsTypeOK'
  BY <1>6 DEF OpenFile, CommandsTypeOK
<1>7. CASE WriteFile
  BY <1>7 DEF WriteFile, CommandsTypeOK
<1>8. CASE \E how \in {"demo", "skills", "error"} : Ends(how)
  BY <1>8, EndsTypes
<1> QED
  BY <1>1, <1>2, <1>3, <1>4, <1>5, <1>6, <1>7, <1>8
     DEF CommandsNext, allVars, HandleStep, DemoEnds, SkillsEnd, RequestBreaks,
         SeedAckLost, CommandBreaks, ForgetBetween

\* A step of the demo's request takes no more ids than it was to take.
LEMMA DemandFalls ==
    ASSUME Inv, Step(Shell)
    PROVE  /\ InProgress(Shell) /\ Len(about) \in Nat /\ Len(about') \in Nat
           /\ Demand \in Nat /\ Demand' \in Nat
           /\ Len(about') + Demand' <= Len(about) + Demand
<1> USE OneWorker
<1>1. Len(about) \in Nat /\ Len(about') \in Nat
  BY LinksGrow DEF Next
<1>2. pc \in [Workers -> {"idle", "recall", "step", "episode", "consolidate", "lesson"}]
  BY DEF Inv, TypeOK
<1>3. CASE RecallLesson(Shell) \/ RecordStep(Shell)
  <2>1. UNCHANGED about /\ pc[Shell] \in {"recall", "step"} /\ pc'[Shell] \in {"step", "episode"}
    BY <1>2, <1>3 DEF RecallLesson, RecordStep, ApplyStep, Goto, tables
  <2> QED
    BY <1>1, <2>1 DEF Demand, InProgress
<1>4. CASE RememberEpisode(Shell)
  <2>1. pc[Shell] = "episode" /\ pc'[Shell] = "consolidate"
    BY <1>2, <1>4 DEF RememberEpisode, ApplyEpisode, Goto
  <2>2. Len(about') = Len(about) + 1
    BY <1>4, MemoryLinks DEF RememberEpisode, ApplyEpisode, AddsAt
  <2> QED
    BY <1>1, <2>1, <2>2 DEF Demand, InProgress
<1>5. CASE Consolidate(Shell)
  <2>1. UNCHANGED about /\ pc[Shell] = "consolidate" /\ pc'[Shell] \in {"lesson", "idle"}
    BY <1>2, <1>5 DEF Consolidate, Reply, Goto, tables
  <2> QED
    BY <1>1, <2>1 DEF Demand, InProgress
<1>6. CASE RememberLesson(Shell)
  <2>1. pc[Shell] = "lesson" /\ pc'[Shell] = "idle"
    BY <1>2, <1>6 DEF RememberLesson, ApplyLesson, Reply, Goto
  <2>2. Len(about') = Len(about) + 1
    BY <1>6, MemoryLinks DEF RememberLesson, ApplyLesson, AddsAt
  <2> QED
    BY <1>1, <2>1, <2>2 DEF Demand, InProgress
<1> QED
  BY <1>3, <1>4, <1>5, <1>6 DEF Step

LEMMA BudgetStep ==
    ASSUME CommandsInv, [CommandsNext]_allVars
    PROVE  Budget'
<1> USE DEF CommandsInv
<1>1. Len(about) \in Nat /\ NewId = Len(about) + 1
  BY Ids DEF Inv
<1>2. item \in Nat /\ Len(Seeds) \in Nat /\ Len(Encounters) \in Nat
  BY DemoLength DEF CommandsTypeOK
<1>3. CASE UNCHANGED <<pc, about, command, item>>
  BY <1>3 DEF Budget, InProgress, Demand, SeedsLeft, EncountersLeft
<1>4. CASE command' # "demo" /\ pc'[Shell] = "idle"
  BY <1>4 DEF Budget, InProgress
<1>5. CASE StartDemo
  <2>1. /\ command' = "demo" /\ item' = 1 /\ pc'[Shell] = "idle" /\ UNCHANGED about
        /\ Len(about) + 1 + Len(Seeds) + 2 * Len(Encounters) <= Cardinality(MemIds)
    BY <1>1, <1>5 DEF StartDemo, Budget, InProgress, agentVars, vars
  <2>2. Demand' = 0
    BY <2>1 DEF Demand
  <2>3. SeedsLeft' = Len(Seeds) /\ EncountersLeft' = Len(Encounters)
    BY <1>2, <2>1 DEF SeedsLeft, EncountersLeft
  <2> QED
    BY <1>1, <2>1, <2>2, <2>3, DemoLength, Bounds DEF Budget
<1>6. CASE Seed
  <2>1. /\ command = "demo" /\ command' = "demo" /\ item' = item + 1
        /\ pc[Shell] = "idle" /\ pc'[Shell] = "idle" /\ item \in 1 .. Len(Seeds)
    BY <1>6, DemoLength DEF Seed, RememberSeed, Running, InProgress
  <2>2. Len(about') = Len(about) + 1
    <3>1. RememberSeed
      BY <1>6 DEF Seed
    <3> QED
      BY <3>1, SeedId, SeedAddsAt DEF AddsAt
  <2>3. Demand = 0 /\ Demand' = 0
    BY <2>1 DEF Demand
  <2>4. /\ SeedsLeft = Len(Seeds) - item + 1 /\ SeedsLeft' = Len(Seeds) - item
        /\ EncountersLeft = Len(Encounters) /\ EncountersLeft' = Len(Encounters)
    BY <1>2, <2>1 DEF SeedsLeft, EncountersLeft
  <2> QED
    BY <1>1, <1>2, <2>1, <2>2, <2>3, <2>4, DemoLength, Bounds DEF Budget
<1>7. CASE Encounter
  <2>1. /\ command = "demo" /\ command' = "demo" /\ item' = item + 1
        /\ pc[Shell] = "idle" /\ pc'[Shell] = "recall" /\ UNCHANGED about
        /\ item - Len(Seeds) \in 1 .. Len(Encounters)
    BY <1>7, OneWorker, DemoLength
       DEF Encounter, Running, InProgress, Request, Goto, tables, Inv, TypeOK
  <2>2. Demand = 0 /\ Demand' = 2
    BY <2>1 DEF Demand
  <2>3. /\ SeedsLeft = 0 /\ SeedsLeft' = 0
        /\ EncountersLeft = Len(Seeds) + Len(Encounters) - item + 1
        /\ EncountersLeft' = Len(Seeds) + Len(Encounters) - item
    BY <1>2, <2>1 DEF SeedsLeft, EncountersLeft
  <2> QED
    BY <1>1, <1>2, <2>1, <2>2, <2>3, DemoLength, Bounds DEF Budget
<1>8. CASE HandleStep
  <2>1. Step(Shell) /\ UNCHANGED <<command, item>>
    BY <1>8 DEF HandleStep, cmdVars
  <2>2. SeedsLeft' = SeedsLeft /\ EncountersLeft' = EncountersLeft
    BY <2>1 DEF SeedsLeft, EncountersLeft
  <2>3. SeedsLeft \in Int /\ EncountersLeft \in Int
    BY <1>2, DemoLength DEF SeedsLeft, EncountersLeft
  <2> HIDE DEF CommandsInv
  <2>4. Inv /\ Budget
    BY DEF CommandsInv
  <2> QED
    BY <1>2, <2>1, <2>2, <2>3, <2>4, DemandFalls, Bounds DEF Budget
<1>9. CASE DemoEnds \/ SkillsEnd \/ SeedAckLost \/ CommandBreaks
  BY <1>4, <1>9 DEF DemoEnds, SkillsEnd, SeedAckLost, RememberSeed, CommandBreaks, Running,
                    InProgress, Ends, agentVars, vars
<1>10. CASE StartSkills
  BY <1>4, <1>10 DEF StartSkills, Budget, InProgress, agentVars, vars
<1>11. CASE RequestBreaks
  <2>1. pc'[Shell] = "idle"
    BY <1>11, OneWorker DEF RequestBreaks, Fail, CommitAckLost, Reply, Goto, Inv, TypeOK
  <2> QED
    BY <1>4, <1>11, <2>1 DEF RequestBreaks, Ends
<1>12. ASSUME NEW id \in MemIds, OpenFile(id) PROVE Budget'
  BY <1>3, <1>12 DEF OpenFile, agentVars, vars
<1>13. CASE WriteFile \/ UNCHANGED allVars
  BY <1>3, <1>13 DEF WriteFile, agentVars, vars, allVars, cmdVars
<1>14. ASSUME NEW m \in memories, ForgetBetween(m) PROVE Budget'
  BY <1>3, <1>14 DEF ForgetBetween, Forget, cmdVars
<1> QED
  BY <1>5, <1>6, <1>7, <1>8, <1>9, <1>10, <1>11, <1>12, <1>13, <1>14 DEF CommandsNext

-----------------------------------------------------------------------------
(* The files of `agent skills`.                                            *)

LEMMA RemediesDiffer ==
    ASSUME NEW j, NEW k
    PROVE  /\ Len(PreferredRemedy(j)) >= 1 /\ PreferredRemedy(j)[1] # Comma
           /\ PreferredRemedy(j)[1] = PreferredRemedy(k)[1]
                => PreferredRemedy(j) = PreferredRemedy(k)
<1> DEFINE a == "truncate WAL and expand the volume before paging"
           b == "drain the lagging node"
           c == "verify quorum"
           d == "escalate"
           b2 == "then restart it"
           c2 == "then rejoin the node"
           All == {<<a>>, <<b, Comma, b2>>, <<c, Comma, c2>>, <<d>>}
<1>1. ASSUME NEW kind PROVE PreferredRemedy(kind) \in All
  <2>1. kind \in DOMAIN Remedies
          => kind \in {"disk_pressure", "replication_lag", "node_down"}
    BY DEF Remedies
  <2>2. /\ Remedies["disk_pressure"] = <<a>>
        /\ Remedies["replication_lag"] = <<b, Comma, b2>>
        /\ Remedies["node_down"] = <<c, Comma, c2>>
    BY Zenon DEF Remedies
  <2>3. Escalate = <<d>>
    BY Zenon DEF Escalate
  <2> HIDE DEF a, b, c, d, b2, c2
  <2> QED
    BY <2>1, <2>2, <2>3 DEF PreferredRemedy
<1>2. /\ a # b /\ a # c /\ a # d /\ b # c /\ b # d /\ c # d
      /\ a # Comma /\ b # Comma /\ c # Comma /\ d # Comma
  BY Zenon DEF Comma
<1> HIDE DEF a, b, c, d, b2, c2
<1>3. \A r \in All : Len(r) >= 1 /\ r[1] # Comma
  BY <1>2
<1>4. \A r, q \in All : r[1] = q[1] => r = q
  BY <1>2
<1> HIDE DEF All
<1> QED
  BY <1>1, <1>3, <1>4

\* The directory's name goes on with the remedy, and no two remedies begin
\* alike; the word for the kind need not tell kinds apart.
LEMMA SlugTells ==
    ASSUME NEW j, NEW k, Slug(LessonText(j)) = Slug(LessonText(k))
    PROVE  PreferredRemedy(j) = PreferredRemedy(k)
<1>1. ASSUME NEW kind PROVE Slug(LessonText(kind))[4] = PreferredRemedy(kind)[1]
  <2> DEFINE S == Phrases \cup {kind}
             r == PreferredRemedy(kind)
             t == LessonText(kind)
  <2>1. r \in Seq(S) /\ 1 \in 1 .. Len(r) /\ r[1] # Comma
    <3>1. r \in Seq(Phrases)
      BY RemediesAreTexts
    <3>2. Len(r) >= 1 /\ r[1] # Comma
      BY RemediesDiffer
    <3> QED
      BY <3>1, <3>2, SeqMonotonic
  <2>2. t = <<"for", kind, Comma>> \o r
    BY DEF LessonText
  <2>3. "for" \in S /\ kind \in S /\ Comma \in S
    BY DEF Phrases
  <2> HIDE DEF r, t, S
  <2>4. t[1 + 3] = r[1]
    BY <2>1, <2>2, <2>3, TextAfterThree
  <2>5. Slug(t)[4] = r[1]
    BY <2>1, <2>4 DEF Slug
  <2> QED
    BY <2>5 DEF r, t
<1> QED
  BY <1>1, RemediesDiffer

LEMMA SameDirSameRemedy ==
    ASSUME TypeOK, NEW id \in DOMAIN about, NEW l \in DOMAIN about, SkillDir(id) = SkillDir(l)
    PROVE  Remedy(id) = Remedy(l)
<1>1. about[id].text \in Texts /\ about[l].text \in Texts
  BY AboutTexts
<1>2. /\ Remedy(id) = PreferredRemedy(KindOf[about[id].text])
      /\ Remedy(l) = PreferredRemedy(KindOf[about[l].text])
  BY <1>1, LessonsReadBack DEF Remedy, Content
<1>3. PreferredRemedy(KindOf[about[id].text]) = PreferredRemedy(KindOf[about[l].text])
  BY SlugTells DEF SkillDir, Content
<1> QED
  BY <1>2, <1>3

LEMMA SkillsStep ==
    ASSUME CommandsInv, [CommandsNext]_allVars
    PROVE  SkillsInv'
<1> USE DEF CommandsInv
<1>1. /\ DOMAIN about \subseteq DOMAIN about'
      /\ \A id \in DOMAIN about : about'[id] = about[id]
  BY AboutGrows
<1>2. recalled \subseteq DOMAIN about
  BY DEF SkillsInv
<1>3. \A id \in recalled : Remedy(id)' = Remedy(id) /\ SkillDir(id)' = SkillDir(id)
  BY <1>1, <1>2 DEF Remedy, Content, SkillDir
<1>4. CASE UNCHANGED <<command, recalled, unwritten, file, files, ended>>
  <2>1. \A id \in recalled : Written(id)' = Written(id)
    BY <1>3, <1>4 DEF Written
  <2>2. file # NoMemory => SkillDir(file)' = SkillDir(file)
    <3> PICK f : f = file
      OBVIOUS
    <3>1. f # NoMemory => SkillDir(f)' = SkillDir(f)
      BY <1>3 DEF CommandsTypeOK
    <3>2. SkillDir(file)' = SkillDir(f)'
      BY <1>4 DEF SkillDir, Content
    <3> QED
      BY <3>1, <3>2
  <2> QED
    BY <1>1, <1>3, <1>4, <2>1, <2>2 DEF SkillsInv
<1>5. CASE \E how \in {"demo", "error"} : Ends(how)
  BY <1>5 DEF Ends, SkillsInv
<1>6. CASE StartDemo
  BY <1>6 DEF StartDemo, SkillsInv
<1>7. CASE StartSkills
  <2>1. recalled' \subseteq DOMAIN about /\ UNCHANGED about
    <3>1. \A m \in memories : m.id \in DOMAIN about
      BY MemoriesWritten
    <3> QED
      BY <1>7, <3>1 DEF StartSkills, agentVars, vars
  <2>2. /\ unwritten' = recalled' /\ UNCHANGED file /\ file = NoMemory
        /\ \/ command' = "none" /\ unwritten' = {} /\ ended' = "error"
           \/ command' = "skills" /\ ended' = "none"
    BY <1>7 DEF StartSkills, SkillsInv
  <2> QED
    BY <2>1, <2>2 DEF SkillsInv
<1>8. ASSUME NEW l \in MemIds, OpenFile(l) PROVE SkillsInv'
  <2>1. /\ command = "skills" /\ file' = l /\ l \in recalled
        /\ files' = [files EXCEPT ![SkillDir(l)] = Torn] /\ file = NoMemory /\ l # NoMemory
        /\ UNCHANGED <<command, recalled, unwritten, ended>>
    BY <1>8, NullAssumption DEF OpenFile, Running, CommandsTypeOK
  <2>2. ASSUME NEW id \in recalled \ unwritten
        PROVE  Written(id)' \/ (file' # NoMemory /\ SkillDir(file)' = SkillDir(id)')
    <3>1. CASE SkillDir(l) = SkillDir(id)
      <4>1. SkillDir(file)' = SkillDir(l)'
        BY <2>1 DEF SkillDir, Content
      <4> QED
        BY <1>3, <2>1, <3>1, <4>1
    <3>2. CASE SkillDir(l) # SkillDir(id)
      <4>1. PICK n \in recalled : files[SkillDir(id)] = n /\ Remedy(n) = Remedy(id)
        BY <2>1 DEF SkillsInv, Written
      <4>2. files'[SkillDir(id)] = n
        BY <2>1, <3>2, <4>1 DEF CommandsTypeOK
      <4> QED
        BY <1>3, <2>1, <4>1, <4>2 DEF Written
    <3> QED
      BY <3>1, <3>2
  <2> QED
    BY <1>1, <1>2, <2>1, <2>2 DEF SkillsInv
<1>9. CASE WriteFile
  <2>1. /\ command = "skills" /\ file # NoMemory /\ file' = NoMemory /\ file \in recalled
        /\ files' = [files EXCEPT ![SkillDir(file)] = file]
        /\ unwritten' = unwritten \ {file}
        /\ UNCHANGED <<command, recalled, ended>>
    BY <1>9 DEF WriteFile, Running, CommandsTypeOK
  <2>2. files'[SkillDir(file)] = file
    <3>1. SkillDir(file) \in Slugs
      BY <1>2, <2>1, DirOfLesson DEF Inv
    <3> QED
      BY <2>1, <3>1 DEF CommandsTypeOK
  <2>3. ASSUME NEW id \in recalled \ unwritten' PROVE Written(id)'
    <3>1. CASE SkillDir(id) = SkillDir(file)
      <4>1. Remedy(file) = Remedy(id)
        BY <1>2, <2>1, <3>1, SameDirSameRemedy DEF Inv
      <4>2. files'[SkillDir(id)'] = file
        BY <1>3, <2>2, <3>1
      <4>3. file \in recalled' /\ Remedy(id)' = Remedy(file)
        BY <1>3, <2>1, <4>1
      <4> PICK l : l = file
        OBVIOUS
      <4>4. Remedy(l)' = Remedy(l)
        BY <1>3, <2>1
      <4> QED
        BY <4>2, <4>3, <4>4 DEF Written
    <3>2. CASE SkillDir(id) # SkillDir(file)
      <4>1. id \in recalled \ unwritten
        BY <2>1, <2>3, <3>2
      <4>2. PICK n \in recalled : files[SkillDir(id)] = n /\ Remedy(n) = Remedy(id)
        BY <2>1, <3>2, <4>1 DEF SkillsInv, Written
      <4>3. files'[SkillDir(id)] = n
        BY <2>1, <3>2, <4>2 DEF CommandsTypeOK
      <4> QED
        BY <1>3, <2>1, <4>2, <4>3 DEF Written
    <3> QED
      BY <3>1, <3>2
  <2> QED
    BY <1>1, <1>2, <2>1, <2>3 DEF SkillsInv
<1>10. CASE SkillsEnd
  <2>1. /\ command = "skills" /\ unwritten = {} /\ unwritten' = {} /\ file' = NoMemory
        /\ command' = "none" /\ UNCHANGED <<recalled, files, about>>
    BY <1>10 DEF SkillsEnd, Running, Ends, agentVars, vars
  <2>2. file = NoMemory
    BY <2>1 DEF CommandsTypeOK
  <2>3. \A id \in recalled : Written(id)
    BY <2>1, <2>2 DEF SkillsInv
  <2>4. \A id \in recalled : Written(id)'
    BY <1>3, <2>1, <2>3 DEF Written
  <2> QED
    BY <1>1, <1>2, <2>1, <2>4 DEF SkillsInv
<1>11. CASE Seed \/ Encounter
  BY <1>4, <1>11 DEF Seed, Encounter, skillVars
<1>12. CASE HandleStep \/ UNCHANGED allVars \/ \E m \in memories : ForgetBetween(m)
  BY <1>4, <1>12 DEF HandleStep, ForgetBetween, allVars, cmdVars
<1> QED
  BY <1>5, <1>6, <1>7, <1>8, <1>9, <1>10, <1>11, <1>12
     DEF CommandsNext, DemoEnds, RequestBreaks, SeedAckLost, CommandBreaks

-----------------------------------------------------------------------------
(* Theorems.                                                               *)

LEMMA CommandsInitInv ==
    ASSUME CommandsInit
    PROVE  CommandsInv /\ TextsFrom(LessonTexts) /\ LessonInReach
<1>1. /\ pc = [w \in Workers |-> "idle"] /\ req = [w \in Workers |-> NoRequest]
      /\ answer = [w \in Workers |-> Silent] /\ faults = 0
      /\ known = [w \in Workers |-> FALSE] /\ overlap = FALSE
  BY DEF CommandsInit
<1>2. Inv /\ \A id \in LessonIds : about[id].text \in LessonTexts
  <2>1. CASE AuditLog!Init /\ about = <<>>
    <3>1. log[Agent] = <<>> /\ LessonIds = {}
      BY <2>1 DEF AuditLog!Init, LessonIds, Attesting
    <3>2. Init
      BY <1>1, <2>1 DEF Init
    <3> QED
      BY <3>1, <3>2, InitInv
  <2>2. CASE LearnedEarlier /\ tasks = [t \in TaskIds |-> [agent_id |-> NoAgent, step |-> 0]]
    BY <1>1, <2>2, LearnedInv DEF LessonTexts
  <2> QED
    BY <2>1, <2>2 DEF CommandsInit
<1>3. TextsFrom(LessonTexts) /\ LessonInReach
  <2>1. NoRequest.lesson = NoMemory
    BY DEF NoRequest
  <2> QED
    BY <1>1, <1>2, <2>1 DEF TextsFrom, LessonInReach, InProgress
<1>4. command = "none" /\ ended = "none" /\ item = 0 /\ recalled = {} /\ unwritten = {}
      /\ file = NoMemory /\ files = [s \in Slugs |-> NoFile]
  BY DEF CommandsInit
<1>5. CommandsTypeOK
  BY <1>4, DemoLength DEF CommandsTypeOK
<1>6. Budget
  BY <1>1, <1>4, OneWorker DEF Budget, InProgress
<1>7. SkillsInv
  BY <1>4 DEF SkillsInv
<1> QED
  BY <1>2, <1>3, <1>5, <1>6, <1>7 DEF CommandsInv

(* Between the commands, and at each step of one: the tables, the ids the  *)
(* demo has left, and the files `agent skills` has written.                *)
THEOREM CommandsInvariance == CommandsSpec => []CommandsInv
<1>1. CommandsInit => CommandsInv
  BY CommandsInitInv
<1>2. CommandsInv /\ [CommandsNext]_allVars => CommandsInv'
  BY AgentStep, CommandsTypesStep, BudgetStep, SkillsStep DEF CommandsInv
<1> QED
  BY <1>1, <1>2, PTL DEF CommandsSpec

(* Every variable of Commands has its type in every reachable state; in    *)
(* particular the demo never runs past its last incident.                  *)
THEOREM CommandsTypesCorrect == CommandsSpec => []CommandsTypeOK
<1>1. CommandsInv => CommandsTypeOK
  BY DEF CommandsInv
<1> QED
  BY <1>1, CommandsInvariance, PTL

(* When `agent skills` ends without an error, the remedy of each lesson it *)
(* recalled is in a complete file, whatever a run that broke off has left  *)
(* and although lessons share a directory: those for one kind, and those   *)
(* for kinds the directory's name does not tell apart.                     *)
THEOREM SkillFilesAreComplete == CommandsSpec => []SkillFilesComplete
<1>1. CommandsInv => SkillFilesComplete
  <2> SUFFICES ASSUME CommandsInv, ended = "skills", NEW id \in recalled
               PROVE  Written(id)
    BY DEF SkillFilesComplete, Written, Remedy
  <2>1. id \in recalled \ unwritten /\ file = NoMemory
    BY DEF CommandsInv, SkillsInv
  <2> QED
    BY <2>1 DEF CommandsInv, SkillsInv
<1> QED
  BY <1>1, CommandsInvariance, PTL

(* What requests of a server keep, the demo keeps too, with the seeds it   *)
(* remembers and with commands that break off: no episode without its      *)
(* step, no lesson without experience, no lesson in reach passed over, and *)
(* no lesson written twice.                                                *)
THEOREM CommandsKeepMemory ==
    CommandsSpec => [](/\ EpisodeFollowsStep /\ LessonHasExperience
                       /\ LessonStaysInUse /\ SerialLessonsUnique)
<1>1. CommandsInv => /\ EpisodeFollowsStep /\ LessonHasExperience
                     /\ LessonStaysInUse /\ SerialLessonsUnique
  BY DEF CommandsInv, Inv, Counted
<1> QED
  BY <1>1, CommandsInvariance, PTL

\* A seed is not a lesson, and a fault changes no table.
LEMMA ReachStep ==
    ASSUME CommandsInv, [CommandsNext]_allVars, NEW texts, SignalTexts \subseteq texts,
           TextsFrom(texts), LessonInReach
    PROVE  TextsFrom(texts)' /\ LessonInReach'
<1> USE DEF CommandsInv
<1>1. CASE [Next]_vars
  BY <1>1, TextsFromStep, LessonInReachStep
<1>2. ASSUME LessonIds' = LessonIds, \A id \in LessonIds : about'[id] = about[id],
             UNCHANGED <<pc, req>>
      PROVE  TextsFrom(texts)' /\ LessonInReach'
  BY <1>2 DEF TextsFrom, LessonInReach, InProgress
<1>3. CASE RememberSeed
  <2>1. PICK n \in Nat : AddsAt(n, "episodic", Seeds[item].text, NoTask)
    BY <1>3, SeedId, SeedAddsAt
  <2>2. /\ \A i \in DOMAIN log[Agent] : IdAt(i)' = IdAt(i)
        /\ Attesting("semantic")' = Attesting("semantic")
        /\ \A id \in DOMAIN about : about'[id] = about[id]
    BY <2>1 DEF AddsAt
  <2>3. \A i \in Attesting("semantic") : i \in DOMAIN log[Agent] /\ IdAt(i) \in DOMAIN about
    BY DEF Inv, Attested, Attesting, EventAt
  <2>4. LessonIds' = LessonIds /\ \A id \in LessonIds : about'[id] = about[id]
    BY <2>2, <2>3 DEF LessonIds
  <2>5. UNCHANGED <<pc, req>>
    BY <1>3 DEF RememberSeed
  <2> QED
    BY <1>2, <2>4, <2>5
<1>4. CASE UNCHANGED <<tables, pc, req, answer, known, overlap>>
  <2>1. UNCHANGED <<log, about, pc, req>>
    BY <1>4 DEF tables
  <2>2. LessonIds' = LessonIds
    BY <2>1 DEF LessonIds, Attesting, IdAt
  <2> QED
    BY <1>2, <2>1, <2>2
<1> QED
  BY <1>1, <1>3, <1>4, AgentCases

(* As long as incidents that call for different remedies are further apart *)
(* than LessonApplies, the demo decides from memory by the whole remedy    *)
(* for the incident at hand, also when a server has learned before it.     *)
THEOREM DemoActsOnOwnRunbook ==
    ASSUME ClassesApart(LessonTexts)
    PROVE  CommandsSpec => []ActsOnOwnRunbook
<1>1. CommandsInit => TextsFrom(LessonTexts) /\ LessonInReach
  BY CommandsInitInv
<1>2. CommandsInv /\ TextsFrom(LessonTexts) /\ LessonInReach /\ [CommandsNext]_allVars
        => (TextsFrom(LessonTexts) /\ LessonInReach)'
  <2>1. LessonTexts' = LessonTexts /\ SignalTexts \subseteq LessonTexts
    BY DEF LessonTexts, SignalTexts
  <2> QED
    BY <2>1, ReachStep
<1>3. CommandsInv /\ TextsFrom(LessonTexts) /\ LessonInReach => ActsOnOwnRunbook
  BY OwnRunbook DEF CommandsInv
<1> QED
  BY <1>1, <1>2, <1>3, CommandsInvariance, PTL DEF CommandsSpec

(* The commands do to the tables what AuditLog allows, which StoreTxn is   *)
(* shown to implement: one row and its link, or one episode forgotten, at  *)
(* a time.                                                                 *)
THEOREM CommandsStepAuditLog == CommandsSpec => [][AuditLog!Next]_(AuditLog!vars)
<1>1. CommandsInv /\ [CommandsNext]_allVars => [AuditLog!Next]_(AuditLog!vars)
  <2> SUFFICES ASSUME CommandsInv, [CommandsNext]_allVars
               PROVE  [AuditLog!Next]_(AuditLog!vars)
    OBVIOUS
  <2>1. CASE [Next]_vars
    BY <2>1, AuditLogStep DEF CommandsInv
  <2>2. CASE RememberSeed
    <3>1. AuditLog!Remember(Agent, "episodic", NewId) /\ NewId \in MemIds
      BY <2>2, SeedId DEF RememberSeed, Remember
    <3> QED
      BY <3>1 DEF AuditLog!Next, AuditLog!MemoryKinds
  <2>3. CASE UNCHANGED tables
    BY <2>3 DEF tables, AuditLog!vars
  <2> QED
    BY <2>1, <2>2, <2>3, AgentCases
<1> QED
  BY <1>1, CommandsInvariance, PTL DEF CommandsSpec

-----------------------------------------------------------------------------
(* How a demo ends.                                                        *)

EncounterTexts == {Encounters[i].text : i \in DOMAIN Encounters}

\* The incidents reported so far, the last of them, what the agent remembers
\* of them, the one it has still to remember, and a lesson about them.
Done == item - Len(Seeds) - 1
Current == Encounters[Done].text
Reports == {m \in memories : m.kind = "episodic" /\ about[m.id].text \in EncounterTexts}
Pending == IF pc[Shell] \in {"recall", "step", "episode"} THEN 1 ELSE 0
LessonKept ==
    \E m \in memories :
        m.kind = "semantic" /\ \E x \in EncounterTexts : KindOf[about[m.id].text] = KindOf[x]

\* The last report is, or was, decided from memory once it has been recalled.
ActsOnLesson ==
    /\ pc[Shell] \notin {"idle", "recall"} => req[Shell].lesson # NoMemory
    /\ pc[Shell] = "idle" => answer[Shell].from_memory

\* Nothing is forgotten while the demo runs: enough reports have led to a
\* lesson, and the requests after that found it, unless it was crowded out.
DemoInv ==
    command = "demo" /\ 1 <= Done =>
        /\ InProgress(Shell) => req[Shell].text = Current
        /\ Done <= Cardinality(Reports) + Pending
        /\ MinEpisodes < Done \/ (Done = MinEpisodes /\ ~InProgress(Shell)) => LessonKept
        /\ MinEpisodes < Done /\ ~Crowded(Current) => ActsOnLesson

\* In a finite set something is nearest, and something is furthest away.
LEMMA Nearest1 ==
    ASSUME NEW M, IsFiniteSet(M), NEW d, \A m \in M : d[m] \in Nat,
           NEW T \in SUBSET M, T # {}
    PROVE  \E m \in T : \A x \in T : d[m] <= d[x]
<1> DEFINE below(m) == {x \in M : d[x] < d[m]}
           sets == {below(m) : m \in T}
<1>1. sets \subseteq FiniteSubsetsOf(M)
  <2> SUFFICES ASSUME NEW m \in T PROVE below(m) \in SUBSET M /\ IsFiniteSet(below(m))
    BY DEF FiniteSubsetsOf
  <2> QED
    BY FS_Subset
<1>2. PICK s \in sets : \A u \in sets : ~(<<u, s>> \in StrictSubsetOrdering(M))
  <2>1. IsWellFoundedOn(StrictSubsetOrdering(M), FiniteSubsetsOf(M))
    BY FS_StrictSubsetOrderingWellFounded
  <2>2. sets # {}
    OBVIOUS
  <2> HIDE DEF sets
  <2> QED
    BY <1>1, <2>1, <2>2, WFMin
<1>3. PICK m \in T : s = below(m)
  OBVIOUS
<1>4. ASSUME NEW x \in T, ~(d[m] <= d[x]) PROVE FALSE
  <2>1. d[m] \in Nat /\ d[x] \in Nat /\ d[x] < d[m]
    BY <1>4
  <2>2. below(x) \subseteq below(m) /\ x \in below(m) /\ x \notin below(x)
    BY <2>1
  <2>3. <<below(x), below(m)>> \in StrictSubsetOrdering(M)
    BY <2>2 DEF StrictSubsetOrdering
  <2> QED
    BY <1>2, <1>3, <2>3
<1> QED
  BY <1>4

LEMMA Furthest1 ==
    ASSUME NEW M, IsFiniteSet(M), NEW d, \A m \in M : d[m] \in Nat, M # {}
    PROVE  \E m \in M : \A x \in M : d[x] <= d[m]
<1> DEFINE above(m) == {x \in M : d[m] < d[x]}
           sets == {above(m) : m \in M}
<1>1. sets \subseteq FiniteSubsetsOf(M)
  <2> SUFFICES ASSUME NEW m \in M PROVE above(m) \in SUBSET M /\ IsFiniteSet(above(m))
    BY DEF FiniteSubsetsOf
  <2> QED
    BY FS_Subset
<1>2. PICK s \in sets : \A u \in sets : ~(<<u, s>> \in StrictSubsetOrdering(M))
  <2>1. IsWellFoundedOn(StrictSubsetOrdering(M), FiniteSubsetsOf(M))
    BY FS_StrictSubsetOrderingWellFounded
  <2>2. sets # {}
    OBVIOUS
  <2> HIDE DEF sets
  <2> QED
    BY <1>1, <2>1, <2>2, WFMin
<1>3. PICK m \in M : s = above(m)
  OBVIOUS
<1>4. ASSUME NEW x \in M, ~(d[x] <= d[m]) PROVE FALSE
  <2>1. d[m] \in Nat /\ d[x] \in Nat /\ d[m] < d[x]
    BY <1>4
  <2>2. above(x) \subseteq above(m) /\ x \in above(m) /\ x \notin above(x)
    BY <2>1
  <2>3. <<above(x), above(m)>> \in StrictSubsetOrdering(M)
    BY <2>2 DEF StrictSubsetOrdering
  <2> QED
    BY <1>2, <1>3, <2>3
<1> QED
  BY <1>4

\* The rows a read fetches are all those within a distance, or as many as it
\* asks for, all within that distance.
LEMMA FetchedRows ==
    ASSUME Inv, NEW text \in Texts, NEW k \in Nat, NEW s \in Nearest(text, k), NEW r \in Nat
    PROVE  Within(text, r) \subseteq s \/ (s \subseteq Within(text, r) /\ Cardinality(s) = k)
<1> DEFINE M == memories
           d == [m \in M |-> Dist(m, text)]
           R == {Dist(m, text) : m \in M}
           Q == {q \in R : Cardinality(Within(text, q)) >= k}
<1>1. IsFiniteSet(M) /\ Cardinality(M) \in Nat
  BY FS_CardinalityType DEF Inv, Tables
<1>2. \A m \in M : Dist(m, text) \in Nat /\ d[m] = Dist(m, text)
  BY MemoriesWritten, AboutTexts, DistanceAssumption DEF Inv, Dist
<1>3. CASE Cardinality(M) <= k
  BY <1>3 DEF Nearest, Within
<1>4. CASE ~(Cardinality(M) <= k)
  <2>1. M # {}
    BY <1>4, FS_EmptySet
  <2>2. PICK f \in M : \A m \in M : Dist(m, text) <= Dist(f, text)
    <3> HIDE DEF d
    <3>1. \E f \in M : \A m \in M : d[m] <= d[f]
      BY <1>1, <1>2, <2>1, Furthest1
    <3> QED
      BY <1>2, <3>1
  <2>3. Within(text, Dist(f, text)) = M
    BY <2>2 DEF Within
  <2> DEFINE T == {m \in M : Cardinality(Within(text, Dist(m, text))) >= k}
  <2>4. f \in T
    BY <1>1, <1>4, <2>3
  <2>5. PICK g \in T : \A m \in T : Dist(g, text) <= Dist(m, text)
    <3> HIDE DEF d
    <3>1. T \in SUBSET M /\ T # {}
      BY <2>4
    <3> HIDE DEF T
    <3>2. \E g \in T : \A m \in T : d[g] <= d[m]
      BY <1>1, <1>2, <3>1, Nearest1
    <3> QED
      BY <1>2, <3>1, <3>2
  <2>6. Min(Q) \in Q
    <3>1. Dist(g, text) \in Q /\ \A q \in Q : Dist(g, text) <= q
      BY <2>5
    <3> HIDE DEF Q
    <3> QED
      BY <3>1 DEF Min
  <2> DEFINE radius == Min(Q)
             closer == {m \in M : Dist(m, text) < radius}
  <2>7. radius \in Nat
    BY <1>2, <2>6
  <2>8. PICK ties \in kSubset(k - Cardinality(closer), Within(text, radius) \ closer) :
               s = closer \cup ties
    BY <1>4 DEF Nearest
  <2> HIDE DEF radius
  <2>9. ties \subseteq Within(text, radius) \ closer /\ Cardinality(ties) = k - Cardinality(closer)
    BY <2>8 DEF kSubset
  <2>10. Cardinality(s) = k
    <3>1. IsFiniteSet(closer) /\ IsFiniteSet(ties)
      BY <1>1, <2>9, FS_Subset DEF Within
    <3>2. closer \cap ties = {} /\ Cardinality({}) = 0
      BY <2>9, FS_EmptySet
    <3>3. Cardinality(closer) \in Nat /\ Cardinality(ties) \in Nat
      BY <3>1, FS_CardinalityType
    <3>4. Cardinality(s) = Cardinality(closer) + Cardinality(ties) - Cardinality(closer \cap ties)
      BY <2>8, <3>1, FS_Union
    <3> HIDE DEF closer
    <3> QED
      BY <2>9, <3>2, <3>3, <3>4
  <2>11. s \subseteq M /\ \A m \in s : Dist(m, text) <= radius
    BY <1>2, <2>7, <2>8, <2>9 DEF Within
  <2>12. CASE radius <= r
    <3>1. \A m \in s : Dist(m, text) <= r
      BY <1>2, <2>7, <2>11, <2>12
    <3> QED
      BY <2>10, <2>11, <3>1 DEF Within
  <2>13. CASE r < radius
    BY <1>2, <2>7, <2>8, <2>13 DEF Within
  <2> QED
    BY <2>7, <2>12, <2>13
<1> QED
  BY <1>1, <1>3, <1>4

\* Where the rows near a text are no more than RecallLesson fetches, it finds
\* a lesson in reach of the text.
LEMMA UncrowdedRecalls ==
    ASSUME Inv, NEW w \in Workers, req[w].text \in Texts, ~Crowded(req[w].text),
           Usable(memories, req[w].text) # {}
    PROVE  NoMemory \notin Recallable(req[w])
<1> DEFINE near == Within(req[w].text, LessonApplies)
<1>1. /\ IsFiniteSet(near) /\ Cardinality(near) \in Nat /\ Candidates \in Nat
      /\ LessonApplies \in Nat /\ Cardinality(near) <= Candidates
  <2>1. IsFiniteSet(near) /\ near \subseteq memories
    BY FS_Subset DEF Inv, Tables, Within
  <2> QED
    BY <2>1, FS_CardinalityType, BoundsAssumption DEF Crowded
<1>2. PICK m \in memories : m.kind = "semantic" /\ Dist(m, req[w].text) <= LessonApplies
  BY DEF Usable
<1>3. ASSUME NEW s \in Nearest(req[w].text, Candidates)
      PROVE  m \in s /\ s \subseteq memories
  <2>1. CASE near \subseteq s
    BY <1>2, <2>1, NearestAreMemories DEF Within
  <2>2. CASE s \subseteq near /\ Cardinality(s) = Candidates
    <3>1. Cardinality(s) <= Cardinality(near)
            /\ (Cardinality(s) = Cardinality(near) => s = near)
      BY <1>1, <2>2, FS_Subset
    <3>2. s = near
      BY <1>1, <2>2, <3>1
    <3> QED
      BY <1>2, <3>2 DEF Within
  <2> QED
    BY <1>1, <2>1, <2>2, FetchedRows
<1>4. ASSUME NEW s \in Nearest(req[w].text, Candidates)
      PROVE  /\ Preferred(s, req[w]) # {}
             /\ \A n \in Closest(Preferred(s, req[w]), req[w].text) : n.id # NoMemory
  <2>1. Usable(s, req[w].text) # {} /\ Usable(s, req[w].text) \subseteq memories
    BY <1>2, <1>3 DEF Usable
  <2>2. Preferred(s, req[w]) # {} /\ Preferred(s, req[w]) \subseteq memories
    BY <2>1 DEF Preferred
  <2> QED
    BY <2>2, MemoriesWritten, NullAssumption DEF Closest
<1> QED
  BY <1>4 DEF Recallable

\* Where rows crowd, one more does not make room.
LEMMA CrowdStays ==
    ASSUME Inv, NEW n, NEW kind, NEW x, NEW t, AddsAt(n, kind, x, t), NEW y, Crowded(y)
    PROVE  Crowded(y)'
<1>1. IsFiniteSet(memories) /\ IsFiniteSet(memories') /\ memories \subseteq memories'
  BY FS_AddElement DEF AddsAt, Inv, Tables
<1>2. \A m \in memories : about'[m.id] = about[m.id]
  BY MemoriesWritten DEF AddsAt
<1>3. /\ Within(y, LessonApplies) \subseteq Within(y, LessonApplies)'
      /\ Within(y, LessonApplies)' \subseteq memories'
      /\ Within(y, LessonApplies) \subseteq memories
  BY <1>1, <1>2 DEF Within, Dist
<1>4. /\ IsFiniteSet(Within(y, LessonApplies)')
      /\ Cardinality(Within(y, LessonApplies)') \in Nat
      /\ Cardinality(Within(y, LessonApplies)) \in Nat
      /\ Cardinality(Within(y, LessonApplies)) <= Cardinality(Within(y, LessonApplies)')
  BY <1>1, <1>3, FS_Subset, FS_CardinalityType
<1>5. Crowded(y)' = (Cardinality(Within(y, LessonApplies)') > Candidates)
  BY DEF Crowded
<1> QED
  BY <1>4, <1>5, Bounds DEF Crowded

LEMMA EncounterTextsKnown ==
    /\ EncounterTexts \subseteq SignalTexts /\ EncounterTexts \subseteq LessonTexts
    /\ LessonTexts \subseteq Texts
<1>1. \A x \in Signals : x.text \in Texts
  BY SignalsAssumption
<1>2. \A i \in DOMAIN Encounters : Encounters[i] \in Signals
  BY DemoAssumption
<1> QED
  BY <1>1, <1>2, EarlierAssumption DEF EncounterTexts, SignalTexts, LessonTexts

\* Incidents of one class are of one kind.
LEMMA OneKind ==
    ASSUME OneClass, NEW x \in EncounterTexts, NEW y \in LessonTexts
    PROVE  /\ y \in EncounterTexts =>
                Distance[y][x] <= SameIncidentClass /\ KindOf[y] = KindOf[x]
           /\ KindOf[y] = KindOf[x] => Distance[y][x] <= LessonApplies
           /\ KindOf[y] # KindOf[x] => ~(Distance[y][x] <= SameIncidentClass)
<1>1. Distance[y][x] \in Nat /\ SameIncidentClass \in Nat
  BY EncounterTextsKnown, DistanceAssumption, BoundsAssumption
<1>2. PICK i \in DOMAIN Encounters : x = Encounters[i].text
  BY DEF EncounterTexts
<1>3. /\ KindOf[y] = KindOf[x] => Distance[y][x] <= LessonApplies
      /\ KindOf[y] # KindOf[x] => ~(Distance[y][x] <= SameIncidentClass)
  BY <1>1, <1>2 DEF OneClass
<1>4. ASSUME y \in EncounterTexts PROVE Distance[y][x] <= SameIncidentClass
  BY <1>2, <1>4 DEF OneClass, EncounterTexts
<1> QED
  BY <1>3, <1>4

\* A lesson kept is about a text of LessonTexts.
LEMMA LessonsAreKnown ==
    ASSUME Inv, TextsFrom(LessonTexts), NEW m \in memories, m.kind = "semantic"
    PROVE  about[m.id].text \in LessonTexts
<1>1. \E i \in Attesting("semantic") : IdAt(i) = m.id
  BY DEF Inv, Attested
<1> QED
  BY <1>1 DEF TextsFrom, LessonIds

\* It is in reach of every incident of the demo.
LEMMA LessonIsUsable ==
    ASSUME Inv, OneClass, TextsFrom(LessonTexts), LessonKept, NEW x \in EncounterTexts
    PROVE  Usable(memories, x) # {}
<1>1. PICK m \in memories : /\ m.kind = "semantic"
                            /\ \E y \in EncounterTexts : KindOf[about[m.id].text] = KindOf[y]
  BY DEF LessonKept
<1>2. PICK y \in EncounterTexts : KindOf[about[m.id].text] = KindOf[y]
  BY <1>1
<1>3. KindOf[y] = KindOf[x]
  BY OneKind, EncounterTextsKnown
<1>4. Dist(m, x) <= LessonApplies
  BY <1>1, <1>2, <1>3, LessonsAreKnown, OneKind DEF Dist
<1> QED
  BY <1>1, <1>4 DEF Usable

\* Consolidate counts enough of the reports, whatever rows it fetches.
LEMMA ReportsAreSimilar ==
    ASSUME Inv, OneClass, TextsFrom(LessonTexts), ~LessonKept, NEW x \in EncounterTexts,
           MinEpisodes <= Cardinality(Reports),
           NEW s \in Nearest(x, MinEpisodes + ExtraNeighbours)
    PROVE  Cardinality(Similar(s, x)) >= MinEpisodes
<1> DEFINE k == MinEpisodes + ExtraNeighbours
<1>1. k \in Nat /\ SameIncidentClass \in Nat /\ x \in Texts
  BY Bounds, BoundsAssumption, EncounterTextsKnown
<1>2. s \in SUBSET memories
  BY NearestAreMemories
<1>3. ASSUME NEW m \in memories, Dist(m, x) <= SameIncidentClass
      PROVE  m.kind = "episodic"
  <2>1. m.kind \in {"episodic", "semantic"}
    BY DEF Inv, TypeOK, AuditLog!MemoryRow, AuditLog!MemoryKinds
  <2>2. CASE m.kind = "semantic"
    <3>1. about[m.id].text \in LessonTexts
      BY <2>2, LessonsAreKnown
    <3>2. KindOf[about[m.id].text] = KindOf[x]
      BY <1>3, <3>1, OneKind DEF Dist
    <3> QED
      BY <2>2, <3>2 DEF LessonKept
  <2> QED
    BY <2>1, <2>2
<1>4. Reports \subseteq Within(x, SameIncidentClass)
  BY OneKind, EncounterTextsKnown DEF Reports, Within, Dist
<1>5. IsFiniteSet(memories)
  BY DEF Inv, Tables
<1>6. /\ IsFiniteSet(Similar(s, x)) /\ Cardinality(Similar(s, x)) \in Nat
      /\ IsFiniteSet(Reports) /\ Cardinality(Reports) \in Nat
  BY <1>2, <1>5, FS_Subset, FS_CardinalityType DEF Similar, Reports
<1>7. CASE Within(x, SameIncidentClass) \subseteq s
  <2>1. Reports \subseteq Similar(s, x)
    BY <1>3, <1>4, <1>7 DEF Similar, Within
  <2>2. Cardinality(Reports) <= Cardinality(Similar(s, x))
    BY <1>6, <2>1, FS_Subset
  <2> QED
    BY <1>6, <2>2, Bounds
<1>8. CASE s \subseteq Within(x, SameIncidentClass) /\ Cardinality(s) = k
  <2>1. Similar(s, x) = s
    BY <1>2, <1>3, <1>8 DEF Similar, Within
  <2> QED
    BY <1>8, <2>1, Bounds
<1> HIDE DEF k
<1>9. s \in Nearest(x, k)
  BY DEF k
<1> QED
  BY <1>1, <1>7, <1>8, <1>9, FetchedRows

\* What a memory adds to the reports and to the lessons kept.
LEMMA MemoryAdded ==
    ASSUME Inv, NEW n \in Nat, NEW kind \in {"episodic", "semantic"}, NEW x \in EncounterTexts,
           NEW t, AddsAt(n, kind, x, t)
    PROVE  /\ kind = "episodic" => Cardinality(Reports') = Cardinality(Reports) + 1
           /\ kind = "semantic" => Reports' = Reports /\ LessonKept'
           /\ LessonKept => LessonKept'
<1> DEFINE new == AuditLog!NewMemory(Agent, kind, NewId)
<1>1. /\ memories' = memories \cup {new} /\ NewId \notin DOMAIN about
      /\ \A id \in DOMAIN about : about'[id] = about[id]
      /\ about'[NewId].text = x
  BY DEF AddsAt
<1>2. new.kind = kind /\ new.id = NewId
  BY DEF AuditLog!NewMemory
<1> HIDE DEF new
<1>3. \A m \in memories : m.id \in DOMAIN about
  BY MemoriesWritten
<1>4. new \notin memories /\ \A m \in memories : about'[m.id] = about[m.id]
  BY <1>1, <1>2, <1>3
<1>5. ASSUME LessonKept PROVE LessonKept'
  <2>1. PICK m \in memories : /\ m.kind = "semantic"
                              /\ \E y \in EncounterTexts : KindOf[about[m.id].text] = KindOf[y]
    BY <1>5 DEF LessonKept
  <2>2. m \in memories' /\ about'[m.id] = about[m.id]
    BY <1>1, <1>4
  <2> QED
    BY <2>1, <2>2 DEF LessonKept, EncounterTexts
<1>6. EncounterTexts' = EncounterTexts
  BY DEF EncounterTexts
<1>7. CASE kind = "episodic"
  <2>1. Reports' = Reports \cup {new}
    BY <1>1, <1>2, <1>4, <1>6, <1>7 DEF Reports
  <2>2. new \notin Reports /\ IsFiniteSet(Reports)
    BY <1>4, FS_Subset DEF Reports, Inv, Tables
  <2>3. Cardinality(Reports \cup {new}) = Cardinality(Reports) + 1
    BY <2>2, FS_AddElement
  <2> QED
    BY <1>5, <1>7, <2>1, <2>3
<1>8. CASE kind = "semantic"
  <2>1. Reports' = Reports
    BY <1>1, <1>2, <1>4, <1>6, <1>8 DEF Reports
  <2>2. new \in memories' /\ new.kind = "semantic" /\ KindOf[about'[new.id].text] = KindOf[x]
    BY <1>1, <1>2, <1>8
  <2>3. LessonKept'
    BY <1>6, <2>2 DEF LessonKept
  <2> QED
    BY <1>8, <2>1, <2>3
<1> QED
  BY <1>7, <1>8

\* A request that ends without a lesson of its own has found one.
LEMMA ConsolidateLeavesLesson ==
    ASSUME Inv, OneClass, TextsFrom(LessonTexts), Consolidate(Shell), pc'[Shell] = "idle",
           req[Shell].text \in EncounterTexts, MinEpisodes <= Cardinality(Reports)
    PROVE  LessonKept
<1> SUFFICES ASSUME ~LessonKept PROVE FALSE
  OBVIOUS
<1> DEFINE x == req[Shell].text
<1>1. PICK s \in Nearest(x, MinEpisodes + ExtraNeighbours) :
             ~AlreadyLearned(s, KindOf[x]) /\ Cardinality(Similar(s, x)) >= MinEpisodes
               => Goto(Shell, "lesson")
  BY DEF Consolidate
<1>2. s \in SUBSET memories
  BY NearestAreMemories
<1>3. ~AlreadyLearned(s, KindOf[x])
  BY <1>2 DEF AlreadyLearned, LessonKept
<1>4. Cardinality(Similar(s, x)) >= MinEpisodes
  BY ReportsAreSimilar
<1> QED
  BY <1>1, <1>3, <1>4, OneWorker DEF Goto, Inv, TypeOK

LEMMA CurrentIsEncounter ==
    ASSUME CommandsTypeOK, 1 <= Done
    PROVE  Done \in DOMAIN Encounters /\ Current \in EncounterTexts
<1>1. Done \in Nat /\ Done <= Len(Encounters)
  BY DemoLength DEF Done, CommandsTypeOK
<1>2. Done \in DOMAIN Encounters
  BY <1>1, DemoLength
<1> QED
  BY <1>2 DEF Current, EncounterTexts

\* The demo's request in progress takes one step.
LEMMA DemoHandles ==
    ASSUME CommandsInv, OneClass, DemoSuffices, TextsFrom(LessonTexts), DemoInv, HandleStep
    PROVE  DemoInv'
<1> USE OneWorker DEF CommandsInv
<1>1. /\ Step(Shell) /\ InProgress(Shell) /\ command = "demo" /\ command' = "demo"
      /\ Done' = Done /\ Current' = Current
  BY DemandFalls DEF HandleStep, cmdVars, Budget, Done, Current
<1>2. Done \in Int /\ MinEpisodes \in Nat
  BY DemoLength, Bounds DEF Done, CommandsTypeOK
<1> SUFFICES ASSUME 1 <= Done, NEW x, x = Current
             PROVE  /\ pc'[Shell] # "idle" => req'[Shell].text = x
                    /\ Done <= Cardinality(Reports') + Pending'
                    /\ MinEpisodes < Done \/ (Done = MinEpisodes /\ pc'[Shell] = "idle")
                         => LessonKept'
                    /\ MinEpisodes < Done /\ ~Crowded(x)' => ActsOnLesson'
  <2>1. PICK x : x = Current
    OBVIOUS
  <2>2. Crowded(Current)' = Crowded(x)'
    BY <1>1, <2>1 DEF Crowded, Within, Dist
  <2> QED
    BY <1>1, <2>1, <2>2 DEF DemoInv, InProgress
<1>3. /\ req[Shell].text = x /\ x \in EncounterTexts /\ x \in Texts
      /\ Done <= Cardinality(Reports) + Pending
      /\ MinEpisodes < Done => LessonKept
      /\ MinEpisodes < Done /\ ~Crowded(x) => ActsOnLesson
  BY <1>1, CurrentIsEncounter, EncounterTextsKnown DEF DemoInv
<1>4. Inv /\ TypeOK /\ Requests
  BY DEF Inv
<1>5. Cardinality(Reports) \in Nat
  BY FS_Subset, FS_CardinalityType DEF Reports, Inv, Tables
<1>6. ASSUME UNCHANGED <<memories, about>>
      PROVE  Reports' = Reports /\ LessonKept' = LessonKept /\ Crowded(x)' = Crowded(x)
  BY <1>6 DEF Reports, LessonKept, EncounterTexts, Crowded, Within, Dist
<1>7. CASE RecallLesson(Shell)
  <2>1. PICK id \in Recallable(req[Shell]) : req' = [req EXCEPT ![Shell].lesson = id]
    BY <1>7 DEF RecallLesson
  <2>2. /\ UNCHANGED <<memories, about>> /\ pc[Shell] = "recall" /\ pc'[Shell] = "step"
        /\ req'[Shell].text = req[Shell].text /\ req'[Shell].lesson = id
    BY <1>4, <1>7, <2>1 DEF RecallLesson, Goto, tables, TypeOK
  <2>3. Pending = 1 /\ Pending' = 1
    BY <2>2 DEF Pending
  <2>4. MinEpisodes < Done /\ ~Crowded(x) => id # NoMemory
    BY <1>3, <1>4, LessonIsUsable, UncrowdedRecalls
  <2>5. MinEpisodes < Done /\ ~Crowded(x)' => ActsOnLesson'
    BY <1>6, <2>2, <2>4 DEF ActsOnLesson
  <2> QED
    BY <1>2, <1>3, <1>6, <2>2, <2>3, <2>5
<1>8. CASE RecordStep(Shell)
  <2>1. /\ UNCHANGED <<memories, about, req>> /\ pc[Shell] = "step" /\ pc'[Shell] = "episode"
    BY <1>4, <1>8 DEF RecordStep, ApplyStep, AuditLog!RecordStep, Goto, TypeOK
  <2>2. Pending = 1 /\ Pending' = 1 /\ (ActsOnLesson => ActsOnLesson')
    BY <2>1 DEF Pending, ActsOnLesson
  <2> QED
    BY <1>2, <1>3, <1>6, <2>1, <2>2
<1>9. CASE RememberEpisode(Shell)
  <2>1. /\ pc[Shell] = "episode" /\ pc'[Shell] = "consolidate" /\ UNCHANGED req
        /\ ApplyRemember(Shell, "episodic")
    BY <1>4, <1>9 DEF RememberEpisode, ApplyEpisode, Goto, TypeOK
  <2>2. PICK n \in Nat : AddsAt(n, "episodic", req[Shell].text, req[Shell].task)
    BY <1>4, <2>1, MemoryLinks
  <2>3. Cardinality(Reports') = Cardinality(Reports) + 1 /\ (LessonKept => LessonKept')
    BY <1>3, <1>4, <2>2, MemoryAdded
  <2>4. Crowded(x) => Crowded(x)'
    BY <1>4, <2>2, CrowdStays
  <2>5. Pending = 1 /\ Pending' = 0 /\ (ActsOnLesson => ActsOnLesson')
    BY <2>1 DEF Pending, ActsOnLesson
  <2> QED
    BY <1>2, <1>3, <1>5, <2>1, <2>3, <2>4, <2>5
<1>10. ASSUME pc[Shell] \in {"consolidate", "lesson"}, NEW learned \in BOOLEAN,
              Reply(Shell, "ok", learned), Crowded(x) => Crowded(x)'
       PROVE  /\ pc'[Shell] = "idle" /\ Pending = 0 /\ Pending' = 0
              /\ MinEpisodes < Done /\ ~Crowded(x)' => ActsOnLesson'
  <2>1. pc'[Shell] = "idle" /\ answer'[Shell].from_memory = (req[Shell].lesson # NoMemory)
    BY <1>4, <1>10, ReplyTypes DEF TypeOK
  <2>2. Pending = 0 /\ Pending' = 0
    BY <1>10, <2>1 DEF Pending
  <2>3. ActsOnLesson => ActsOnLesson'
    BY <1>10, <2>1 DEF ActsOnLesson
  <2> QED
    BY <1>3, <1>10, <2>1, <2>2, <2>3
<1>11. CASE Consolidate(Shell)
  <2>1. UNCHANGED <<memories, about>> /\ pc[Shell] = "consolidate"
    BY <1>11 DEF Consolidate, tables
  <2>2. CASE Reply(Shell, "ok", FALSE)
    <3>1. /\ pc'[Shell] = "idle" /\ Pending = 0 /\ Pending' = 0
          /\ MinEpisodes < Done /\ ~Crowded(x)' => ActsOnLesson'
      BY <1>6, <1>10, <2>1, <2>2
    <3>2. Done = MinEpisodes => LessonKept
      BY <1>2, <1>3, <1>4, <1>5, <1>11, <3>1, ConsolidateLeavesLesson
    <3> QED
      BY <1>2, <1>3, <1>5, <1>6, <2>1, <3>1, <3>2
  <2>3. CASE ~Reply(Shell, "ok", FALSE)
    <3>1. pc'[Shell] = "lesson" /\ UNCHANGED req
      BY <1>4, <1>11, <2>3 DEF Consolidate, Goto, TypeOK
    <3>2. Pending = 0 /\ Pending' = 0 /\ (ActsOnLesson => ActsOnLesson')
      BY <2>1, <3>1 DEF Pending, ActsOnLesson
    <3> QED
      BY <1>2, <1>3, <1>5, <1>6, <2>1, <3>1, <3>2
  <2> QED
    BY <2>2, <2>3
<1>12. CASE RememberLesson(Shell)
  <2>1. /\ pc[Shell] = "lesson" /\ ApplyRemember(Shell, "semantic") /\ Reply(Shell, "ok", TRUE)
    BY <1>12 DEF RememberLesson, ApplyLesson
  <2>2. PICK n \in Nat : AddsAt(n, "semantic", req[Shell].text, req[Shell].task)
    BY <1>4, <2>1, MemoryLinks
  <2>3. Reports' = Reports /\ LessonKept'
    BY <1>3, <1>4, <2>2, MemoryAdded
  <2>4. Crowded(x) => Crowded(x)'
    BY <1>4, <2>2, CrowdStays
  <2>5. /\ pc'[Shell] = "idle" /\ Pending = 0 /\ Pending' = 0
        /\ MinEpisodes < Done /\ ~Crowded(x)' => ActsOnLesson'
    BY <1>10, <2>1, <2>4
  <2> QED
    BY <1>2, <1>3, <1>5, <2>3, <2>5
<1> QED
  BY <1>1, <1>7, <1>8, <1>9, <1>11, <1>12 DEF Step

LEMMA DemoStep ==
    ASSUME CommandsInv, OneClass, DemoSuffices, TextsFrom(LessonTexts), DemoInv,
           [CommandsNext]_allVars
    PROVE  DemoInv'
<1> USE DEF CommandsInv
<1>1. /\ Len(Seeds) \in Nat /\ Len(Encounters) \in Nat /\ item \in Nat /\ Done \in Int
      /\ MinEpisodes \in Nat /\ 1 <= MinEpisodes
  BY DemoLength, Bounds DEF Done, CommandsTypeOK, DemoSuffices
<1>2. CASE UNCHANGED <<command, item, memories, about, pc, req, answer>>
  <2>1. Reports' = Reports /\ LessonKept' = LessonKept /\ EncounterTexts' = EncounterTexts
    BY <1>2 DEF Reports, LessonKept, EncounterTexts
  <2>2. Done' = Done /\ Current' = Current
    BY <1>2 DEF Done, Current
  <2>3. Crowded(Current)' = Crowded(Current)
    BY <1>2, <2>2 DEF Crowded, Within, Dist
  <2> QED
    BY <1>2, <2>1, <2>2, <2>3 DEF DemoInv, Pending, ActsOnLesson, InProgress
<1>3. CASE command' # "demo"
  BY <1>3 DEF DemoInv
<1>4. CASE ~(1 <= Done')
  BY <1>4 DEF DemoInv
<1>5. CASE StartDemo
  <2>1. item' = 1
    BY <1>5 DEF StartDemo
  <2> QED
    BY <1>1, <1>4, <2>1 DEF Done
<1>6. CASE Seed
  <2>1. item' = item + 1 /\ item <= Len(Seeds)
    BY <1>6, DemoLength DEF Seed, RememberSeed
  <2> QED
    BY <1>1, <1>4, <2>1 DEF Done
<1>7. CASE Encounter
  <2>1. /\ item - Len(Seeds) \in DOMAIN Encounters
        /\ Request(Shell, Encounters[item - Len(Seeds)], item - Len(Seeds))
    BY <1>7 DEF Encounter
  <2>2. PICK i \in DOMAIN Encounters : i = item - Len(Seeds)
    BY <2>1
  <2>3. /\ command = "demo" /\ command' = "demo" /\ item' = item + 1
        /\ pc[Shell] = "idle" /\ pc'[Shell] = "recall" /\ UNCHANGED <<memories, about>>
        /\ req'[Shell].text = Encounters[i].text
        /\ Len(Seeds) + 1 <= item
    BY <1>1, <1>7, <2>1, <2>2, OneWorker, DemoLength
       DEF Encounter, Running, InProgress, Request, Goto, tables, Inv, TypeOK
  <2>4. Done' = Done + 1 /\ 0 <= Done /\ Done' = i
    BY <1>1, <2>2, <2>3 DEF Done
  <2>5. Current' = Encounters[i].text
    BY <2>4 DEF Current
  <2>6. Pending = 0 /\ Pending' = 1
    BY <2>3 DEF Pending
  <2>7. Reports' = Reports /\ LessonKept' = LessonKept
    BY <2>3 DEF Reports, LessonKept, EncounterTexts
  <2>8. Cardinality(Reports) \in Nat
    BY FS_Subset, FS_CardinalityType DEF Reports, Inv, Tables
  <2>9. Done <= Cardinality(Reports)
    BY <1>1, <2>3, <2>4, <2>6, <2>8 DEF DemoInv
  <2>10. MinEpisodes < Done' => LessonKept
    BY <1>1, <2>3, <2>4 DEF DemoInv, InProgress
  <2>11. ActsOnLesson'
    BY <2>3 DEF ActsOnLesson
  <2> QED
    BY <1>1, <2>3, <2>4, <2>5, <2>6, <2>7, <2>8, <2>9, <2>10, <2>11 DEF DemoInv, InProgress
<1>8. CASE HandleStep
  BY <1>8, DemoHandles
<1>9. CASE \/ DemoEnds \/ StartSkills \/ SkillsEnd
           \/ RequestBreaks \/ SeedAckLost \/ CommandBreaks
  BY <1>3, <1>9 DEF DemoEnds, StartSkills, SkillsEnd, RequestBreaks, SeedAckLost,
                    CommandBreaks, Ends
<1>10. ASSUME NEW id \in MemIds, OpenFile(id) PROVE DemoInv'
  BY <1>2, <1>10 DEF OpenFile, agentVars, vars
<1>11. CASE WriteFile \/ UNCHANGED allVars
  BY <1>2, <1>11 DEF WriteFile, agentVars, allVars, vars, cmdVars
<1>12. ASSUME NEW m \in memories, ForgetBetween(m) PROVE DemoInv'
  BY <1>3, <1>12 DEF ForgetBetween, Forget, cmdVars
<1> QED
  BY <1>5, <1>6, <1>7, <1>8, <1>9, <1>10, <1>11, <1>12 DEF CommandsNext

(* "Show the agent learning" (main.go): a demo that ends without an error  *)
(* has decided its last incident from memory, whatever earlier commands,   *)
(* complete or broken off, and the TTL job have left, as long as the demo's*)
(* incidents are of one class and the rows near the last one are no more   *)
(* than RecallLesson fetches.  Nothing is assumed of how many rows there   *)
(* are: those Consolidate fetches may all be of earlier runs and are       *)
(* enough for a lesson all the same, and rows further away cannot crowd    *)
(* the lesson out.                                                         *)
THEOREM DemosEndInMemory ==
    ASSUME OneClass, DemoSuffices
    PROVE  CommandsSpec => DemoEndsInMemory
<1> DEFINE Known == TextsFrom(LessonTexts) /\ LessonInReach /\ DemoInv
<1>1. CommandsInit => Known
  <2> SUFFICES ASSUME CommandsInit PROVE DemoInv
    BY CommandsInitInv
  <2> QED
    BY DEF CommandsInit, DemoInv
<1>2. CommandsInv /\ Known /\ [CommandsNext]_allVars => Known'
  <2>1. LessonTexts' = LessonTexts /\ SignalTexts \subseteq LessonTexts
    BY DEF LessonTexts, SignalTexts
  <2> QED
    BY <2>1, ReachStep, DemoStep
<1>3. CommandsInv /\ Known /\ DemoEnds /\ ~Crowded(Encounters[Len(Encounters)].text)
        => answer[Shell].from_memory
  <2> SUFFICES ASSUME CommandsInv, Known, DemoEnds,
                      ~Crowded(Encounters[Len(Encounters)].text)
               PROVE  answer[Shell].from_memory
    OBVIOUS
  <2>1. /\ command = "demo" /\ pc[Shell] = "idle" /\ Len(Seeds) + Len(Encounters) < item
        /\ Len(Seeds) \in Nat /\ Len(Encounters) \in Nat /\ item \in Nat
        /\ item <= Len(Seeds) + Len(Encounters) + 1 /\ MinEpisodes \in Nat
    BY DemoLength, Bounds
       DEF DemoEnds, Running, InProgress, CommandsInv, CommandsTypeOK
  <2>2. Done = Len(Encounters) /\ MinEpisodes < Done /\ 1 <= Done
    BY <2>1 DEF Done, DemoSuffices
  <2>3. ~Crowded(Current)
    BY <2>2 DEF Current
  <2> QED
    BY <2>1, <2>2, <2>3 DEF DemoInv, ActsOnLesson
<1> HIDE DEF Known
<1>4. CommandsInv /\ Known /\ [CommandsNext]_allVars
        => [DemoEnds /\ ~Crowded(Encounters[Len(Encounters)].text)
              => answer[Shell].from_memory]_allVars
  BY <1>3
<1> QED
  BY <1>1, <1>2, <1>4, CommandsInvariance, PTL DEF CommandsSpec, DemoEndsInMemory

=============================================================================

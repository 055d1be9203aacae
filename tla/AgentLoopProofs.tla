--------------------------- MODULE AgentLoopProofs ---------------------------
(***************************************************************************)
(* Theorems about AgentLoop: for any texts and distances, any thresholds   *)
(* and any number of requests, what Handle relies on between its three     *)
(* transactions; that its steps are steps of AuditLog; and that a lesson   *)
(* is read back as it was written.                                         *)
(***************************************************************************)
EXTENDS AgentLoop, TLAPS, FiniteSetTheorems, SequenceTheorems

-----------------------------------------------------------------------------
(* The inductive invariant.                                                *)

Event == [event : {"act", "episodic", "semantic"}, memory_id : MemIds \cup {NoMemory}]

EventAt(i) == log[Agent][i].event

Tables ==
    /\ tasks \in [TaskIds -> [agent_id : {NoAgent, Agent}, step : Nat]]
    /\ log \in [{Agent} -> Seq(Event)]
    /\ IsFiniteSet(memories)

\* Every memory has its own link, and a lesson stays.
Attested ==
    /\ \A i \in DOMAIN log[Agent] : EventAt(i) # "act" => IdAt(i) \in DOMAIN about
    /\ \A i, j \in DOMAIN log[Agent] :
         EventAt(i) # "act" /\ EventAt(j) # "act" /\ IdAt(i) = IdAt(j) => i = j
    /\ \A m \in memories :
         /\ m = AuditLog!NewMemory(Agent, m.kind, m.id)
         /\ \E i \in Attesting(m.kind) : IdAt(i) = m.id
    /\ \A i \in Attesting("semantic") :
         AuditLog!NewMemory(Agent, "semantic", IdAt(i)) \in memories

\* There are ids for what the requests in progress may still write.
Busy == {w \in Workers : pc[w] # "idle"}
Early == {w \in Workers : pc[w] \in {"recall", "step", "episode"}}

Room == Len(about) + Cardinality(Busy) + Cardinality(Early) <= Cardinality(MemIds)

\* A lesson acted on has been written, and a request in progress has a task.
Requests ==
    \A w \in Workers :
        /\ req[w].lesson \in DOMAIN about \cup {NoMemory}
        /\ pc[w] # "idle" => req[w].task \in TaskIds

\* A task counts what its episodes claim, and without faults no more.
Counted ==
    /\ EpisodeFollowsStep
    /\ faults = 0 => \A t \in TaskIds :
         Cardinality(EpisodesOf(t)) + Cardinality(StepsInProgress(t)) = tasks[t].step

\* Who is about to write a lesson has the experience for it.
Near(text) ==
    {j \in Attesting("episodic") : Distance[about[IdAt(j)].text][text] <= SameIncidentClass}

Experienced ==
    \A w \in Workers : pc[w] = "lesson" => Cardinality(Near(req[w].text)) >= MinEpisodes

\* A lesson that was in reach is found.
Found ==
    \A w \in Workers : known[w] =>
        /\ pc[w] = "recall" => Usable(memories, req[w].text) # {}
        /\ pc[w] \notin {"idle", "recall"} /\ Len(about) <= Candidates
             => req[w].lesson # NoMemory

\* Without overlap, who is about to write a lesson writes the first one.
Serial ==
    ~overlap =>
        /\ \A v, w \in Workers : InProgress(v) /\ InProgress(w) => v = w
        /\ Len(about) <= MinEpisodes + ExtraNeighbours =>
             \A w \in Workers : pc[w] = "lesson" => Lessons(KindOf[req[w].text]) = {}

Inv ==
    /\ TypeOK /\ Tables /\ Attested /\ Room /\ Requests
    /\ Counted
    /\ Experienced /\ LessonHasExperience
    /\ Found /\ LessonStaysInUse
    /\ Serial /\ SerialLessonsUnique

-----------------------------------------------------------------------------
(* A lesson is read back as it was written.                                *)

Phrases ==
    {"escalate", "for", Comma, "truncate WAL and expand the volume before paging",
     "drain the lagging node", "then restart it", "verify quorum", "then rejoin the node"}

\* A remedy is a sequence of phrases.
LEMMA RemediesAreTexts ==
    ASSUME NEW kind
    PROVE  PreferredRemedy(kind) \in Seq(Phrases)
<1>1. CASE kind \in DOMAIN Remedies
  <2>1. kind \in {"disk_pressure", "replication_lag", "node_down"}
    BY <1>1 DEF Remedies
  <2>2. /\ Remedies["disk_pressure"] \in Seq(Phrases)
        /\ Remedies["replication_lag"] \in Seq(Phrases)
        /\ Remedies["node_down"] \in Seq(Phrases)
    BY DEF Remedies, Comma, Phrases
  <2> QED
    BY <1>1, <2>1, <2>2 DEF PreferredRemedy
<1>2. CASE kind \notin DOMAIN Remedies
  BY <1>2 DEF PreferredRemedy, Escalate, Phrases
<1> QED
  BY <1>1, <1>2

LEMMA TextAfterThree ==
    ASSUME NEW S, NEW a \in S, NEW b \in S, NEW c \in S, NEW r \in Seq(S)
    PROVE  LET t == <<a, b, c>> \o r
           IN  /\ t \in Seq(S) /\ Len(t) = 3 + Len(r)
               /\ t[1] = a /\ t[2] = b /\ t[3] = c
               /\ \A i \in 1 .. Len(r) : t[i + 3] = r[i]
<1> DEFINE p == <<a, b, c>>
<1>1. /\ p \in Seq(S) /\ Len(p) = 3
      /\ p[1] = a /\ p[2] = b /\ p[3] = c
  OBVIOUS
<1> HIDE DEF p
<1>2. /\ p \o r \in Seq(S) /\ Len(p \o r) = 3 + Len(r)
      /\ \A i \in 1 .. 3 + Len(r) : (p \o r)[i] = IF i <= 3 THEN p[i] ELSE r[i - 3]
  <2>1. /\ p \o r \in Seq(S) /\ Len(p \o r) = Len(p) + Len(r)
        /\ \A i \in 1 .. Len(p) + Len(r) :
             (p \o r)[i] = IF i <= Len(p) THEN p[i] ELSE r[i - Len(p)]
    BY <1>1, ConcatProperties, Zenon
  <2> QED
    BY <1>1, <2>1, Zenon
<1>3. Len(r) \in Nat
  OBVIOUS
<1>4. ASSUME NEW i \in 1 .. Len(r), NEW j, j = i + 3 PROVE (p \o r)[j] = r[i]
  <2>1. j \in 1 .. 3 + Len(r) /\ ~(j <= 3) /\ j - 3 = i
    BY <1>3, <1>4
  <2> QED
    BY <1>2, <2>1
<1>5. \A i \in 1 .. Len(r) : (p \o r)[i + 3] = r[i]
  BY <1>4
<1>6. (p \o r)[1] = a /\ (p \o r)[2] = b /\ (p \o r)[3] = c
  BY <1>1, <1>2, <1>3
<1> QED
  BY <1>2, <1>5, <1>6 DEF p

\* What Consolidate writes, extractRemedy reads back whole, whatever separators
\* the remedy contains, as long as the kind of incident contains none.
LEMMA ReadBack ==
    ASSUME NEW kind, kind # Comma
    PROVE  ExtractRemedy(LessonText(kind)) = PreferredRemedy(kind)
<1> DEFINE S == Phrases \cup {kind}
           r == PreferredRemedy(kind)
           t == LessonText(kind)
<1>1. r \in Seq(Phrases)
  BY RemediesAreTexts
<1>2. r \in Seq(S) /\ Len(r) \in Nat
  BY <1>1, SeqMonotonic
<1>3. t = <<"for", kind, Comma>> \o r
  BY DEF LessonText
<1>4. "for" \in S /\ kind \in S /\ Comma \in S
  BY DEF Phrases
<1> HIDE DEF r, t, S
<1>5. /\ t \in Seq(S) /\ Len(t) = 3 + Len(r)
      /\ t[1] = "for" /\ t[2] = kind /\ t[3] = Comma
      /\ \A i \in 1 .. Len(r) : t[i + 3] = r[i]
  BY <1>2, <1>3, <1>4, TextAfterThree
<1>6. 3 \in Commas(t) /\ \A i \in Commas(t) : i \in Nat /\ 3 <= i
  <2>1. "for" # Comma
    BY DEF Comma
  <2>2. DOMAIN t = 1 .. 3 + Len(r)
    BY <1>5
  <2> QED
    BY <1>2, <1>5, <2>1, <2>2 DEF Commas
<1>7. Min(Commas(t)) = 3
  BY <1>6 DEF Min
<1>8. ExtractRemedy(t) = SubSeq(t, 4, Len(t))
  BY <1>6, <1>7 DEF ExtractRemedy
<1>9. SubSeq(t, 4, Len(t)) = r
  BY <1>2, <1>5
<1> QED
  BY <1>8, <1>9 DEF r, t
-----------------------------------------------------------------------------
(* What the memories written so far look like.                             *)

LEMMA Bounds ==
    /\ Cardinality(MemIds) \in Nat
    /\ Candidates \in Nat /\ MinEpisodes \in Nat /\ ExtraNeighbours \in Nat /\ MaxFaults \in Nat
<1>1. Cardinality(MemIds) \in Nat
  BY MemIdsAssumption, FS_CardinalityType
<1> QED
  BY <1>1, BoundsAssumption

LEMMA AboutTexts ==
    ASSUME TypeOK, NEW id \in DOMAIN about
    PROVE  about[id].text \in Texts
<1> DEFINE Row == [text : Texts, region : Regions, task : TaskIds \cup {NoTask}]
<1>1. \A row \in Row : row.text \in Texts
  OBVIOUS
<1>2. about \in Seq(Row)
  BY DEF TypeOK
<1> HIDE DEF Row
<1>3. about[id] \in Row
  BY <1>2
<1> QED
  BY <1>1, <1>3

LEMMA Ids ==
    ASSUME TypeOK, Room
    PROVE  /\ Len(about) \in Nat /\ Drawn = 1 .. Len(about)
           /\ Cardinality(Drawn) = Len(about) /\ NewId = Len(about) + 1
           /\ Drawn \subseteq MemIds
<1>1. Len(about) \in Nat /\ Drawn = 1 .. Len(about)
  BY DEF TypeOK, Drawn
<1>2. Cardinality(Drawn) = Len(about)
  <2>1. Cardinality(1 .. Len(about)) = IF 1 > Len(about) THEN 0 ELSE Len(about) - 1 + 1
    BY <1>1, FS_Interval
  <2> QED
    BY <1>1, <2>1
<1>3. Cardinality(Busy) \in Nat /\ Cardinality(Early) \in Nat
  BY WorkersAssumption, FS_Subset, FS_CardinalityType DEF Busy, Early
<1>4. Len(about) <= Cardinality(MemIds)
  BY <1>1, <1>3, Bounds DEF Room
<1>5. Drawn \subseteq MemIds
  BY <1>1, <1>4, Bounds, MemIdsAssumption
<1> QED
  BY <1>1, <1>2, <1>5 DEF NewId

\* Where a memory is to be written there is an id for it.
LEMMA NextId ==
    ASSUME TypeOK, Room, NEW w \in Workers, pc[w] \in {"episode", "lesson"}
    PROVE  NewId \in MemIds
<1>1. IsFiniteSet(Busy) /\ IsFiniteSet(Early) /\ w \in Busy
  BY WorkersAssumption, FS_Subset DEF Busy, Early
<1>2. Cardinality(Busy) \in Nat /\ Cardinality(Early) \in Nat /\ Cardinality(Busy) # 0
  BY <1>1, FS_CardinalityType, FS_EmptySet
<1>3. NewId \in 1 .. Cardinality(MemIds)
  BY <1>2, Ids, Bounds DEF Room
<1> QED
  BY <1>3, MemIdsAssumption

\* The text of a lesson that has been written decides by a whole remedy.
LEMMA DecisionIsAction ==
    ASSUME TypeOK, Requests, NEW w \in Workers
    PROVE  Decision(req[w]) \in Actions
<1>1. req[w].text \in Texts /\ KindOf[req[w].text] \in Kinds
  BY DEF TypeOK, Kinds
<1>2. CASE req[w].lesson = NoMemory
  BY <1>1, <1>2 DEF Decision, Actions
<1>3. CASE req[w].lesson # NoMemory
  <2>1. req[w].lesson \in DOMAIN about
    BY <1>3 DEF Requests
  <2>2. about[req[w].lesson].text \in Texts
    BY <2>1, AboutTexts
  <2>3. /\ KindOf[about[req[w].lesson].text] \in Kinds
        /\ KindOf[about[req[w].lesson].text] # Comma
    BY <2>2, KindsAssumption DEF Kinds
  <2>4. Decision(req[w]) = PreferredRemedy(KindOf[about[req[w].lesson].text])
    BY <1>3, <2>3, ReadBack DEF Decision, Content
  <2> QED
    BY <2>3, <2>4 DEF Actions
<1> QED
  BY <1>2, <1>3

-----------------------------------------------------------------------------
(* What a transaction adds.                                                *)

LEMMA AttestAdds ==
    ASSUME Tables, NEW event \in {"act", "episodic", "semantic"},
           NEW id \in MemIds \cup {NoMemory}, AuditLog!Attest(Agent, event, id)
    PROVE  LET n == Len(log[Agent]) + 1
           IN  /\ log' \in [{Agent} -> Seq(Event)]
               /\ n \notin DOMAIN log[Agent] /\ n \in Nat
               /\ \A i \in DOMAIN log[Agent] : i \in Nat /\ i < n
               /\ DOMAIN log'[Agent] = DOMAIN log[Agent] \cup {n}
               /\ \A i \in DOMAIN log[Agent] : log'[Agent][i] = log[Agent][i]
               /\ log'[Agent][n] = [event |-> event, memory_id |-> id]
<1> DEFINE n == Len(log[Agent]) + 1
           e == [event |-> event, memory_id |-> id]
<1>1. log[Agent] \in Seq(Event) /\ e \in Event
  BY DEF Tables, Event
<1>2. log' = [log EXCEPT ![Agent] = Append(log[Agent], e)]
  BY DEF AuditLog!Attest
<1> HIDE DEF e
<1>3. log'[Agent] = Append(log[Agent], e) /\ log' \in [{Agent} -> Seq(Event)]
  BY <1>1, <1>2 DEF Tables
<1>4. /\ Len(log[Agent]) \in Nat /\ DOMAIN log[Agent] = 1 .. Len(log[Agent])
      /\ DOMAIN Append(log[Agent], e) = 1 .. n
      /\ \A i \in 1 .. Len(log[Agent]) : Append(log[Agent], e)[i] = log[Agent][i]
      /\ Append(log[Agent], e)[n] = e
  BY <1>1
<1> QED
  BY <1>3, <1>4 DEF e

LEMMA StepAdds ==
    ASSUME Tables, NEW w \in Workers, req[w].task \in TaskIds, ApplyStep(w)
    PROVE  /\ tasks' \in [TaskIds -> [agent_id : {NoAgent, Agent}, step : Nat]]
           /\ \A t \in TaskIds :
                tasks'[t].step = tasks[t].step + (IF t = req[w].task THEN 1 ELSE 0)
           /\ AuditLog!Attest(Agent, "act", NoMemory)
           /\ UNCHANGED <<memories, about>>
<1> DEFINE u == req[w].task
           row == AuditLog!Advanced(tasks[u], Agent)
<1>1. tasks' = [tasks EXCEPT ![u] = row]
  BY DEF ApplyStep, AuditLog!RecordStep
<1>2. /\ tasks[u] \in [agent_id : {NoAgent, Agent}, step : Nat]
      /\ row \in [agent_id : {NoAgent, Agent}, step : Nat] /\ row.step = tasks[u].step + 1
  BY DEF Tables, AuditLog!Advanced
<1>3. \A t \in TaskIds : tasks[t].step \in Nat
  BY DEF Tables
<1> HIDE DEF row
<1> QED
  BY <1>1, <1>2, <1>3 DEF Tables, ApplyStep, AuditLog!RecordStep

\* A memory with its link and its text.
Adds(kind, text, task) ==
    /\ memories' = memories \cup {AuditLog!NewMemory(Agent, kind, NewId)}
    /\ IsFiniteSet(memories') /\ memories' \subseteq AuditLog!MemoryRow
    /\ about' \in Seq([text : Texts, region : Regions, task : TaskIds \cup {NoTask}])
    /\ Len(about') = Len(about) + 1 /\ DOMAIN about' = DOMAIN about \cup {NewId}
    /\ NewId \notin DOMAIN about
    /\ \A id \in DOMAIN about : about'[id] = about[id]
    /\ about'[NewId].text = text /\ about'[NewId].task = task
    /\ AuditLog!Attest(Agent, kind, NewId)
    /\ UNCHANGED tasks

LEMMA RememberAdds ==
    ASSUME TypeOK, Tables, Room, NEW text \in Texts, NEW region \in Regions \cup {NoRegion},
           NEW task \in TaskIds \cup {NoTask}, NEW kind \in {"episodic", "semantic"},
           NewId \in MemIds, Remember(kind, text, region, task)
    PROVE  Adds(kind, text, task)
<1> DEFINE row == [text |-> text, region |-> Home(region), task |-> task]
           m == AuditLog!NewMemory(Agent, kind, NewId)
           Row == [text : Texts, region : Regions, task : TaskIds \cup {NoTask}]
<1>1. row \in Row
  <2>1. Home(region) \in Regions
    BY RegionsAssumption DEF Home
  <2> QED
    BY <2>1
<1>2. m \in AuditLog!MemoryRow
  BY DEF AuditLog!NewMemory, AuditLog!MemoryRow, AuditLog!MemoryKinds
<1>3. about' = Append(about, row) /\ memories' = memories \cup {m} /\ UNCHANGED tasks
  BY DEF Remember, AuditLog!Remember
<1>4. row.text = text /\ row.task = task
  OBVIOUS
<1> HIDE DEF row, m, Row
<1>5. about \in Seq(Row)
  BY DEF TypeOK, Row
<1>6. IsFiniteSet(memories') /\ memories' \subseteq AuditLog!MemoryRow
  BY <1>2, <1>3, FS_AddElement DEF Tables, TypeOK
<1>7. /\ about' \in Seq(Row) /\ Len(about') = Len(about) + 1
      /\ DOMAIN about = 1 .. Len(about) /\ DOMAIN about' = 1 .. (Len(about) + 1)
      /\ \A id \in 1 .. Len(about) : about'[id] = about[id]
      /\ about'[Len(about) + 1] = row
  BY <1>1, <1>3, <1>5
<1>8. NewId = Len(about) + 1 /\ Len(about) \in Nat
  BY Ids
<1>9. AuditLog!Attest(Agent, kind, NewId)
  BY DEF Remember, AuditLog!Remember
<1> QED
  BY <1>3, <1>4, <1>6, <1>7, <1>8, <1>9 DEF m, Row, Adds

-----------------------------------------------------------------------------
(* Types.                                                                  *)

\* The four tables and the five other variables of a state.
TableTypes ==
    /\ memories \subseteq AuditLog!MemoryRow
    /\ about \in Seq([text : Texts, region : Regions, task : TaskIds \cup {NoTask}])
    /\ Tables

RequestTypes ==
    /\ pc \in [Workers -> {"idle", "recall", "step", "episode", "consolidate", "lesson"}]
    /\ req \in [Workers -> [text : Texts, region : Regions \cup {NoRegion},
                            task : TaskIds \cup {NoTask}, lesson : MemIds \cup {NoMemory}]]
    /\ answer \in [Workers -> [status : {"none", "ok", "error"}, action : Actions,
                               from_memory : BOOLEAN, learned : BOOLEAN]]
    /\ faults \in 0 .. MaxFaults
    /\ known \in [Workers -> BOOLEAN] /\ overlap \in BOOLEAN

LEMMA TypesSplit == TypeOK /\ Tables <=> TableTypes /\ RequestTypes
<1>1. TypeOK /\ Tables => TableTypes /\ RequestTypes
  BY DEF TypeOK, TableTypes, RequestTypes
<1>2. ASSUME TableTypes, RequestTypes PROVE TypeOK
  <2>1. \A t \in TaskIds : tasks[t].step \in Nat
    BY <1>2 DEF TableTypes, Tables
  <2>2. \A i \in DOMAIN log[Agent] : log[Agent][i].memory_id \in MemIds \cup {NoMemory}
    <3>1. log[Agent] \in Seq(Event)
      BY <1>2 DEF TableTypes, Tables
    <3>2. \A i \in DOMAIN log[Agent] : log[Agent][i] \in Event
      BY <3>1
    <3> QED
      BY <3>2 DEF Event
  <2> QED
    BY <1>2, <2>1, <2>2 DEF TypeOK, TableTypes, RequestTypes
<1> QED
  BY <1>1, <1>2 DEF TableTypes

LEMMA NoRequestType ==
    NoRequest \in [text : Texts, region : Regions \cup {NoRegion},
                   task : TaskIds \cup {NoTask}, lesson : MemIds \cup {NoMemory}]
<1>1. (CHOOSE x \in Texts : TRUE) \in Texts
  BY KindsAssumption
<1> QED
  BY <1>1 DEF NoRequest

LEMMA SilentType ==
    /\ Silent \in [status : {"none", "ok", "error"}, action : Actions,
                   from_memory : BOOLEAN, learned : BOOLEAN]
    /\ NoAction \in Actions
BY DEF Silent, Actions

\* The end of a request.
LEMMA ReplyTypes ==
    ASSUME TypeOK, Requests, NEW w \in Workers, NEW status \in {"ok", "error"},
           NEW learned \in BOOLEAN, Reply(w, status, learned)
    PROVE  /\ pc' = [pc EXCEPT ![w] = "idle"]
           /\ req' = [req EXCEPT ![w] = NoRequest]
           /\ answer' \in [Workers -> [status : {"none", "ok", "error"}, action : Actions,
                                       from_memory : BOOLEAN, learned : BOOLEAN]]
           /\ \A v \in Workers \ {w} : answer'[v] = answer[v]
           /\ answer'[w].status = status
           /\ answer'[w].from_memory = (req[w].lesson # NoMemory)
<1> DEFINE action == IF status = "ok" THEN Decision(req[w]) ELSE NoAction
           memory == req[w].lesson # NoMemory
           told == [status |-> status, action |-> action, from_memory |-> memory,
                    learned |-> learned]
<1>1. pc' = [pc EXCEPT ![w] = "idle"] /\ req' = [req EXCEPT ![w] = NoRequest]
  BY DEF Reply, Goto
<1>2. answer' = [answer EXCEPT ![w] = told]
  BY DEF Reply
<1>3. action \in Actions /\ memory \in BOOLEAN
  BY DecisionIsAction, SilentType
<1> HIDE DEF action, memory
<1>4. told \in [status : {"none", "ok", "error"}, action : Actions,
                from_memory : BOOLEAN, learned : BOOLEAN]
  BY <1>3
<1>5. told.status = status /\ told.from_memory = memory
  OBVIOUS
<1> HIDE DEF told
<1>6. answer \in [Workers -> [status : {"none", "ok", "error"}, action : Actions,
                              from_memory : BOOLEAN, learned : BOOLEAN]]
  BY DEF TypeOK
<1> QED
  BY <1>1, <1>2, <1>4, <1>5, <1>6 DEF memory

\* The types after a step: of the tables, then of the requests.
LEMMA RememberTypes ==
    ASSUME TypeOK, Tables, Room, NEW text \in Texts, NEW region \in Regions \cup {NoRegion},
           NEW task \in TaskIds \cup {NoTask}, NEW kind \in {"episodic", "semantic"},
           NewId \in MemIds, Remember(kind, text, region, task)
    PROVE  TableTypes' /\ DOMAIN about \subseteq DOMAIN about'
<1>1. Adds(kind, text, task)
  BY RememberAdds
<1>2. log' \in [{Agent} -> Seq(Event)]
  BY <1>1, AttestAdds DEF Adds
<1> QED
  BY <1>1, <1>2 DEF TableTypes, Tables, Adds

LEMMA TablesStep ==
    ASSUME Inv, [Next]_vars
    PROVE  TableTypes' /\ DOMAIN about \subseteq DOMAIN about'
<1> USE TypesSplit DEF Inv
<1>1. ASSUME UNCHANGED tables PROVE TableTypes' /\ DOMAIN about \subseteq DOMAIN about'
  BY <1>1 DEF tables, TableTypes, Tables
<1>2. ASSUME NEW w \in Workers, ApplyStep(w)
      PROVE  TableTypes' /\ DOMAIN about \subseteq DOMAIN about'
  <2>1. req[w].task \in TaskIds
    BY <1>2 DEF Requests, ApplyStep
  <2>2. AuditLog!Attest(Agent, "act", NoMemory) /\ UNCHANGED <<memories, about>>
    BY <1>2, <2>1, StepAdds
  <2>3. log' \in [{Agent} -> Seq(Event)]
    BY <2>2, AttestAdds
  <2>4. tasks' \in [TaskIds -> [agent_id : {NoAgent, Agent}, step : Nat]]
    BY <1>2, <2>1, StepAdds
  <2> QED
    BY <2>2, <2>3, <2>4 DEF TableTypes, Tables
<1>3. ASSUME NEW w \in Workers, ApplyEpisode(w) \/ ApplyLesson(w)
      PROVE  TableTypes' /\ DOMAIN about \subseteq DOMAIN about'
  <2>1. PICK kind \in {"episodic", "semantic"} :
             pc[w] \in {"episode", "lesson"} /\ ApplyRemember(w, kind)
    BY <1>3 DEF ApplyEpisode, ApplyLesson
  <2>2. NewId \in MemIds /\ req[w].task \in TaskIds
    BY <2>1, NextId DEF Requests
  <2>3. req[w].text \in Texts /\ req[w].region \in Regions \cup {NoRegion}
    BY DEF TypeOK
  <2> QED
    BY <2>1, <2>2, <2>3, RememberTypes DEF ApplyRemember
<1>4. ASSUME NEW m \in memories, Forget(m)
      PROVE  TableTypes' /\ DOMAIN about \subseteq DOMAIN about'
  <2>1. memories' = memories \ {m} /\ UNCHANGED <<tasks, log, about>>
    BY <1>4 DEF Forget, AuditLog!Forget
  <2>2. IsFiniteSet(memories')
    BY <2>1, FS_RemoveElement DEF Tables
  <2> QED
    BY <2>1, <2>2 DEF TableTypes, Tables
<1>5. CASE \E w \in Workers, x \in Signals, t \in TaskIds : Request(w, x, t)
  BY <1>1, <1>5 DEF Request
<1>6. CASE \E w \in Workers : RecallLesson(w) \/ Consolidate(w) \/ Fail(w)
  BY <1>1, <1>6 DEF RecallLesson, Consolidate, Fail
<1>7. CASE \E w \in Workers : RecordStep(w)
  BY <1>2, <1>7 DEF RecordStep
<1>8. CASE \E w \in Workers : RememberEpisode(w) \/ RememberLesson(w)
  BY <1>3, <1>8 DEF RememberEpisode, RememberLesson
<1>9. CASE \E w \in Workers : CommitAckLost(w)
  BY <1>2, <1>3, <1>9 DEF CommitAckLost
<1>10. CASE Restart \/ UNCHANGED vars
  BY <1>1, <1>10 DEF Restart, vars, tables
<1> QED
  BY <1>4, <1>5, <1>6, <1>7, <1>8, <1>9, <1>10 DEF Next, Step

LEMMA RecallLessonGives ==
    ASSUME Inv, NEW w \in Workers, NEW id \in Recallable(req[w])
    PROVE  id \in DOMAIN about \cup {NoMemory}
<1>1. ASSUME NEW s, s \subseteq memories, NEW m \in Closest(Preferred(s, req[w]), req[w].text)
      PROVE  m.id \in DOMAIN about
  <2>1. m \in memories
    BY <1>1 DEF Closest, Preferred, Usable
  <2>2. PICK i \in Attesting(m.kind) : IdAt(i) = m.id
    BY <2>1 DEF Inv, Attested
  <2>3. m.kind # "act"
    BY <2>1 DEF Inv, TypeOK, AuditLog!MemoryRow, AuditLog!MemoryKinds
  <2> QED
    BY <2>2, <2>3 DEF Inv, Attested, Attesting, EventAt
<1>2. \A s \in Nearest(req[w].text, Candidates) : s \subseteq memories
  BY DEF Nearest, Within, kSubset
<1> QED
  BY <1>1, <1>2 DEF Recallable

LEMMA RequestsStep ==
    ASSUME Inv, [Next]_vars
    PROVE  RequestTypes' /\ Requests'
<1> USE DEF Inv
<1>1. RequestTypes /\ TypeOK /\ Requests
  BY TypesSplit
<1>2. DOMAIN about \subseteq DOMAIN about'
  BY TablesStep
<1>3. ASSUME NEW w \in Workers, NEW l \in {"step", "episode", "consolidate", "lesson"},
             pc[w] # "idle", pc' = [pc EXCEPT ![w] = l],
             UNCHANGED <<req, answer, faults, known, overlap>>
      PROVE  RequestTypes' /\ Requests'
  BY <1>1, <1>2, <1>3 DEF RequestTypes, Requests
<1>4. ASSUME NEW w \in Workers, NEW status \in {"ok", "error"}, NEW learned \in BOOLEAN,
             Reply(w, status, learned), faults' \in 0 .. MaxFaults,
             UNCHANGED <<known, overlap>>
      PROVE  RequestTypes' /\ Requests'
  <2>1. /\ pc' = [pc EXCEPT ![w] = "idle"] /\ req' = [req EXCEPT ![w] = NoRequest]
        /\ answer' \in [Workers -> [status : {"none", "ok", "error"}, action : Actions,
                                    from_memory : BOOLEAN, learned : BOOLEAN]]
    BY <1>1, <1>4, ReplyTypes
  <2>2. NoRequest.lesson = NoMemory
    BY DEF NoRequest
  <2>3. RequestTypes'
    BY <1>1, <1>4, <2>1, NoRequestType DEF RequestTypes
  <2>4. Requests'
    BY <1>1, <1>2, <2>1, <2>2 DEF RequestTypes, Requests
  <2> QED
    BY <2>3, <2>4
<1>5. ASSUME Fault PROVE faults' \in 0 .. MaxFaults
  BY <1>1, <1>5, Bounds DEF Fault, RequestTypes
<1>6. faults \in 0 .. MaxFaults
  BY <1>1 DEF RequestTypes
<1>7. ASSUME NEW w \in Workers, NEW x \in Signals, NEW t \in TaskIds, Request(w, x, t)
      PROVE  RequestTypes' /\ Requests'
  <2> DEFINE r == [text |-> x.text, region |-> x.region, task |-> t, lesson |-> NoMemory]
  <2>1. /\ r \in [text : Texts, region : Regions \cup {NoRegion},
                  task : TaskIds \cup {NoTask}, lesson : MemIds \cup {NoMemory}]
        /\ r.lesson = NoMemory /\ r.task = t
    BY SignalsAssumption
  <2>2. /\ pc' = [pc EXCEPT ![w] = "recall"] /\ req' = [req EXCEPT ![w] = r]
        /\ answer' = [answer EXCEPT ![w] = Silent] /\ UNCHANGED faults
    BY <1>7 DEF Request, Goto
  <2>3. known' \in [Workers -> BOOLEAN]
    BY <1>1, <1>7 DEF Request, RequestTypes
  <2>4. overlap' \in BOOLEAN
    BY <1>1, <1>7 DEF Request, RequestTypes
  <2> HIDE DEF r
  <2>5. RequestTypes'
    BY <1>1, <2>1, <2>2, <2>3, <2>4, SilentType DEF RequestTypes
  <2>6. Requests'
    BY <1>1, <1>2, <2>1, <2>2 DEF RequestTypes, Requests
  <2> QED
    BY <2>5, <2>6
<1>8. ASSUME NEW w \in Workers, RecallLesson(w) PROVE RequestTypes' /\ Requests'
  <2>1. PICK id \in Recallable(req[w]) : req' = [req EXCEPT ![w].lesson = id]
    BY <1>8 DEF RecallLesson
  <2>2. id \in DOMAIN about \cup {NoMemory}
    BY <2>1, RecallLessonGives
  <2>3. id \in MemIds \cup {NoMemory}
    BY <2>2, Ids DEF Drawn
  <2>4. /\ pc[w] = "recall" /\ pc' = [pc EXCEPT ![w] = "step"]
        /\ UNCHANGED <<answer, faults, known, overlap>>
    BY <1>8 DEF RecallLesson, Goto
  <2>5. RequestTypes'
    <3> DEFINE R == [text : Texts, region : Regions \cup {NoRegion},
                     task : TaskIds \cup {NoTask}, lesson : MemIds \cup {NoMemory}]
    <3>1. req \in [Workers -> R]
      BY <1>1 DEF RequestTypes
    <3>2. req' \in [Workers -> R]
      BY <2>1, <2>3, <3>1
    <3>3. pc' \in [Workers -> {"idle", "recall", "step", "episode", "consolidate", "lesson"}]
      BY <1>1, <2>4 DEF RequestTypes
    <3> QED
      BY <1>1, <2>4, <3>2, <3>3 DEF RequestTypes
  <2>6. Requests'
    <3>1. \A v \in Workers :
            /\ v # w => UNCHANGED <<pc[v], req[v]>>
            /\ v = w => req'[v].lesson = id /\ req'[v].task = req[v].task /\ pc[v] # "idle"
      BY <1>1, <2>1, <2>4 DEF RequestTypes
    <3> QED
      BY <1>1, <1>2, <2>2, <3>1 DEF Requests
  <2> QED
    BY <2>5, <2>6
<1>9. ASSUME NEW w \in Workers, RecordStep(w) \/ RememberEpisode(w)
      PROVE  RequestTypes' /\ Requests'
  BY <1>3, <1>9 DEF RecordStep, ApplyStep, RememberEpisode, ApplyEpisode, Goto
<1>10. ASSUME NEW w \in Workers, Consolidate(w) PROVE RequestTypes' /\ Requests'
  <2>1. CASE Goto(w, "lesson") /\ UNCHANGED <<req, answer>>
    BY <1>3, <1>10, <2>1 DEF Consolidate, Goto
  <2>2. CASE Reply(w, "ok", FALSE)
    BY <1>4, <1>6, <1>10, <2>2 DEF Consolidate
  <2> QED
    BY <1>10, <2>1, <2>2 DEF Consolidate
<1>11. ASSUME NEW w \in Workers, RememberLesson(w) PROVE RequestTypes' /\ Requests'
  BY <1>4, <1>6, <1>11 DEF RememberLesson
<1>12. ASSUME NEW w \in Workers, Fail(w) \/ CommitAckLost(w)
       PROVE  RequestTypes' /\ Requests'
  BY <1>4, <1>5, <1>12 DEF Fail, CommitAckLost
<1>13. CASE Restart
  <2>1. /\ pc' = [w \in Workers |-> "idle"] /\ req' = [w \in Workers |-> NoRequest]
        /\ answer' = [w \in Workers |->
                        IF InProgress(w) THEN [Silent EXCEPT !.status = "error"]
                        ELSE answer[w]]
        /\ faults' \in 0 .. MaxFaults /\ UNCHANGED <<known, overlap>>
    BY <1>5, <1>13 DEF Restart
  <2>2. [Silent EXCEPT !.status = "error"] \in
            [status : {"none", "ok", "error"}, action : Actions,
             from_memory : BOOLEAN, learned : BOOLEAN]
    BY SilentType DEF Silent
  <2>3. NoRequest.lesson = NoMemory
    BY DEF NoRequest
  <2>4. RequestTypes'
    BY <1>1, <2>1, <2>2, NoRequestType DEF RequestTypes
  <2>5. Requests'
    BY <2>1, <2>3 DEF Requests
  <2> QED
    BY <2>4, <2>5
<1>14. CASE UNCHANGED vars \/ \E m \in memories : Forget(m)
  <2>1. UNCHANGED <<about, pc, req, answer, faults, known, overlap>>
    BY <1>14 DEF vars, Forget
  <2> QED
    BY <1>1, <2>1 DEF RequestTypes, Requests
<1> QED
  BY <1>7, <1>8, <1>9, <1>10, <1>11, <1>12, <1>13, <1>14 DEF Next, Step

-----------------------------------------------------------------------------
(* Memories and their links.                                               *)

\* What a step does to the tables.
LEMMA TableCases ==
    ASSUME [Next]_vars
    PROVE  \/ UNCHANGED tables
           \/ \E w \in Workers : ApplyStep(w)
           \/ \E w \in Workers : ApplyEpisode(w) \/ ApplyLesson(w)
           \/ \E m \in memories : Forget(m)
BY DEF Next, Step, Request, RecallLesson, RecordStep, RememberEpisode, Consolidate,
       RememberLesson, Fail, CommitAckLost, Restart, vars, tables

\* The links of a step of a task, and of a memory.
LEMMA StepLinks ==
    ASSUME Inv, NEW w \in Workers, ApplyStep(w)
    PROVE  \E n \in Nat :
               /\ n \notin DOMAIN log[Agent] /\ DOMAIN log'[Agent] = DOMAIN log[Agent] \cup {n}
               /\ \A i \in DOMAIN log[Agent] : EventAt(i)' = EventAt(i) /\ IdAt(i)' = IdAt(i)
               /\ log'[Agent][n].event = "act"
               /\ \A kind \in {"episodic", "semantic"} : Attesting(kind)' = Attesting(kind)
               /\ UNCHANGED <<memories, about>>
<1> DEFINE n == Len(log[Agent]) + 1
<1>1. req[w].task \in TaskIds
  BY DEF Inv, Requests, ApplyStep
<1>2. AuditLog!Attest(Agent, "act", NoMemory) /\ UNCHANGED <<memories, about>>
  BY <1>1, StepAdds DEF Inv
<1>3. /\ n \notin DOMAIN log[Agent] /\ DOMAIN log'[Agent] = DOMAIN log[Agent] \cup {n}
      /\ n \in Nat /\ \A i \in DOMAIN log[Agent] : log'[Agent][i] = log[Agent][i]
      /\ log'[Agent][n] = [event |-> "act", memory_id |-> NoMemory]
  BY <1>2, AttestAdds DEF Inv
<1> HIDE DEF n
<1>4. \A kind \in {"episodic", "semantic"} : Attesting(kind)' = Attesting(kind)
  BY <1>3 DEF Attesting
<1>5. \A i \in DOMAIN log[Agent] : EventAt(i)' = EventAt(i) /\ IdAt(i)' = IdAt(i)
  BY <1>3 DEF EventAt, IdAt
<1>6. log'[Agent][n].event = "act"
  BY <1>3
<1> QED
  BY <1>2, <1>3, <1>4, <1>5, <1>6

\* What it adds to the log and to the memories, at one position of the log.
AddsAt(n, kind, text, task) ==
    /\ n \notin DOMAIN log[Agent] /\ DOMAIN log'[Agent] = DOMAIN log[Agent] \cup {n}
    /\ \A i \in DOMAIN log[Agent] : i \in Nat /\ i < n
    /\ \A i \in DOMAIN log[Agent] : EventAt(i)' = EventAt(i) /\ IdAt(i)' = IdAt(i)
    /\ log'[Agent][n].event = kind /\ log'[Agent][n].memory_id = NewId
    /\ \A k \in {"episodic", "semantic"} :
         Attesting(k)' = IF k = kind THEN Attesting(k) \cup {n} ELSE Attesting(k)
    /\ NewId \notin DOMAIN about /\ DOMAIN about' = DOMAIN about \cup {NewId}
    /\ \A id \in DOMAIN about : about'[id] = about[id]
    /\ about'[NewId].text = text /\ about'[NewId].task = task
    /\ memories' = memories \cup {AuditLog!NewMemory(Agent, kind, NewId)}
    /\ Len(about') = Len(about) + 1 /\ UNCHANGED tasks

LEMMA RememberLinks ==
    ASSUME Inv, NEW text \in Texts, NEW region \in Regions \cup {NoRegion},
           NEW task \in TaskIds \cup {NoTask}, NEW kind \in {"episodic", "semantic"},
           NewId \in MemIds, Remember(kind, text, region, task)
    PROVE  \E n \in Nat : AddsAt(n, kind, text, task)
<1> DEFINE n == Len(log[Agent]) + 1
<1>1. Adds(kind, text, task)
  BY RememberAdds DEF Inv
<1>2. /\ n \notin DOMAIN log[Agent] /\ DOMAIN log'[Agent] = DOMAIN log[Agent] \cup {n}
      /\ n \in Nat /\ \A i \in DOMAIN log[Agent] : i \in Nat /\ i < n
      /\ \A i \in DOMAIN log[Agent] : log'[Agent][i] = log[Agent][i]
      /\ log'[Agent][n] = [event |-> kind, memory_id |-> NewId]
  BY <1>1, AttestAdds DEF Inv, Adds
<1> HIDE DEF n
<1>3. \A k \in {"episodic", "semantic"} :
        Attesting(k)' = IF k = kind THEN Attesting(k) \cup {n} ELSE Attesting(k)
  BY <1>2 DEF Attesting
<1>4. \A i \in DOMAIN log[Agent] : EventAt(i)' = EventAt(i) /\ IdAt(i)' = IdAt(i)
  BY <1>2 DEF EventAt, IdAt
<1>5. log'[Agent][n].event = kind /\ log'[Agent][n].memory_id = NewId
  BY <1>2
<1> QED
  BY <1>1, <1>2, <1>3, <1>4, <1>5 DEF Adds, AddsAt

LEMMA MemoryLinks ==
    ASSUME Inv, NEW w \in Workers, NEW kind \in {"episodic", "semantic"},
           pc[w] \in {"episode", "lesson"}, ApplyRemember(w, kind)
    PROVE  NewId \in MemIds /\ \E n \in Nat : AddsAt(n, kind, req[w].text, req[w].task)
<1>1. req[w].task \in TaskIds /\ NewId \in MemIds
  BY NextId DEF Inv, Requests
<1>2. req[w].text \in Texts /\ req[w].region \in Regions \cup {NoRegion}
  BY DEF Inv, TypeOK
<1>3. Remember(kind, req[w].text, req[w].region, req[w].task)
  BY DEF ApplyRemember
<1> QED
  BY <1>1, <1>2, <1>3, RememberLinks

\* A new memory and its link attest to each other and to nothing else.
LEMMA RememberAttested ==
    ASSUME Inv, NEW text \in Texts, NEW region \in Regions \cup {NoRegion},
           NEW task \in TaskIds \cup {NoTask}, NEW kind \in {"episodic", "semantic"},
           NewId \in MemIds, Remember(kind, text, region, task)
    PROVE  Attested'
<1> USE DEF Inv
<1> DEFINE new == AuditLog!NewMemory(Agent, kind, NewId)
<1>1. PICK n \in Nat :
        /\ n \notin DOMAIN log[Agent] /\ DOMAIN log'[Agent] = DOMAIN log[Agent] \cup {n}
        /\ \A i \in DOMAIN log[Agent] : EventAt(i)' = EventAt(i) /\ IdAt(i)' = IdAt(i)
        /\ log'[Agent][n].event = kind /\ log'[Agent][n].memory_id = NewId
        /\ \A k \in {"episodic", "semantic"} :
             Attesting(k)' = IF k = kind THEN Attesting(k) \cup {n} ELSE Attesting(k)
        /\ NewId \notin DOMAIN about /\ DOMAIN about' = DOMAIN about \cup {NewId}
        /\ memories' = memories \cup {new}
  <2>1. PICK n \in Nat : AddsAt(n, kind, text, task)
    BY RememberLinks
  <2> QED
    BY <2>1 DEF AddsAt
<1>2. /\ \A m \in memories : m.kind \in {"episodic", "semantic"}
      /\ \A k \in {"episodic", "semantic"} : Attesting(k) \subseteq DOMAIN log[Agent]
  BY DEF Attesting, TypeOK, AuditLog!MemoryRow, AuditLog!MemoryKinds
<1>3. new.kind = kind /\ new.id = NewId /\ new = AuditLog!NewMemory(Agent, new.kind, new.id)
  BY DEF AuditLog!NewMemory
<1> HIDE DEF new
<1>4. \A i \in DOMAIN log'[Agent] : EventAt(i)' # "act" => IdAt(i)' \in DOMAIN about'
  BY <1>1 DEF Attested, EventAt, IdAt
<1>5. \A i, j \in DOMAIN log'[Agent] :
        EventAt(i)' # "act" /\ EventAt(j)' # "act" /\ IdAt(i)' = IdAt(j)' => i = j
  BY <1>1 DEF Attested, EventAt, IdAt
<1>6. \A m \in memories' :
        /\ m = AuditLog!NewMemory(Agent, m.kind, m.id)
        /\ \E i \in Attesting(m.kind)' : IdAt(i)' = m.id
  <2> SUFFICES ASSUME NEW m \in memories'
               PROVE  /\ m = AuditLog!NewMemory(Agent, m.kind, m.id)
                      /\ \E i \in Attesting(m.kind)' : IdAt(i)' = m.id
    OBVIOUS
  <2>1. CASE m = new
    BY <1>1, <1>3, <2>1 DEF IdAt
  <2>2. CASE m \in memories
    BY <1>1, <1>2, <2>2 DEF Attested
  <2> QED
    BY <1>1, <2>1, <2>2
<1>7. \A i \in Attesting("semantic")' :
        AuditLog!NewMemory(Agent, "semantic", IdAt(i)') \in memories'
  BY <1>1, <1>2 DEF Attested, new, IdAt
<1> QED
  BY <1>4, <1>5, <1>6, <1>7 DEF Attested

LEMMA AttestedStep ==
    ASSUME Inv, [Next]_vars
    PROVE  Attested'
<1> USE DEF Inv
<1>1. ASSUME UNCHANGED tables PROVE Attested'
  BY <1>1 DEF tables, Attested, Attesting, EventAt, IdAt
<1>2. ASSUME NEW w \in Workers, ApplyStep(w) PROVE Attested'
  <2>1. \A m \in memories : m.kind \in {"episodic", "semantic"}
    BY DEF TypeOK, AuditLog!MemoryRow, AuditLog!MemoryKinds
  <2>2. PICK n \in Nat :
          /\ n \notin DOMAIN log[Agent] /\ DOMAIN log'[Agent] = DOMAIN log[Agent] \cup {n}
          /\ \A i \in DOMAIN log[Agent] : EventAt(i)' = EventAt(i) /\ IdAt(i)' = IdAt(i)
          /\ log'[Agent][n].event = "act"
          /\ \A kind \in {"episodic", "semantic"} : Attesting(kind)' = Attesting(kind)
          /\ UNCHANGED <<memories, about>>
    BY <1>2, StepLinks
  <2>3. \A kind \in {"episodic", "semantic"} : Attesting(kind) \subseteq DOMAIN log[Agent]
    BY DEF Attesting
  <2> QED
    BY <2>1, <2>2, <2>3 DEF Attested, EventAt, IdAt
<1>3. ASSUME NEW w \in Workers, ApplyEpisode(w) \/ ApplyLesson(w) PROVE Attested'
  <2>1. PICK kind \in {"episodic", "semantic"} :
             pc[w] \in {"episode", "lesson"} /\ ApplyRemember(w, kind)
    BY <1>3 DEF ApplyEpisode, ApplyLesson
  <2>2. NewId \in MemIds /\ req[w].task \in TaskIds
    BY <2>1, NextId DEF Requests
  <2>3. req[w].text \in Texts /\ req[w].region \in Regions \cup {NoRegion}
    BY DEF TypeOK
  <2> QED
    BY <2>1, <2>2, <2>3, RememberAttested DEF ApplyRemember
<1>4. ASSUME NEW m \in memories, Forget(m) PROVE Attested'
  <2>1. m.kind = "episodic" /\ memories' = memories \ {m} /\ UNCHANGED <<log, about>>
    BY <1>4 DEF Forget, AuditLog!Forget
  <2>2. \A id : AuditLog!NewMemory(Agent, "semantic", id) # m
    BY <2>1 DEF AuditLog!NewMemory
  <2> QED
    BY <2>1, <2>2 DEF Attested, Attesting, EventAt, IdAt
<1> QED
  BY <1>1, <1>2, <1>3, <1>4, TableCases

-----------------------------------------------------------------------------
(* Counting.                                                               *)

\* Two sets that differ in one element at most.
LEMMA OneElement ==
    ASSUME NEW S, IsFiniteSet(S), NEW T, NEW w, S \ {w} = T \ {w}
    PROVE  /\ IsFiniteSet(T) /\ Cardinality(S) \in Nat /\ Cardinality(T) \in Nat
           /\ Cardinality(T) = Cardinality(S) + (IF w \in T THEN 1 ELSE 0)
                                              - (IF w \in S THEN 1 ELSE 0)
<1> DEFINE R == S \ {w}
<1>1. IsFiniteSet(R) /\ w \notin R
  BY FS_RemoveElement
<1>2. /\ w \in S => S = R \cup {w}
      /\ w \notin S => S = R
      /\ w \in T => T = R \cup {w}
      /\ w \notin T => T = R
  OBVIOUS
<1> HIDE DEF R
<1>3. IsFiniteSet(R \cup {w}) /\ Cardinality(R \cup {w}) = Cardinality(R) + 1
  BY <1>1, FS_AddElement
<1>4. Cardinality(R) \in Nat
  BY <1>1, FS_CardinalityType
<1>5. /\ IsFiniteSet(S) /\ IsFiniteSet(T)
      /\ Cardinality(S) = IF w \in S THEN Cardinality(R) + 1 ELSE Cardinality(R)
      /\ Cardinality(T) = IF w \in T THEN Cardinality(R) + 1 ELSE Cardinality(R)
  BY <1>1, <1>2, <1>3, Zenon
<1> QED
  BY <1>4, <1>5

\* Where a step takes a request; every step of a request is one of these.
Moves(w, l) == pc' = [pc EXCEPT ![w] = l] /\ \A v \in Workers \ {w} : req'[v] = req[v]

\* What one request's move does to the numbers in Room and Counted.
LEMMA MoveCounts ==
    ASSUME TypeOK, NEW w \in Workers, NEW l, Moves(w, l)
    PROVE  /\ Cardinality(Busy) \in Nat /\ Cardinality(Early) \in Nat
           /\ Cardinality(Busy)' = Cardinality(Busy) + (IF l # "idle" THEN 1 ELSE 0)
                                                     - (IF pc[w] # "idle" THEN 1 ELSE 0)
           /\ Cardinality(Early)' =
                Cardinality(Early)
                  + (IF l \in {"recall", "step", "episode"} THEN 1 ELSE 0)
                  - (IF pc[w] \in {"recall", "step", "episode"} THEN 1 ELSE 0)
           /\ \A t \in TaskIds :
                /\ Cardinality(StepsInProgress(t)) \in Nat
                /\ Cardinality(StepsInProgress(t)') =
                     Cardinality(StepsInProgress(t))
                       + (IF l = "episode" /\ req'[w].task = t THEN 1 ELSE 0)
                       - (IF pc[w] = "episode" /\ req[w].task = t THEN 1 ELSE 0)
<1>1. /\ \A v \in Workers \ {w} : pc'[v] = pc[v]
      /\ pc'[w] = l
      /\ \A v \in Workers \ {w} : req'[v] = req[v]
  BY DEF TypeOK, Moves
<1>2. /\ Busy \ {w} = Busy' \ {w} /\ IsFiniteSet(Busy)
      /\ w \in Busy <=> pc[w] # "idle"
      /\ w \in Busy' <=> l # "idle"
  BY <1>1, WorkersAssumption, FS_Subset DEF Busy
<1>3. /\ Early \ {w} = Early' \ {w} /\ IsFiniteSet(Early)
      /\ w \in Early <=> pc[w] \in {"recall", "step", "episode"}
      /\ w \in Early' <=> l \in {"recall", "step", "episode"}
  BY <1>1, WorkersAssumption, FS_Subset DEF Early
<1>4. ASSUME NEW t \in TaskIds
      PROVE  /\ Cardinality(StepsInProgress(t)) \in Nat
             /\ Cardinality(StepsInProgress(t)') =
                  Cardinality(StepsInProgress(t))
                    + (IF l = "episode" /\ req'[w].task = t THEN 1 ELSE 0)
                    - (IF pc[w] = "episode" /\ req[w].task = t THEN 1 ELSE 0)
  <2>1. /\ StepsInProgress(t) \ {w} = StepsInProgress(t)' \ {w}
        /\ IsFiniteSet(StepsInProgress(t))
        /\ w \in StepsInProgress(t) <=> pc[w] = "episode" /\ req[w].task = t
        /\ w \in StepsInProgress(t)' <=> l = "episode" /\ req'[w].task = t
    BY <1>1, WorkersAssumption, FS_Subset DEF StepsInProgress
  <2> QED
    BY <2>1, OneElement
<1>5. /\ Cardinality(Busy) \in Nat
      /\ Cardinality(Busy') = Cardinality(Busy) + (IF l # "idle" THEN 1 ELSE 0)
                                                - (IF pc[w] # "idle" THEN 1 ELSE 0)
  BY <1>2, OneElement
<1>6. /\ Cardinality(Early) \in Nat
      /\ Cardinality(Early') =
           Cardinality(Early)
             + (IF l \in {"recall", "step", "episode"} THEN 1 ELSE 0)
             - (IF pc[w] \in {"recall", "step", "episode"} THEN 1 ELSE 0)
  BY <1>3, OneElement
<1> QED
  BY <1>4, <1>5, <1>6

LEMMA RequestCounts ==
    ASSUME TypeOK, NEW w \in Workers, NEW l, Moves(w, l)
    PROVE  /\ Cardinality(Busy) \in Nat /\ Cardinality(Early) \in Nat
           /\ Cardinality(Busy)' = Cardinality(Busy) + (IF l # "idle" THEN 1 ELSE 0)
                                                    - (IF pc[w] # "idle" THEN 1 ELSE 0)
           /\ Cardinality(Early)' =
                Cardinality(Early)
                  + (IF l \in {"recall", "step", "episode"} THEN 1 ELSE 0)
                  - (IF pc[w] \in {"recall", "step", "episode"} THEN 1 ELSE 0)
BY MoveCounts

LEMMA RestartCounts ==
    ASSUME Restart
    PROVE  /\ Cardinality(Busy') = 0 /\ Cardinality(Early') = 0
           /\ \A t \in TaskIds : StepsInProgress(t)' = {}
<1>1. Busy' = {} /\ Early' = {} /\ \A t \in TaskIds : StepsInProgress(t)' = {}
  BY DEF Restart, Busy, Early, StepsInProgress
<1> QED
  BY <1>1, FS_EmptySet

LEMMA SameCounts ==
    ASSUME UNCHANGED <<pc, req>>
    PROVE  /\ Busy' = Busy /\ Early' = Early
           /\ \A t \in TaskIds : StepsInProgress(t)' = StepsInProgress(t)
BY DEF Busy, Early, StepsInProgress

LEMMA ReplyMoves ==
    ASSUME TypeOK, NEW w \in Workers, NEW status, NEW learned, Reply(w, status, learned)
    PROVE  Moves(w, "idle")
BY DEF Reply, Goto, Moves, TypeOK

\* The number of episodes of each task.
LEMMA EpisodesFinite ==
    ASSUME Tables, NEW t \in TaskIds
    PROVE  IsFiniteSet(EpisodesOf(t)) /\ Cardinality(EpisodesOf(t)) \in Nat
<1>1. DOMAIN log[Agent] = 1 .. Len(log[Agent]) /\ Len(log[Agent]) \in Nat
  BY DEF Tables
<1>2. IsFiniteSet(DOMAIN log[Agent])
  BY <1>1, FS_Interval
<1>3. IsFiniteSet(EpisodesOf(t))
  BY <1>2, FS_Subset DEF EpisodesOf, Attesting
<1> QED
  BY <1>3, FS_CardinalityType

LEMMA EpisodesStay ==
    ASSUME Inv, NEW t \in TaskIds,
           \/ UNCHANGED tables
           \/ \E w \in Workers : ApplyStep(w) \/ ApplyLesson(w)
           \/ \E m \in memories : Forget(m)
    PROVE  EpisodesOf(t)' = EpisodesOf(t)
<1> USE DEF Inv
<1>1. \A i \in Attesting("episodic") : i \in DOMAIN log[Agent] /\ IdAt(i) \in DOMAIN about
  BY DEF Attested, Attesting, EventAt
<1>2. CASE UNCHANGED <<log, about>>
  BY <1>2 DEF EpisodesOf, Attesting, IdAt
<1>3. ASSUME NEW w \in Workers, ApplyStep(w) PROVE EpisodesOf(t)' = EpisodesOf(t)
  <2>1. /\ \A i \in DOMAIN log[Agent] : IdAt(i)' = IdAt(i)
        /\ Attesting("episodic")' = Attesting("episodic") /\ UNCHANGED about
    BY <1>3, StepLinks
  <2> QED
    BY <1>1, <2>1 DEF EpisodesOf
<1>4. ASSUME NEW w \in Workers, ApplyLesson(w) PROVE EpisodesOf(t)' = EpisodesOf(t)
  <2>1. pc[w] = "lesson" /\ ApplyRemember(w, "semantic")
    BY <1>4 DEF ApplyLesson
  <2>2. /\ \A i \in DOMAIN log[Agent] : IdAt(i)' = IdAt(i)
        /\ Attesting("episodic")' = Attesting("episodic")
        /\ \A id \in DOMAIN about : about'[id] = about[id]
    BY <2>1, MemoryLinks DEF AddsAt
  <2> QED
    BY <1>1, <2>2 DEF EpisodesOf
<1>5. CASE UNCHANGED tables \/ \E m \in memories : Forget(m)
  <2>1. UNCHANGED <<log, about>>
    BY <1>5 DEF tables, Forget, AuditLog!Forget
  <2> QED
    BY <1>2, <2>1
<1> QED
  BY <1>3, <1>4, <1>5

LEMMA EpisodeCounts ==
    ASSUME Inv, NEW w \in Workers, ApplyEpisode(w), NEW t \in TaskIds
    PROVE  Cardinality(EpisodesOf(t)') =
             Cardinality(EpisodesOf(t)) + (IF req[w].task = t THEN 1 ELSE 0)
<1> USE DEF Inv
<1>1. \A i \in Attesting("episodic") : i \in DOMAIN log[Agent] /\ IdAt(i) \in DOMAIN about
  BY DEF Attested, Attesting, EventAt
<1>2. pc[w] = "episode" /\ ApplyRemember(w, "episodic")
  BY DEF ApplyEpisode
<1>3. PICK n \in Nat :
        /\ n \notin DOMAIN log[Agent]
        /\ \A i \in DOMAIN log[Agent] : IdAt(i)' = IdAt(i)
        /\ log'[Agent][n].memory_id = NewId
        /\ Attesting("episodic")' = Attesting("episodic") \cup {n}
        /\ \A id \in DOMAIN about : about'[id] = about[id]
        /\ about'[NewId].task = req[w].task
  BY <1>2, MemoryLinks DEF AddsAt
<1>4. EpisodesOf(t)' = IF req[w].task = t THEN EpisodesOf(t) \cup {n} ELSE EpisodesOf(t)
  BY <1>1, <1>3 DEF EpisodesOf, IdAt
<1>5. n \notin EpisodesOf(t)
  BY <1>1, <1>3 DEF EpisodesOf
<1>6. IsFiniteSet(EpisodesOf(t))
  BY EpisodesFinite
<1>7. Cardinality(EpisodesOf(t) \cup {n}) = Cardinality(EpisodesOf(t)) + 1
  BY <1>5, <1>6, FS_AddElement
<1>8. Cardinality(EpisodesOf(t)) \in Nat
  BY EpisodesFinite
<1> QED
  BY <1>4, <1>7, <1>8

LEMMA RoomStep ==
    ASSUME Inv, [Next]_vars
    PROVE  Room'
<1> USE DEF Inv
<1>1. Len(about) \in Nat /\ Cardinality(Busy) \in Nat /\ Cardinality(Early) \in Nat
  BY Ids, WorkersAssumption, FS_Subset, FS_CardinalityType DEF Busy, Early
<1>2. ASSUME NEW w \in Workers, NEW x \in Signals, NEW t \in TaskIds, Request(w, x, t)
      PROVE  Room'
  <2>1. Moves(w, "recall") /\ pc[w] = "idle" /\ UNCHANGED about
    BY <1>2 DEF Request, Goto, Moves, InProgress, tables, TypeOK
  <2>2. /\ Cardinality(Busy)' = Cardinality(Busy) + 1
        /\ Cardinality(Early)' = Cardinality(Early) + 1
    BY <1>1, <2>1, RequestCounts
  <2>3. Cardinality(Early) <= Cardinality(Busy)
    BY WorkersAssumption, FS_Subset DEF Busy, Early
  <2>4. Len(about) + 1 + 2 * Cardinality(Busy) + 1 <= Cardinality(MemIds)
    <3>1. {v \in Workers : InProgress(v)} = Busy
      BY DEF InProgress, Busy
    <3> QED
      BY <1>2, <3>1, Ids DEF Request
  <2> QED
    BY <1>1, <2>1, <2>2, <2>3, <2>4, Bounds DEF Room
<1>3. ASSUME NEW w \in Workers, RecallLesson(w) \/ RecordStep(w) PROVE Room'
  <2>1. PICK l \in {"step", "episode"} :
             /\ Moves(w, l) /\ pc[w] \in {"recall", "step"} /\ UNCHANGED about
    BY <1>3 DEF RecallLesson, RecordStep, ApplyStep, Goto, Moves, tables, TypeOK
  <2>2. Cardinality(Busy)' = Cardinality(Busy) /\ Cardinality(Early)' = Cardinality(Early)
    BY <1>1, <2>1, RequestCounts
  <2> QED
    BY <2>1, <2>2 DEF Room
<1>4. ASSUME NEW w \in Workers, ApplyEpisode(w), Moves(w, "consolidate") \/ Moves(w, "idle")
      PROVE  Room'
  <2>1. pc[w] = "episode" /\ Len(about') = Len(about) + 1
    BY <1>4, MemoryLinks DEF ApplyEpisode, AddsAt
  <2>2. /\ Cardinality(Busy)' <= Cardinality(Busy)
        /\ Cardinality(Early)' = Cardinality(Early) - 1
        /\ Cardinality(Busy)' \in Int
    <3>1. CASE Moves(w, "consolidate")
      BY <1>1, <2>1, <3>1, RequestCounts
    <3>2. CASE Moves(w, "idle")
      BY <1>1, <2>1, <3>2, RequestCounts
    <3> QED
      BY <1>4, <3>1, <3>2
  <2> QED
    BY <1>1, <2>1, <2>2, Bounds DEF Room
<1>5. ASSUME NEW w \in Workers, ApplyLesson(w), Moves(w, "idle") PROVE Room'
  <2>1. pc[w] = "lesson" /\ Len(about') = Len(about) + 1
    BY <1>5, MemoryLinks DEF ApplyLesson, AddsAt
  <2>2. /\ Cardinality(Busy)' = Cardinality(Busy) - 1
        /\ Cardinality(Early)' = Cardinality(Early)
    BY <1>1, <1>5, <2>1, RequestCounts
  <2> QED
    BY <1>1, <2>1, <2>2, Bounds DEF Room
<1>6. ASSUME NEW w \in Workers, NEW l \in {"idle", "lesson"}, Moves(w, l),
             pc[w] # "idle", UNCHANGED about
      PROVE  Room'
  <2>1. /\ Cardinality(Busy)' <= Cardinality(Busy) /\ Cardinality(Busy)' \in Int
        /\ Cardinality(Early)' <= Cardinality(Early) /\ Cardinality(Early)' \in Int
    BY <1>1, <1>6, RequestCounts
  <2> QED
    BY <1>1, <1>6, <2>1, Bounds DEF Room
<1>7. ASSUME NEW w \in Workers, RememberEpisode(w) PROVE Room'
  BY <1>4, <1>7 DEF RememberEpisode, Goto, Moves
<1>8. ASSUME NEW w \in Workers, Consolidate(w) PROVE Room'
  <2>1. pc[w] = "consolidate" /\ UNCHANGED about
    BY <1>8 DEF Consolidate, tables
  <2>2. PICK l \in {"idle", "lesson"} : Moves(w, l)
    BY <1>8, ReplyMoves DEF Consolidate, Goto, Moves
  <2> QED
    BY <1>6, <2>1, <2>2
<1>9. ASSUME NEW w \in Workers, RememberLesson(w) PROVE Room'
  BY <1>5, <1>9, ReplyMoves DEF RememberLesson
<1>10. ASSUME NEW w \in Workers, Fail(w) PROVE Room'
  <2>1. pc[w] # "idle" /\ UNCHANGED about
    BY <1>10 DEF Fail, InProgress, tables
  <2>2. Moves(w, "idle")
    BY <1>10, ReplyMoves DEF Fail
  <2> QED
    BY <1>6, <2>1, <2>2
<1>11. ASSUME NEW w \in Workers, CommitAckLost(w) PROVE Room'
  <2>1. Moves(w, "idle")
    BY <1>11, ReplyMoves DEF CommitAckLost
  <2>2. CASE ApplyStep(w)
    <3>1. pc[w] # "idle" /\ UNCHANGED about
      BY <2>2 DEF ApplyStep
    <3> QED
      BY <1>6, <2>1, <3>1
  <2> QED
    BY <1>4, <1>5, <1>11, <2>1, <2>2 DEF CommitAckLost
<1>12. CASE Restart
  <2>1. UNCHANGED about
    BY <1>12 DEF Restart, tables
  <2> QED
    BY <1>1, <1>12, <2>1, RestartCounts, Bounds DEF Room
<1>13. CASE UNCHANGED vars \/ \E m \in memories : Forget(m)
  <2>1. UNCHANGED <<about, pc, req>>
    BY <1>13 DEF vars, Forget
  <2> QED
    BY <2>1, SameCounts DEF Room
<1> QED
  BY <1>2, <1>3, <1>7, <1>8, <1>9, <1>10, <1>11, <1>12, <1>13 DEF Next, Step

\* The number of steps and of episodes of each task, and of those to come.
LEMMA CountedStep ==
    ASSUME Inv, [Next]_vars
    PROVE  Counted'
<1> USE DEF Inv
<1> DEFINE Sum(t) == Cardinality(EpisodesOf(t)) + Cardinality(StepsInProgress(t))
<1>1. \A t \in TaskIds :
        /\ tasks[t].step \in Nat /\ Cardinality(EpisodesOf(t)) \in Nat
        /\ IsFiniteSet(StepsInProgress(t)) /\ Cardinality(StepsInProgress(t)) \in Nat
        /\ Sum(t) <= tasks[t].step
        /\ faults = 0 => Sum(t) = tasks[t].step
  BY EpisodesFinite, WorkersAssumption, FS_Subset, FS_CardinalityType
     DEF Counted, EpisodeFollowsStep, StepsInProgress, TypeOK
<1>2. ASSUME \A t \in TaskIds :
               /\ Sum(t)' <= tasks'[t].step
               /\ faults' = 0 => Sum(t)' = tasks'[t].step
      PROVE  Counted'
  BY <1>2 DEF Counted, EpisodeFollowsStep
<1>3. ASSUME Fault PROVE faults' # 0
  BY <1>3 DEF Fault, TypeOK
\* Steps after which there are as many steps and episodes as before.
<1>4. ASSUME NEW w \in Workers, NEW l, Moves(w, l), l # "episode",
             UNCHANGED tasks, \A t \in TaskIds : EpisodesOf(t)' = EpisodesOf(t),
             pc[w] = "episode" => faults' # 0, faults' = 0 => faults = 0
      PROVE  Counted'
  <2> SUFFICES ASSUME NEW t \in TaskIds
               PROVE  /\ Sum(t)' <= tasks'[t].step
                      /\ faults' = 0 => Sum(t)' = tasks'[t].step
    BY <1>2
  <2>1. Cardinality(StepsInProgress(t)') =
          Cardinality(StepsInProgress(t))
            - (IF pc[w] = "episode" /\ req[w].task = t THEN 1 ELSE 0)
    <3>1. Cardinality(StepsInProgress(t)') =
            Cardinality(StepsInProgress(t))
              + (IF l = "episode" /\ req'[w].task = t THEN 1 ELSE 0)
              - (IF pc[w] = "episode" /\ req[w].task = t THEN 1 ELSE 0)
      BY <1>4, MoveCounts
    <3> QED
      BY <1>1, <1>4, <3>1
  <2> QED
    BY <1>1, <1>4, <2>1
\* A step of a task.
<1>5. ASSUME NEW w \in Workers, NEW l, Moves(w, l), ApplyStep(w),
             \/ l = "episode" /\ UNCHANGED <<req, faults>>
             \/ l = "idle" /\ faults' # 0
      PROVE  Counted'
  <2> SUFFICES ASSUME NEW t \in TaskIds
               PROVE  /\ Sum(t)' <= tasks'[t].step
                      /\ faults' = 0 => Sum(t)' = tasks'[t].step
    BY <1>2
  <2>1. pc[w] = "step" /\ req[w].task \in TaskIds
    BY <1>5 DEF ApplyStep, Requests
  <2>2. tasks'[t].step = tasks[t].step + (IF t = req[w].task THEN 1 ELSE 0)
    BY <1>5, <2>1, StepAdds
  <2>3. Cardinality(StepsInProgress(t)') =
          Cardinality(StepsInProgress(t))
            + (IF l = "episode" /\ req'[w].task = t THEN 1 ELSE 0)
    <3>1. Cardinality(StepsInProgress(t)') =
            Cardinality(StepsInProgress(t))
              + (IF l = "episode" /\ req'[w].task = t THEN 1 ELSE 0)
              - (IF pc[w] = "episode" /\ req[w].task = t THEN 1 ELSE 0)
      BY <1>5, MoveCounts
    <3> QED
      BY <1>1, <2>1, <3>1
  <2>4. EpisodesOf(t)' = EpisodesOf(t)
    BY <1>5, EpisodesStay
  <2> QED
    BY <1>1, <1>5, <2>2, <2>3, <2>4
\* An episode.
<1>6. ASSUME NEW w \in Workers, NEW l \in {"consolidate", "idle"}, Moves(w, l),
             ApplyEpisode(w), faults' = 0 => faults = 0
      PROVE  Counted'
  <2> SUFFICES ASSUME NEW t \in TaskIds
               PROVE  /\ Sum(t)' <= tasks'[t].step
                      /\ faults' = 0 => Sum(t)' = tasks'[t].step
    BY <1>2
  <2>1. pc[w] = "episode" /\ UNCHANGED tasks
    BY <1>6 DEF ApplyEpisode, ApplyRemember, Remember, AuditLog!Remember
  <2>2. Cardinality(StepsInProgress(t)') =
          Cardinality(StepsInProgress(t)) - (IF req[w].task = t THEN 1 ELSE 0)
    BY <1>1, <1>6, <2>1, MoveCounts
  <2>3. Cardinality(EpisodesOf(t)') =
          Cardinality(EpisodesOf(t)) + (IF req[w].task = t THEN 1 ELSE 0)
    BY <1>6, EpisodeCounts
  <2> QED
    BY <1>1, <1>6, <2>1, <2>2, <2>3
<1>7. ASSUME NEW w \in Workers, NEW x \in Signals, NEW t \in TaskIds, Request(w, x, t)
      PROVE  Counted'
  <2>1. Moves(w, "recall") /\ pc[w] = "idle" /\ UNCHANGED <<tables, faults>>
    BY <1>7 DEF Request, Goto, Moves, InProgress, TypeOK
  <2> QED
    BY <1>4, <2>1, EpisodesStay DEF tables
<1>8. ASSUME NEW w \in Workers, RecallLesson(w) PROVE Counted'
  <2>1. Moves(w, "step") /\ pc[w] = "recall" /\ UNCHANGED <<tables, faults>>
    BY <1>8 DEF RecallLesson, Goto, Moves, TypeOK
  <2> QED
    BY <1>4, <2>1, EpisodesStay DEF tables
<1>9. ASSUME NEW w \in Workers, RecordStep(w) PROVE Counted'
  BY <1>5, <1>9 DEF RecordStep, Goto, Moves
<1>10. ASSUME NEW w \in Workers, RememberEpisode(w) PROVE Counted'
  BY <1>6, <1>10 DEF RememberEpisode, Goto, Moves
<1>11. ASSUME NEW w \in Workers, Consolidate(w) PROVE Counted'
  <2>1. pc[w] = "consolidate" /\ UNCHANGED <<tables, faults>>
    BY <1>11 DEF Consolidate
  <2>2. PICK l \in {"lesson", "idle"} : Moves(w, l)
    BY <1>11, ReplyMoves DEF Consolidate, Goto, Moves
  <2> QED
    BY <1>4, <2>1, <2>2, EpisodesStay DEF tables
<1>12. ASSUME NEW w \in Workers, ApplyLesson(w), Moves(w, "idle"), faults' = 0 => faults = 0
       PROVE  Counted'
  <2>1. pc[w] = "lesson" /\ UNCHANGED tasks
    BY <1>12 DEF ApplyLesson, ApplyRemember, Remember, AuditLog!Remember
  <2> QED
    BY <1>4, <1>12, <2>1, EpisodesStay
<1>13. ASSUME NEW w \in Workers, RememberLesson(w) PROVE Counted'
  BY <1>12, <1>13, ReplyMoves DEF RememberLesson
<1>14. ASSUME NEW w \in Workers, Fail(w) PROVE Counted'
  <2>1. Moves(w, "idle") /\ UNCHANGED tables /\ faults' # 0
    BY <1>3, <1>14, ReplyMoves DEF Fail
  <2> QED
    BY <1>4, <2>1, EpisodesStay DEF tables
<1>15. ASSUME NEW w \in Workers, CommitAckLost(w) PROVE Counted'
  <2>1. Moves(w, "idle") /\ faults' # 0
    BY <1>3, <1>15, ReplyMoves DEF CommitAckLost
  <2> QED
    BY <1>5, <1>6, <1>12, <1>15, <2>1 DEF CommitAckLost
<1>16. CASE Restart
  <2> SUFFICES ASSUME NEW t \in TaskIds
               PROVE  /\ Sum(t)' <= tasks'[t].step
                      /\ faults' = 0 => Sum(t)' = tasks'[t].step
    BY <1>2
  <2>1. StepsInProgress(t)' = {} /\ UNCHANGED tables /\ faults' # 0
    BY <1>3, <1>16, RestartCounts DEF Restart
  <2>2. EpisodesOf(t)' = EpisodesOf(t) /\ tasks' = tasks
    BY <2>1, EpisodesStay DEF tables
  <2> QED
    BY <1>1, <2>1, <2>2, FS_EmptySet
<1>17. CASE UNCHANGED vars \/ \E m \in memories : Forget(m)
  <2> SUFFICES ASSUME NEW t \in TaskIds
               PROVE  /\ Sum(t)' <= tasks'[t].step
                      /\ faults' = 0 => Sum(t)' = tasks'[t].step
    BY <1>2
  <2>1. UNCHANGED <<tasks, pc, req, faults>> /\ (UNCHANGED tables \/ \E m \in memories : Forget(m))
    BY <1>17 DEF vars, tables, Forget, AuditLog!Forget
  <2> QED
    BY <1>1, <2>1, SameCounts, EpisodesStay
<1> QED
  BY <1>7, <1>8, <1>9, <1>10, <1>11, <1>13, <1>14, <1>15, <1>16, <1>17 DEF Next, Step


-----------------------------------------------------------------------------
(* The log and the texts of memories grow.                                 *)

LEMMA LinksGrow ==
    ASSUME Inv, [Next]_vars
    PROVE  /\ \A k \in {"episodic", "semantic"} : Attesting(k) \subseteq Attesting(k)'
           /\ \A i \in DOMAIN log[Agent] : IdAt(i)' = IdAt(i)
           /\ \A id \in DOMAIN about : id \in DOMAIN about' /\ about'[id] = about[id]
           /\ Len(about) \in Nat /\ Len(about') \in Nat /\ Len(about) <= Len(about')
<1> USE DEF Inv
<1>1. ASSUME UNCHANGED <<log, about>>
      PROVE  /\ \A k \in {"episodic", "semantic"} : Attesting(k) \subseteq Attesting(k)'
             /\ \A i \in DOMAIN log[Agent] : IdAt(i)' = IdAt(i)
             /\ \A id \in DOMAIN about : id \in DOMAIN about' /\ about'[id] = about[id]
  BY <1>1 DEF Attesting, IdAt
<1>2. CASE UNCHANGED tables \/ \E m \in memories : Forget(m)
  <2>1. UNCHANGED <<log, about>>
    BY <1>2 DEF tables, Forget, AuditLog!Forget
  <2> QED
    BY <1>1, <2>1, Ids
<1>3. ASSUME NEW w \in Workers, ApplyStep(w)
      PROVE  /\ \A k \in {"episodic", "semantic"} : Attesting(k) \subseteq Attesting(k)'
             /\ \A i \in DOMAIN log[Agent] : IdAt(i)' = IdAt(i)
             /\ UNCHANGED about
  BY <1>3, StepLinks
<1>4. ASSUME NEW w \in Workers, ApplyEpisode(w) \/ ApplyLesson(w)
      PROVE  /\ \A k \in {"episodic", "semantic"} : Attesting(k) \subseteq Attesting(k)'
             /\ \A i \in DOMAIN log[Agent] : IdAt(i)' = IdAt(i)
             /\ \A id \in DOMAIN about : id \in DOMAIN about' /\ about'[id] = about[id]
             /\ Len(about') = Len(about) + 1
  <2>1. PICK kind \in {"episodic", "semantic"} :
             pc[w] \in {"episode", "lesson"} /\ ApplyRemember(w, kind)
    BY <1>4 DEF ApplyEpisode, ApplyLesson
  <2>2. PICK n \in Nat :
          /\ \A i \in DOMAIN log[Agent] : IdAt(i)' = IdAt(i)
          /\ \A k \in {"episodic", "semantic"} :
               Attesting(k)' = IF k = kind THEN Attesting(k) \cup {n} ELSE Attesting(k)
          /\ DOMAIN about' = DOMAIN about \cup {NewId}
          /\ \A id \in DOMAIN about : about'[id] = about[id]
          /\ Len(about') = Len(about) + 1
    BY <2>1, MemoryLinks DEF AddsAt
  <2> QED
    BY <2>2
<1> QED
  BY <1>2, <1>3, <1>4, TableCases, Ids

LEMMA LinksFinite ==
    ASSUME NEW s \in Seq(Event), NEW S \in SUBSET DOMAIN s
    PROVE  IsFiniteSet(S) /\ Cardinality(S) \in Nat
<1>1. DOMAIN s = 1 .. Len(s) /\ Len(s) \in Nat
  OBVIOUS
<1>2. IsFiniteSet(DOMAIN s)
  BY <1>1, FS_Interval
<1>3. IsFiniteSet(S)
  BY <1>2, FS_Subset
<1> QED
  BY <1>3, FS_CardinalityType

LEMMA UpTo ==
    ASSUME NEW n \in Nat
    PROVE  Cardinality(1 .. n) = n
BY FS_Interval

LEMMA NearGrows ==
    ASSUME Inv, [Next]_vars, NEW text
    PROVE  /\ Near(text) \subseteq Near(text)'
           /\ Cardinality(Near(text)) \in Nat /\ Cardinality(Near(text)') \in Nat
           /\ Cardinality(Near(text)) <= Cardinality(Near(text)')
<1>1. \A i \in Attesting("episodic") : i \in DOMAIN log[Agent] /\ IdAt(i) \in DOMAIN about
  BY DEF Inv, Attested, Attesting, EventAt
<1>2. Near(text) \subseteq Near(text)'
  BY <1>1, LinksGrow DEF Near
<1>3. /\ log'[Agent] \in Seq(Event) /\ Near(text)' \in SUBSET DOMAIN log'[Agent]
      /\ log[Agent] \in Seq(Event) /\ Near(text) \in SUBSET DOMAIN log[Agent]
  BY TablesStep DEF Inv, TableTypes, Tables, Near, Attesting
<1>4. /\ IsFiniteSet(Near(text)') /\ Cardinality(Near(text)') \in Nat
      /\ IsFiniteSet(Near(text)) /\ Cardinality(Near(text)) \in Nat
  BY <1>3, LinksFinite
<1> QED
  BY <1>2, <1>4, FS_Subset

\* What Consolidate counts are memories of different links.
LEMMA SimilarAreNear ==
    ASSUME Inv, NEW s \in SUBSET memories, NEW text
    PROVE  Cardinality(Similar(s, text)) <= Cardinality(Near(text))
<1> USE DEF Inv
<1> DEFINE f == [m \in Similar(s, text) |-> CHOOSE i \in Near(text) : IdAt(i) = m.id]
<1>1. ASSUME NEW m \in Similar(s, text)
      PROVE  /\ \E i \in Near(text) : IdAt(i) = m.id
             /\ m = AuditLog!NewMemory(Agent, "episodic", m.id)
  <2>1. m \in memories /\ m.kind = "episodic" /\ Dist(m, text) <= SameIncidentClass
    BY DEF Similar
  <2>2. PICK i \in Attesting("episodic") : IdAt(i) = m.id
    BY <2>1 DEF Attested
  <2>3. i \in Near(text)
    BY <2>1, <2>2 DEF Near, Dist
  <2> QED
    BY <2>1, <2>2, <2>3 DEF Attested
<1>2. \A m \in Similar(s, text) : f[m] \in Near(text) /\ IdAt(f[m]) = m.id
  BY <1>1
<1>3. f \in [Similar(s, text) -> Near(text)]
  BY <1>2
<1> HIDE DEF f
<1>4. \A m, n \in Similar(s, text) : f[m] = f[n] => m = n
  <2> SUFFICES ASSUME NEW m \in Similar(s, text), NEW n \in Similar(s, text), f[m] = f[n]
               PROVE  m = n
    OBVIOUS
  <2>1. m.id = n.id
    BY <1>2
  <2> QED
    BY <1>1, <2>1
<1>5. f \in Injection(Similar(s, text), Near(text))
  BY <1>3, <1>4 DEF Injection, IsInjective
<1>6. log[Agent] \in Seq(Event) /\ Near(text) \in SUBSET DOMAIN log[Agent]
  BY DEF Tables, Near, Attesting
<1> QED
  BY <1>5, <1>6, LinksFinite, FS_Injection

LEMMA NearestAreMemories ==
    ASSUME NEW text, NEW k
    PROVE  \A s \in Nearest(text, k) : s \in SUBSET memories
BY DEF Nearest, Within, kSubset

\* Where the steps of a request lead.
LEMMA Course ==
    ASSUME Inv, [Next]_vars, NEW v \in Workers
    PROVE  \/ pc'[v] = "idle" /\ req'[v] = NoRequest
           \/ UNCHANGED <<pc[v], req[v], known[v]>>
           \/ \E x \in Signals, t \in TaskIds : Request(v, x, t)
           \/ RecallLesson(v)
           \/ /\ pc[v] \in {"step", "episode"} /\ pc'[v] \in {"episode", "consolidate"}
              /\ UNCHANGED <<req[v], known[v]>>
           \/ /\ Consolidate(v) /\ pc'[v] = "lesson" /\ UNCHANGED <<req[v], known[v]>>
<1> USE DEF Inv, TypeOK
<1>1. ASSUME NEW w \in Workers, NEW x \in Signals, NEW t \in TaskIds, Request(w, x, t), v # w
      PROVE  UNCHANGED <<pc[v], req[v], known[v]>>
  BY <1>1 DEF Request, Goto
<1>2. ASSUME NEW w \in Workers, RecallLesson(w), v # w
      PROVE  UNCHANGED <<pc[v], req[v], known[v]>>
  BY <1>2 DEF RecallLesson, Goto
<1>3. ASSUME NEW w \in Workers, RecordStep(w) \/ RememberEpisode(w)
      PROVE  \/ UNCHANGED <<pc[v], req[v], known[v]>>
             \/ /\ pc[v] \in {"step", "episode"} /\ pc'[v] \in {"episode", "consolidate"}
                /\ UNCHANGED <<req[v], known[v]>>
  BY <1>3 DEF RecordStep, RememberEpisode, ApplyStep, ApplyEpisode, Goto
<1>4. ASSUME NEW w \in Workers, NEW status, NEW learned, Reply(w, status, learned),
             UNCHANGED known
      PROVE  (pc'[v] = "idle" /\ req'[v] = NoRequest) \/ UNCHANGED <<pc[v], req[v], known[v]>>
  BY <1>4 DEF Reply, Goto
<1>5. ASSUME NEW w \in Workers, Consolidate(w)
      PROVE  \/ pc'[v] = "idle" /\ req'[v] = NoRequest
             \/ UNCHANGED <<pc[v], req[v], known[v]>>
             \/ Consolidate(v) /\ pc'[v] = "lesson" /\ UNCHANGED <<req[v], known[v]>>
  <2>1. CASE Goto(w, "lesson") /\ UNCHANGED <<req, answer>>
    BY <1>5, <2>1 DEF Goto, Consolidate
  <2>2. CASE Reply(w, "ok", FALSE)
    BY <1>4, <1>5, <2>2 DEF Consolidate
  <2> QED
    BY <1>5, <2>1, <2>2 DEF Consolidate
<1>6. ASSUME NEW w \in Workers, RememberLesson(w) \/ Fail(w) \/ CommitAckLost(w)
      PROVE  (pc'[v] = "idle" /\ req'[v] = NoRequest) \/ UNCHANGED <<pc[v], req[v], known[v]>>
  BY <1>4, <1>6 DEF RememberLesson, Fail, CommitAckLost
<1>7. CASE Restart
  BY <1>7 DEF Restart
<1>8. CASE UNCHANGED vars \/ \E m \in memories : Forget(m)
  BY <1>8 DEF vars, Forget
<1> QED
  BY <1>1, <1>2, <1>3, <1>5, <1>6, <1>7, <1>8 DEF Next, Step

LEMMA ExperiencedStep ==
    ASSUME Inv, [Next]_vars
    PROVE  Experienced'
<1> SUFFICES ASSUME NEW v \in Workers, pc'[v] = "lesson"
             PROVE  Cardinality(Near(req[v].text)') >= MinEpisodes
  BY DEF Experienced
<1> PICK text : text = req[v].text
  OBVIOUS
<1>1. Cardinality(Near(text)) >= MinEpisodes /\ req'[v] = req[v]
  <2>1. CASE UNCHANGED <<pc[v], req[v]>>
    BY <2>1 DEF Inv, Experienced
  <2>2. CASE Consolidate(v) /\ UNCHANGED req[v]
    <3>1. PICK s \in Nearest(text, MinEpisodes + ExtraNeighbours) :
               \/ Cardinality(Similar(s, text)) >= MinEpisodes
               \/ Reply(v, "ok", FALSE)
      BY <2>2 DEF Consolidate
    <3>2. ~Reply(v, "ok", FALSE)
      BY DEF Reply, Goto, Inv, TypeOK
    <3>3. s \in SUBSET memories
      BY NearestAreMemories
    <3>4. Cardinality(Similar(s, text)) <= Cardinality(Near(text))
      BY <3>3, SimilarAreNear
    <3>5. Cardinality(Near(text)) \in Nat /\ IsFiniteSet(Similar(s, text))
      BY <3>3, NearGrows, FS_Subset DEF Inv, Tables, Similar
    <3>6. Cardinality(Similar(s, text)) \in Nat
      BY <3>5, FS_CardinalityType
    <3>7. Cardinality(Similar(s, text)) >= MinEpisodes
      BY <3>1, <3>2
    <3>8. Cardinality(Near(text)) >= MinEpisodes
      BY <3>4, <3>5, <3>6, <3>7, Bounds
    <3> QED
      BY <2>2, <3>8
  <2>3. CASE \E x \in Signals, t \in TaskIds : Request(v, x, t)
    BY <2>3 DEF Request, Goto, Inv, TypeOK
  <2>4. CASE RecallLesson(v)
    BY <2>4 DEF RecallLesson, Goto, Inv, TypeOK
  <2> QED
    BY <2>1, <2>2, <2>3, <2>4, Course
<1>2. Cardinality(Near(text)') >= MinEpisodes
  BY <1>1, NearGrows, Bounds
<1>3. Near(req[v].text)' = Near(text)'
  BY <1>1 DEF Near
<1> QED
  BY <1>2, <1>3

\* The experience a lesson rests on.
Behind(i) ==
    {j \in Attesting("episodic") :
       /\ j < i
       /\ Distance[about[IdAt(j)].text][about[IdAt(i)].text] <= SameIncidentClass}

LEMMA LessonHasExperienceStep ==
    ASSUME Inv, [Next]_vars
    PROVE  LessonHasExperience'
<1> USE DEF Inv
<1> SUFFICES ASSUME NEW i \in Attesting("semantic")' PROVE Cardinality(Behind(i)') >= MinEpisodes
  BY DEF LessonHasExperience, Behind
<1>1. \A k \in {"episodic", "semantic"} : \A j \in Attesting(k) :
        j \in DOMAIN log[Agent] /\ IdAt(j) \in DOMAIN about
  BY DEF Attested, Attesting, EventAt
<1>2. /\ log'[Agent] \in Seq(Event) /\ Behind(i)' \in SUBSET DOMAIN log'[Agent]
      /\ log[Agent] \in Seq(Event) /\ Behind(i) \in SUBSET DOMAIN log[Agent]
  BY TablesStep DEF TableTypes, Tables, Behind, Attesting
<1>3. /\ IsFiniteSet(Behind(i)') /\ Cardinality(Behind(i)') \in Nat
      /\ IsFiniteSet(Behind(i)) /\ Cardinality(Behind(i)) \in Nat
  BY <1>2, LinksFinite
<1>4. CASE i \in Attesting("semantic")
  <2>1. IdAt(i)' = IdAt(i) /\ about'[IdAt(i)] = about[IdAt(i)]
    BY <1>1, <1>4, LinksGrow
  <2>2. Behind(i) \subseteq Behind(i)'
    BY <1>1, <2>1, LinksGrow DEF Behind
  <2>3. Cardinality(Behind(i)) >= MinEpisodes
    BY <1>4 DEF LessonHasExperience, Behind
  <2>4. Cardinality(Behind(i)) <= Cardinality(Behind(i)')
    BY <1>3, <2>2, FS_Subset
  <2> QED
    BY <1>3, <2>3, <2>4, Bounds
<1>5. CASE i \notin Attesting("semantic")
  <2>1. PICK w \in Workers : ApplyLesson(w)
    <3>1. CASE UNCHANGED tables \/ \E m \in memories : Forget(m)
      BY <1>5, <3>1 DEF tables, Forget, AuditLog!Forget, Attesting
    <3>2. ASSUME NEW u \in Workers, ApplyStep(u) PROVE FALSE
      BY <1>5, <3>2, StepLinks
    <3>3. ASSUME NEW u \in Workers, ApplyEpisode(u) PROVE FALSE
      <4>1. pc[u] \in {"episode", "lesson"} /\ ApplyRemember(u, "episodic")
        BY <3>3 DEF ApplyEpisode
      <4>2. Attesting("semantic")' = Attesting("semantic")
        BY <4>1, MemoryLinks DEF AddsAt
      <4> QED
        BY <1>5, <4>2
    <3> QED
      BY <3>1, <3>2, <3>3, TableCases
  <2>2. pc[w] = "lesson" /\ ApplyRemember(w, "semantic")
    BY <2>1 DEF ApplyLesson
  <2>3. PICK n \in Nat :
          /\ \A j \in DOMAIN log[Agent] : j \in Nat /\ j < n
          /\ log'[Agent][n].memory_id = NewId
          /\ Attesting("semantic")' = Attesting("semantic") \cup {n}
          /\ about'[NewId].text = req[w].text
    BY <2>2, MemoryLinks DEF AddsAt
  <2>4. i = n /\ about'[IdAt(i)'].text = req[w].text
    BY <1>5, <2>3 DEF IdAt
  <2>5. Near(req[w].text) \subseteq Behind(i)'
    BY <1>1, <2>3, <2>4, LinksGrow DEF Near, Behind
  <2>6. Cardinality(Near(req[w].text)) >= MinEpisodes
    BY <2>2 DEF Experienced
  <2>7. Cardinality(Near(req[w].text)) <= Cardinality(Behind(i)')
    BY <1>3, <2>5, FS_Subset
  <2>8. Cardinality(Near(req[w].text)) \in Nat
    BY NearGrows
  <2> QED
    BY <1>3, <2>6, <2>7, <2>8, Bounds
<1> QED
  BY <1>4, <1>5

-----------------------------------------------------------------------------
(* A lesson in reach.                                                      *)

\* Reads see every memory as long as there are no more than they fetch.
LEMMA Fits ==
    ASSUME Inv, NEW text, NEW k \in Nat, Len(about) <= k
    PROVE  Nearest(text, k) = {memories}
<1> USE DEF Inv
<1> DEFINE f == [m \in memories |-> m.id]
<1>1. \A m \in memories : m.id \in DOMAIN about /\ m.kind \in {"episodic", "semantic"}
  <2> SUFFICES ASSUME NEW m \in memories
               PROVE  m.id \in DOMAIN about /\ m.kind \in {"episodic", "semantic"}
    OBVIOUS
  <2>1. m.kind \in {"episodic", "semantic"}
    BY DEF TypeOK, AuditLog!MemoryRow, AuditLog!MemoryKinds
  <2>2. PICK i \in Attesting(m.kind) : IdAt(i) = m.id
    BY DEF Attested
  <2> QED
    BY <2>1, <2>2 DEF Attested, Attesting, EventAt
<1>2. \A m, n \in memories : m.id = n.id => m = n
  <2> SUFFICES ASSUME NEW m \in memories, NEW n \in memories, m.id = n.id
               PROVE  m = n
    OBVIOUS
  <2>1. PICK i \in Attesting(m.kind) : IdAt(i) = m.id
    BY DEF Attested
  <2>2. PICK j \in Attesting(n.kind) : IdAt(j) = n.id
    BY DEF Attested
  <2>3. i \in DOMAIN log[Agent] /\ EventAt(i) = m.kind /\ EventAt(i) # "act"
    BY <1>1, <2>1 DEF Attesting, EventAt
  <2>4. j \in DOMAIN log[Agent] /\ EventAt(j) = n.kind /\ EventAt(j) # "act"
    BY <1>1, <2>2 DEF Attesting, EventAt
  <2>5. i = j
    BY <2>1, <2>2, <2>3, <2>4 DEF Attested
  <2> QED
    BY <2>3, <2>4, <2>5 DEF Attested
<1>3. f \in [memories -> DOMAIN about] /\ \A m \in memories : f[m] = m.id
  BY <1>1
<1> HIDE DEF f
<1>4. f \in Injection(memories, DOMAIN about)
  BY <1>2, <1>3 DEF Injection, IsInjective
<1>5. DOMAIN about = 1 .. Len(about) /\ Len(about) \in Nat
  BY Ids DEF Drawn
<1>6. IsFiniteSet(DOMAIN about) /\ Cardinality(DOMAIN about) = Len(about)
  BY <1>5, Ids, FS_Interval DEF Drawn
<1>7. Cardinality(memories) <= Len(about)
  BY <1>4, <1>6, FS_Injection
<1>8. Cardinality(memories) \in Nat
  BY FS_CardinalityType DEF Tables
<1> QED
  BY <1>5, <1>7, <1>8 DEF Nearest

LEMMA MemoriesWritten ==
    ASSUME Inv, NEW m \in memories
    PROVE  m.id \in DOMAIN about /\ m.id \in MemIds
<1>1. m.kind \in {"episodic", "semantic"} /\ m.id \in MemIds
  BY DEF Inv, TypeOK, AuditLog!MemoryRow, AuditLog!MemoryKinds
<1>2. PICK i \in Attesting(m.kind) : IdAt(i) = m.id
  BY DEF Inv, Attested
<1> QED
  BY <1>1, <1>2 DEF Inv, Attested, Attesting, EventAt

\* Lessons do not move out of reach.
LEMMA UsableGrows ==
    ASSUME Inv, [Next]_vars, NEW text
    PROVE  Usable(memories, text) \subseteq Usable(memories, text)'
<1> SUFFICES ASSUME NEW m \in Usable(memories, text)
             PROVE  m \in Usable(memories, text)'
  OBVIOUS
<1>1. m \in memories /\ m.kind = "semantic" /\ Dist(m, text) <= LessonApplies
  BY DEF Usable
<1>2. Dist(m, text)' = Dist(m, text)
  BY <1>1, MemoriesWritten, LinksGrow DEF Dist
<1>3. m \in memories'
  <2>1. ASSUME NEW w \in Workers, ApplyStep(w) \/ ApplyEpisode(w) \/ ApplyLesson(w)
        PROVE  memories \subseteq memories'
    BY <2>1 DEF ApplyStep, ApplyEpisode, ApplyLesson, ApplyRemember, Remember,
                AuditLog!RecordStep, AuditLog!Remember
  <2>2. ASSUME NEW e \in memories, Forget(e) PROVE m \in memories'
    BY <1>1, <2>2 DEF Forget, AuditLog!Forget
  <2> QED
    BY <1>1, <2>1, <2>2, TableCases DEF tables
<1> QED
  BY <1>1, <1>2, <1>3 DEF Usable

\* RecallLesson sees it, if it sees everything.
LEMMA Recalls ==
    ASSUME Inv, NEW w \in Workers, Usable(memories, req[w].text) # {},
           Len(about) <= Candidates
    PROVE  NoMemory \notin Recallable(req[w])
<1>1. Nearest(req[w].text, Candidates) = {memories}
  BY Fits, Bounds
<1>2. /\ Preferred(memories, req[w]) # {}
      /\ Preferred(memories, req[w]) \subseteq memories
  BY DEF Preferred, Usable
<1>3. Recallable(req[w]) =
        {m.id : m \in Closest(Preferred(memories, req[w]), req[w].text)}
  BY <1>1, <1>2 DEF Recallable
<1>4. \A m \in Closest(Preferred(memories, req[w]), req[w].text) : m.id \in MemIds
  BY <1>2, MemoriesWritten DEF Closest
<1> QED
  BY <1>3, <1>4, NullAssumption

\* What a request is told.
LEMMA AnswerCourse ==
    ASSUME Inv, [Next]_vars, NEW v \in Workers
    PROVE  \/ UNCHANGED <<answer[v], known[v]>>
           \/ answer'[v].status # "ok"
           \/ /\ pc[v] \in {"consolidate", "lesson"} /\ UNCHANGED known[v]
              /\ answer'[v].from_memory = (req[v].lesson # NoMemory)
<1> USE DEF Inv, TypeOK
<1>1. ASSUME NEW w \in Workers, NEW x \in Signals, NEW t \in TaskIds, Request(w, x, t)
      PROVE  UNCHANGED <<answer[v], known[v]>> \/ answer'[v].status # "ok"
  BY <1>1 DEF Request, Silent
<1>2. ASSUME NEW w \in Workers, RecallLesson(w) \/ RecordStep(w) \/ RememberEpisode(w)
      PROVE  UNCHANGED <<answer[v], known[v]>>
  BY <1>2 DEF RecallLesson, RecordStep, RememberEpisode
<1>3. ASSUME NEW w \in Workers, NEW status \in {"ok", "error"}, NEW learned \in BOOLEAN,
             Reply(w, status, learned), UNCHANGED known,
             status = "ok" => pc[w] \in {"consolidate", "lesson"}
      PROVE  \/ UNCHANGED <<answer[v], known[v]>>
             \/ answer'[v].status # "ok"
             \/ /\ pc[v] \in {"consolidate", "lesson"} /\ UNCHANGED known[v]
                /\ answer'[v].from_memory = (req[v].lesson # NoMemory)
  <2>1. /\ \A u \in Workers \ {w} : answer'[u] = answer[u]
        /\ answer'[w].status = status
        /\ answer'[w].from_memory = (req[w].lesson # NoMemory)
    BY <1>3, ReplyTypes
  <2>2. CASE v # w
    BY <1>3, <2>1, <2>2
  <2>3. CASE v = w /\ status = "ok"
    BY <1>3, <2>1, <2>3
  <2>4. CASE v = w /\ status # "ok"
    BY <2>1, <2>4
  <2> QED
    BY <2>2, <2>3, <2>4
<1>4. ASSUME NEW w \in Workers, Consolidate(w), ~Reply(w, "ok", FALSE)
      PROVE  UNCHANGED <<answer[v], known[v]>>
  BY <1>4 DEF Consolidate
<1>5. ASSUME NEW w \in Workers, Consolidate(w) \/ RememberLesson(w)
      PROVE  UNCHANGED known /\ pc[w] \in {"consolidate", "lesson"}
  BY <1>5 DEF Consolidate, RememberLesson, ApplyLesson
<1>6. ASSUME NEW w \in Workers, Fail(w) \/ CommitAckLost(w)
      PROVE  Reply(w, "error", FALSE) /\ UNCHANGED known
  BY <1>6 DEF Fail, CommitAckLost
<1>7. CASE Restart
  BY <1>7 DEF Restart, Silent
<1>8. CASE UNCHANGED vars \/ \E m \in memories : Forget(m)
  BY <1>8 DEF vars, Forget
<1>9. ASSUME NEW w \in Workers, RememberLesson(w) PROVE Reply(w, "ok", TRUE)
  BY <1>9 DEF RememberLesson
<1> QED
  BY <1>1, <1>2, <1>3, <1>4, <1>5, <1>6, <1>7, <1>8, <1>9 DEF Next, Step

LEMMA FoundStep ==
    ASSUME Inv, [Next]_vars
    PROVE  Found' /\ LessonStaysInUse'
<1> USE DEF Inv
<1>1. Len(about) \in Nat /\ Len(about') \in Nat /\ Len(about) <= Len(about')
  BY LinksGrow
<1>2. ASSUME NEW v \in Workers, known'[v]
      PROVE  /\ pc'[v] = "recall" => Usable(memories, req[v].text)' # {}
             /\ pc'[v] \notin {"idle", "recall"} /\ Len(about') <= Candidates
                  => req'[v].lesson # NoMemory
  <2>1. CASE pc'[v] = "idle"
    BY <2>1
  <2>2. CASE UNCHANGED <<pc[v], req[v], known[v]>>
    <3> PICK text : text = req[v].text
      OBVIOUS
    <3>1. pc[v] = "recall" => Usable(memories, text)' # {}
      BY <1>2, <2>2, UsableGrows DEF Found
    <3>2. Usable(memories, req[v].text)' = Usable(memories, text)'
      BY <2>2 DEF Usable, Dist
    <3>3. pc'[v] \notin {"idle", "recall"} /\ Len(about') <= Candidates
            => req'[v].lesson # NoMemory
      BY <1>1, <1>2, <2>2, Bounds DEF Found
    <3> QED
      BY <2>2, <3>1, <3>2, <3>3
  <2>3. ASSUME NEW x \in Signals, NEW t \in TaskIds, Request(v, x, t)
        PROVE  pc'[v] = "recall" /\ Usable(memories, req[v].text)' # {}
    <3>1. pc'[v] = "recall" /\ req'[v].text = x.text /\ UNCHANGED tables
      BY <2>3 DEF Request, Goto, TypeOK
    <3>2. Usable(memories, x.text) # {}
      BY <1>2, <2>3 DEF Request, TypeOK
    <3>3. Usable(memories, req[v].text)' = Usable(memories, x.text)
      BY <3>1 DEF Usable, Dist, tables
    <3> QED
      BY <3>1, <3>2, <3>3
  <2>4. CASE RecallLesson(v)
    <3>1. /\ pc[v] = "recall" /\ pc'[v] = "step" /\ known[v] /\ UNCHANGED about
          /\ req'[v].lesson \in Recallable(req[v])
      BY <1>2, <2>4 DEF RecallLesson, Goto, TypeOK, tables
    <3>2. Len(about) <= Candidates => NoMemory \notin Recallable(req[v])
      BY <3>1, Recalls DEF Found
    <3> QED
      BY <3>1, <3>2
  <2>5. CASE /\ pc[v] \in {"step", "episode"} /\ pc'[v] \in {"episode", "consolidate"}
             /\ UNCHANGED <<req[v], known[v]>>
    BY <1>1, <1>2, <2>5, Bounds DEF Found
  <2>6. CASE Consolidate(v) /\ pc'[v] = "lesson" /\ UNCHANGED <<req[v], known[v]>>
    <3>1. pc[v] = "consolidate"
      BY <2>6 DEF Consolidate
    <3> QED
      BY <1>1, <1>2, <2>6, <3>1, Bounds DEF Found
  <2> QED
    BY <2>1, <2>2, <2>3, <2>4, <2>5, <2>6, Course
<1>3. ASSUME NEW v \in Workers, known'[v], answer'[v].status = "ok",
             Cardinality(Drawn') <= Candidates
      PROVE  answer'[v].from_memory
  <2>1. Cardinality(Drawn) = Len(about) /\ Cardinality(Drawn') = Len(about')
    <3>1. Drawn' = 1 .. Len(about')
      BY TablesStep DEF TableTypes, Drawn
    <3>2. Cardinality(1 .. Len(about')) = Len(about')
      BY <1>1, UpTo
    <3> QED
      BY <3>1, <3>2, Ids
  <2>2. CASE UNCHANGED <<answer[v], known[v]>>
    BY <1>1, <1>3, <2>1, <2>2, Bounds DEF LessonStaysInUse
  <2>3. CASE /\ pc[v] \in {"consolidate", "lesson"} /\ UNCHANGED known[v]
             /\ answer'[v].from_memory = (req[v].lesson # NoMemory)
    <3>1. Len(about) <= Candidates
      BY <1>1, <1>3, <2>1, Bounds
    <3>2. known[v] /\ pc[v] \notin {"idle", "recall"}
      BY <1>3, <2>3
    <3>3. req[v].lesson # NoMemory
      BY <3>1, <3>2 DEF Found
    <3> QED
      BY <2>3, <3>3
  <2> QED
    BY <1>3, <2>2, <2>3, AnswerCourse
<1>4. Found'
  BY <1>2 DEF Found
<1>5. LessonStaysInUse'
  BY <1>3 DEF LessonStaysInUse
<1> QED
  BY <1>4, <1>5

-----------------------------------------------------------------------------
(* Requests one after the other.                                           *)

LEMMA LessonsStay ==
    ASSUME Inv, [Next]_vars, ~ \E w \in Workers : ApplyLesson(w), NEW k
    PROVE  Lessons(k)' = Lessons(k)
<1> USE DEF Inv
<1>1. \A i \in Attesting("semantic") : i \in DOMAIN log[Agent] /\ IdAt(i) \in DOMAIN about
  BY DEF Attested, Attesting, EventAt
<1>2. Attesting("semantic")' = Attesting("semantic")
  <2>1. ASSUME NEW w \in Workers, ApplyStep(w)
        PROVE  Attesting("semantic")' = Attesting("semantic")
    BY <2>1, StepLinks
  <2>2. ASSUME NEW w \in Workers, ApplyEpisode(w)
        PROVE  Attesting("semantic")' = Attesting("semantic")
    <3>1. pc[w] \in {"episode", "lesson"} /\ ApplyRemember(w, "episodic")
      BY <2>2 DEF ApplyEpisode
    <3> QED
      BY <3>1, MemoryLinks DEF AddsAt
  <2>3. CASE UNCHANGED tables \/ \E m \in memories : Forget(m)
    BY <2>3 DEF tables, Forget, AuditLog!Forget, Attesting
  <2> QED
    BY <2>1, <2>2, <2>3, TableCases
<1> QED
  BY <1>1, <1>2, LinksGrow DEF Lessons

LEMMA LessonAdds ==
    ASSUME Inv, [Next]_vars, NEW w \in Workers, ApplyLesson(w)
    PROVE  /\ Len(about') = Len(about) + 1
           /\ \E n \in Nat : \A k :
                Lessons(k)' = IF k = KindOf[req[w].text] THEN Lessons(k) \cup {n}
                              ELSE Lessons(k)
<1> USE DEF Inv
<1>1. \A i \in Attesting("semantic") : i \in DOMAIN log[Agent] /\ IdAt(i) \in DOMAIN about
  BY DEF Attested, Attesting, EventAt
<1>2. pc[w] = "lesson" /\ ApplyRemember(w, "semantic")
  BY DEF ApplyLesson
<1>3. PICK n \in Nat :
        /\ log'[Agent][n].memory_id = NewId
        /\ Attesting("semantic")' = Attesting("semantic") \cup {n}
        /\ about'[NewId].text = req[w].text
        /\ Len(about') = Len(about) + 1
  BY <1>2, MemoryLinks DEF AddsAt
<1>4. ASSUME NEW k
      PROVE  Lessons(k)' = IF k = KindOf[req[w].text] THEN Lessons(k) \cup {n}
                           ELSE Lessons(k)
  <2>1. KindOf[about'[IdAt(n)'].text] = KindOf[req[w].text]
    BY <1>3 DEF IdAt
  <2>2. \A i \in Attesting("semantic") :
          KindOf[about'[IdAt(i)'].text] = KindOf[about[IdAt(i)].text]
    BY <1>1, LinksGrow
  <2> QED
    BY <1>3, <2>1, <2>2 DEF Lessons
<1> QED
  BY <1>3, <1>4

\* Consolidate sees the lesson, if it sees everything.
LEMMA NotLearned ==
    ASSUME Inv, NEW w \in Workers, Consolidate(w), ~Reply(w, "ok", FALSE),
           Len(about) <= MinEpisodes + ExtraNeighbours
    PROVE  Lessons(KindOf[req[w].text]) = {}
<1> USE DEF Inv
<1>1. Nearest(req[w].text, MinEpisodes + ExtraNeighbours) = {memories}
  BY Fits, Bounds
<1>2. ~AlreadyLearned(memories, KindOf[req[w].text])
  BY <1>1 DEF Consolidate
<1>3. ASSUME NEW i \in Lessons(KindOf[req[w].text]) PROVE FALSE
  <2> DEFINE m == AuditLog!NewMemory(Agent, "semantic", IdAt(i))
  <2>1. m \in memories
    BY DEF Attested, Lessons
  <2>2. m.kind = "semantic" /\ m.id = IdAt(i)
    BY DEF AuditLog!NewMemory
  <2> HIDE DEF m
  <2> QED
    BY <1>2, <2>1, <2>2 DEF AlreadyLearned, Lessons
<1> QED
  BY <1>3

LEMMA SerialStep ==
    ASSUME Inv, [Next]_vars
    PROVE  Serial' /\ SerialLessonsUnique'
<1> USE DEF Inv
<1>1. Len(about) \in Nat /\ Len(about') \in Nat /\ Len(about) <= Len(about')
  BY LinksGrow
<1>2. overlap => overlap'
  BY DEF Next, Step, Request, RecallLesson, RecordStep, RememberEpisode, Consolidate,
         RememberLesson, Fail, CommitAckLost, Restart, Forget, vars
<1>3. ASSUME ~overlap', NEW v \in Workers, NEW w \in Workers, pc'[v] # "idle", pc'[w] # "idle"
      PROVE  v = w
  <2>1. ASSUME NEW u \in Workers, NEW x \in Signals, NEW t \in TaskIds, Request(u, x, t)
        PROVE  v = u /\ w = u
    BY <1>3, <2>1 DEF Request, Goto, InProgress, TypeOK
  <2>2. ASSUME NEW u \in Workers, pc'[u] # "idle",
               ~ \E x \in Signals, t \in TaskIds : Request(u, x, t)
        PROVE  pc[u] # "idle"
    BY <2>2, Course DEF RecallLesson, Consolidate
  <2>3. CASE \E u \in Workers, x \in Signals, t \in TaskIds : Request(u, x, t)
    BY <2>1, <2>3
  <2>4. CASE ~ \E u \in Workers, x \in Signals, t \in TaskIds : Request(u, x, t)
    <3>1. pc[v] # "idle" /\ pc[w] # "idle"
      BY <1>3, <2>2, <2>4
    <3> QED
      BY <1>2, <1>3, <3>1 DEF Serial, InProgress
  <2> QED
    BY <2>3, <2>4
\* Whoever writes a lesson was the only one in progress, and is done.
<1>4. ASSUME ~overlap', NEW w \in Workers, ApplyLesson(w)
      PROVE  pc[w] = "lesson" /\ \A v \in Workers : pc'[v] = "idle"
  <2>1. pc[w] = "lesson" /\ ApplyRemember(w, "semantic")
    BY <1>4 DEF ApplyLesson
  <2>2. log' # log
    <3>1. PICK n \in Nat :
               n \notin DOMAIN log[Agent] /\ DOMAIN log'[Agent] = DOMAIN log[Agent] \cup {n}
      BY <2>1, MemoryLinks DEF AddsAt
    <3> QED
      BY <3>1
  <2>3. \A v \in Workers : pc[v] # "idle" => v = w
    BY <1>2, <1>4, <2>1 DEF Serial, InProgress
  <2>4. ASSUME NEW u \in Workers, RecordStep(u) \/ RememberEpisode(u) PROVE FALSE
    BY <2>1, <2>3, <2>4 DEF RecordStep, RememberEpisode, ApplyStep, ApplyEpisode
  <2>5. ASSUME NEW u \in Workers, RememberLesson(u) \/ CommitAckLost(u)
        PROVE  pc[u] # "idle" /\ pc' = [pc EXCEPT ![u] = "idle"]
    BY <2>5 DEF RememberLesson, CommitAckLost, ApplyStep, ApplyEpisode, ApplyLesson, Reply, Goto
  <2>6. \E u \in Workers : RecordStep(u) \/ RememberEpisode(u)
                             \/ RememberLesson(u) \/ CommitAckLost(u)
    BY <2>2 DEF Next, Step, Request, RecallLesson, Consolidate, Fail, Restart, Forget,
                AuditLog!Forget, vars, tables
  <2>7. pc' = [pc EXCEPT ![w] = "idle"]
    BY <2>3, <2>4, <2>5, <2>6
  <2> QED
    BY <2>1, <2>3, <2>7 DEF TypeOK
<1>5. ASSUME ~overlap', Len(about') <= MinEpisodes + ExtraNeighbours,
             NEW v \in Workers, pc'[v] = "lesson"
      PROVE  Lessons(KindOf[req[v].text])' = {}
  <2> PICK kind : kind = KindOf[req[v].text]
    OBVIOUS
  <2>1. ~ \E w \in Workers : ApplyLesson(w)
    BY <1>4, <1>5
  <2>2. Lessons(kind)' = Lessons(kind)
    BY <2>1, LessonsStay
  <2>3. Lessons(kind) = {} /\ req'[v] = req[v]
    <3>1. CASE UNCHANGED <<pc[v], req[v]>>
      BY <1>1, <1>2, <1>5, <3>1, Bounds DEF Serial
    <3>2. CASE Consolidate(v) /\ UNCHANGED req[v]
      <4>1. ~Reply(v, "ok", FALSE)
        BY <1>5 DEF Reply, Goto, TypeOK
      <4>2. Len(about) <= MinEpisodes + ExtraNeighbours
        BY <1>1, <1>5, Bounds
      <4> QED
        BY <3>2, <4>1, <4>2, NotLearned
    <3>3. ~ \E x \in Signals, t \in TaskIds : Request(v, x, t)
      BY <1>5 DEF Request, Goto, TypeOK
    <3>4. ~RecallLesson(v)
      BY <1>5 DEF RecallLesson, Goto, TypeOK
    <3> QED
      BY <1>5, <3>1, <3>2, <3>3, <3>4, Course
  <2>4. Lessons(KindOf[req[v].text])' = Lessons(kind)'
    BY <2>3 DEF Lessons, Attesting, IdAt
  <2> QED
    BY <2>2, <2>3, <2>4
<1>6. Serial'
  BY <1>3, <1>5 DEF Serial, InProgress
<1>7. Cardinality(Drawn) = Len(about) /\ Cardinality(Drawn') = Len(about')
  <2>1. Drawn' = 1 .. Len(about')
    BY TablesStep DEF TableTypes, Drawn
  <2>2. Cardinality(1 .. Len(about')) = Len(about')
    BY <1>1, UpTo
  <2> QED
    BY <2>1, <2>2, Ids
<1>8. ASSUME ~overlap', Len(about') <= MinEpisodes + ExtraNeighbours + 1, NEW x \in Texts
      PROVE  Cardinality(Lessons(KindOf[x])') <= 1
  <2>1. Cardinality(Lessons(KindOf[x])) <= 1
    BY <1>1, <1>2, <1>7, <1>8, Bounds DEF SerialLessonsUnique
  <2>2. CASE ~ \E w \in Workers : ApplyLesson(w)
    BY <2>1, <2>2, LessonsStay
  <2>3. ASSUME NEW w \in Workers, ApplyLesson(w)
        PROVE  Cardinality(Lessons(KindOf[x])') <= 1
    <3>1. Len(about) <= MinEpisodes + ExtraNeighbours
      BY <1>1, <1>8, <2>3, LessonAdds, Bounds
    <3>2. Lessons(KindOf[req[w].text]) = {}
      BY <1>2, <1>4, <1>8, <2>3, <3>1 DEF Serial
    <3>3. PICK n \in Nat :
            Lessons(KindOf[x])' = IF KindOf[x] = KindOf[req[w].text]
                                  THEN Lessons(KindOf[x]) \cup {n} ELSE Lessons(KindOf[x])
      BY <2>3, LessonAdds
    <3>4. CASE KindOf[x] = KindOf[req[w].text]
      <4>1. Lessons(KindOf[x])' = {n}
        BY <3>2, <3>3, <3>4
      <4>2. Cardinality({n}) = 1
        BY FS_Singleton
      <4> QED
        BY <4>1, <4>2
    <3>5. CASE KindOf[x] # KindOf[req[w].text]
      BY <2>1, <3>3, <3>5
    <3> QED
      BY <3>4, <3>5
  <2> QED
    BY <2>2, <2>3
<1>9. SerialLessonsUnique'
  BY <1>7, <1>8 DEF SerialLessonsUnique
<1> QED
  BY <1>6, <1>9

-----------------------------------------------------------------------------
(* Theorems.                                                               *)

LEMMA InitInv == Init => Inv
<1> SUFFICES ASSUME Init PROVE Inv
  OBVIOUS
<1>1. /\ memories = {} /\ about = <<>> /\ faults = 0 /\ overlap = FALSE
      /\ tasks = [t \in TaskIds |-> [agent_id |-> NoAgent, step |-> 0]]
      /\ log = [a \in {Agent} |-> <<>>]
      /\ pc = [w \in Workers |-> "idle"] /\ req = [w \in Workers |-> NoRequest]
      /\ answer = [w \in Workers |-> Silent] /\ known = [w \in Workers |-> FALSE]
  BY DEF Init, AuditLog!Init
<1>2. log[Agent] = <<>> /\ DOMAIN log[Agent] = {} /\ \A e : Attesting(e) = {}
  BY <1>1 DEF Attesting
<1>3. Tables
  BY <1>1, FS_EmptySet DEF Tables
<1>4. TableTypes
  BY <1>1, <1>3 DEF TableTypes
<1>5. RequestTypes
  <2>1. 0 \in 0 .. MaxFaults
    BY Bounds
  <2> QED
    BY <1>1, <2>1, NoRequestType, SilentType DEF RequestTypes
<1>6. Attested
  BY <1>1, <1>2 DEF Attested
<1>7. Busy = {} /\ Early = {} /\ \A t \in TaskIds : StepsInProgress(t) = {}
  BY <1>1 DEF Busy, Early, StepsInProgress
<1>8. Cardinality({}) = 0
  BY FS_EmptySet
<1>9. Room
  BY <1>1, <1>7, <1>8, Bounds DEF Room
<1>10. Requests
  BY <1>1 DEF Requests, NoRequest
<1>11. \A t \in TaskIds : EpisodesOf(t) = {} /\ tasks[t].step = 0
  BY <1>1, <1>2 DEF EpisodesOf
<1>12. Counted
  <2>1. \A t \in TaskIds :
          Cardinality(EpisodesOf(t)) + Cardinality(StepsInProgress(t)) = tasks[t].step
    <3> SUFFICES ASSUME NEW t \in TaskIds
                 PROVE  Cardinality(EpisodesOf(t)) + Cardinality(StepsInProgress(t))
                          = tasks[t].step
      OBVIOUS
    <3>1. Cardinality(EpisodesOf(t)) = 0 /\ Cardinality(StepsInProgress(t)) = 0
      BY <1>7, <1>8, <1>11, Zenon
    <3> QED
      BY <1>11, <3>1
  <2>2. \A t \in TaskIds : tasks[t].step \in Nat
    BY <1>11
  <2> QED
    BY <2>1, <2>2 DEF Counted, EpisodeFollowsStep
<1>13. Experienced /\ LessonHasExperience /\ Found
  BY <1>1, <1>2 DEF Experienced, LessonHasExperience, Found
<1>14. LessonStaysInUse
  BY <1>1 DEF LessonStaysInUse
<1>15. Serial
  BY <1>1 DEF Serial, InProgress
<1>16. \A k : Lessons(k) = {}
  BY <1>2 DEF Lessons
<1>17. SerialLessonsUnique
  BY <1>8, <1>16 DEF SerialLessonsUnique
<1> QED
  BY <1>3, <1>4, <1>5, <1>6, <1>9, <1>10, <1>12, <1>13, <1>14, <1>15, <1>17, TypesSplit
     DEF Inv

LEMMA StepInv == Inv /\ [Next]_vars => Inv'
<1> SUFFICES ASSUME Inv, [Next]_vars PROVE Inv'
  OBVIOUS
<1>1. (TypeOK /\ Tables)'
  <2>1. (TypeOK /\ Tables)' <=> (TableTypes /\ RequestTypes)'
    BY TypesSplit, PTL
  <2> QED
    BY <2>1, TablesStep, RequestsStep
<1> QED
  BY <1>1, AttestedStep, RoomStep, RequestsStep, CountedStep, ExperiencedStep,
     LessonHasExperienceStep, FoundStep, SerialStep DEF Inv

(* What holds between the transactions of requests in progress.            *)
THEOREM Invariance == Spec => []Inv
BY InitInv, StepInv, PTL DEF Spec

(* Every variable of AgentLoop has its type in every reachable state.      *)
THEOREM TypeCorrect == Spec => []TypeOK
<1>1. Inv => TypeOK
  BY DEF Inv
<1> QED
  BY <1>1, Invariance, PTL

(* No episode claims an action that its task does not record, whatever     *)
(* fails and whatever requests run at the same time (comment of Handle).   *)
THEOREM EpisodesFollowSteps == Spec => []EpisodeFollowsStep
<1>1. Inv => EpisodeFollowsStep
  BY DEF Inv, Counted
<1> QED
  BY <1>1, Invariance, PTL

(* Consolidate writes a lesson after MinEpisodes episodes of the class of  *)
(* incident it is about.                                                   *)
THEOREM LessonsHaveExperience == Spec => []LessonHasExperience
<1>1. Inv => LessonHasExperience
  BY DEF Inv
<1> QED
  BY <1>1, Invariance, PTL

(* A request that arrives when a lesson is in reach is decided by a        *)
(* lesson, as long as RecallLesson fetches every row there is.             *)
THEOREM LessonsStayInUse == Spec => []LessonStaysInUse
<1>1. Inv => LessonStaysInUse
  BY DEF Inv
<1> QED
  BY <1>1, Invariance, PTL

(* Requests that do not overlap write at most one lesson for a kind of     *)
(* incident, as long as Consolidate fetches every row there is.            *)
THEOREM LessonsUniqueInSeries == Spec => []SerialLessonsUnique
<1>1. Inv => SerialLessonsUnique
  BY DEF Inv
<1> QED
  BY <1>1, Invariance, PTL

(* Without a fault, every step of a task has its episode once no request   *)
(* is in progress, however requests overlap.                               *)
THEOREM AgreementWithoutFaults == Spec => []AgreeWithoutFaults
<1>1. Inv => AgreeWithoutFaults
  <2> SUFFICES ASSUME Inv, faults = 0, AtRest, NEW t \in TaskIds
               PROVE  tasks[t].step = Cardinality(EpisodesOf(t))
    BY DEF AgreeWithoutFaults, StateAndMemoryAgree
  <2>1. StepsInProgress(t) = {}
    BY DEF AtRest, InProgress, StepsInProgress
  <2>2. Cardinality(EpisodesOf(t)) + 0 = tasks[t].step
    BY <2>1, FS_EmptySet DEF Inv, Counted
  <2>3. Cardinality(EpisodesOf(t)) \in Nat
    BY EpisodesFinite DEF Inv
  <2> QED
    BY <2>2, <2>3
<1> QED
  BY <1>1, Invariance, PTL

\* One row and its link, or one episode forgotten, at a time.
LEMMA AuditLogStep ==
    ASSUME Inv, [Next]_vars
    PROVE  [AuditLog!Next]_AuditLog!vars
<1>1. CASE UNCHANGED tables
  BY <1>1 DEF tables, AuditLog!vars
<1>2. ASSUME NEW w \in Workers, ApplyStep(w) PROVE AuditLog!Next
  <2>1. req[w].task \in TaskIds /\ AuditLog!RecordStep(Agent, req[w].task)
    BY <1>2 DEF Inv, Requests, ApplyStep
  <2> QED
    BY <2>1 DEF AuditLog!Next
<1>3. ASSUME NEW w \in Workers, ApplyEpisode(w) \/ ApplyLesson(w) PROVE AuditLog!Next
  <2>1. PICK kind \in AuditLog!MemoryKinds :
             pc[w] \in {"episode", "lesson"} /\ AuditLog!Remember(Agent, kind, NewId)
    BY <1>3 DEF ApplyEpisode, ApplyLesson, ApplyRemember, Remember,
           AuditLog!MemoryKinds
  <2>2. NewId \in MemIds
    BY <2>1, NextId DEF Inv
  <2> QED
    BY <2>1, <2>2 DEF AuditLog!Next
<1>4. ASSUME NEW m \in memories, Forget(m) PROVE AuditLog!Next
  BY <1>4 DEF Forget, AuditLog!Next
<1> QED
  BY <1>1, <1>2, <1>3, <1>4, TableCases

(* Concurrent requests, faults, restarts and the TTL job do to the tables  *)
(* what AuditLog allows, which StoreTxn is shown to implement: one row and *)
(* its link, or one episode forgotten, at a time.                          *)
THEOREM ImplementsAuditLog == Spec => AuditLog!Spec
<1>1. Init => AuditLog!Init
  BY DEF Init
<1>2. Inv /\ [Next]_vars => [AuditLog!Next]_AuditLog!vars
  BY AuditLogStep
<1> QED
  BY <1>1, <1>2, Invariance, PTL DEF Spec, AuditLog!Spec

(* What Consolidate writes, extractRemedy reads back whole, whatever       *)
(* separators the remedy contains, for every kind without a separator.     *)
THEOREM LessonsReadBack ==
    \A x \in Texts : ExtractRemedy(LessonText(KindOf[x])) = PreferredRemedy(KindOf[x])
BY ReadBack, KindsAssumption

-----------------------------------------------------------------------------
(* Decisions from memory.                                                  *)

LessonIds == {IdAt(i) : i \in Attesting("semantic")}

\* The texts that lessons and requests are about.
TextsFrom(texts) ==
    /\ \A id \in LessonIds : about[id].text \in texts
    /\ \A w \in Workers : InProgress(w) => req[w].text \in texts

\* A request acts on a lesson that has been written and is in its reach.
LessonInReach ==
    \A w \in Workers : req[w].lesson # NoMemory =>
        /\ InProgress(w)
        /\ req[w].lesson \in LessonIds
        /\ Distance[about[req[w].lesson].text][req[w].text] <= LessonApplies

\* Lessons stay as they are, and a new one is about the request that writes it.
LEMMA LessonIdsStep ==
    ASSUME Inv, [Next]_vars
    PROVE  /\ \A id \in LessonIds : id \in LessonIds' /\ about'[id] = about[id]
           /\ \A id \in LessonIds' :
                \/ id \in LessonIds
                \/ \E w \in Workers : pc[w] = "lesson" /\ about'[id].text = req[w].text
<1> USE DEF Inv
<1>1. \A i \in Attesting("semantic") : i \in DOMAIN log[Agent] /\ IdAt(i) \in DOMAIN about
  BY DEF Attested, Attesting, EventAt
<1>2. ASSUME NEW id \in LessonIds PROVE id \in LessonIds' /\ about'[id] = about[id]
  <2>1. PICK i \in Attesting("semantic") : id = IdAt(i)
    BY DEF LessonIds
  <2>2. i \in Attesting("semantic")' /\ IdAt(i)' = IdAt(i) /\ about'[id] = about[id]
    BY <1>1, <2>1, LinksGrow
  <2> QED
    BY <2>1, <2>2 DEF LessonIds
<1>3. ASSUME NEW id \in LessonIds'
      PROVE  \/ id \in LessonIds
             \/ \E w \in Workers : pc[w] = "lesson" /\ about'[id].text = req[w].text
  <2>1. PICK i \in Attesting("semantic")' : id = IdAt(i)'
    BY DEF LessonIds
  <2>2. CASE i \in Attesting("semantic")
    BY <1>1, <2>1, <2>2, LinksGrow DEF LessonIds
  <2>3. CASE i \notin Attesting("semantic")
    <3>1. ASSUME UNCHANGED log PROVE FALSE
      BY <2>1, <2>3, <3>1 DEF Attesting
    <3>2. ASSUME NEW w \in Workers, ApplyStep(w) PROVE FALSE
      BY <2>1, <2>3, <3>2, StepLinks
    <3>3. ASSUME NEW w \in Workers, ApplyEpisode(w) PROVE FALSE
      <4>1. pc[w] \in {"episode", "lesson"} /\ ApplyRemember(w, "episodic")
        BY <3>3 DEF ApplyEpisode
      <4> QED
        BY <2>1, <2>3, <4>1, MemoryLinks DEF AddsAt
    <3>4. ASSUME NEW w \in Workers, ApplyLesson(w)
          PROVE  pc[w] = "lesson" /\ about'[id].text = req[w].text
      <4>1. pc[w] = "lesson" /\ ApplyRemember(w, "semantic")
        BY <3>4 DEF ApplyLesson
      <4>2. PICK n \in Nat :
              /\ log'[Agent][n].memory_id = NewId
              /\ Attesting("semantic")' = Attesting("semantic") \cup {n}
              /\ about'[NewId].text = req[w].text
        BY <4>1, MemoryLinks DEF AddsAt
      <4> QED
        BY <2>1, <2>3, <4>1, <4>2 DEF IdAt
    <3>5. ASSUME NEW m \in memories, Forget(m) PROVE UNCHANGED log
      BY <3>5 DEF Forget, AuditLog!Forget
    <3>6. UNCHANGED tables => UNCHANGED log
      BY DEF tables
    <3> QED
      BY <3>1, <3>2, <3>3, <3>4, <3>5, <3>6, TableCases
  <2> QED
    BY <2>2, <2>3
<1> QED
  BY <1>2, <1>3

\* Only requests bring texts in, and every lesson is about one of them.
LEMMA TextsFromStep ==
    ASSUME Inv, [Next]_vars, NEW texts, SignalTexts \subseteq texts, TextsFrom(texts)
    PROVE  TextsFrom(texts)'
<1>1. ASSUME NEW id \in LessonIds' PROVE about'[id].text \in texts
  BY LessonIdsStep DEF TextsFrom, InProgress
<1>2. ASSUME NEW v \in Workers, pc'[v] # "idle" PROVE req'[v].text \in texts
  <2>1. ASSUME NEW x \in Signals, NEW t \in TaskIds, Request(v, x, t)
        PROVE  req'[v].text = x.text
    BY <2>1 DEF Request, Inv, TypeOK
  <2>2. ASSUME RecallLesson(v) PROVE pc[v] # "idle" /\ req'[v].text = req[v].text
    BY <2>2 DEF RecallLesson, Inv, TypeOK
  <2>3. Consolidate(v) => pc[v] # "idle"
    BY DEF Consolidate
  <2>4. \A x \in Signals : x.text \in texts
    BY DEF SignalTexts
  <2> QED
    BY <1>2, <2>1, <2>2, <2>3, <2>4, Course DEF TextsFrom, InProgress
<1> QED
  BY <1>1, <1>2 DEF TextsFrom, InProgress

\* What RecallLesson returns is a lesson in reach.
LEMMA RecalledInReach ==
    ASSUME Inv, NEW w \in Workers, NEW id \in Recallable(req[w]), id # NoMemory
    PROVE  id \in LessonIds /\ Distance[about[id].text][req[w].text] <= LessonApplies
<1>1. PICK s \in Nearest(req[w].text, Candidates) :
         \E m \in Closest(Preferred(s, req[w]), req[w].text) : id = m.id
  BY DEF Recallable
<1>2. PICK m \in Closest(Preferred(s, req[w]), req[w].text) : id = m.id
  BY <1>1
<1>3. m \in s /\ m.kind = "semantic" /\ Dist(m, req[w].text) <= LessonApplies
  BY <1>2 DEF Closest, Preferred, Usable
<1>4. m \in memories
  BY <1>3, NearestAreMemories
<1>5. \E i \in Attesting("semantic") : IdAt(i) = m.id
  BY <1>3, <1>4 DEF Inv, Attested
<1> QED
  BY <1>2, <1>3, <1>5 DEF LessonIds, Dist

LEMMA LessonInReachStep ==
    ASSUME Inv, [Next]_vars, LessonInReach
    PROVE  LessonInReach'
<1> SUFFICES ASSUME NEW v \in Workers, req'[v].lesson # NoMemory
             PROVE  /\ pc'[v] # "idle"
                    /\ req'[v].lesson \in LessonIds'
                    /\ Distance[about'[req'[v].lesson].text][req'[v].text] <= LessonApplies
  BY DEF LessonInReach, InProgress
<1>1. NoRequest.lesson = NoMemory
  BY DEF NoRequest
<1>2. CASE pc'[v] # "idle" /\ req'[v] = req[v]
  BY <1>2, LessonIdsStep DEF LessonInReach
<1>3. CASE UNCHANGED <<pc[v], req[v], known[v]>>
  BY <1>2, <1>3 DEF LessonInReach, InProgress
<1>4. ASSUME NEW x \in Signals, NEW t \in TaskIds, Request(v, x, t) PROVE FALSE
  BY <1>4 DEF Request, Inv, TypeOK
<1>5. CASE RecallLesson(v)
  <2>1. PICK id \in Recallable(req[v]) : req' = [req EXCEPT ![v].lesson = id]
    BY <1>5 DEF RecallLesson
  <2>2. req'[v].lesson = id /\ req'[v].text = req[v].text /\ pc'[v] # "idle"
    BY <1>5, <2>1 DEF RecallLesson, Goto, Inv, TypeOK
  <2> QED
    BY <2>2, RecalledInReach, LessonIdsStep
<1> QED
  BY <1>1, <1>2, <1>3, <1>4, <1>5, Course

\* Such a request decides by the remedy of the lesson's kind.
LEMMA OwnRunbook ==
    ASSUME Inv, NEW texts, ClassesApart(texts), TextsFrom(texts), LessonInReach
    PROVE  ActsOnOwnRunbook
<1> SUFFICES ASSUME NEW w \in Workers, req[w].lesson # NoMemory
             PROVE  Decision(req[w]) = PreferredRemedy(KindOf[req[w].text])
  BY DEF ActsOnOwnRunbook
<1> DEFINE x == about[req[w].lesson].text
<1>1. req[w].lesson \in LessonIds /\ Distance[x][req[w].text] <= LessonApplies
      /\ InProgress(w)
  BY DEF LessonInReach
<1>2. x \in texts /\ req[w].text \in texts
  BY <1>1 DEF TextsFrom
<1>3. PreferredRemedy(KindOf[x]) = PreferredRemedy(KindOf[req[w].text])
  BY <1>1, <1>2 DEF ClassesApart
<1>4. x \in Texts /\ KindOf[x] # Comma
  <2>1. req[w].lesson \in DOMAIN about
    BY DEF Inv, Requests
  <2> QED
    BY <2>1, AboutTexts, KindsAssumption DEF Inv
<1>5. Decision(req[w]) = ExtractRemedy(LessonText(KindOf[x]))
  BY DEF Decision, Content
<1> HIDE DEF x
<1> QED
  BY <1>3, <1>4, <1>5, ReadBack

(* As long as incidents that call for different remedies are further apart *)
(* than LessonApplies, a decision from memory is the whole remedy for the  *)
(* incident at hand, however requests overlap and whatever fails.  (The    *)
(* reports the dashboard's two buttons send are closer.)                   *)
THEOREM DecisionsFromOwnRunbook ==
    ASSUME ClassesApart(SignalTexts)
    PROVE  Spec => []ActsOnOwnRunbook
<1>1. Init => TextsFrom(SignalTexts) /\ LessonInReach
  <2> SUFFICES ASSUME Init PROVE TextsFrom(SignalTexts) /\ LessonInReach
    OBVIOUS
  <2>1. log[Agent] = <<>> /\ LessonIds = {}
    BY DEF Init, AuditLog!Init, LessonIds, Attesting
  <2>2. NoRequest.lesson = NoMemory
    BY DEF NoRequest
  <2> QED
    BY <2>1, <2>2 DEF Init, TextsFrom, LessonInReach, InProgress
<1>2. Inv /\ TextsFrom(SignalTexts) /\ LessonInReach /\ [Next]_vars
        => (TextsFrom(SignalTexts) /\ LessonInReach)'
  <2>1. SignalTexts' = SignalTexts
    BY DEF SignalTexts
  <2> QED
    BY <2>1, TextsFromStep, LessonInReachStep
<1>3. Inv /\ TextsFrom(SignalTexts) /\ LessonInReach => ActsOnOwnRunbook
  BY OwnRunbook
<1> QED
  BY <1>1, <1>2, <1>3, Invariance, PTL DEF Spec

=============================================================================

----------------------------- MODULE AgentLoop -----------------------------
(***************************************************************************)
(* Agent.Handle (internal/agent/agent.go) and the parts of memory.Store it *)
(* calls, run by concurrent requests to /api/incident of `agent serve`:    *)
(*                                                                         *)
(*   RecallLesson    read                                                  *)
(*   recordStep      transaction    (state and its link)                   *)
(*   Remember        transaction    (the episode and its link)             *)
(*   Consolidate     read, then Remember: transaction (lesson and link)    *)
(*                                                                         *)
(* Each transaction is one atomic step here, a step of AuditLog, which     *)
(* StoreTxn is shown to implement.  Between the steps of one request the   *)
(* steps of others, failures, a restart of the server and the TTL job take *)
(* place.  Nothing in the code retries or resumes a request.               *)
(***************************************************************************)
EXTENDS Naturals, Sequences, FiniteSetsExt, Runbook

CONSTANTS
    Agent,               \* the agent ID of the server
    Workers,             \* goroutines serving /api/incident
    TaskIds,             \* "task-<milliseconds>": two requests may share one
    MemIds,              \* 1 .. n, numbered in the order they are drawn
    NoAgent, NoMemory, NoTask,
    Texts,               \* texts of incidents, "<kind>: <detail>"
    KindOf,              \* KindOf[x]: the kind in x
    Distance,            \* Distance[x][y]: L2 of their embeddings, times 100
    Regions, NoRegion,   \* nodeRegion; NoRegion is "", for an unknown node
    GatewayRegion,       \* where a row without a region is homed
    Signals,             \* the requests: records of text and region
    Candidates,          \* rows RecallLesson fetches (50)
    MinEpisodes,         \* episodes that make a lesson (3)
    ExtraNeighbours,     \* Consolidate fetches minEpisodes + 4 rows
    SameIncidentClass,   \* 1.15
    LessonApplies,       \* 1.20
    MaxFaults            \* bound: errors, lost acknowledgements and restarts

ASSUME MemIdsAssumption == IsFiniteSet(MemIds) /\ MemIds = 1 .. Cardinality(MemIds)
ASSUME WorkersAssumption == IsFiniteSet(Workers)
ASSUME NullAssumption == NoMemory \notin MemIds   \* SQL NULL is not an id
ASSUME DistanceAssumption ==
    \A x, y \in Texts : Distance[x][y] \in Nat /\ Distance[x][y] = Distance[y][x]
\* True of the kinds the code knows; a request may name any other.
ASSUME KindsAssumption == Texts # {} /\ \A x \in Texts : KindOf[x] # Comma
ASSUME SignalsAssumption ==
    Signals \subseteq [text : Texts, region : Regions \cup {NoRegion}]
ASSUME RegionsAssumption == GatewayRegion \in Regions
ASSUME BoundsAssumption ==
    {Candidates, MinEpisodes, ExtraNeighbours, SameIncidentClass, LessonApplies, MaxFaults}
      \subseteq Nat

VARIABLES
    memories, tasks, log,   \* the tables, see AuditLog
    about,     \* about[id]: content and home of each memory ever written
    pc,        \* pc[w]: what request w does next, "idle" when there is none
    req,       \* req[w]: its signal, its task id, and the lesson it acts on,
               \* NoMemory when it follows the playbook
    answer,    \* what the last request of w was told
    faults,
    known,     \* history: a lesson in reach existed when request w arrived
    overlap    \* history: two requests have been in progress at once

AuditLog == INSTANCE AuditLog WITH Agents <- {Agent}

tables == <<memories, tasks, log, about>>
vars == <<memories, tasks, log, about, pc, req, answer, faults, known, overlap>>

-----------------------------------------------------------------------------
(* Recall.                                                                 *)

Drawn == DOMAIN about
NewId == Cardinality(Drawn) + 1

Dist(m, text) == Distance[about[m.id].text][text]

Within(text, r) == {m \in memories : Dist(m, text) <= r}

\* ORDER BY dist LIMIT k; rows at the same distance come in any order.
Nearest(text, k) ==
    IF Cardinality(memories) <= k THEN {memories}
    ELSE LET radius == Min({r \in {Dist(m, text) : m \in memories} :
                              Cardinality(Within(text, r)) >= k})
             closer == {m \in memories : Dist(m, text) < radius}
         IN  {closer \cup ties :
                ties \in kSubset(k - Cardinality(closer), Within(text, radius) \ closer)}

Closest(s, text) == {m \in s : \A n \in s : Dist(m, text) <= Dist(n, text)}

\* Mutant: a lesson at any distance is taken.
UsableAtAnyDistance(s, text) == {m \in s : m.kind = "semantic"}

\* The loop of RecallLesson keeps the lessons that are close enough ...
Usable(s, text) ==
    {m \in s : m.kind = "semantic" /\ Dist(m, text) <= LessonApplies}

\* ... and prefers those homed where the incident was observed.
Preferred(s, x) ==
    LET usable == Usable(s, x.text)
        homed  == {m \in usable : about[m.id].region = x.region}
    IN  IF homed # {} THEN homed ELSE usable

\* Mutant: only the nearest row is fetched, as before RecallLesson over-fetched.
RecallableOfTopOne(x) ==
    UNION {LET lessons == Preferred(s, x)
           IN  IF lessons = {} THEN {NoMemory}
               ELSE {m.id : m \in Closest(lessons, x.text)}
             : s \in Nearest(x.text, 1)}

\* The ids RecallLesson may return for a signal.
Recallable(x) ==
    UNION {LET lessons == Preferred(s, x)
           IN  IF lessons = {} THEN {NoMemory}
               ELSE {m.id : m \in Closest(lessons, x.text)}
             : s \in Nearest(x.text, Candidates)}

\* Mutant: Consolidate does not look for the lesson it is about to write.
NeverLearned(s, kind) == FALSE

\* The text of a lesson is determined by the kind of incident.
AlreadyLearned(s, kind) ==
    \E m \in s : m.kind = "semantic" /\ KindOf[about[m.id].text] = kind

\* Mutant: neighbours of any distance count.
EpisodesOfAnyKind(s, text) == {m \in s : m.kind = "episodic"}

\* Mutant: the threshold of an earlier build, 0.35.
SimilarEarlierBuild(s, text) == {m \in s : m.kind = "episodic" /\ Dist(m, text) <= 35}

Similar(s, text) ==
    {m \in s : m.kind = "episodic" /\ Dist(m, text) <= SameIncidentClass}

\* A lesson's content; Handle decides by the lesson, or by the playbook.
Content(id) == LessonText(KindOf[about[id].text])

Decision(x) ==
    IF x.lesson = NoMemory THEN Playbook(KindOf[x.text])
                           ELSE ExtractRemedy(Content(x.lesson))

-----------------------------------------------------------------------------
NoAction == <<>>
Silent == [status |-> "none", action |-> NoAction, from_memory |-> FALSE, learned |-> FALSE]

\* The local variables of Handle, when it is not running.
NoRequest == [text   |-> CHOOSE x \in Texts : TRUE,
              region |-> NoRegion,
              task   |-> NoTask,
              lesson |-> NoMemory]

InProgress(w) == pc[w] # "idle"

Init ==
    /\ AuditLog!Init
    /\ about = <<>>
    /\ pc = [w \in Workers |-> "idle"]
    /\ req = [w \in Workers |-> NoRequest]
    /\ answer = [w \in Workers |-> Silent]
    /\ faults = 0
    /\ known = [w \in Workers |-> FALSE]
    /\ overlap = FALSE

Goto(w, l) == pc' = [pc EXCEPT ![w] = l]

\* A POST to /api/incident.  Bound: enough memory ids for all in progress.
Request(w, x, t) ==
    /\ ~InProgress(w)
    /\ NewId + 2 * Cardinality({v \in Workers : InProgress(v)}) + 1
         <= Cardinality(MemIds)
    /\ Goto(w, "recall")
    /\ req' = [req EXCEPT ![w] = [text |-> x.text, region |-> x.region,
                                  task |-> t, lesson |-> NoMemory]]
    /\ answer' = [answer EXCEPT ![w] = Silent]
    /\ known' = [known EXCEPT ![w] = Usable(memories, x.text) # {}]
    /\ overlap' = (overlap \/ \E v \in Workers : InProgress(v))
    /\ UNCHANGED <<tables, faults>>

RecallLesson(w) ==
    /\ pc[w] = "recall"
    /\ \E id \in Recallable(req[w]) : req' = [req EXCEPT ![w].lesson = id]
    /\ Goto(w, "step")
    /\ UNCHANGED <<tables, answer, faults, known, overlap>>

-----------------------------------------------------------------------------
(* The three transactions, as the database applies them.                   *)

ApplyStep(w) ==
    /\ pc[w] = "step"
    /\ AuditLog!RecordStep(Agent, req[w].task)
    /\ UNCHANGED about

\* Mutant: the region "" is written as it is.
HomeUnset(region) == region

Home(region) == IF region = NoRegion THEN GatewayRegion ELSE region

\* Store.Remember, as the agent calls it.
Remember(kind, text, region, task) ==
    /\ AuditLog!Remember(Agent, kind, NewId)
    /\ about' = Append(about, [text |-> text, region |-> Home(region), task |-> task])

ApplyRemember(w, kind) == Remember(kind, req[w].text, req[w].region, req[w].task)

ApplyEpisode(w) == pc[w] = "episode" /\ ApplyRemember(w, "episodic")
ApplyLesson(w)  == pc[w] = "lesson" /\ ApplyRemember(w, "semantic")

Reply(w, status, learned) ==
    /\ Goto(w, "idle")
    /\ answer' = [answer EXCEPT ![w] =
                     [status      |-> status,
                      action      |-> IF status = "ok" THEN Decision(req[w]) ELSE NoAction,
                      from_memory |-> req[w].lesson # NoMemory,
                      learned     |-> learned]]
    /\ req' = [req EXCEPT ![w] = NoRequest]

\* Mutant: a failed recordStep is logged and the episode written anyway.
RecordStepOptional(w) ==
    /\ pc[w] = "step"
    /\ ApplyStep(w) \/ UNCHANGED tables
    /\ Goto(w, "episode")
    /\ UNCHANGED <<req, answer, faults, known, overlap>>

RecordStep(w) ==
    /\ ApplyStep(w)
    /\ Goto(w, "episode")
    /\ UNCHANGED <<req, answer, faults, known, overlap>>

\* Mutant: a decision taken from memory leaves no episode.
RememberNewEpisode(w) ==
    /\ pc[w] = "episode"
    /\ IF req[w].lesson = NoMemory THEN ApplyEpisode(w) ELSE UNCHANGED tables
    /\ Goto(w, "consolidate")
    /\ UNCHANGED <<req, answer, faults, known, overlap>>

RememberEpisode(w) ==
    /\ ApplyEpisode(w)
    /\ Goto(w, "consolidate")
    /\ UNCHANGED <<req, answer, faults, known, overlap>>

\* Consolidate: the read, and the decision to write the lesson.
Consolidate(w) ==
    /\ pc[w] = "consolidate"
    /\ \E s \in Nearest(req[w].text, MinEpisodes + ExtraNeighbours) :
         IF /\ ~AlreadyLearned(s, KindOf[req[w].text])
            /\ Cardinality(Similar(s, req[w].text)) >= MinEpisodes
         THEN Goto(w, "lesson") /\ UNCHANGED <<req, answer>>
         ELSE Reply(w, "ok", FALSE)
    /\ UNCHANGED <<tables, faults, known, overlap>>

RememberLesson(w) ==
    /\ ApplyLesson(w)
    /\ Reply(w, "ok", TRUE)
    /\ UNCHANGED <<faults, known, overlap>>

-----------------------------------------------------------------------------
(* Failures.  Handle returns an error and the request ends with status 500.*)

Fault == faults < MaxFaults /\ faults' = faults + 1

\* A read or a transaction fails and leaves nothing behind: a lost connection,
\* a cancelled request, and also a conflict with another request, which the
\* code does not retry: contention that ends in an error counts as a fault.
Fail(w) ==
    /\ Fault
    /\ InProgress(w)
    /\ Reply(w, "error", FALSE)
    /\ UNCHANGED <<tables, known, overlap>>

\* COMMIT took effect, but the answer to it never came.
CommitAckLost(w) ==
    /\ Fault
    /\ ApplyStep(w) \/ ApplyEpisode(w) \/ ApplyLesson(w)
    /\ Reply(w, "error", FALSE)
    /\ UNCHANGED <<known, overlap>>

\* The server ends, with every request it was working on.
Restart ==
    /\ Fault
    /\ \E w \in Workers : InProgress(w)
    /\ pc' = [w \in Workers |-> "idle"]
    /\ answer' = [w \in Workers |->
                    IF InProgress(w) THEN [Silent EXCEPT !.status = "error"]
                    ELSE answer[w]]
    /\ req' = [w \in Workers |-> NoRequest]
    /\ UNCHANGED <<tables, known, overlap>>

\* The TTL job of the database, once an episode is 24 hours old.
Forget(m) ==
    /\ AuditLog!Forget(m)
    /\ UNCHANGED <<about, pc, req, answer, faults, known, overlap>>

Step(w) ==
    \/ RecallLesson(w)
    \/ RecordStep(w)
    \/ RememberEpisode(w)
    \/ Consolidate(w)
    \/ RememberLesson(w)

Next ==
    \/ \E w \in Workers :
         \/ \E x \in Signals, t \in TaskIds : Request(w, x, t)
         \/ Step(w)
         \/ Fail(w)
         \/ CommitAckLost(w)
    \/ Restart
    \/ \E m \in memories : Forget(m)

Spec == Init /\ [][Next]_vars

-----------------------------------------------------------------------------
(* Properties                                                              *)

Kinds == {KindOf[x] : x \in Texts}
Actions == {Playbook(k) : k \in Kinds} \cup {PreferredRemedy(k) : k \in Kinds}
             \cup {NoAction}

(* Every variable has its type.                                            *)
TypeOK ==
    /\ memories \subseteq AuditLog!MemoryRow
    /\ \A t \in TaskIds : tasks[t].step \in Nat
    /\ \A i \in DOMAIN log[Agent] :
         log[Agent][i].memory_id \in MemIds \cup {NoMemory}
    /\ about \in Seq([text : Texts, region : Regions, task : TaskIds \cup {NoTask}])
    /\ pc \in [Workers -> {"idle", "recall", "step", "episode", "consolidate", "lesson"}]
    /\ req \in [Workers -> [text : Texts, region : Regions \cup {NoRegion},
                            task : TaskIds \cup {NoTask}, lesson : MemIds \cup {NoMemory}]]
    /\ answer \in [Workers -> [status : {"none", "ok", "error"}, action : Actions,
                               from_memory : BOOLEAN, learned : BOOLEAN]]
    /\ faults \in 0 .. MaxFaults
    /\ known \in [Workers -> BOOLEAN] /\ overlap \in BOOLEAN

\* Positions in the log of the links of one kind of event.
Attesting(event) == {i \in DOMAIN log[Agent] : log[Agent][i].event = event}
IdAt(i) == log[Agent][i].memory_id

EpisodesOf(t) == {i \in Attesting("episodic") : about[IdAt(i)].task = t}
StepsInProgress(t) == {w \in Workers : pc[w] = "episode" /\ req[w].task = t}

(* No episode claims an action that the task does not record, even after   *)
(* faults (comment of Handle: "an action is never recorded without a       *)
(* verifiable link"): what the task knows of is never less than the        *)
(* episodes written and about to be written for it.                        *)
EpisodeFollowsStep ==
    \A t \in TaskIds :
        Cardinality(EpisodesOf(t)) + Cardinality(StepsInProgress(t)) <= tasks[t].step

(* A lesson rests on experience: before its link in the chain there are    *)
(* links of at least MinEpisodes episodes of the same class of incident,   *)
(* which is how Consolidate means it: within SameIncidentClass of its text.*)
LessonHasExperience ==
    \A i \in Attesting("semantic") :
        Cardinality({j \in Attesting("episodic") :
                       /\ j < i
                       /\ Distance[about[IdAt(j)].text][about[IdAt(i)].text]
                            <= SameIncidentClass}) >= MinEpisodes

Lessons(kind) ==
    {i \in Attesting("semantic") : KindOf[about[IdAt(i)].text] = kind}

(* Consolidation writes a lesson once, as long as requests do not overlap  *)
(* and all memories fit into the rows Consolidate fetches before the last  *)
(* one is written, whatever fails and whatever the TTL job removes.        *)
SerialLessonsUnique ==
    /\ ~overlap
    /\ Cardinality(Drawn) <= MinEpisodes + ExtraNeighbours + 1
    => \A x \in Texts : Cardinality(Lessons(KindOf[x])) <= 1

(* "Over-fetching keeps the lesson reachable" (comment of RecallLesson):   *)
(* a request that arrives when a lesson in reach exists is decided from    *)
(* memory, as long as all memories fit into the rows RecallLesson fetches. *)
LessonStaysInUse ==
    \A w \in Workers :
        known[w] /\ answer[w].status = "ok" /\ Cardinality(Drawn) <= Candidates
            => answer[w].from_memory

SignalTexts == {x.text : x \in Signals}

\* Incidents so close that a lesson from one applies to the other call for
\* the same remedy (comment of SameIncidentClass).
ClassesApart(texts) ==
    \A x, y \in texts :
        Distance[x][y] <= LessonApplies
            => PreferredRemedy(KindOf[x]) = PreferredRemedy(KindOf[y])

(* A decision from memory is the whole remedy for the incident at hand: no *)
(* fragment of it (comment of extractRemedy), and not that of another kind *)
(* of incident (comment of SameIncidentClass: "tight enough that an        *)
(* unrelated incident does not" match).                                    *)
ActsOnOwnRunbook ==
    \A w \in Workers :
        req[w].lesson # NoMemory
            => Decision(req[w]) = PreferredRemedy(KindOf[req[w].text])

AtRest == \A w \in Workers : ~InProgress(w)

StateAndMemoryAgree ==
    AtRest => \A t \in TaskIds : tasks[t].step = Cardinality(EpisodesOf(t))

(* Without a fault, and so without a conflict that ends in an error, the   *)
(* tables agree whenever no request is in progress: each step of a task    *)
(* has its episode.                                                        *)
AgreeWithoutFaults == faults = 0 => StateAndMemoryAgree

(* "State, embedding and audit row commit atomically or not at all"        *)
(* (sql/schema.sql): once no request is in progress, a task has as many    *)
(* steps as it has episodes, also after a fault.                           *)
CommitTogether == StateAndMemoryAgree

(* "Consolidation is idempotent - the lesson is written once" (README):    *)
(* there is at most one lesson for a kind of incident.                     *)
LessonWrittenOnce == \A x \in Texts : Cardinality(Lessons(KindOf[x])) <= 1

=============================================================================

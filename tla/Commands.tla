------------------------------ MODULE Commands ------------------------------
(***************************************************************************)
(* Two commands of the shell, run one after the other on the same tables:  *)
(*                                                                         *)
(*   agent demo    (cmd/agent/main.go)  remembers three seeds and lets the *)
(*                 agent handle four incidents, see AgentLoop              *)
(*   agent skills  (cmd/agent/skills.go)  writes each lesson to a file     *)
(*                                                                         *)
(* A command that meets an error ends with it; a killed one ends as well.  *)
(* Neither resumes or undoes what an earlier one has left behind.          *)
(***************************************************************************)
EXTENDS AgentLoop

CONSTANTS
    Shell,         \* the one worker: commands do not overlap
    Seeds,         \* what the demo remembers first: texts and regions
    Encounters,    \* the incidents of the demo; the i-th has task id i
    EarlierText,   \* an incident `agent serve` may have learned to handle
    Word,          \* Word[k]: kind k in lower case, with "-" for what is neither
                   \* a letter nor a digit, and cut: two kinds may share one
    NoFile, Torn   \* a file that does not exist; one without its full text

ASSUME ShellAssumption ==
    Workers = {Shell} /\ TaskIds = DOMAIN Encounters /\ NoTask \notin TaskIds
ASSUME DemoAssumption ==
    Seeds \in Seq([text : Texts, region : Regions]) /\ Encounters \in Seq(Signals)
ASSUME WordAssumption == Kinds \subseteq DOMAIN Word
\* Three reports of one text are enough for a lesson.
ASSUME EarlierAssumption ==
    /\ EarlierText \in Texts /\ Distance[EarlierText][EarlierText] <= SameIncidentClass
    /\ MinEpisodes <= 3 /\ 4 <= Cardinality(MemIds)

VARIABLES
    command,     \* "none", "demo" or "skills"
    item,        \* the seed or encounter the demo comes to next
    recalled,    \* ids of the lessons the last command recalled for files
    unwritten,   \* those it has still to write
    file,        \* the one whose file is open, or NoMemory
    files,       \* files[s]: the lesson in <s>/SKILL.md
    ended        \* how the last command ended: "demo", "skills", "error"

agentVars == vars
skillVars == <<recalled, unwritten, file, files>>
cmdVars == <<command, item, recalled, unwritten, file, files, ended>>
allVars == <<vars, cmdVars>>

\* The directory of a lesson's skill.  Bound: the 60 characters it is cut to end
\* in the first words of the remedy, and no kind holds the words of a remedy.
Slug(lesson) ==
    [i \in 1 .. 4 |-> IF lesson[i] = Comma THEN "-"
                      ELSE IF i = 2 THEN Word[lesson[i]] ELSE lesson[i]]

Slugs == {Slug(LessonText(k)) : k \in Kinds}
SkillDir(id) == Slug(Content(id))

\* The tables when three reports of EarlierText have led to a lesson and have
\* expired; the tasks of `agent serve` are left out.
LearnedEarlier ==
    /\ memories = {AuditLog!NewMemory(Agent, "semantic", 4)}
    /\ about = [i \in 1 .. 4 |->
                  [text |-> EarlierText, region |-> GatewayRegion, task |-> NoTask]]
    /\ LET link(event, id) == [event |-> event, memory_id |-> id]
       IN  log = [a \in {Agent} |->
                    <<link("act", NoMemory), link("episodic", 1),
                      link("act", NoMemory), link("episodic", 2),
                      link("act", NoMemory), link("episodic", 3), link("semantic", 4)>>]

CommandsInit ==
    /\ \/ AuditLog!Init /\ about = <<>>
       \/ LearnedEarlier /\ tasks = [t \in TaskIds |-> [agent_id |-> NoAgent, step |-> 0]]
    /\ pc = [w \in Workers |-> "idle"]
    /\ req = [w \in Workers |-> NoRequest]
    /\ answer = [w \in Workers |-> Silent]
    /\ faults = 0
    /\ known = [w \in Workers |-> FALSE]
    /\ overlap = FALSE
    /\ command = "none" /\ item = 0 /\ ended = "none"
    /\ recalled = {} /\ unwritten = {} /\ file = NoMemory
    /\ files = [s \in Slugs |-> NoFile]

Running(c) == command = c /\ ~InProgress(Shell)

Ends(how) ==
    /\ command' = "none" /\ item' = 0 /\ ended' = how
    /\ unwritten' = {} /\ file' = NoMemory
    /\ recalled' = IF how = "skills" THEN recalled ELSE {}
    /\ UNCHANGED files

-----------------------------------------------------------------------------
(* agent demo                                                              *)

\* Bound: there are ids for all that a run may remember.
StartDemo ==
    /\ command = "none"
    /\ NewId + Len(Seeds) + 2 * Len(Encounters) <= Cardinality(MemIds)
    /\ command' = "demo" /\ item' = 1 /\ ended' = "none"
    /\ recalled' = {}
    /\ UNCHANGED <<agentVars, unwritten, file, files>>

RememberSeed ==
    /\ Running("demo")
    /\ item \in DOMAIN Seeds
    /\ Remember("episodic", Seeds[item].text, Seeds[item].region, NoTask)
    /\ UNCHANGED <<pc, req, answer, known, overlap>>

Seed ==
    /\ RememberSeed
    /\ item' = item + 1
    /\ UNCHANGED <<faults, command, skillVars, ended>>

Encounter ==
    /\ Running("demo")
    /\ LET i == item - Len(Seeds)
       IN  i \in DOMAIN Encounters /\ Request(Shell, Encounters[i], i)
    /\ item' = item + 1
    /\ UNCHANGED <<command, skillVars, ended>>

HandleStep ==
    /\ Step(Shell)
    /\ UNCHANGED cmdVars

DemoEnds ==
    /\ Running("demo")
    /\ item > Len(Seeds) + Len(Encounters)
    /\ Ends("demo")
    /\ UNCHANGED agentVars

-----------------------------------------------------------------------------
(* agent skills                                                            *)

\* Recall, and the filter.  Bound: the 200 rows it asks for are all there are.
StartSkills ==
    /\ command = "none"
    /\ recalled' = {m.id : m \in {n \in memories : n.kind = "semantic"}}
    /\ unwritten' = recalled'
    /\ IF recalled' = {} THEN command' = "none" /\ ended' = "error"
                         ELSE command' = "skills" /\ ended' = "none"
    /\ UNCHANGED <<agentVars, item, file, files>>

\* Mutant: a file that is there is taken to be written.
OpenNewFile(id) ==
    /\ Running("skills")
    /\ file = NoMemory /\ id \in unwritten
    /\ IF files[SkillDir(id)] = NoFile
       THEN /\ file' = id
            /\ files' = [files EXCEPT ![SkillDir(id)] = Torn]
            /\ UNCHANGED unwritten
       ELSE unwritten' = unwritten \ {id} /\ UNCHANGED <<file, files>>
    /\ UNCHANGED <<agentVars, command, item, recalled, ended>>

\* os.WriteFile truncates the file ...
OpenFile(id) ==
    /\ Running("skills")
    /\ file = NoMemory /\ id \in unwritten
    /\ file' = id
    /\ files' = [files EXCEPT ![SkillDir(id)] = Torn]
    /\ UNCHANGED <<agentVars, command, item, recalled, unwritten, ended>>

\* Mutant: the file stays open.
WriteAndLeaveOpen ==
    /\ Running("skills")
    /\ file # NoMemory
    /\ files' = [files EXCEPT ![SkillDir(file)] = file]
    /\ unwritten' = unwritten \ {file}
    /\ UNCHANGED <<agentVars, command, item, recalled, file, ended>>

\* ... and then writes and closes it.
WriteFile ==
    /\ Running("skills")
    /\ file # NoMemory
    /\ files' = [files EXCEPT ![SkillDir(file)] = file]
    /\ unwritten' = unwritten \ {file}
    /\ file' = NoMemory
    /\ UNCHANGED <<agentVars, command, item, recalled, ended>>

SkillsEnd ==
    /\ Running("skills")
    /\ unwritten = {}
    /\ Ends("skills")
    /\ UNCHANGED agentVars

-----------------------------------------------------------------------------
(* Errors, and the end of the process, in a request and elsewhere.         *)

RequestBreaks == (Fail(Shell) \/ CommitAckLost(Shell)) /\ Ends("error")

SeedAckLost == RememberSeed /\ Fault /\ Ends("error")

CommandBreaks ==
    /\ \E c \in {"demo", "skills"} : Running(c)
    /\ Fault /\ Ends("error")
    /\ UNCHANGED <<tables, pc, req, answer, known, overlap>>

\* Bound: the TTL job runs between commands.
ForgetBetween(m) ==
    /\ command = "none"
    /\ Forget(m)
    /\ UNCHANGED cmdVars

CommandsNext ==
    \/ StartDemo
    \/ Seed
    \/ Encounter
    \/ HandleStep
    \/ DemoEnds
    \/ StartSkills
    \/ \E id \in MemIds : OpenFile(id)
    \/ WriteFile
    \/ SkillsEnd
    \/ RequestBreaks
    \/ SeedAckLost
    \/ CommandBreaks
    \/ \E m \in memories : ForgetBetween(m)

CommandsSpec == CommandsInit /\ [][CommandsNext]_allVars

-----------------------------------------------------------------------------
(* Properties                                                              *)

(* Every variable of this module has its type.                             *)
CommandsTypeOK ==
    /\ command \in {"none", "demo", "skills"}
    /\ item \in 0 .. Len(Seeds) + Len(Encounters) + 1
    /\ unwritten \subseteq recalled /\ recalled \subseteq MemIds
    /\ file \in unwritten \cup {NoMemory}
    /\ files \in [Slugs -> MemIds \cup {NoFile, Torn}]
    /\ ended \in {"none", "demo", "skills", "error"}

\* The texts of all lessons there are and will be.
LessonTexts == SignalTexts \cup {EarlierText}

\* The demo's incidents are so close that each counts for, and is decided by,
\* a lesson from any other; lessons for another kind are out of their class.
OneClass ==
    \A i \in DOMAIN Encounters :
        /\ \A j \in DOMAIN Encounters :
             Distance[Encounters[j].text][Encounters[i].text] <= SameIncidentClass
        /\ \A y \in LessonTexts :
             IF KindOf[y] = KindOf[Encounters[i].text]
             THEN Distance[y][Encounters[i].text] <= LessonApplies
             ELSE Distance[y][Encounters[i].text] > SameIncidentClass

\* Enough incidents make a lesson before the last.
DemoSuffices == MinEpisodes \in 1 .. Len(Encounters) - 1

\* More rows lie within LessonApplies of a text than RecallLesson fetches, so
\* that a lesson may be crowded out.
Crowded(text) == Cardinality(Within(text, LessonApplies)) > Candidates

(* "show the agent learning" (main.go): whatever earlier runs, complete or *)
(* broken off, and the TTL job have left, a demo that ends without an      *)
(* error has decided its last incident from memory, unless the rows near   *)
(* that incident are by then more than RecallLesson looks through.         *)
DemoEndsInMemory ==
    [][DemoEnds /\ ~Crowded(Encounters[Len(Encounters)].text)
         => answer[Shell].from_memory]_allVars

(* When `agent skills` ends without an error, the remedy of each lesson it *)
(* recalled is in a complete file, whatever a run that broke off has left, *)
(* and even if lessons for two kinds of incident share a directory.        *)
SkillFilesComplete ==
    ended = "skills" =>
        \A id \in recalled :
            \E l \in recalled : /\ files[SkillDir(id)] = l
                               /\ ExtractRemedy(Content(l)) = ExtractRemedy(Content(id))

=============================================================================

------------------------------ MODULE StoreTxn ------------------------------
(***************************************************************************)
(* The two transactions of the memory layer, statement by statement, run   *)
(* by concurrent workers (HTTP handlers of `agent serve`, CLI processes)   *)
(* on one CockroachDB database:                                            *)
(*                                                                         *)
(*   Store.Remember    BEGIN; INSERT memories; Chain.Append; COMMIT        *)
(*   Agent.recordStep  BEGIN; UPSERT tasks;    Chain.Append; COMMIT        *)
(*   Chain.Append      SELECT head of receipts; INSERT receipts            *)
(*                                                                         *)
(* BeginTx(ctx, nil) takes the default level, SERIALIZABLE.  The database  *)
(* is external: a transaction reads committed rows, keeps its writes       *)
(* private, and commits only if what it read is still what it would read.  *)
(* Otherwise, and on any lost connection, cancelled request or crash, the  *)
(* deferred tx.Rollback leaves nothing behind.  No caller retries.         *)
(***************************************************************************)
EXTENDS Receipts, Sequences, FiniteSetsExt

CONSTANTS
    Agents,       \* agent identities, the -agent flag of each process
    Workers,      \* goroutines and processes that run transactions
    TaskIds,      \* task ids; two workers may use the same one
    MemIds,       \* values gen_random_uuid() can return
    NoAgent,      \* owner of a task row that does not exist
    HmacKey,      \* RECEIPT_KEY, the same in all processes
    MaxLinks,     \* bound: links committed and transactions open, together
    MaxFaults     \* bound: errors that are not serialization conflicts

ASSUME BoundsAssumption == MaxLinks \in Nat /\ MaxFaults \in Nat

\* SQL NULL is not a UUID.
ASSUME NullAssumption == NoMemory \notin MemIds

VARIABLES
    memories,     \* committed rows of table memories
    tasks,        \* tasks[t]: committed row of table tasks, step 0: none
    receipts,     \* receipts[a]: committed rows of agent a, see Receipts
    forgotten,    \* history: rows of memories the TTL job has deleted
    pc,           \* pc[w]: the statement worker w has completed
    op,           \* op[w]: the call worker w is running or ran last
    read,         \* read[w]: what its transaction has read
    row,          \* row[w]: the receipt it has inserted, not yet committed
    answer,       \* answer[w]: what the last call returned to its caller
    faults        \* errors so far that no conflict explains

tables == <<memories, tasks, receipts, forgotten>>
txn == <<pc, op, read, row>>
vars == <<memories, tasks, receipts, forgotten, pc, op, read, row, answer, faults>>

-----------------------------------------------------------------------------
(* The calls.  event is "act" for recordStep and the memory's kind for     *)
(* Remember; target is the task id, or the id INSERT returned.             *)

Kinds == {"episodic", "semantic"}

RecordStepCall(a, t) ==
    [agent |-> a, event |-> "act", target |-> t, ttl |-> FALSE]

\* Handle and demo remember an episode for 24 hours.
EpisodeCall(a) ==
    [agent |-> a, event |-> "episodic", target |-> NoMemory, ttl |-> TRUE]

\* Mutant: a lesson gets a decay horizon.
LessonCallWithTTL(a) ==
    [agent |-> a, event |-> "semantic", target |-> NoMemory, ttl |-> TRUE]

\* Consolidate remembers a lesson with ttl 0, which stores a NULL horizon.
LessonCall(a) ==
    [agent |-> a, event |-> "semantic", target |-> NoMemory, ttl |-> FALSE]

Calls ==
    UNION {{EpisodeCall(a), LessonCall(a)} \cup {RecordStepCall(a, t) : t \in TaskIds}
            : a \in Agents}

IsStep(o) == o.event = "act"

\* The memory_id Append is given: "" (stored as NULL) for a task step.
AttestedId(o) == IF IsStep(o) THEN NoMemory ELSE o.target

MemoryOf(o) ==
    [id |-> o.target, agent_id |-> o.agent, kind |-> o.event, expires |-> o.ttl]

\* Mutant: the upsert also takes the task over.
TaskOfTakenOver(o, old, step) == [agent_id |-> o.agent, step |-> step + 1]

\* The tasks row of recordStep, given the step the upsert read.
TaskOf(o, old, step) ==
    [agent_id |-> IF step = 0 THEN o.agent ELSE old.agent_id, step |-> step + 1]

NoCall == [agent |-> NoAgent, event |-> "none", target |-> NoMemory, ttl |-> FALSE]
NoRead == [step |-> 0, seq |-> 0, prev_hash |-> Genesis]
NoRow  == [event |-> "none", memory_id |-> NoMemory, prev_hash |-> Genesis, hash |-> Genesis]

\* A UUID no row and no open transaction holds.
FreshIds ==
    MemIds \ ({m.id : m \in memories \cup forgotten} \cup {op[w].target : w \in Workers})

InTxn(w) == pc[w] # "idle"

\* The number of links of all chains.
Links == MapThenSumSet(LAMBDA a : Cardinality(DOMAIN receipts[a]), Agents)

-----------------------------------------------------------------------------
Init ==
    /\ memories = {}
    /\ tasks = [t \in TaskIds |-> [agent_id |-> NoAgent, step |-> 0]]
    /\ receipts = [a \in Agents |-> <<>>]
    /\ forgotten = {}
    /\ pc = [w \in Workers |-> "idle"]
    /\ op = [w \in Workers |-> NoCall]
    /\ read = [w \in Workers |-> NoRead]
    /\ row = [w \in Workers |-> NoRow]
    /\ answer = [w \in Workers |-> "none"]
    /\ faults = 0

\* A worker calls recordStep or Remember, and db.BeginTx succeeds.
Begin(w, o) ==
    /\ ~InTxn(w)
    /\ Links + Cardinality({v \in Workers : InTxn(v)}) < MaxLinks
    /\ pc' = [pc EXCEPT ![w] = "begun"]
    /\ op' = [op EXCEPT ![w] = o]
    /\ read' = [read EXCEPT ![w] = NoRead]
    /\ row' = [row EXCEPT ![w] = NoRow]
    /\ answer' = [answer EXCEPT ![w] = "none"]
    /\ UNCHANGED <<tables, faults>>

\* Mutant: the INSERT runs on s.db instead of tx, and commits by itself.
InsertMemoryAutocommit(w, id) ==
    /\ pc[w] = "begun"
    /\ ~IsStep(op[w])
    /\ id \in FreshIds
    /\ pc' = [pc EXCEPT ![w] = "written"]
    /\ op' = [op EXCEPT ![w].target = id]
    /\ memories' = memories \cup {MemoryOf(op'[w])}
    /\ UNCHANGED <<tasks, receipts, forgotten, read, row, answer, faults>>

\* INSERT INTO memories ... RETURNING id: the id is drawn by the database.
InsertMemory(w, id) ==
    /\ pc[w] = "begun"
    /\ ~IsStep(op[w])
    /\ id \in FreshIds
    /\ pc' = [pc EXCEPT ![w] = "written"]
    /\ op' = [op EXCEPT ![w].target = id]
    /\ UNCHANGED <<tables, read, row, answer, faults>>

\* INSERT INTO tasks ... ON CONFLICT (id) DO UPDATE reads the row it extends.
UpsertTask(w) ==
    /\ pc[w] = "begun"
    /\ IsStep(op[w])
    /\ pc' = [pc EXCEPT ![w] = "written"]
    /\ read' = [read EXCEPT ![w].step = tasks[op[w].target].step]
    /\ UNCHANGED <<tables, op, row, answer, faults>>

\* Append, first statement: one SELECT for the next seq and the last hash.
ReadHead(w) ==
    /\ pc[w] = "written"
    /\ pc' = [pc EXCEPT ![w] = "head"]
    /\ read' = [read EXCEPT ![w].seq = NextSeq(receipts[op[w].agent]),
                            ![w].prev_hash = HeadHash(receipts[op[w].agent])]
    /\ UNCHANGED <<tables, op, row, answer, faults>>

\* Append, second statement: pk_receipts refuses a seq that is taken.
InsertReceipt(w) ==
    /\ pc[w] = "head"
    /\ read[w].seq \notin DOMAIN receipts[op[w].agent]
    /\ pc' = [pc EXCEPT ![w] = "linked"]
    /\ row' = [row EXCEPT ![w] =
                  NewRow(HmacKey, op[w].agent, read[w].seq, op[w].event,
                         AttestedId(op[w]), read[w].prev_hash)]
    /\ UNCHANGED <<tables, op, read, answer, faults>>

\* Mutants: READ COMMITTED, under which a read need not stay current.
StepUnchecked(w) == TRUE
HeadUnchecked(w) == TRUE

\* SERIALIZABLE: every value the transaction read is still current.
StepIsCurrent(w) ==
    IsStep(op[w]) => read[w].step = tasks[op[w].target].step

HeadIsCurrent(w) ==
    /\ read[w].seq = NextSeq(receipts[op[w].agent])
    /\ read[w].prev_hash = HeadHash(receipts[op[w].agent])

ReadsAreCurrent(w) ==
    /\ pc[w] \in {"written", "head", "linked"} => StepIsCurrent(w)
    /\ pc[w] \in {"head", "linked"} => HeadIsCurrent(w)

\* Both writes of the transaction become visible together.
Publish(w) ==
    /\ pc[w] = "linked"
    /\ ReadsAreCurrent(w)
    /\ receipts' = [receipts EXCEPT ![op[w].agent] = Insert(@, read[w].seq, row[w])]
    /\ IF IsStep(op[w])
       THEN /\ tasks' = [tasks EXCEPT ![op[w].target] = TaskOf(op[w], @, read[w].step)]
            /\ UNCHANGED memories
       ELSE /\ memories' = memories \cup {MemoryOf(op[w])}
            /\ UNCHANGED tasks
    /\ UNCHANGED forgotten

Answer(w, a) ==
    /\ pc' = [pc EXCEPT ![w] = "idle"]
    /\ answer' = [answer EXCEPT ![w] = a]
    /\ UNCHANGED <<op, read, row>>

\* Mutant: a commit waits until no other transaction is open.
CommitAlone(w) ==
    /\ \A v \in Workers \ {w} : ~InTxn(v)
    /\ Publish(w)
    /\ Answer(w, "ok")
    /\ UNCHANGED faults

Commit(w) ==
    /\ Publish(w)
    /\ Answer(w, "ok")
    /\ UNCHANGED faults

\* The connection drops after COMMIT took effect: tx.Commit returns an error.
CommitAckLost(w) ==
    /\ faults < MaxFaults
    /\ Publish(w)
    /\ Answer(w, "error")
    /\ faults' = faults + 1

\* Mutant: the error of Append or Commit is dropped.
ConflictIgnored(w) ==
    /\ InTxn(w)
    /\ ~ReadsAreCurrent(w)
    /\ Answer(w, "ok")
    /\ UNCHANGED <<tables, faults>>

\* Mutant: the failed statement is repeated with the head read before.
ConflictRepeatsInsert(w) ==
    /\ InTxn(w)
    /\ ~ReadsAreCurrent(w)
    /\ pc' = [pc EXCEPT ![w] = "head"]
    /\ UNCHANGED <<tables, op, read, row, answer, faults>>

\* 40001: the error goes up through Append or Commit, and is not retried.
Conflict(w) ==
    /\ InTxn(w)
    /\ ~ReadsAreCurrent(w)
    /\ Answer(w, "error")
    /\ UNCHANGED <<tables, faults>>

\* Any other error, a cancelled request context, or the end of the process.
Fail(w) ==
    /\ InTxn(w)
    /\ faults < MaxFaults
    /\ Answer(w, "error")
    /\ faults' = faults + 1
    /\ UNCHANGED tables

\* The row-level TTL job of table memories deletes a row past its horizon.
Forget(m) ==
    /\ m.expires
    /\ memories' = memories \ {m}
    /\ forgotten' = forgotten \cup {m}
    /\ UNCHANGED <<tasks, receipts, txn, answer, faults>>

Step(w) ==
    \/ \E id \in MemIds : InsertMemory(w, id)
    \/ UpsertTask(w)
    \/ ReadHead(w)
    \/ InsertReceipt(w)
    \/ Commit(w)
    \/ Conflict(w)

Next ==
    \/ \E w \in Workers :
         \/ \E o \in Calls : Begin(w, o)
         \/ Step(w)
         \/ CommitAckLost(w)
         \/ Fail(w)
    \/ \E m \in memories : Forget(m)

Spec == Init /\ [][Next]_vars

\* A worker inside a transaction keeps issuing its statements.
Fairness == \A w \in Workers : WF_vars(Step(w))

FairSpec == Spec /\ Fairness

-----------------------------------------------------------------------------
(* Properties                                                              *)

MemoryRow == [id: MemIds, agent_id: Agents, kind: Kinds, expires: BOOLEAN]
TaskRow   == [agent_id: Agents \cup {NoAgent}, step: Nat]

CallType ==
    [agent: Agents \cup {NoAgent}, event: Kinds \cup {"act", "none"},
     target: MemIds \cup TaskIds \cup {NoMemory}, ttl: BOOLEAN]

(* Every variable has its type; a hash is any value.                       *)
TypeOK ==
    /\ memories \subseteq MemoryRow
    /\ forgotten \subseteq MemoryRow
    /\ tasks \in [TaskIds -> TaskRow]
    /\ DOMAIN receipts = Agents
    /\ \A a \in Agents : DOMAIN receipts[a] \subseteq Nat \ {0}
    /\ pc \in [Workers -> {"idle", "begun", "written", "head", "linked"}]
    /\ op \in [Workers -> CallType]
    /\ DOMAIN read = Workers /\ DOMAIN row = Workers
    /\ \A w \in Workers : /\ DOMAIN read[w] = {"step", "seq", "prev_hash"}
                          /\ read[w].step \in Nat
                          /\ read[w].seq \in Nat
    /\ answer \in [Workers -> {"none", "ok", "error"}]
    /\ faults \in 0 .. MaxFaults

(* Whatever transactions interleave, fail or lose their acknowledgement,   *)
(* Chain.Verify finds no gap, no bad hash and no broken link in the chain  *)
(* of any agent: the chain never forks (comment of Chain.Append).          *)
ChainIntact == \A a \in Agents : ReportOK(HmacKey, a, receipts[a])

(* A memory row is committed iff exactly one link attests to it, in the    *)
(* chain of its agent and with its kind; only a row the TTL job has taken  *)
(* may be missing behind a link (comment of Store.Remember: "no window in  *)
(* which the embedding exists without its audit link, or vice versa").     *)
Attested ==
    /\ \A m \in memories \cup forgotten :
         \E s \in DOMAIN receipts[m.agent_id] :
            /\ receipts[m.agent_id][s].memory_id = m.id
            /\ receipts[m.agent_id][s].event = m.kind
    /\ \A a \in Agents : \A s \in DOMAIN receipts[a] :
         IF receipts[a][s].event = "act"
         THEN receipts[a][s].memory_id = NoMemory
         ELSE \E m \in memories \cup forgotten :
                 m.id = receipts[a][s].memory_id /\ m.agent_id = a
    /\ \A a, b \in Agents : \A s \in DOMAIN receipts[a], r \in DOMAIN receipts[b] :
         /\ receipts[a][s].memory_id = receipts[b][r].memory_id
         /\ receipts[a][s].memory_id # NoMemory
         => a = b /\ s = r

(* No link is ever rewritten or removed: what one Verify has seen, every   *)
(* later one sees unchanged.                                               *)
AppendOnly ==
    [][\A a \in Agents : \A s \in DOMAIN receipts[a] :
          s \in DOMAIN receipts'[a] /\ receipts'[a][s] = receipts[a][s]]_vars

\* The steps the rows of table tasks have counted, and the links of recordStep.
CountedSteps == UNION {{t} \X (1 .. tasks[t].step) : t \in TaskIds}

ActLinks ==
    UNION {{a} \X {s \in DOMAIN receipts[a] : receipts[a][s].event = "act"} : a \in Agents}

(* No step of a task is lost or counted twice, though workers that use the *)
(* same task id read and extend the same row: the rows of table tasks have *)
(* counted as many steps as there are "act" links in all chains.           *)
StepsCounted == Cardinality(CountedSteps) = Cardinality(ActLinks)

(* A consolidated lesson outlives the episodes it came from: the TTL job   *)
(* takes only episodes (comments in Store.Remember and of Consolidate).    *)
LessonsKept == \A m \in forgotten : m.kind # "semantic"

Recorded(w) == \E s \in DOMAIN receipts[op[w].agent] :
                  receipts[op[w].agent][s].memory_id = op[w].target

(* The id Remember returned without an error is that of a recorded memory; *)
(* and while no commit acknowledgement was lost, an error means that       *)
(* nothing was recorded, so that a caller may call again.                  *)
AnswerIsTruthful ==
    \A w \in Workers : op[w].event \in Kinds =>
        /\ answer[w] = "ok" => Recorded(w)
        /\ answer[w] = "error" /\ faults = 0 => ~Recorded(w)

(* Every call returns: no statement waits for ever on another transaction. *)
EveryCallAnswered == \A w \in Workers : InTxn(w) ~> ~InTxn(w)

(* A transaction is refused for a conflict only if another one committed:  *)
(* from any state with a transaction that could still commit, a link is    *)
(* added, whatever the interleaving, unless a fault occurs.                *)
ProgressUnderContention ==
    \A n \in 0 .. MaxLinks - 1, f \in 0 .. MaxFaults :
        (\E w \in Workers : InTxn(w) /\ ReadsAreCurrent(w) /\ Links = n /\ faults = f)
            ~> (Links > n \/ faults > f)

(* The transactions implement the promise of module AuditLog, in which the *)
(* memory or the step and its link appear in one step.                     *)
Log == [a \in Agents |->
          [s \in DOMAIN receipts[a] |->
              [event |-> receipts[a][s].event, memory_id |-> receipts[a][s].memory_id]]]

Audit == INSTANCE AuditLog WITH log <- Log

Refines == Audit!Spec

=============================================================================

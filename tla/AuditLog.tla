------------------------------ MODULE AuditLog ------------------------------
(***************************************************************************)
(* What the memory layer promises (the package comment of                  *)
(* internal/receipt/chain.go and the comment of Store.Remember): a memory  *)
(* or a task step and the receipt that attests to it appear together, in   *)
(* one step, and an agent's receipts form a log that only grows.           *)
(*                                                                         *)
(* This is the specification StoreTxn implements.  Hashes, sequence        *)
(* numbers and transactions do not occur in it.                            *)
(***************************************************************************)
EXTENDS Naturals, Sequences

CONSTANTS Agents, TaskIds, MemIds, NoAgent, NoMemory

VARIABLES memories,   \* the live rows of table memories
          tasks,      \* tasks[t]: owner and step of task t; step 0: no row
          log         \* log[a]: what agent a's receipts attest to, in order

vars == <<memories, tasks, log>>

\* Kinds of memory the code writes; the constant Checkpoint is never used.
MemoryKinds == {"episodic", "semantic"}

MemoryRow == [id: MemIds, agent_id: Agents, kind: MemoryKinds, expires: BOOLEAN]

\* An episode has a decay horizon, a lesson has none.
NewMemory(a, kind, id) ==
    [id |-> id, agent_id |-> a, kind |-> kind, expires |-> kind = "episodic"]

\* A task belongs to the agent that opened it; every step of it counts.
Advanced(row, a) ==
    [agent_id |-> IF row.step = 0 THEN a ELSE row.agent_id, step |-> row.step + 1]

-----------------------------------------------------------------------------
Init ==
    /\ memories = {}
    /\ tasks = [t \in TaskIds |-> [agent_id |-> NoAgent, step |-> 0]]
    /\ log = [a \in Agents |-> <<>>]

Attest(a, event, id) ==
    log' = [log EXCEPT ![a] = Append(@, [event |-> event, memory_id |-> id])]

RecordStep(a, t) ==
    /\ tasks' = [tasks EXCEPT ![t] = Advanced(@, a)]
    /\ Attest(a, "act", NoMemory)
    /\ UNCHANGED memories

\* A memory id is used once.
Unattested(id) ==
    \A b \in Agents : \A i \in DOMAIN log[b] : log[b][i].memory_id # id

Remember(a, kind, id) ==
    /\ Unattested(id)
    /\ memories' = memories \cup {NewMemory(a, kind, id)}
    /\ Attest(a, kind, id)
    /\ UNCHANGED tasks

\* Decay takes episodes only, and leaves the receipts that attest to them.
Forget(m) ==
    /\ m.kind = "episodic"
    /\ memories' = memories \ {m}
    /\ UNCHANGED <<tasks, log>>

Next ==
    \/ \E a \in Agents, t \in TaskIds : RecordStep(a, t)
    \/ \E a \in Agents, k \in MemoryKinds, id \in MemIds : Remember(a, k, id)
    \/ \E m \in memories : Forget(m)

Spec == Init /\ [][Next]_vars

=============================================================================

--------------------------- MODULE StoreTxnProofs ---------------------------
(***************************************************************************)
(* Proofs about StoreTxn, for every set of agents, workers, tasks and      *)
(* memory ids and every bound.                                             *)
(***************************************************************************)
EXTENDS StoreTxnInv, FiniteSetTheorems, TLAPS

-----------------------------------------------------------------------------
(* The head of a table of receipts.                                        *)

(* In a table numbered 1 .. n the last sequence number is n.               *)
LEMMA LastSeqOfRun ==
    ASSUME NEW n \in Nat, NEW t, DOMAIN t = 1 .. n
    PROVE  LastSeq(t) = n
<1>1. CASE n = 0
  BY <1>1 DEF LastSeq
<1>2. CASE n # 0
  <2>1. n \in DOMAIN t /\ \A m \in DOMAIN t : m <= n
    BY <1>2
  <2>2. \A k \in DOMAIN t : (\A m \in DOMAIN t : m <= k) => k = n
    BY <1>2
  <2>3. DOMAIN t # {}
    BY <2>1
  <2> QED
    BY <2>1, <2>2, <2>3, Zenon DEF LastSeq
<1> QED
  BY <1>1, <1>2

(* The hash Verify expects before row s of such a table is that of row     *)
(* s - 1.                                                                  *)
LEMMA ExpectedPrevOfRun ==
    ASSUME NEW n \in Nat, NEW t, DOMAIN t = 1 .. n, NEW s \in 1 .. n
    PROVE  ExpectedPrev(t, s) = IF s = 1 THEN Genesis ELSE t[s - 1].hash
<1>1. Before(t, s) = 1 .. (s - 1)
  BY DEF Before
<1>2. CASE s = 1
  BY <1>1, <1>2 DEF ExpectedPrev
<1>3. CASE s # 1
  <2> DEFINE Last(k) == \A m \in Before(t, s) : m <= k
  <2>1. s - 1 \in Before(t, s) /\ Last(s - 1)
    BY <1>1, <1>3
  <2>2. \A k \in Before(t, s) : Last(k) => k = s - 1
    BY <1>1, <1>3
  <2>3. Before(t, s) # {}
    BY <2>1
  <2>4. (CHOOSE k \in Before(t, s) : Last(k)) = s - 1
    <3> HIDE DEF Last
    <3> QED BY <2>1, <2>2, Zenon
  <2>5. ExpectedPrev(t, s) = t[CHOOSE k \in Before(t, s) : Last(k)].hash
    BY <2>3, Zenon DEF ExpectedPrev
  <2> QED
    BY <1>3, <2>4, <2>5
<1> QED
  BY <1>2, <1>3

(* Verify passes a well-formed chain.                                      *)
LEMMA WellFormedVerifies ==
    ASSUME NEW a, NEW t, WellFormed(a, t)
    PROVE  ReportOK(HmacKey, a, t)
<1> DEFINE n == LastSeq(t)
<1>0. n \in Nat /\ DOMAIN t = 1 .. n
  BY DEF WellFormed
<1>1. Gaps(t) = {}
  BY <1>0 DEF Gaps
<1>2. BadHashes(HmacKey, a, t) = {}
  BY DEF WellFormed, BadHashes
<1>3. BrokenLinks(t) = {}
  <2> SUFFICES ASSUME NEW s \in DOMAIN t
               PROVE  t[s].prev_hash = ExpectedPrev(t, s)
    BY DEF BrokenLinks
  <2> HIDE DEF n
  <2>1. ExpectedPrev(t, s) = IF s = 1 THEN Genesis ELSE t[s - 1].hash
    BY <1>0, ExpectedPrevOfRun
  <2> QED
    BY <2>1 DEF WellFormed
<1> QED
  BY <1>1, <1>2, <1>3 DEF ReportOK

(* The row Append makes from the current head extends a well-formed chain  *)
(* to a well-formed chain, and overwrites no row of it.                    *)
LEMMA AppendKeepsShape ==
    ASSUME NEW a, NEW t, WellFormed(a, t), NEW event, NEW id
    PROVE  LET r == NewRow(HmacKey, a, NextSeq(t), event, id, HeadHash(t))
           IN  /\ WellFormed(a, Insert(t, NextSeq(t), r))
               /\ NextSeq(t) \notin DOMAIN t
               /\ NextSeq(t) \in Nat \ {0}
<1> DEFINE n == LastSeq(t)
           r == NewRow(HmacKey, a, n + 1, event, id, HeadHash(t))
           u == Insert(t, n + 1, r)
<1>1. n \in Nat /\ DOMAIN t = 1 .. n
  BY DEF WellFormed
<1>2. NextSeq(t) = n + 1
  BY DEF NextSeq
<1>3. n + 1 \notin DOMAIN t
  BY <1>1
<1>4. DOMAIN u = 1 .. (n + 1)
  BY <1>1 DEF Insert
<1>5. LastSeq(u) = n + 1
  <2> HIDE DEF u
  <2> QED BY <1>1, <1>4, LastSeqOfRun
<1>6. u[n + 1] = r /\ \A s \in DOMAIN t : u[s] = t[s]
  BY <1>1, <1>3 DEF Insert
<1>7. HeadHash(t) = IF n + 1 = 1 THEN Genesis ELSE u[n].hash
  BY <1>1, <1>6 DEF HeadHash
<1>8. ASSUME NEW s \in DOMAIN u
      PROVE  /\ u[s].hash = Link(HmacKey, a, s, u[s].event, u[s].memory_id, u[s].prev_hash)
             /\ u[s].prev_hash = IF s = 1 THEN Genesis ELSE u[s - 1].hash
  <2>1. CASE s = n + 1
    <3>1. /\ u[s].event = event /\ u[s].memory_id = id
          /\ u[s].prev_hash = HeadHash(t)
          /\ u[s].hash = Link(HmacKey, a, n + 1, event, id, HeadHash(t))
      BY <2>1, <1>6 DEF NewRow
    <3> HIDE DEF u
    <3> QED
      BY <2>1, <3>1, <1>1, <1>7
  <2>2. CASE s # n + 1
    <3>1. s \in 1 .. n /\ (s # 1 => s - 1 \in 1 .. n)
      BY <2>2, <1>1, <1>4
    <3> HIDE DEF u, n
    <3> QED
      BY <3>1, <1>1, <1>6 DEF WellFormed
  <2> QED
    BY <2>1, <2>2
<1> HIDE DEF n, r, u
<1>9. WellFormed(a, u)
  BY <1>1, <1>4, <1>5, <1>8 DEF WellFormed
<1> QED
  BY <1>1, <1>2, <1>3, <1>9 DEF r, u

-----------------------------------------------------------------------------
(* Steps that change no table.                                             *)

\* The parts of the invariant that speak of the committed rows only.
TablesInv == ChainShape /\ Attested /\ Horizons /\ OnlyExpiredForgotten

(* A step that changes no table keeps them.                                *)
LEMMA TablesKept ==
    ASSUME TablesInv, UNCHANGED tables
    PROVE  TablesInv'
BY DEF TablesInv, tables, ChainShape, WellFormed, Attested, Horizons,
       OnlyExpiredForgotten

(* A call is of one of the three shapes: an episode, a lesson or a step.   *)
LEMMA CallsOK ==
    ASSUME NEW o \in Calls
    PROVE  /\ o.agent \in Agents /\ o.event \in Kinds \cup {"act"}
           /\ IsStep(o) => o.target \in TaskIds
           /\ o.ttl = (o.event = "episodic")
           /\ o \in CallType
<1>1. PICK a \in Agents :
        \/ o = EpisodeCall(a)
        \/ o = LessonCall(a)
        \/ \E t \in TaskIds : o = RecordStepCall(a, t)
  BY DEF Calls
<1>2. CASE o = EpisodeCall(a)
  BY <1>2 DEF EpisodeCall, IsStep, Kinds, CallType
<1>3. CASE o = LessonCall(a)
  BY <1>3 DEF LessonCall, IsStep, Kinds, CallType
<1>4. ASSUME NEW t \in TaskIds, o = RecordStepCall(a, t)
      PROVE  /\ o.agent \in Agents /\ o.event \in Kinds \cup {"act"}
             /\ IsStep(o) => o.target \in TaskIds
             /\ o.ttl = (o.event = "episodic")
             /\ o \in CallType
  BY <1>4 DEF RecordStepCall, IsStep, Kinds, CallType
<1> QED
  BY <1>1, <1>2, <1>3, <1>4

(* A worker that opens a transaction has no id and no buffered row.        *)
LEMMA BeginKeeps ==
    ASSUME IndInv, NEW w \in Workers, NEW o \in Calls, Begin(w, o)
    PROVE  IndInv'
<1> USE DEF InTxn
<1>1. /\ o.agent \in Agents /\ o.event \in Kinds \cup {"act"}
      /\ IsStep(o) => o.target \in TaskIds
      /\ o.ttl = (o.event = "episodic")
      /\ o \in CallType
  BY CallsOK
<1>2. TypeOK'
  BY <1>1 DEF IndInv, TypeOK, Begin, tables, NoRead
<1>3. TablesInv'
  BY TablesKept DEF IndInv, TablesInv, Begin
<1>4. OpenCalls'
  BY <1>1 DEF IndInv, OpenCalls, TypeOK, Begin
<1>5. Buffered'
  BY DEF IndInv, Buffered, TypeOK, Begin
<1>6. Reserved'
  BY DEF IndInv, Reserved, HoldsId, TypeOK, Begin, tables
<1>7. Returned'
  BY DEF IndInv, Returned, Recorded, TypeOK, Begin, tables
<1> QED
  BY <1>2, <1>3, <1>4, <1>5, <1>6, <1>7 DEF IndInv, TablesInv

(* The id a worker draws is not that of a row or of another call.          *)
LEMMA InsertMemoryKeeps ==
    ASSUME IndInv, NEW w \in Workers, NEW id \in MemIds, InsertMemory(w, id)
    PROVE  IndInv'
<1> USE DEF InTxn
<1>1. /\ op'[w] = [op[w] EXCEPT !.target = id]
      /\ \A v \in Workers \ {w} : op'[v] = op[v] /\ pc'[v] = pc[v]
      /\ pc'[w] = "written"
      /\ UNCHANGED <<tables, read, row, answer, faults>>
  BY DEF IndInv, TypeOK, InsertMemory
<1>2. /\ op'[w].target = id /\ op'[w].agent = op[w].agent
      /\ op'[w].event = op[w].event /\ op'[w].ttl = op[w].ttl
      /\ op'[w] \in CallType
  <2> DEFINE o == op[w]
  <2>1. o \in CallType
    BY DEF IndInv, TypeOK
  <2>2. /\ [o EXCEPT !.target = id] \in CallType
        /\ [o EXCEPT !.target = id].target = id
        /\ [o EXCEPT !.target = id].agent = o.agent
        /\ [o EXCEPT !.target = id].event = o.event
        /\ [o EXCEPT !.target = id].ttl = o.ttl
    <3> HIDE DEF o
    <3> QED BY <2>1 DEF CallType
  <2> QED
    BY <1>1, <2>2
<1>3. TypeOK'
  BY <1>1, <1>2 DEF IndInv, TypeOK, InsertMemory, tables
<1>4. TablesInv'
  BY <1>1, TablesKept DEF IndInv, TablesInv
<1>5. OpenCalls'
  BY <1>1, <1>2 DEF IndInv, OpenCalls, InsertMemory, IsStep
<1>6. Buffered'
  BY <1>1, <1>2 DEF IndInv, Buffered, InsertMemory
<1>7. Reserved'
  BY <1>1, <1>2 DEF IndInv, Reserved, HoldsId, InsertMemory, FreshIds, tables
<1>8. Returned'
  <2>1. answer[w] = "none"
    BY DEF IndInv, OpenCalls, InsertMemory
  <2> QED
    BY <1>1, <2>1 DEF IndInv, Returned, Recorded, tables
<1> QED
  BY <1>3, <1>4, <1>5, <1>6, <1>7, <1>8 DEF IndInv, TablesInv

(* The statements that read change the reader's own record only.            *)
LEMMA UpsertTaskKeeps ==
    ASSUME IndInv, NEW w \in Workers, UpsertTask(w)
    PROVE  IndInv'
<1> USE DEF InTxn
<1>1. TypeOK'
  <2>1. tasks[op[w].target].step \in Nat
    BY DEF IndInv, TypeOK, TaskRow, OpenCalls, UpsertTask
  <2> QED
    BY <2>1 DEF IndInv, TypeOK, UpsertTask, tables
<1>2. TablesInv'
  BY TablesKept DEF IndInv, TablesInv, UpsertTask
<1>3. OpenCalls'
  BY DEF IndInv, OpenCalls, TypeOK, UpsertTask
<1>4. Buffered'
  BY DEF IndInv, Buffered, TypeOK, UpsertTask
<1>5. Reserved'
  BY DEF IndInv, Reserved, HoldsId, TypeOK, UpsertTask, tables, IsStep, Kinds
<1>6. Returned'
  BY DEF IndInv, Returned, Recorded, UpsertTask, tables
<1> QED
  BY <1>1, <1>2, <1>3, <1>4, <1>5, <1>6 DEF IndInv, TablesInv

(* The head that is read has a sequence number.                             *)
LEMMA ReadHeadKeeps ==
    ASSUME IndInv, NEW w \in Workers, ReadHead(w)
    PROVE  IndInv'
<1> USE DEF InTxn
<1>1. TypeOK'
  <2>1. NextSeq(receipts[op[w].agent]) \in Nat
    BY DEF IndInv, OpenCalls, ReadHead, ChainShape, WellFormed, NextSeq
  <2> QED
    BY <2>1 DEF IndInv, TypeOK, ReadHead, tables
<1>2. TablesInv'
  BY TablesKept DEF IndInv, TablesInv, ReadHead
<1>3. OpenCalls'
  BY DEF IndInv, OpenCalls, TypeOK, ReadHead
<1>4. Buffered'
  BY DEF IndInv, Buffered, TypeOK, ReadHead
<1>5. Reserved'
  BY DEF IndInv, Reserved, HoldsId, TypeOK, ReadHead, tables, IsStep, Kinds
<1>6. Returned'
  BY DEF IndInv, Returned, Recorded, ReadHead, tables
<1> QED
  BY <1>1, <1>2, <1>3, <1>4, <1>5, <1>6 DEF IndInv, TablesInv

(* The buffered row is the one Append makes from the head it read.          *)
LEMMA InsertReceiptKeeps ==
    ASSUME IndInv, NEW w \in Workers, InsertReceipt(w)
    PROVE  IndInv'
<1> USE DEF InTxn
<1>1. TypeOK'
  BY DEF IndInv, TypeOK, InsertReceipt, tables
<1>2. TablesInv'
  BY TablesKept DEF IndInv, TablesInv, InsertReceipt
<1>3. OpenCalls'
  BY DEF IndInv, OpenCalls, TypeOK, InsertReceipt
<1>4. Buffered'
  BY DEF IndInv, Buffered, TypeOK, InsertReceipt
<1>5. Reserved'
  BY DEF IndInv, Reserved, HoldsId, TypeOK, InsertReceipt, tables, IsStep, Kinds
<1>6. Returned'
  BY DEF IndInv, Returned, Recorded, InsertReceipt, tables
<1> QED
  BY <1>1, <1>2, <1>3, <1>4, <1>5, <1>6 DEF IndInv, TablesInv

(* An error leaves the tables as they are, and the id unused.              *)
LEMMA ErrorKeeps ==
    ASSUME IndInv, NEW w \in Workers, InTxn(w), Answer(w, "error"),
           UNCHANGED tables, faults' \in 0 .. MaxFaults,
           (~ReadsAreCurrent(w) /\ faults' = faults) \/ faults' = faults + 1
    PROVE  IndInv'
<1> USE DEF InTxn
<1>1. TypeOK'
  BY DEF IndInv, TypeOK, Answer, tables
<1>2. TablesInv'
  BY TablesKept DEF IndInv, TablesInv
<1>3. OpenCalls'
  BY DEF IndInv, OpenCalls, TypeOK, Answer
<1>4. Buffered'
  BY DEF IndInv, Buffered, TypeOK, Answer
<1>5. Reserved'
  <2>1. faults \in Nat
    BY BoundsAssumption DEF IndInv, TypeOK
  <2>2. faults' = 0 => faults = 0 /\ ~ReadsAreCurrent(w)
    BY <2>1
  <2>3. \A v \in Workers : HoldsId(v)' => HoldsId(v)
    <3> SUFFICES ASSUME NEW v \in Workers, HoldsId(v)'
                 PROVE  HoldsId(v)
      OBVIOUS
    <3>1. CASE v # w
      BY <3>1, <2>2 DEF HoldsId, Answer, IndInv, TypeOK
    <3>2. CASE v = w
      <4>1. faults' = 0
        BY <3>2 DEF HoldsId, Answer, IndInv, TypeOK
      <4>2. pc[w] \in {"written", "head", "linked"}
        BY <4>1, <2>2 DEF ReadsAreCurrent
      <4> QED
        BY <3>2, <4>2 DEF HoldsId, Answer
    <3> QED
      BY <3>1, <3>2
  <2> QED
    BY <2>3 DEF IndInv, Reserved, Answer, tables
<1>6. Returned'
  BY DEF IndInv, Returned, Recorded, TypeOK, Answer, tables
<1> QED
  BY <1>1, <1>2, <1>3, <1>4, <1>5, <1>6 DEF IndInv, TablesInv

(* The TTL job moves one expired row; its link still finds it.             *)
LEMMA ForgetKeeps ==
    ASSUME IndInv, NEW m \in memories, Forget(m)
    PROVE  IndInv'
<1>0. /\ (memories \cup forgotten)' = memories \cup forgotten
      /\ UNCHANGED <<tasks, receipts, pc, op, read, row, answer, faults>>
  BY DEF Forget, txn
<1>1. TypeOK'
  BY <1>0 DEF IndInv, TypeOK, Forget
<1>2. ChainShape'
  BY <1>0 DEF IndInv, ChainShape, WellFormed
<1>3. OpenCalls'
  BY <1>0 DEF IndInv, OpenCalls, InTxn
<1>4. Buffered'
  BY <1>0 DEF IndInv, Buffered
<1>5. Reserved'
  BY <1>0 DEF IndInv, Reserved, HoldsId, InTxn
<1>6. Attested'
  BY <1>0 DEF IndInv, Attested
<1>7. Returned'
  BY <1>0 DEF IndInv, Returned, Recorded
<1>8. Horizons'
  BY <1>0 DEF IndInv, Horizons
<1>9. OnlyExpiredForgotten'
  BY DEF IndInv, OnlyExpiredForgotten, Forget
<1> QED
  BY <1>1, <1>2, <1>3, <1>4, <1>5, <1>6, <1>7, <1>8, <1>9 DEF IndInv

-----------------------------------------------------------------------------
(* The step that publishes a transaction.                                  *)

\* What a commit adds to the receipts: one row, at a number not in use.
AddsLink(w) ==
    LET a == op[w].agent
        q == read[w].seq
    IN  /\ a \in Agents
        /\ q \in Nat \ {0}
        /\ q \notin DOMAIN receipts[a]
        /\ DOMAIN receipts' = Agents
        /\ \A b \in Agents \ {a} : receipts'[b] = receipts[b]
        /\ DOMAIN receipts'[a] = DOMAIN receipts[a] \cup {q}
        /\ \A s \in DOMAIN receipts[a] : receipts'[a][s] = receipts[a][s]
        /\ receipts'[a][q].event = op[w].event
        /\ receipts'[a][q].memory_id = AttestedId(op[w])

(* A commit adds one link to the chain of its agent and rewrites none.     *)
LEMMA PublishAddsLink ==
    ASSUME IndInv, NEW w \in Workers, Publish(w)
    PROVE  AddsLink(w) /\ ChainShape'
<1> DEFINE a == op[w].agent
           t == receipts[a]
           r == NewRow(HmacKey, a, NextSeq(t), op[w].event, AttestedId(op[w]), HeadHash(t))
<1>1. a \in Agents /\ WellFormed(a, t)
  BY DEF IndInv, OpenCalls, InTxn, Publish, ChainShape
<1>2. read[w].seq = NextSeq(t) /\ read[w].prev_hash = HeadHash(t)
  BY DEF Publish, ReadsAreCurrent, HeadIsCurrent
<1>3. row[w] = r
  BY <1>2 DEF IndInv, Buffered, Publish
<1>4. receipts' = [receipts EXCEPT ![a] = Insert(t, NextSeq(t), r)]
  BY <1>2, <1>3 DEF Publish
<1>5. /\ WellFormed(a, Insert(t, NextSeq(t), r))
      /\ NextSeq(t) \notin DOMAIN t
      /\ NextSeq(t) \in Nat \ {0}
  BY <1>1, AppendKeepsShape
<1>6. DOMAIN receipts = Agents
  BY DEF IndInv, TypeOK
<1>7. receipts'[a] = Insert(t, NextSeq(t), r) /\ DOMAIN receipts' = Agents
  BY <1>1, <1>4, <1>6
<1>8. \A b \in Agents \ {a} : receipts'[b] = receipts[b]
  BY <1>4, <1>6
<1>9. ChainShape'
  <2>1. ASSUME NEW b \in Agents PROVE WellFormed(b, receipts'[b])
    <3>1. CASE b = a
      BY <3>1, <1>5, <1>7
    <3>2. CASE b # a
      BY <3>2, <1>8 DEF IndInv, ChainShape
    <3> QED
      BY <3>1, <3>2
  <2> QED
    BY <2>1 DEF ChainShape
<1>10. /\ DOMAIN receipts'[a] = DOMAIN t \cup {NextSeq(t)}
       /\ receipts'[a][NextSeq(t)] = r
       /\ \A s \in DOMAIN t : receipts'[a][s] = t[s]
  BY <1>5, <1>7 DEF Insert
<1>11. r.event = op[w].event /\ r.memory_id = AttestedId(op[w])
  BY DEF NewRow
<1> HIDE DEF r
<1> QED
  BY <1>1, <1>2, <1>5, <1>7, <1>8, <1>9, <1>10, <1>11 DEF AddsLink

(* What a commit adds to the other tables: the row the link attests to.    *)
LEMMA PublishAddsRow ==
    ASSUME IndInv, NEW w \in Workers, Publish(w)
    PROVE  /\ forgotten' = forgotten
           /\ IsStep(op[w]) => memories' = memories
           /\ ~IsStep(op[w]) => /\ tasks' = tasks
                                /\ memories' = memories \cup {MemoryOf(op[w])}
                                /\ op[w].event \in Kinds
                                /\ HoldsId(w)
           /\ tasks' \in [TaskIds -> TaskRow]
           /\ memories' \subseteq MemoryRow
<1>1. op[w].agent \in Agents /\ op[w].event \in Kinds \cup {"act"}
      /\ (IsStep(op[w]) => op[w].target \in TaskIds)
  BY DEF IndInv, OpenCalls, InTxn, Publish
<1>2. op[w] \in CallType /\ read[w].step \in Nat
  BY DEF IndInv, TypeOK
<1>3. CASE IsStep(op[w])
  <2>1. tasks[op[w].target] \in TaskRow
    BY <1>1, <1>3 DEF IndInv, TypeOK
  <2>2. TaskOf(op[w], tasks[op[w].target], read[w].step) \in TaskRow
    BY <1>1, <1>2, <2>1 DEF TaskOf, TaskRow
  <2> QED
    BY <1>3, <2>2 DEF Publish, IndInv, TypeOK
<1>4. CASE ~IsStep(op[w])
  <2>1. op[w].event \in Kinds /\ HoldsId(w)
    BY <1>1, <1>4 DEF IsStep, HoldsId, Publish
  <2>2. op[w].target \in MemIds
    BY <2>1 DEF IndInv, Reserved
  <2>3. MemoryOf(op[w]) \in MemoryRow
    BY <1>1, <1>2, <2>1, <2>2 DEF MemoryOf, MemoryRow, CallType
  <2> QED
    BY <1>4, <2>1, <2>3 DEF Publish, IndInv, TypeOK
<1> QED
  BY <1>3, <1>4

(* The new row and the new link attest to each other and to nothing else.  *)
LEMMA PublishKeepsAttested ==
    ASSUME IndInv, NEW w \in Workers, Publish(w)
    PROVE  Attested'
<1> DEFINE a == op[w].agent
           q == read[w].seq
           rows == memories \cup forgotten
<1>1. AddsLink(w)
  BY PublishAddsLink
<1>2. /\ forgotten' = forgotten
      /\ IsStep(op[w]) => memories' = memories
      /\ ~IsStep(op[w]) => /\ memories' = memories \cup {MemoryOf(op[w])}
                           /\ op[w].event \in Kinds
                           /\ HoldsId(w)
  BY PublishAddsRow
<1>3. Attested
  BY DEF IndInv
<1>4. \A m \in rows : \E s \in DOMAIN receipts'[m.agent_id] :
         /\ receipts'[m.agent_id][s].memory_id = m.id
         /\ receipts'[m.agent_id][s].event = m.kind
  <2> TAKE m \in rows
  <2>1. PICK s \in DOMAIN receipts[m.agent_id] :
          /\ receipts[m.agent_id][s].memory_id = m.id
          /\ receipts[m.agent_id][s].event = m.kind
    BY <1>3 DEF Attested
  <2>2. m.agent_id \in Agents
    BY DEF IndInv, TypeOK, MemoryRow
  <2> QED
    BY <1>1, <2>1, <2>2 DEF AddsLink
<1>5. \A b \in Agents : \A s \in DOMAIN receipts[b] :
         receipts'[b][s] = receipts[b][s] /\ s \in DOMAIN receipts'[b]
  BY <1>1 DEF AddsLink
<1>6. \A b \in Agents : \A s \in DOMAIN receipts'[b] :
         s \in DOMAIN receipts[b] \/ (b = a /\ s = q)
  BY <1>1 DEF AddsLink
<1>7. receipts'[a][q].event = op[w].event
      /\ receipts'[a][q].memory_id = AttestedId(op[w])
      /\ q \in DOMAIN receipts'[a] /\ a \in Agents
  BY <1>1 DEF AddsLink
<1> HIDE DEF q
<1>8. CASE IsStep(op[w])
  <2>1. op[w].event = "act" /\ AttestedId(op[w]) = NoMemory
    BY <1>8 DEF IsStep, AttestedId
  <2>2. (memories \cup forgotten)' = rows
    BY <1>2, <1>8
  <2> QED
    BY <1>3, <1>4, <1>5, <1>6, <1>7, <2>1, <2>2 DEF Attested
<1>9. CASE ~IsStep(op[w])
  <2> DEFINE m0 == MemoryOf(op[w])
  <2>1. op[w].event # "act" /\ AttestedId(op[w]) = op[w].target
    BY <1>9 DEF IsStep, AttestedId
  <2>2. (memories \cup forgotten)' = rows \cup {m0}
    BY <1>2, <1>9
  <2>3. m0.id = op[w].target /\ m0.agent_id = a /\ m0.kind = op[w].event
    BY DEF MemoryOf
  <2>4. op[w].target \in MemIds /\ \A m \in rows : m.id # op[w].target
    BY <1>2, <1>9 DEF IndInv, Reserved
  <2>5. \A b \in Agents : \A s \in DOMAIN receipts[b] :
           receipts[b][s].memory_id # op[w].target
    BY <1>3, <2>4, NullAssumption DEF Attested
  <2> HIDE DEF m0, rows, a
  <2>6. \A m \in (memories \cup forgotten)' :
           \E s \in DOMAIN receipts'[m.agent_id] :
              /\ receipts'[m.agent_id][s].memory_id = m.id
              /\ receipts'[m.agent_id][s].event = m.kind
    BY <1>4, <1>7, <2>1, <2>2, <2>3
  <2>7. \A b \in Agents : \A s \in DOMAIN receipts'[b] :
         IF receipts'[b][s].event = "act"
         THEN receipts'[b][s].memory_id = NoMemory
         ELSE \E m \in (memories \cup forgotten)' :
                 m.id = receipts'[b][s].memory_id /\ m.agent_id = b
    <3> SUFFICES ASSUME NEW b \in Agents, NEW s \in DOMAIN receipts'[b]
                 PROVE  IF receipts'[b][s].event = "act"
                        THEN receipts'[b][s].memory_id = NoMemory
                        ELSE \E m \in (memories \cup forgotten)' :
                               m.id = receipts'[b][s].memory_id /\ m.agent_id = b
      OBVIOUS
    <3>1. CASE s \in DOMAIN receipts[b]
      BY <3>1, <1>3, <1>5, <2>2 DEF Attested, rows
    <3>2. CASE b = a /\ s = q
      BY <3>2, <1>7, <2>1, <2>2, <2>3
    <3> QED
      BY <3>1, <3>2, <1>6
  <2>8. \A b, c \in Agents : \A s \in DOMAIN receipts'[b], r \in DOMAIN receipts'[c] :
         /\ receipts'[b][s].memory_id = receipts'[c][r].memory_id
         /\ receipts'[b][s].memory_id # NoMemory
         => b = c /\ s = r
    BY <1>3, <1>5, <1>6, <1>7, <2>1, <2>5 DEF Attested
  <2> QED
    BY <2>6, <2>7, <2>8 DEF Attested
<1> QED
  BY <1>8, <1>9

(* A commit, whatever the caller is told: "ok" only without a fault.       *)
LEMMA CommitKeeps ==
    ASSUME IndInv, NEW w \in Workers, NEW ans \in {"ok", "error"},
           Publish(w), Answer(w, ans), faults' \in 0 .. MaxFaults,
           ans = "ok" => faults' = faults,
           ans = "error" => faults' = faults + 1
    PROVE  IndInv'
<1> USE DEF InTxn
<1>1. AddsLink(w) /\ ChainShape'
  BY PublishAddsLink
<1>2. /\ forgotten' = forgotten
      /\ IsStep(op[w]) => memories' = memories
      /\ ~IsStep(op[w]) => /\ tasks' = tasks
                           /\ memories' = memories \cup {MemoryOf(op[w])}
                           /\ op[w].event \in Kinds
                           /\ HoldsId(w)
      /\ tasks' \in [TaskIds -> TaskRow]
      /\ memories' \subseteq MemoryRow
  BY PublishAddsRow
<1>3. TypeOK'
  BY <1>1, <1>2 DEF IndInv, TypeOK, AddsLink, Answer
<1>4. OpenCalls'
  BY DEF IndInv, OpenCalls, TypeOK, Answer
<1>5. Buffered'
  BY DEF IndInv, Buffered, TypeOK, Answer
<1>6. Reserved'
  <2>1. faults \in Nat
    BY BoundsAssumption DEF IndInv, TypeOK
  <2>2. ~HoldsId(w)'
    BY <2>1 DEF HoldsId, Answer, IndInv, TypeOK
  <2>3. \A v \in Workers \ {w} : HoldsId(v)' => HoldsId(v)
    BY <2>1 DEF HoldsId, Answer, IndInv, TypeOK
  <2>4. \A m \in (memories \cup forgotten)' :
           m \in memories \cup forgotten \/ (HoldsId(w) /\ m.id = op[w].target)
    BY <1>2 DEF MemoryOf
  <2>5. op' = op
    BY DEF Answer
  <2> QED
    BY <2>2, <2>3, <2>4, <2>5 DEF IndInv, Reserved
<1>7. Attested'
  BY PublishKeepsAttested
<1>8. Returned'
  <2> SUFFICES ASSUME NEW v \in Workers, op[v].event \in Kinds, answer'[v] = "ok"
               PROVE  \E s \in DOMAIN receipts'[op[v].agent] :
                         receipts'[op[v].agent][s].memory_id = op[v].target
    BY DEF Returned, Recorded, Answer
  <2>1. CASE v = w
    <3>1. AttestedId(op[w]) = op[w].target
      BY <2>1 DEF AttestedId, IsStep, Kinds
    <3> QED
      BY <1>1, <2>1, <3>1 DEF AddsLink
  <2>2. CASE v # w
    <3>1. PICK s \in DOMAIN receipts[op[v].agent] :
             receipts[op[v].agent][s].memory_id = op[v].target
      BY <2>2 DEF IndInv, Returned, Recorded, Answer, TypeOK
    <3>2. op[v].agent \in Agents
      BY DEF IndInv, OpenCalls
    <3> QED
      BY <1>1, <3>1, <3>2 DEF AddsLink
  <2> QED
    BY <2>1, <2>2
<1>9. Horizons'
  <2>1. ~IsStep(op[w]) => MemoryOf(op[w]).expires = (MemoryOf(op[w]).kind = "episodic")
    BY DEF IndInv, OpenCalls, Publish, MemoryOf
  <2> QED
    BY <1>2, <2>1 DEF IndInv, Horizons
<1>10. OnlyExpiredForgotten'
  BY <1>2 DEF IndInv, OnlyExpiredForgotten
<1> QED
  BY <1>1, <1>3, <1>4, <1>5, <1>6, <1>7, <1>8, <1>9, <1>10 DEF IndInv

-----------------------------------------------------------------------------
(* The inductive invariant and what follows from it.                       *)

(* The empty database satisfies the invariant.                             *)
LEMMA InitIndInv == Init => IndInv
<1> SUFFICES ASSUME Init PROVE IndInv
  OBVIOUS
<1> USE DEF Init
<1>1. TypeOK
  BY BoundsAssumption DEF TypeOK, TaskRow, CallType, NoCall, NoRead
<1>2. ChainShape
  <2>1. \A a \in Agents : DOMAIN receipts[a] = 1 .. 0
    BY DEF Init
  <2>2. \A a \in Agents : LastSeq(receipts[a]) = 0
    BY <2>1, LastSeqOfRun
  <2> QED
    BY <2>1, <2>2 DEF ChainShape, WellFormed
<1>3. OpenCalls /\ Buffered
  BY DEF OpenCalls, Buffered, InTxn, NoCall, Kinds
<1>4. Reserved /\ Returned
  BY DEF Reserved, HoldsId, Returned, NoCall, Kinds
<1>5. Attested
  BY DEF Attested
<1>6. Horizons /\ OnlyExpiredForgotten
  BY DEF Horizons, OnlyExpiredForgotten
<1> QED
  BY <1>1, <1>2, <1>3, <1>4, <1>5, <1>6 DEF IndInv

(* Every action keeps the invariant: one lemma above for each.             *)
LEMMA StepKeepsIndInv == IndInv /\ [Next]_vars => IndInv'
<1> SUFFICES ASSUME IndInv, [Next]_vars PROVE IndInv'
  OBVIOUS
<1>0. faults \in 0 .. MaxFaults /\ MaxFaults \in Nat
  BY BoundsAssumption DEF IndInv, TypeOK
<1>1. ASSUME NEW w \in Workers, NEW o \in Calls, Begin(w, o) PROVE IndInv'
  BY <1>1, BeginKeeps
<1>2. ASSUME NEW w \in Workers, NEW id \in MemIds, InsertMemory(w, id) PROVE IndInv'
  BY <1>2, InsertMemoryKeeps
<1>3. ASSUME NEW w \in Workers, UpsertTask(w) PROVE IndInv'
  BY <1>3, UpsertTaskKeeps
<1>4. ASSUME NEW w \in Workers, ReadHead(w) PROVE IndInv'
  BY <1>4, ReadHeadKeeps
<1>5. ASSUME NEW w \in Workers, InsertReceipt(w) PROVE IndInv'
  BY <1>5, InsertReceiptKeeps
<1>6. ASSUME NEW w \in Workers, Commit(w) PROVE IndInv'
  BY <1>0, <1>6, CommitKeeps DEF Commit
<1>7. ASSUME NEW w \in Workers, CommitAckLost(w) PROVE IndInv'
  <2>1. faults' \in 0 .. MaxFaults /\ faults' = faults + 1
    BY <1>0, <1>7 DEF CommitAckLost
  <2> QED
    BY <1>7, <2>1, CommitKeeps DEF CommitAckLost
<1>8. ASSUME NEW w \in Workers, Conflict(w) PROVE IndInv'
  BY <1>0, <1>8, ErrorKeeps DEF Conflict
<1>9. ASSUME NEW w \in Workers, Fail(w) PROVE IndInv'
  <2>1. faults' \in 0 .. MaxFaults /\ faults' = faults + 1
    BY <1>0, <1>9 DEF Fail
  <2> QED
    BY <1>9, <2>1, ErrorKeeps DEF Fail
<1>10. ASSUME NEW m \in memories, Forget(m) PROVE IndInv'
  BY <1>10, ForgetKeeps
<1>11. CASE UNCHANGED vars
  BY <1>11 DEF vars, IndInv, TypeOK, ChainShape, WellFormed, OpenCalls, InTxn,
     Buffered, Reserved, HoldsId, Attested, Returned, Recorded, Horizons,
     OnlyExpiredForgotten
<1> QED
  BY <1>1, <1>2, <1>3, <1>4, <1>5, <1>6, <1>7, <1>8, <1>9, <1>10, <1>11
     DEF Next, Step

(* IndInv holds of every reachable state.                                  *)
THEOREM Invariance == Spec => []IndInv
BY InitIndInv, StepKeepsIndInv, PTL DEF Spec

(* Every variable has its type, whatever the calls and faults.             *)
THEOREM TypeCorrect == Spec => []TypeOK
<1>1. IndInv => TypeOK
  BY DEF IndInv
<1> QED
  BY Invariance, <1>1, PTL

(* Chain.Append never forks a chain: whatever workers do, Verify finds no  *)
(* gap, no bad hash and no broken link in any agent's receipts.            *)
THEOREM ChainsVerify == Spec => []ChainIntact
<1>1. IndInv => ChainIntact
  BY WellFormedVerifies DEF IndInv, ChainShape, ChainIntact
<1> QED
  BY Invariance, <1>1, PTL

(* A memory and its link are both there or both absent, one to one.        *)
THEOREM MemoriesAttested == Spec => []Attested
<1>1. IndInv => Attested
  BY DEF IndInv
<1> QED
  BY Invariance, <1>1, PTL

(* The TTL job never takes a lesson.                                       *)
THEOREM LessonsNeverForgotten == Spec => []LessonsKept
<1>1. IndInv => LessonsKept
  <2> SUFFICES ASSUME IndInv, NEW m \in forgotten PROVE m.kind # "semantic"
    BY DEF LessonsKept
  <2>1. m.expires /\ m.expires = (m.kind = "episodic")
    BY DEF IndInv, Horizons, OnlyExpiredForgotten
  <2> QED
    BY <2>1
<1> QED
  BY Invariance, <1>1, PTL

(* What Store.Remember returns can be relied on: "ok" means recorded, and  *)
(* without lost acknowledgements an error means that nothing was.          *)
THEOREM AnswersTruthful == Spec => []AnswerIsTruthful
<1>1. IndInv => AnswerIsTruthful
  <2> SUFFICES ASSUME IndInv, NEW w \in Workers, op[w].event \in Kinds,
                      answer[w] = "error", faults = 0, Recorded(w)
               PROVE  FALSE
    BY DEF AnswerIsTruthful, IndInv, Returned
  <2>1. HoldsId(w)
    BY DEF HoldsId, IndInv, OpenCalls
  <2>2. op[w].target \in MemIds
        /\ \A m \in memories \cup forgotten : m.id # op[w].target
    BY <2>1 DEF IndInv, Reserved
  <2>3. PICK s \in DOMAIN receipts[op[w].agent] :
           receipts[op[w].agent][s].memory_id = op[w].target
    BY DEF Recorded
  <2>4. op[w].agent \in Agents
    BY DEF IndInv, OpenCalls
  <2> QED
    BY <2>2, <2>3, <2>4, NullAssumption DEF IndInv, Attested
<1> QED
  BY Invariance, <1>1, PTL

(* No step of the system rewrites or removes a link of any chain.          *)
THEOREM ChainsAppendOnly == Spec => AppendOnly
<1> DEFINE Kept == \A a \in Agents : \A s \in DOMAIN receipts[a] :
                      s \in DOMAIN receipts'[a] /\ receipts'[a][s] = receipts[a][s]
<1>1. IndInv /\ [Next]_vars => [Kept]_vars
  <2> SUFFICES ASSUME IndInv, Next PROVE Kept
    OBVIOUS
  <2>1. ASSUME NEW w \in Workers, Publish(w) PROVE Kept
    BY <2>1, PublishAddsLink DEF AddsLink
  <2>2. ASSUME receipts' = receipts PROVE Kept
    BY <2>2
  <2>3. (\E w \in Workers : Publish(w)) \/ receipts' = receipts
    BY DEF Next, Step, Begin, InsertMemory, UpsertTask, ReadHead, InsertReceipt,
           Commit, CommitAckLost, Conflict, Fail, Forget, tables
  <2> QED
    BY <2>1, <2>2, <2>3
<1>2. Spec => []IndInv
  BY Invariance
<1> QED
  BY <1>1, <1>2, PTL DEF Spec, AppendOnly

-----------------------------------------------------------------------------
(* The steps of the tasks and the "act" links, one for one.                *)

(* A step that changes no task and no receipt keeps the count.             *)
LEMMA StepsUnchanged ==
    ASSUME StepsMatch, UNCHANGED <<tasks, receipts>>
    PROVE  StepsMatch'
BY DEF StepsMatch, StepsCounted, CountedSteps, ActLinks

(* A commit of Remember adds no "act" link.                                *)
LEMMA RememberCountsNoStep ==
    ASSUME IndInv, StepsMatch, NEW w \in Workers, Publish(w), ~IsStep(op[w])
    PROVE  StepsMatch'
<1>1. AddsLink(w)
  BY PublishAddsLink
<1>2. tasks' = tasks /\ op[w].event # "act"
  BY PublishAddsRow DEF IsStep
<1>3. ASSUME NEW a \in Agents
      PROVE  {s \in DOMAIN receipts'[a] : receipts'[a][s].event = "act"}
               = {s \in DOMAIN receipts[a] : receipts[a][s].event = "act"}
  <2>1. CASE a = op[w].agent
    BY <1>1, <1>2, <2>1 DEF AddsLink
  <2>2. CASE a # op[w].agent
    BY <1>1, <2>2 DEF AddsLink
  <2> QED
    BY <2>1, <2>2
<1>4. ActLinks' = ActLinks
  BY <1>3 DEF ActLinks
<1>5. CountedSteps' = CountedSteps
  BY <1>2 DEF CountedSteps
<1> QED
  BY <1>4, <1>5 DEF StepsMatch, StepsCounted

(* A commit of recordStep counts the step after the one it read, which is  *)
(* the last one, and adds one "act" link.                                  *)
LEMMA RecordStepCountsOne ==
    ASSUME IndInv, StepsMatch, NEW w \in Workers, Publish(w), IsStep(op[w])
    PROVE  StepsMatch'
<1> DEFINE a == op[w].agent
           q == read[w].seq
           t == op[w].target
           n == tasks[t].step
<1>1. AddsLink(w)
  BY PublishAddsLink
<1>2. t \in TaskIds /\ n \in Nat /\ tasks \in [TaskIds -> TaskRow]
  BY DEF IndInv, TypeOK, TaskRow, OpenCalls, InTxn, Publish
<1>3. tasks'[t].step = n + 1 /\ \A u \in TaskIds \ {t} : tasks'[u] = tasks[u]
  <2>1. tasks' = [tasks EXCEPT ![t] = TaskOf(op[w], @, read[w].step)]
    BY DEF Publish
  <2>2. read[w].step = n
    BY DEF Publish, ReadsAreCurrent, StepIsCurrent
  <2> QED
    BY <1>2, <2>1, <2>2 DEF TaskOf
<1>4. CountedSteps' = CountedSteps \cup {<<t, n + 1>>} /\ <<t, n + 1>> \notin CountedSteps
  <2>1. \A u, k : <<u, k>> \in CountedSteps <=> u \in TaskIds /\ k \in 1 .. tasks[u].step
    BY DEF CountedSteps
  <2>2. \A u, k : <<u, k>> \in CountedSteps' <=> u \in TaskIds /\ k \in 1 .. tasks'[u].step
    BY DEF CountedSteps
  <2>3. \A k : k \in 1 .. (n + 1) <=> k \in 1 .. n \/ k = n + 1
    BY <1>2
  <2>4. n + 1 \notin 1 .. n
    BY <1>2
  <2>5. \A p \in CountedSteps : p = <<p[1], p[2]>>
    BY DEF CountedSteps
  <2>6. \A p \in CountedSteps' : p = <<p[1], p[2]>>
    BY DEF CountedSteps
  <2>7. \A u, k : <<u, k>> \in CountedSteps' <=> <<u, k>> \in CountedSteps \/ (u = t /\ k = n + 1)
    <3> SUFFICES ASSUME NEW u, NEW k
                 PROVE  <<u, k>> \in CountedSteps'
                          <=> <<u, k>> \in CountedSteps \/ (u = t /\ k = n + 1)
      OBVIOUS
    <3>1. CASE u = t
      BY <3>1, <1>2, <1>3, <2>1, <2>2, <2>3
    <3>2. CASE u # t
      BY <3>2, <1>3, <2>1, <2>2
    <3> QED
      BY <3>1, <3>2
  <2>8. <<t, n + 1>> \notin CountedSteps
    BY <2>1, <2>4
  <2> HIDE DEF t, n
  <2> QED
    BY <2>5, <2>6, <2>7, <2>8
<1>5. ActLinks' = ActLinks \cup {<<a, q>>} /\ <<a, q>> \notin ActLinks
  <2>1. \A b, s : <<b, s>> \in ActLinks
           <=> b \in Agents /\ s \in DOMAIN receipts[b] /\ receipts[b][s].event = "act"
    BY DEF ActLinks
  <2>2. \A b, s : <<b, s>> \in ActLinks'
           <=> b \in Agents /\ s \in DOMAIN receipts'[b] /\ receipts'[b][s].event = "act"
    BY DEF ActLinks
  <2>3. \A p \in ActLinks : p = <<p[1], p[2]>>
    BY DEF ActLinks
  <2>4. \A p \in ActLinks' : p = <<p[1], p[2]>>
    BY DEF ActLinks
  <2>5. /\ a \in Agents /\ q \notin DOMAIN receipts[a]
        /\ DOMAIN receipts'[a] = DOMAIN receipts[a] \cup {q}
        /\ \A s \in DOMAIN receipts[a] : receipts'[a][s] = receipts[a][s]
        /\ \A b \in Agents \ {a} : receipts'[b] = receipts[b]
        /\ receipts'[a][q].event = "act"
    BY <1>1 DEF AddsLink, IsStep
  <2>6. \A b, s : <<b, s>> \in ActLinks' <=> <<b, s>> \in ActLinks \/ (b = a /\ s = q)
    <3> SUFFICES ASSUME NEW b, NEW s
                 PROVE  <<b, s>> \in ActLinks' <=> <<b, s>> \in ActLinks \/ (b = a /\ s = q)
      OBVIOUS
    <3>1. CASE b = a
      BY <3>1, <2>1, <2>2, <2>5
    <3>2. CASE b # a
      BY <3>2, <2>1, <2>2, <2>5
    <3> QED
      BY <3>1, <3>2
  <2>7. <<a, q>> \notin ActLinks
    BY <2>1, <2>5
  <2> HIDE DEF a, q
  <2> QED
    BY <2>3, <2>4, <2>6, <2>7
<1> HIDE DEF a, q, t, n
<1>6. /\ IsFiniteSet(CountedSteps')
      /\ Cardinality(CountedSteps') = Cardinality(CountedSteps) + 1
  BY <1>4, FS_AddElement DEF StepsMatch
<1>7. IsFiniteSet(ActLinks') /\ Cardinality(ActLinks') = Cardinality(ActLinks) + 1
  BY <1>5, FS_AddElement DEF StepsMatch
<1> QED
  BY <1>6, <1>7 DEF StepsMatch, StepsCounted

(* No step of a task is lost or counted twice, whoever shares it: the rows *)
(* of table tasks have counted as many steps as there are "act" links.     *)
THEOREM StepsAllCounted == Spec => []StepsCounted
<1>1. Init => StepsMatch
  <2> SUFFICES ASSUME Init PROVE StepsMatch
    OBVIOUS
  <2>1. CountedSteps = {} /\ ActLinks = {}
    BY DEF Init, CountedSteps, ActLinks
  <2> QED
    BY <2>1, FS_EmptySet DEF StepsMatch, StepsCounted
<1>2. IndInv /\ StepsMatch /\ [Next]_vars => StepsMatch'
  <2> SUFFICES ASSUME IndInv, StepsMatch, [Next]_vars PROVE StepsMatch'
    OBVIOUS
  <2>1. ASSUME NEW w \in Workers, Publish(w) PROVE StepsMatch'
    BY <2>1, RememberCountsNoStep, RecordStepCountsOne
  <2>2. CASE UNCHANGED <<tasks, receipts>>
    BY <2>2, StepsUnchanged
  <2>3. (\E w \in Workers : Publish(w)) \/ UNCHANGED <<tasks, receipts>>
    BY DEF Next, Step, Begin, InsertMemory, UpsertTask, ReadHead, InsertReceipt,
           Commit, CommitAckLost, Conflict, Fail, Forget, vars, tables
  <2> QED
    BY <2>1, <2>2, <2>3
<1>3. StepsMatch => StepsCounted
  BY DEF StepsMatch
<1> QED
  BY <1>1, <1>2, <1>3, Invariance, PTL DEF Spec

-----------------------------------------------------------------------------
(* StoreTxn implements AuditLog.                                           *)

(* The empty database is the empty promise.                                *)
LEMMA InitMaps == Init => Audit!Init
<1> SUFFICES ASSUME Init PROVE Audit!Init
  OBVIOUS
<1>1. Log = [a \in Agents |-> << >>]
  BY DEF Init, Log
<1> QED
  BY <1>1 DEF Init, Audit!Init

(* The log of the abstract specification grows by the entry of the link.   *)
LEMMA LogGrows ==
    ASSUME IndInv, NEW w \in Workers, Publish(w)
    PROVE  Log' = [Log EXCEPT ![op[w].agent] =
                      Append(@, [event |-> op[w].event, memory_id |-> AttestedId(op[w])])]
<1> DEFINE a == op[w].agent
           t == receipts[a]
           n == LastSeq(t)
           e == [event |-> op[w].event, memory_id |-> AttestedId(op[w])]
           S == {Log[a][s] : s \in 1 .. n}
<1>1. AddsLink(w)
  BY PublishAddsLink
<1>2. a \in Agents /\ n \in Nat /\ DOMAIN t = 1 .. n /\ read[w].seq = n + 1
  BY <1>1 DEF IndInv, ChainShape, WellFormed, AddsLink, Publish, ReadsAreCurrent,
              HeadIsCurrent, NextSeq
<1>3. DOMAIN Log[a] = 1 .. n /\ Log[a] \in Seq(S)
  <2>1. Log[a] = [s \in 1 .. n |-> [event |-> t[s].event, memory_id |-> t[s].memory_id]]
    BY <1>2 DEF Log
  <2>2. DOMAIN Log[a] = 1 .. n /\ Log[a] = [s \in 1 .. n |-> Log[a][s]]
    BY <2>1
  <2>3. n \in Nat /\ \A s \in 1 .. n : Log[a][s] \in S
    BY <1>2
  <2> HIDE DEF a, t, n, S
  <2>4. Log[a] \in [1 .. n -> S]
    BY <2>2, <2>3
  <2> QED
    BY <2>2, <2>3, <2>4 DEF Seq
<1>4. Log'[a] = [s \in 1 .. (n + 1) |-> IF s = n + 1 THEN e ELSE Log[a][s]]
  <2>1. DOMAIN receipts'[a] = 1 .. (n + 1)
    BY <1>1, <1>2 DEF AddsLink
  <2>2. Log'[a] = [s \in 1 .. (n + 1) |->
                     [event |-> receipts'[a][s].event,
                      memory_id |-> receipts'[a][s].memory_id]]
    BY <1>2, <2>1 DEF Log
  <2>3. \A s \in 1 .. n : receipts'[a][s] = t[s]
    BY <1>1, <1>2 DEF AddsLink
  <2>4. /\ receipts'[a][n + 1].event = op[w].event
        /\ receipts'[a][n + 1].memory_id = AttestedId(op[w])
    BY <1>1, <1>2 DEF AddsLink
  <2>5. \A s \in 1 .. n :
           Log[a][s] = [event |-> t[s].event, memory_id |-> t[s].memory_id]
    BY <1>2 DEF Log
  <2>6. ASSUME NEW s \in 1 .. (n + 1)
        PROVE  [event |-> receipts'[a][s].event, memory_id |-> receipts'[a][s].memory_id]
                 = IF s = n + 1 THEN e ELSE Log[a][s]
    <3>1. CASE s = n + 1
      BY <3>1, <2>4
    <3>2. CASE s # n + 1
      <4>1. s \in 1 .. n
        BY <3>2, <1>2
      <4> HIDE DEF a, t, n
      <4> QED
        BY <3>2, <4>1, <2>3, <2>5
    <3> QED
      BY <3>1, <3>2
  <2> HIDE DEF a, n, e
  <2> QED
    BY <2>2, <2>6
<1>5. Append(Log[a], e) = [s \in 1 .. (n + 1) |-> IF s = n + 1 THEN e ELSE Log[a][s]]
  <2> DEFINE L == Log[a]
  <2>1. L \in Seq(S) /\ Len(L) = n
    BY <1>2, <1>3
  <2> HIDE DEF L, S, e, n
  <2> QED
    BY <2>1, <1>2 DEF L
<1>6. Log'[a] = Append(Log[a], e)
  BY <1>4, <1>5
<1>7. \A b \in Agents \ {a} : Log'[b] = Log[b]
  BY <1>1 DEF AddsLink, Log
<1>8. Log = [b \in Agents |-> Log[b]] /\ Log' = [b \in Agents |-> Log'[b]]
  BY DEF Log
<1> HIDE DEF a, e
<1>9. Log' = [Log EXCEPT ![a] = Append(@, e)]
  BY <1>6, <1>7, <1>8
<1> QED
  BY <1>9 DEF a, e

(* A commit maps to the one step in which the row and the entry appear.    *)
LEMMA PublishMaps ==
    ASSUME IndInv, NEW w \in Workers, Publish(w)
    PROVE  Audit!Next
<1> DEFINE a == op[w].agent
<1>1. Log' = [Log EXCEPT ![a] = Append(@, [event |-> op[w].event,
                                           memory_id |-> AttestedId(op[w])])]
  BY LogGrows
<1>2. a \in Agents /\ InTxn(w)
  BY PublishAddsLink DEF AddsLink, Publish, InTxn
<1>3. CASE IsStep(op[w])
  <2>1. op[w].event = "act" /\ AttestedId(op[w]) = NoMemory /\ op[w].target \in TaskIds
    BY <1>2, <1>3 DEF IsStep, AttestedId, IndInv, OpenCalls
  <2>2. read[w].step = tasks[op[w].target].step
    BY <1>3 DEF Publish, ReadsAreCurrent, StepIsCurrent
  <2>3. /\ tasks' = [tasks EXCEPT ![op[w].target] = TaskOf(op[w], @, read[w].step)]
        /\ memories' = memories
    BY <1>3 DEF Publish
  <2>4. TaskOf(op[w], tasks[op[w].target], read[w].step)
          = Audit!Advanced(tasks[op[w].target], a)
    BY <2>2 DEF TaskOf, Audit!Advanced
  <2>5. Audit!RecordStep(a, op[w].target)
    BY <1>1, <2>1, <2>3, <2>4 DEF Audit!RecordStep, Audit!Attest
  <2> QED
    BY <1>2, <2>1, <2>5 DEF Audit!Next
<1>4. CASE ~IsStep(op[w])
  <2>1. op[w].event \in Kinds /\ AttestedId(op[w]) = op[w].target
        /\ op[w].ttl = (op[w].event = "episodic")
    BY <1>2, <1>4 DEF IsStep, AttestedId, IndInv, OpenCalls
  <2>2. op[w].target \in MemIds /\ \A m \in memories \cup forgotten : m.id # op[w].target
    BY <1>4, PublishAddsRow DEF IndInv, Reserved
  <2>3. \A b \in Agents : \A s \in DOMAIN Log[b] : Log[b][s].memory_id # op[w].target
    <3> SUFFICES ASSUME NEW b \in Agents, NEW s \in DOMAIN receipts[b]
                 PROVE  receipts[b][s].memory_id # op[w].target
      BY DEF Log
    <3> QED
      BY <2>2, NullAssumption DEF IndInv, Attested
  <2>4. MemoryOf(op[w]) = Audit!NewMemory(a, op[w].event, op[w].target)
    BY <2>1 DEF MemoryOf, Audit!NewMemory
  <2>5. memories' = memories \cup {MemoryOf(op[w])} /\ tasks' = tasks
    BY <1>4 DEF Publish
  <2>6. Audit!Remember(a, op[w].event, op[w].target)
    BY <1>1, <2>1, <2>3, <2>4, <2>5 DEF Audit!Remember, Audit!Attest, Audit!Unattested
  <2> QED
    BY <1>2, <2>1, <2>2, <2>6 DEF Audit!Next, Audit!MemoryKinds, Kinds
<1> QED
  BY <1>3, <1>4

(* The TTL job maps to Forget of the abstract specification.               *)
LEMMA ForgetMaps ==
    ASSUME IndInv, NEW m \in memories, Forget(m)
    PROVE  Audit!Next
<1>1. m.kind = "episodic"
  BY DEF IndInv, Horizons, TypeOK, MemoryRow, Forget
<1>2. Log' = Log
  BY DEF Forget, Log
<1>3. Audit!Forget(m)
  BY <1>1, <1>2 DEF Forget, Audit!Forget
<1> QED
  BY <1>3 DEF Audit!Next

(* The promise is kept: the committed tables, read as one log per agent,   *)
(* behave as AuditLog says.  Only commits and the TTL job are seen.        *)
THEOREM ImplementsAuditLog == Spec => Refines
<1>1. IndInv /\ [Next]_vars => [Audit!Next]_(Audit!vars)
  <2> SUFFICES ASSUME IndInv, [Next]_vars
               PROVE  Audit!Next \/ UNCHANGED <<memories, tasks, Log>>
    BY DEF Audit!vars
  <2>1. ASSUME NEW w \in Workers, Publish(w) PROVE Audit!Next
    BY <2>1, PublishMaps
  <2>2. ASSUME NEW m \in memories, Forget(m) PROVE Audit!Next
    BY <2>2, ForgetMaps
  <2>3. CASE UNCHANGED tables
    BY <2>3 DEF tables, Log
  <2>4. \/ \E w \in Workers : Publish(w)
        \/ \E m \in memories : Forget(m)
        \/ UNCHANGED tables
    BY DEF Next, Step, Begin, InsertMemory, UpsertTask, ReadHead, InsertReceipt,
           Commit, CommitAckLost, Conflict, Fail, vars, tables
  <2> QED
    BY <2>1, <2>2, <2>3, <2>4
<1>2. Spec => []IndInv
  BY Invariance
<1> QED
  BY <1>1, <1>2, InitMaps, PTL DEF Spec, Refines, Audit!Spec

=============================================================================

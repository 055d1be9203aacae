---------------------------- MODULE StoreTxnInv ----------------------------
(***************************************************************************)
(* The inductive invariant of StoreTxn, behind ChainIntact, Attested,      *)
(* LessonsKept, AnswerIsTruthful and AppendOnly: TLC checks it on a small  *)
(* instance, module StoreTxnProofs proves it for all.  StepsMatch is the   *)
(* invariant behind StepsCounted.                                          *)
(***************************************************************************)
EXTENDS StoreTxn

\* Links are numbered without a gap, and each one signs the hash before it.
WellFormed(a, t) ==
    /\ LastSeq(t) \in Nat /\ DOMAIN t = 1 .. LastSeq(t)
    /\ \A s \in DOMAIN t :
         /\ t[s].hash = Link(HmacKey, a, s, t[s].event, t[s].memory_id, t[s].prev_hash)
         /\ t[s].prev_hash = IF s = 1 THEN Genesis ELSE t[s - 1].hash

ChainShape == \A a \in Agents : WellFormed(a, receipts[a])

\* An open transaction runs one of the calls, and has not answered.
OpenCalls ==
    /\ \A w \in Workers : op[w].event \in Kinds => op[w].agent \in Agents
    /\ \A w \in Workers : InTxn(w) =>
        /\ answer[w] = "none"
        /\ op[w].agent \in Agents
        /\ op[w].event \in Kinds \cup {"act"}
        /\ IsStep(op[w]) => op[w].target \in TaskIds
        /\ op[w].ttl = (op[w].event = "episodic")

\* The receipt it has inserted is made from the head it read.
Buffered ==
    \A w \in Workers : pc[w] = "linked" =>
        row[w] = NewRow(HmacKey, op[w].agent, read[w].seq, op[w].event,
                        AttestedId(op[w]), read[w].prev_hash)

\* A drawn id belongs to the one call that drew it until it is committed.
HoldsId(w) ==
    /\ op[w].event \in Kinds
    /\ \/ pc[w] \in {"written", "head", "linked"}
       \/ ~InTxn(w) /\ answer[w] = "error" /\ faults = 0

Reserved ==
    \A w \in Workers : HoldsId(w) =>
        /\ op[w].target \in MemIds
        /\ \A m \in memories \cup forgotten : m.id # op[w].target
        /\ \A v \in Workers : v # w /\ HoldsId(v) => op[v].target # op[w].target

Returned ==
    \A w \in Workers : op[w].event \in Kinds /\ answer[w] = "ok" => Recorded(w)

Horizons == \A m \in memories \cup forgotten : m.expires = (m.kind = "episodic")

OnlyExpiredForgotten == \A m \in forgotten : m.expires

(* The inductive invariant: it holds of every reachable state, and implies *)
(* the safety properties above.                                            *)
IndInv ==
    /\ TypeOK
    /\ ChainShape
    /\ OpenCalls
    /\ Buffered
    /\ Reserved
    /\ Attested
    /\ Returned
    /\ Horizons
    /\ OnlyExpiredForgotten

(* StepsCounted with what its proof adds: both sets are finite.            *)
StepsMatch == IsFiniteSet(CountedSteps) /\ IsFiniteSet(ActLinks) /\ StepsCounted

=============================================================================

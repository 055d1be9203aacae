---------------------------- MODULE ChainVerify ----------------------------
(***************************************************************************)
(* Chain.Verify (internal/receipt/chain.go), row by row, over tables that  *)
(* Chain.Append wrote and that something else then damaged: rows lost,     *)
(* moved, inserted a second time or altered in one field, as by a partial  *)
(* restore or a manual repair, and links signed with another RECEIPT_KEY,  *)
(* as after a restart with a new one.  Nobody but Append knows a key: a    *)
(* damaged row may hold the hash of another, or one that no key gives.     *)
(*                                                                         *)
(* The statement of Verify reads one snapshot, so the table stands still   *)
(* while the loop runs.                                                    *)
(***************************************************************************)
EXTENDS Receipts

CONSTANTS
    Agent,        \* the one agent whose chain is verified
    Keys,         \* values RECEIPT_KEY has had
    VerifyKey,    \* the value Verify runs with
    Calls,        \* calls of Append: <<event, memory_id>>; a step has no memory
    NoKey,        \* stands for what no value of RECEIPT_KEY signs
    MaxLinks,     \* bound: calls of Append
    MaxDamage     \* bound: rows lost, moved, inserted or altered

ASSUME KeyAssumption == VerifyKey \in Keys /\ NoKey \notin Keys
ASSUME BoundsAssumption == MaxLinks \in Nat /\ MaxDamage \in Nat

VARIABLES
    table,        \* the rows of receipts of Agent
    written,      \* history: every <<seq, row>> Append inserted
    foreign,      \* history: numbers of the links signed with another key
    damage,       \* how often the table was damaged
    pc,           \* "idle", "loop" while rows.Next is true, "done"
    unread,       \* sequence numbers the result set still holds
    expectedSeq, expectedPrev, rep    \* the local variables of Verify

data == <<table, written, foreign, damage>>
loop == <<pc, unread, expectedSeq, expectedPrev, rep>>
vars == <<table, written, foreign, damage, pc, unread, expectedSeq, expectedPrev, rep>>

NoReport == [links |-> 0, gaps |-> {}, badHashes |-> {}, brokenLinks |-> {}]

Init ==
    /\ table = <<>>
    /\ written = {}
    /\ foreign = {}
    /\ damage = 0
    /\ pc = "idle"
    /\ unread = {}
    /\ expectedSeq = 1
    /\ expectedPrev = Genesis
    /\ rep = NoReport

-----------------------------------------------------------------------------
(* What happens to the table.                                              *)

Append(key, call) ==
    /\ pc = "idle"
    /\ Cardinality(written) < MaxLinks
    /\ LET seq == NextSeq(table)
           row == NewRow(key, Agent, seq, call[1], call[2], HeadHash(table))
       IN  /\ table' = Insert(table, seq, row)
           /\ written' = written \cup {<<seq, row>>}
           /\ foreign' = IF key # VerifyKey THEN foreign \cup {seq} ELSE foreign
    /\ UNCHANGED <<damage, loop>>

Damage(t) ==
    /\ pc = "idle"
    /\ damage < MaxDamage
    /\ damage' = damage + 1
    /\ table' = t
    /\ UNCHANGED <<written, foreign, loop>>

Lose(s) == Damage([n \in DOMAIN table \ {s} |-> table[n]])

\* A hash that no key gives.
Junk == Link(NoKey, Agent, 0, NoKey, NoMemory, Genesis)

Hashes == {table[s].hash : s \in DOMAIN table} \cup {Junk}

\* The ways one field of a row may come to hold something else.
Edits(row) ==
    {[row EXCEPT !.event = call[1]] : call \in Calls}
        \cup {[row EXCEPT !.memory_id = call[2]] : call \in Calls}
        \cup {[row EXCEPT !.prev_hash = hash] : hash \in Hashes \cup {Genesis}}
        \cup {[row EXCEPT !.hash = hash] : hash \in Hashes}

Alter(s, row) ==
    /\ row # table[s]
    /\ Damage([table EXCEPT ![s] = row])

\* Row r is inserted once more, under a number not in use.
Copy(s, r) ==
    /\ s \notin DOMAIN table
    /\ Damage(Insert(table, s, table[r]))

\* Two rows exchange their sequence numbers.
Swap(s, r) ==
    /\ s < r
    /\ Damage([table EXCEPT ![s] = table[r], ![r] = table[s]])

-----------------------------------------------------------------------------
(* Verify.                                                                 *)

\* SELECT ... WHERE agent_id = $1 ORDER BY seq
Query ==
    /\ pc = "idle"
    /\ pc' = "loop"
    /\ unread' = DOMAIN table
    /\ expectedSeq' = 1
    /\ expectedPrev' = Genesis
    /\ rep' = NoReport
    /\ UNCHANGED data

\* Mutant: the loop keeps the prev_hash it has just compared.
KeepsPrev(row) == row.prev_hash

\* expectedPrev = hash
NextPrev(row) == row.hash

\* Mutant: the HMAC is compared but a mismatch is not reported.
NeverBad(seq, row) == FALSE

IsBad(seq, row) ==
    Link(VerifyKey, Agent, seq, row.event, row.memory_id, row.prev_hash) # row.hash

\* One turn of the loop, for the row with the smallest seq not yet read.
VisitRow(seq) ==
    /\ pc = "loop"
    /\ seq \in unread /\ \A n \in unread : seq <= n
    /\ unread' = unread \ {seq}
    /\ rep' = [links       |-> rep.links + 1,
               gaps        |-> rep.gaps \cup expectedSeq .. (seq - 1),
               badHashes   |-> rep.badHashes
                                 \cup {s \in {seq} : IsBad(s, table[s])},
               brokenLinks |-> rep.brokenLinks
                                 \cup {s \in {seq} : table[s].prev_hash # expectedPrev}]
    /\ expectedSeq' = seq + 1
    /\ expectedPrev' = NextPrev(table[seq])
    /\ UNCHANGED <<pc, data>>

Return ==
    /\ pc = "loop"
    /\ unread = {}
    /\ pc' = "done"
    /\ UNCHANGED <<unread, expectedSeq, expectedPrev, rep, data>>

\* rows.Scan or rows.Err fails: Verify returns the error, without a verdict.
ReadError ==
    /\ pc = "loop"
    /\ pc' = "idle"
    /\ unread' = {}
    /\ UNCHANGED <<expectedSeq, expectedPrev, rep, data>>

\* Verify answers with an error when it has read no row, a report otherwise.
IsEmptyChain == rep.links = 0

OK == rep.gaps = {} /\ rep.badHashes = {} /\ rep.brokenLinks = {}

\* The chain is verified again later.
Again ==
    /\ pc = "done"
    /\ pc' = "idle"
    /\ UNCHANGED <<unread, expectedSeq, expectedPrev, rep, data>>

Next ==
    \/ \E key \in Keys, call \in Calls : Append(key, call)
    \/ \E s \in DOMAIN table : Lose(s)
    \/ \E s \in DOMAIN table : \E row \in Edits(table[s]) : Alter(s, row)
    \/ \E s \in 1 .. MaxLinks + 1, r \in DOMAIN table : Copy(s, r)
    \/ \E s, r \in DOMAIN table : Swap(s, r)
    \/ Query
    \/ \E seq \in unread : VisitRow(seq)
    \/ Return
    \/ ReadError
    \/ Again

Spec == Init /\ [][Next]_vars

-----------------------------------------------------------------------------
(* Properties                                                              *)

(* Every variable has its type; what was written is numbered from 1.       *)
TypeOK ==
    /\ DOMAIN table \subseteq Nat \ {0}
    /\ \A w \in written :
         /\ w[1] \in Nat \ {0}
         /\ \E call \in Calls : w[2].event = call[1] /\ w[2].memory_id = call[2]
    /\ foreign \subseteq Nat \ {0}
    /\ damage \in 0 .. MaxDamage
    /\ pc \in {"idle", "loop", "done"}
    /\ unread \subseteq DOMAIN table
    /\ expectedSeq \in Nat \ {0}
    /\ rep.links \in Nat
    /\ rep.gaps \cup rep.badHashes \cup rep.brokenLinks \subseteq Nat \ {0}

Verified == pc = "done" /\ ~IsEmptyChain /\ OK

(* The one pass of the loop finds exactly the gaps, the bad hashes and the *)
(* broken links of the table, for every table.                             *)
LoopMeetsReport ==
    pc = "done" =>
        /\ rep.links = Cardinality(DOMAIN table)
        /\ rep.gaps = Gaps(table)
        /\ rep.badHashes = BadHashes(VerifyKey, Agent, table)
        /\ rep.brokenLinks = BrokenLinks(table)

(* A chain that verifies holds only rows that Append wrote, each under the *)
(* number it was written with and right after the row it was appended to:  *)
(* no row was altered, duplicated or reordered (comment of Verify).        *)
VerifiedIsGenuine ==
    Verified => /\ \A s \in DOMAIN table : <<s, table[s]>> \in written
                /\ \A s \in DOMAIN table : s > 1 =>
                      /\ s - 1 \in DOMAIN table
                      /\ table[s].prev_hash = table[s - 1].hash

(* No false alarm, and the one that is due: of a chain nothing has damaged *)
(* Verify reports exactly the links signed under another RECEIPT_KEY, as   *)
(* bad hashes, and no gap and no broken link, wherever the key changed.    *)
IntactVerifies ==
    pc = "done" /\ damage = 0 =>
        /\ rep.gaps = {}
        /\ rep.brokenLinks = {}
        /\ rep.badHashes = foreign

(* "A chain that verifies ... proves the memory layer did not lose,        *)
(* duplicate, or reorder a single write" (comment of Verify): whatever     *)
(* Append wrote is still there.                                            *)
VerifiedLostNothing ==
    Verified => \A w \in written : w[1] \in DOMAIN table /\ table[w[1]] = w[2]

=============================================================================

------------------------------ MODULE Receipts ------------------------------
(***************************************************************************)
(* The rows of the table `receipts` of one agent and what package receipt  *)
(* computes from them (internal/receipt/chain.go, sql/schema.sql).         *)
(*                                                                         *)
(* A table is a function from the sequence numbers in use, the key of      *)
(* pk_receipts once the agent is fixed, to rows with the fields event,     *)
(* memory_id, prev_hash and hash.  The columns region and created_at are   *)
(* neither signed nor verified and are left out.                           *)
(***************************************************************************)
EXTENDS Naturals, FiniteSets

CONSTANTS Genesis,     \* prev_hash of the first link of a chain
          NoMemory     \* SQL NULL in memory_id: the link attests to no memory

(***************************************************************************)
(* HMAC-SHA256 is modelled as a free constructor: two digests are equal    *)
(* exactly when the key and every signed field are equal.  The signed text *)
(* joins the fields with "|", and it can still be split in one way only:   *)
(* seq has digits only, memory_id and prev_hash hold no "|", and the agent *)
(* is the same for all links of a chain.                                   *)
(***************************************************************************)
Link(key, agent, seq, event, memoryID, prevHash) ==
    <<key, agent, seq, event, memoryID, prevHash>>

-----------------------------------------------------------------------------
(* What Append reads: the head of the chain.                               *)

\* COALESCE(MAX(seq), 0)
LastSeq(t) ==
    IF DOMAIN t = {} THEN 0
    ELSE CHOOSE n \in DOMAIN t : \A m \in DOMAIN t : m <= n

\* Mutant: the "+ 1" is forgotten.
NextSeqNotAdvanced(t) == LastSeq(t)

NextSeq(t) == LastSeq(t) + 1

\* Mutant: every link is chained to Genesis.
HeadHashAlwaysGenesis(t) == Genesis

\* COALESCE((SELECT hash ... ORDER BY seq DESC LIMIT 1), Genesis)
HeadHash(t) == IF DOMAIN t = {} THEN Genesis ELSE t[LastSeq(t)].hash

\* Mutant: the hash does not cover prev_hash.
NewRowUnchained(key, agent, seq, event, memoryID, prevHash) ==
    [event     |-> event,
     memory_id |-> memoryID,
     prev_hash |-> prevHash,
     hash      |-> Link(key, agent, seq, event, memoryID, Genesis)]

\* The row Append inserts for an event, given the head it read.
NewRow(key, agent, seq, event, memoryID, prevHash) ==
    [event     |-> event,
     memory_id |-> memoryID,
     prev_hash |-> prevHash,
     hash      |-> Link(key, agent, seq, event, memoryID, prevHash)]

\* The table after INSERT of a row under a sequence number not in use.
Insert(t, seq, row) ==
    [s \in DOMAIN t \cup {seq} |-> IF s = seq THEN row ELSE t[s]]

-----------------------------------------------------------------------------
(* What Verify reports about a table, stated without its loop.  Module     *)
(* ChainVerify has the loop and compares the two.                          *)

Before(t, s) == {n \in DOMAIN t : n < s}

\* The hash the loop expects to find in prev_hash of row s: that of the
\* row before it in seq order, whether or not a gap lies between them.
ExpectedPrev(t, s) ==
    IF Before(t, s) = {} THEN Genesis
    ELSE t[CHOOSE n \in Before(t, s) : \A m \in Before(t, s) : m <= n].hash

Gaps(t) == (1 .. LastSeq(t)) \ DOMAIN t

BadHashes(key, agent, t) ==
    {s \in DOMAIN t :
        Link(key, agent, s, t[s].event, t[s].memory_id, t[s].prev_hash) # t[s].hash}

BrokenLinks(t) == {s \in DOMAIN t : t[s].prev_hash # ExpectedPrev(t, s)}

\* VerifyReport.OK
ReportOK(key, agent, t) ==
    /\ Gaps(t) = {}
    /\ BadHashes(key, agent, t) = {}
    /\ BrokenLinks(t) = {}

=============================================================================

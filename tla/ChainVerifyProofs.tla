------------------------- MODULE ChainVerifyProofs -------------------------
(***************************************************************************)
(* Theorems about ChainVerify: for any chain, any number of damages to it  *)
(* and any keys, the loop of Verify reports what there is to report, a     *)
(* chain it accepts was written by Append, and of a chain left alone it    *)
(* reports the links under another key and nothing else.                   *)
(***************************************************************************)
EXTENDS ChainVerify, TLAPS, FiniteSetTheorems, WellFoundedInduction

-----------------------------------------------------------------------------
(* The inductive invariant.                                                *)

IsRow(r) ==
    r = [event |-> r.event, memory_id |-> r.memory_id, prev_hash |-> r.prev_hash,
         hash |-> r.hash]

Bounded == \E n \in Nat : DOMAIN table \subseteq 1 .. n

\* A hash in the table was made by Append, even if the rest of its row was not,
\* or by no key.
KnownHash(hash) == hash = Junk \/ \E w \in written : hash = w[2].hash

\* Append made what was written.
Signed ==
    /\ \A w \in written :
         w = <<w[1], NewRow(w[2].hash[1], Agent, w[1], w[2].event, w[2].memory_id,
                            w[2].prev_hash)>>
    /\ \A s \in DOMAIN table : IsRow(table[s]) /\ KnownHash(table[s].hash)

\* As long as there is no damage, the table is a chain from Genesis.
Intact ==
    damage = 0 =>
        /\ DOMAIN table = 1 .. LastSeq(table)
        /\ \A s \in DOMAIN table :
             table[s].prev_hash = IF s = 1 THEN Genesis ELSE table[s - 1].hash
        /\ BadHashes(VerifyKey, Agent, table) = foreign

\* The rows the loop has visited come before those it has not; its variables
\* hold what there is to say of them.
Read == DOMAIN table \ unread

Visited ==
    /\ unread \subseteq DOMAIN table
    /\ \A s \in Read : s < expectedSeq /\ \A n \in unread : s < n
    /\ IF Read = {} THEN expectedSeq = 1 /\ expectedPrev = Genesis
       ELSE expectedSeq - 1 \in Read /\ expectedPrev = table[expectedSeq - 1].hash
    /\ rep = [links       |-> Cardinality(Read),
              gaps        |-> (1 .. (expectedSeq - 1)) \ DOMAIN table,
              badHashes   |-> BadHashes(VerifyKey, Agent, table) \ unread,
              brokenLinks |-> BrokenLinks(table) \ unread]

Reading == (pc # "loop" => unread = {}) /\ (pc # "idle" => Visited)

Inv == TypeOK /\ Bounded /\ Signed /\ Intact /\ Reading

-----------------------------------------------------------------------------
(* The last link of a chain.                                               *)

LEMMA Greatest ==
    ASSUME NEW n \in Nat, NEW s, s \subseteq 0 .. n, s # {}
    PROVE  \E x \in s : \A y \in s : y <= x
<1> DEFINE above(x) == (x + 1) .. n
           tops == {above(x) : x \in s}
<1>1. tops \subseteq FiniteSubsetsOf(0 .. n)
  <2> SUFFICES ASSUME NEW x \in s PROVE above(x) \in SUBSET (0 .. n) /\ IsFiniteSet(above(x))
    BY DEF FiniteSubsetsOf
  <2>1. x \in Nat /\ x + 1 \in Int
    OBVIOUS
  <2> QED
    BY <2>1, FS_Interval
<1>2. tops # {}
  OBVIOUS
<1>3. IsFiniteSet(0 .. n)
  BY FS_Interval
<1>4. PICK t \in tops : \A u \in tops : ~(<<u, t>> \in StrictSubsetOrdering(0 .. n))
  <2>1. IsWellFoundedOn(StrictSubsetOrdering(0 .. n), FiniteSubsetsOf(0 .. n))
    BY FS_StrictSubsetOrderingWellFounded
  <2> HIDE DEF tops
  <2> QED
    BY <1>1, <1>2, <2>1, WFMin
<1>5. PICK x \in s : t = above(x)
  OBVIOUS
<1>6. ASSUME NEW y \in s, ~(y <= x) PROVE FALSE
  <2>1. x \in Nat /\ y \in Nat /\ y <= n /\ x < y
    BY <1>6
  <2>2. above(y) \subseteq above(x) /\ y \in above(x) /\ y \notin above(y)
    BY <2>1
  <2>3. above(y) \in tops /\ above(y) \in SUBSET (0 .. n) /\ above(x) \in SUBSET (0 .. n)
    BY <2>1
  <2>4. <<above(y), above(x)>> \in StrictSubsetOrdering(0 .. n)
    BY <2>2, <2>3 DEF StrictSubsetOrdering
  <2> QED
    BY <1>4, <1>5, <2>3, <2>4
<1> QED
  BY <1>6

\* What the CHOOSE of LastSeq returns.
LEMMA LastSeqIsGreatest ==
    ASSUME NEW t, NEW n \in Nat, DOMAIN t \subseteq 1 .. n
    PROVE  /\ LastSeq(t) \in Nat
           /\ \A m \in DOMAIN t : m <= LastSeq(t)
           /\ DOMAIN t # {} => LastSeq(t) \in DOMAIN t
<1>1. CASE DOMAIN t = {}
  BY <1>1 DEF LastSeq
<1>2. CASE DOMAIN t # {}
  <2>1. \E x \in DOMAIN t : \A y \in DOMAIN t : y <= x
    <3>1. DOMAIN t \subseteq 0 .. n
      OBVIOUS
    <3> QED
      BY <1>2, <3>1, Greatest
  <2>2. LastSeq(t) \in DOMAIN t /\ \A m \in DOMAIN t : m <= LastSeq(t)
    BY <1>2, <2>1 DEF LastSeq
  <2> QED
    BY <2>2
<1> QED
  BY <1>1, <1>2

LEMMA LastSeqUnique ==
    ASSUME NEW t, DOMAIN t \subseteq Nat, NEW n \in DOMAIN t, \A m \in DOMAIN t : m <= n
    PROVE  LastSeq(t) = n
<1>1. \A x \in DOMAIN t : (\A m \in DOMAIN t : m <= x) => x = n
  <2> SUFFICES ASSUME NEW x \in DOMAIN t, \A m \in DOMAIN t : m <= x PROVE x = n
    OBVIOUS
  <2>1. n <= x /\ x <= n /\ n \in Nat /\ x \in Nat
    OBVIOUS
  <2> QED
    BY <2>1
<1> QED
  BY <1>1 DEF LastSeq

-----------------------------------------------------------------------------
(* Append and the damage.                                                  *)

LEMMA AppendInv ==
    ASSUME Inv, NEW key \in Keys, NEW call \in Calls, Append(key, call)
    PROVE  Inv'
<1> DEFINE seq == NextSeq(table)
           row == NewRow(key, Agent, seq, call[1], call[2], HeadHash(table))
<1>1. /\ table' = Insert(table, seq, row)
      /\ written' = written \cup {<<seq, row>>}
      /\ foreign' = IF key # VerifyKey THEN foreign \cup {seq} ELSE foreign
      /\ pc = "idle" /\ unread = {} /\ damage' = damage
      /\ UNCHANGED <<pc, unread, expectedSeq, expectedPrev, rep>>
  BY DEF Inv, Reading, Append, loop
<1>2. PICK n \in Nat : DOMAIN table \subseteq 1 .. n
  BY DEF Inv, Bounded
<1>3. /\ LastSeq(table) \in Nat /\ seq = LastSeq(table) + 1 /\ seq \in Nat \ {0}
      /\ \A m \in DOMAIN table : m < seq
      /\ DOMAIN table # {} => LastSeq(table) \in DOMAIN table
  BY <1>2, LastSeqIsGreatest DEF NextSeq
<1>4. /\ DOMAIN table' = DOMAIN table \cup {seq}
      /\ table'[seq] = row
      /\ \A s \in DOMAIN table : table'[s] = table[s] /\ s # seq
  BY <1>1, <1>3 DEF Insert
<1>5. /\ row.event = call[1] /\ row.memory_id = call[2] /\ row.prev_hash = HeadHash(table)
      /\ row.hash = Link(key, Agent, seq, call[1], call[2], HeadHash(table))
      /\ row.hash[1] = key
      /\ IsRow(row)
  BY DEF NewRow, Link, IsRow
<1> HIDE DEF seq, row
<1>6. TypeOK'
  <2>1. DOMAIN table' \subseteq Nat \ {0}
    BY <1>3, <1>4 DEF Inv, TypeOK
  <2>2. \A w \in written' :
          /\ w[1] \in Nat \ {0}
          /\ \E c \in Calls : w[2].event = c[1] /\ w[2].memory_id = c[2]
    BY <1>1, <1>3, <1>5 DEF Inv, TypeOK
  <2>3. foreign' \subseteq Nat \ {0}
    BY <1>1, <1>3 DEF Inv, TypeOK
  <2>4. unread' \subseteq DOMAIN table'
    BY <1>1
  <2> QED
    BY <1>1, <2>1, <2>2, <2>3, <2>4 DEF Inv, TypeOK
<1>7. Bounded'
  <2>1. n + seq \in Nat /\ DOMAIN table' \subseteq 1 .. (n + seq)
    BY <1>2, <1>3, <1>4
  <2> QED
    BY <2>1 DEF Bounded
<1>8. Signed'
  <2>1. ASSUME NEW w \in written'
        PROVE  w = <<w[1], NewRow(w[2].hash[1], Agent, w[1], w[2].event, w[2].memory_id,
                                  w[2].prev_hash)>>
    <3>1. CASE w \in written
      BY <3>1 DEF Inv, Signed
    <3>2. CASE w = <<seq, row>>
      <4>1. row = NewRow(row.hash[1], Agent, seq, row.event, row.memory_id, row.prev_hash)
        BY <1>5 DEF row
      <4> QED
        BY <3>2, <4>1
    <3> QED
      BY <1>1, <3>1, <3>2
  <2>2. ASSUME NEW s \in DOMAIN table'
        PROVE  /\ IsRow(table'[s])
               /\ table'[s].hash = Junk \/ \E w \in written' : table'[s].hash = w[2].hash
    <3>1. CASE s \in DOMAIN table
      BY <1>1, <1>4, <3>1 DEF Inv, Signed, KnownHash
    <3>2. CASE s = seq
      <4>1. <<seq, row>> \in written' /\ <<seq, row>>[2] = row
        BY <1>1
      <4> QED
        BY <1>4, <1>5, <3>2, <4>1
    <3> QED
      BY <1>4, <3>1, <3>2
  <2> QED
    BY <2>1, <2>2 DEF Signed, KnownHash, IsRow, Junk, Link
<1>9. Intact'
  <2> SUFFICES ASSUME damage' = 0
               PROVE  /\ DOMAIN table' = 1 .. LastSeq(table')
                      /\ \A s \in DOMAIN table' :
                           table'[s].prev_hash = IF s = 1 THEN Genesis
                                                 ELSE table'[s - 1].hash
                      /\ BadHashes(VerifyKey, Agent, table') = foreign'
    BY DEF Intact, BadHashes
  <2>1. /\ DOMAIN table = 1 .. LastSeq(table)
        /\ \A s \in DOMAIN table :
             table[s].prev_hash = IF s = 1 THEN Genesis ELSE table[s - 1].hash
        /\ BadHashes(VerifyKey, Agent, table) = foreign
    BY <1>1 DEF Inv, Intact
  <2>2. DOMAIN table' = 1 .. seq
    BY <1>3, <1>4, <2>1
  <2>3. LastSeq(table') = seq
    <3>1. DOMAIN table' \subseteq Nat /\ seq \in DOMAIN table' /\ \A m \in DOMAIN table' : m <= seq
      BY <1>3, <2>2
    <3> QED
      BY <3>1, LastSeqUnique
  <2>4. HeadHash(table) = IF seq = 1 THEN Genesis ELSE table'[seq - 1].hash
    BY <1>3, <1>4, <2>1 DEF HeadHash
  <2>5. \A s \in DOMAIN table' :
          table'[s].prev_hash = IF s = 1 THEN Genesis ELSE table'[s - 1].hash
    <3> SUFFICES ASSUME NEW s \in DOMAIN table'
                 PROVE  table'[s].prev_hash = IF s = 1 THEN Genesis ELSE table'[s - 1].hash
      OBVIOUS
    <3>1. CASE s = seq
      BY <1>4, <1>5, <2>4, <3>1
    <3>2. CASE s \in DOMAIN table
      <4>1. s # 1 => s - 1 \in DOMAIN table
        BY <1>3, <2>1, <3>2
      <4> QED
        BY <1>4, <2>1, <3>2, <4>1
    <3> QED
      BY <1>4, <3>1, <3>2
  <2>6. ASSUME NEW s \in DOMAIN table'
        PROVE  Link(VerifyKey, Agent, s, table'[s].event, table'[s].memory_id,
                    table'[s].prev_hash) # table'[s].hash
                 <=> s \in foreign'
    <3>1. CASE s = seq
      <4>1. seq \notin foreign
        BY <1>4, <2>1 DEF BadHashes
      <4>2. Link(VerifyKey, Agent, seq, call[1], call[2], HeadHash(table))[1] = VerifyKey
        BY DEF Link
      <4> QED
        BY <1>1, <1>4, <1>5, <3>1, <4>1, <4>2
    <3>2. CASE s \in DOMAIN table
      BY <1>1, <1>4, <2>1, <3>2 DEF BadHashes
    <3> QED
      BY <1>4, <3>1, <3>2
  <2>7. foreign' \subseteq DOMAIN table'
    BY <1>1, <1>4, <2>1 DEF BadHashes
  <2>8. BadHashes(VerifyKey, Agent, table') = foreign'
    BY <2>6, <2>7 DEF BadHashes
  <2> QED
    BY <2>2, <2>3, <2>5, <2>8
<1>10. Reading'
  BY <1>1 DEF Reading
<1> QED
  BY <1>6, <1>7, <1>8, <1>9, <1>10 DEF Inv

LEMMA DamageInv ==
    ASSUME Inv, NEW t, Damage(t), DOMAIN t \subseteq Nat \ {0},
           \E n \in Nat : DOMAIN t \subseteq 1 .. n,
           \A s \in DOMAIN t : IsRow(t[s]) /\ KnownHash(t[s].hash)
    PROVE  Inv'
<1>1. /\ table' = t /\ damage' = damage + 1 /\ damage' \in 0 .. MaxDamage /\ damage' # 0
      /\ pc = "idle" /\ unread = {}
      /\ UNCHANGED <<written, foreign, pc, unread, expectedSeq, expectedPrev, rep>>
  BY BoundsAssumption DEF Inv, TypeOK, Reading, Damage, loop
<1>2. TypeOK'
  BY <1>1 DEF Inv, TypeOK
<1>3. Bounded'
  BY <1>1 DEF Bounded
<1>4. Signed'
  BY <1>1 DEF Inv, Signed, KnownHash, IsRow, Junk, Link
<1>5. Intact' /\ Reading'
  BY <1>1 DEF Intact, Reading
<1> QED
  BY <1>2, <1>3, <1>4, <1>5 DEF Inv

\* What DamageInv needs to know of a table with no number but the old ones.
LEMMA DamageInPlace ==
    ASSUME Inv, NEW t, Damage(t), DOMAIN t \subseteq DOMAIN table,
           \A s \in DOMAIN t : IsRow(t[s]) /\ KnownHash(t[s].hash)
    PROVE  Inv'
<1>1. DOMAIN t \subseteq Nat \ {0} /\ \E n \in Nat : DOMAIN t \subseteq 1 .. n
  BY DEF Inv, TypeOK, Bounded
<1> QED
  BY <1>1, DamageInv

LEMMA LoseInv ==
    ASSUME Inv, NEW s \in DOMAIN table, Lose(s)
    PROVE  Inv'
<1> DEFINE t == [n \in DOMAIN table \ {s} |-> table[n]]
<1>1. /\ DOMAIN t \subseteq DOMAIN table
      /\ \A n \in DOMAIN t : IsRow(t[n]) /\ KnownHash(t[n].hash)
  BY DEF Inv, Signed
<1>2. Damage(t)
  BY DEF Lose
<1> HIDE DEF t
<1> QED
  BY <1>1, <1>2, DamageInPlace

LEMMA AlterInv ==
    ASSUME Inv, NEW s \in DOMAIN table, NEW row \in Edits(table[s]), Alter(s, row)
    PROVE  Inv'
<1> DEFINE t == [table EXCEPT ![s] = row]
<1>1. \A n \in DOMAIN table : IsRow(table[n]) /\ KnownHash(table[n].hash)
  BY DEF Inv, Signed
<1>2. \A hash \in Hashes : KnownHash(hash)
  BY <1>1 DEF Hashes, KnownHash
<1>3. IsRow(row) /\ KnownHash(row.hash)
  <2>1. IsRow(table[s]) /\ KnownHash(table[s].hash)
    BY <1>1
  <2>2. CASE row.hash = table[s].hash /\ IsRow(row)
    BY <2>1, <2>2
  <2>3. CASE row.hash \in Hashes /\ IsRow(row)
    BY <1>2, <2>3
  <2> QED
    BY <2>1, <2>2, <2>3 DEF Edits, IsRow
<1>4. DOMAIN t = DOMAIN table /\ \A n \in DOMAIN t : t[n] = row \/ t[n] = table[n]
  OBVIOUS
<1>5. Damage(t)
  BY DEF Alter
<1> HIDE DEF t
<1> QED
  BY <1>1, <1>3, <1>4, <1>5, DamageInPlace

LEMMA CopyInv ==
    ASSUME Inv, NEW s \in 1 .. MaxLinks + 1, NEW r \in DOMAIN table, Copy(s, r)
    PROVE  Inv'
<1> DEFINE t == Insert(table, s, table[r])
<1>1. \A n \in DOMAIN table : IsRow(table[n]) /\ KnownHash(table[n].hash)
  BY DEF Inv, Signed
<1>2. /\ DOMAIN t = DOMAIN table \cup {s}
      /\ \A n \in DOMAIN t : \E m \in DOMAIN table : t[n] = table[m]
  BY DEF Insert
<1>3. Damage(t)
  BY DEF Copy
<1>4. s \in Nat \ {0}
  BY BoundsAssumption
<1>5. DOMAIN t \subseteq Nat \ {0} /\ \E n \in Nat : DOMAIN t \subseteq 1 .. n
  <2>1. PICK n \in Nat : DOMAIN table \subseteq 1 .. n
    BY DEF Inv, Bounded
  <2>2. n + s \in Nat /\ DOMAIN t \subseteq 1 .. (n + s)
    BY <1>2, <1>4, <2>1
  <2>3. DOMAIN t \subseteq Nat \ {0}
    BY <1>2, <1>4, <2>1
  <2> QED
    BY <2>2, <2>3
<1>6. \A n \in DOMAIN t : IsRow(t[n]) /\ KnownHash(t[n].hash)
  BY <1>1, <1>2
<1> HIDE DEF t
<1> QED
  BY <1>3, <1>5, <1>6, DamageInv

LEMMA SwapInv ==
    ASSUME Inv, NEW s \in DOMAIN table, NEW r \in DOMAIN table, Swap(s, r)
    PROVE  Inv'
<1> DEFINE t == [table EXCEPT ![s] = table[r], ![r] = table[s]]
<1>1. DOMAIN t = DOMAIN table
  OBVIOUS
<1>2. ASSUME NEW q \in DOMAIN t PROVE IsRow(t[q]) /\ KnownHash(t[q].hash)
  BY <1>1 DEF Inv, Signed
<1>3. Damage(t)
  BY DEF Swap
<1> HIDE DEF t
<1> QED
  BY <1>1, <1>2, <1>3, DamageInPlace

-----------------------------------------------------------------------------
(* Verify.                                                                 *)

\* What Inv says of the table stays true while the table stands still.
LEMMA SameTable ==
    ASSUME UNCHANGED <<table, written, foreign, damage>>
    PROVE  /\ Bounded => Bounded'
           /\ Signed => Signed'
           /\ Intact => Intact'
<1>1. table' = table /\ written' = written /\ foreign' = foreign /\ damage' = damage
  OBVIOUS
<1>2. Bounded => Bounded'
  BY <1>1 DEF Bounded
<1>3. Signed => Signed'
  BY <1>1 DEF Signed, KnownHash, IsRow, Junk, Link
<1>4. Intact => Intact'
  BY <1>1 DEF Intact
<1> QED
  BY <1>2, <1>3, <1>4

LEMMA QueryInv ==
    ASSUME Inv, Query
    PROVE  Inv'
<1>1. /\ unread' = DOMAIN table /\ pc' = "loop" /\ expectedSeq' = 1
      /\ expectedPrev' = Genesis /\ rep' = NoReport
      /\ UNCHANGED <<table, written, foreign, damage>>
  BY DEF Query, data
<1>2. TypeOK'
  BY <1>1 DEF Inv, TypeOK, NoReport
<1>3. Bounded' /\ Signed' /\ Intact'
  BY <1>1, SameTable DEF Inv
<1>4. Visited'
  <2>1. Read' = {}
    BY <1>1 DEF Read
  <2>2. BadHashes(VerifyKey, Agent, table) \subseteq DOMAIN table
        /\ BrokenLinks(table) \subseteq DOMAIN table
    BY DEF BadHashes, BrokenLinks
  <2>3. Cardinality(Read') = 0 /\ 1 .. (1 - 1) = {}
    BY <2>1, FS_EmptySet
  <2>4. rep' = [links       |-> Cardinality(Read'),
                gaps        |-> (1 .. (expectedSeq' - 1)) \ DOMAIN table',
                badHashes   |-> BadHashes(VerifyKey, Agent, table') \ unread',
                brokenLinks |-> BrokenLinks(table') \ unread']
    BY <1>1, <2>2, <2>3 DEF NoReport
  <2> QED
    BY <1>1, <2>1, <2>4 DEF Visited
<1> QED
  BY <1>1, <1>2, <1>3, <1>4 DEF Inv, Reading

\* What VisitRow expects to find in prev_hash is what the report compares it with.
LEMMA ExpectedInLoop ==
    ASSUME Inv, NEW seq \in unread, pc = "loop", \A n \in unread : seq <= n
    PROVE  ExpectedPrev(table, seq) = expectedPrev
<1>1. /\ DOMAIN table \subseteq Nat \ {0} /\ Visited
  BY DEF Inv, TypeOK, Reading
<1>2. Before(table, seq) = Read
  <2>1. ASSUME NEW n \in Before(table, seq) PROVE n \in Read
    <3>1. n \in DOMAIN table /\ n < seq /\ n \in Nat /\ seq \in Nat
      BY <1>1, <2>1 DEF Before, Visited
    <3> QED
      BY <3>1 DEF Read
  <2>2. ASSUME NEW n \in Read PROVE n \in Before(table, seq)
    BY <1>1, <2>2 DEF Visited, Read, Before
  <2> QED
    BY <2>1, <2>2
<1>3. CASE Read = {}
  BY <1>1, <1>2, <1>3 DEF ExpectedPrev, Visited
<1>4. CASE Read # {}
  <2>1. expectedSeq - 1 \in Read /\ expectedPrev = table[expectedSeq - 1].hash
    BY <1>1, <1>4 DEF Visited
  <2>2. expectedSeq \in Nat \ {0} /\ Read \subseteq Nat
    BY <1>1 DEF Inv, TypeOK, Read
  <2>3. \A m \in Read : m <= expectedSeq - 1
    BY <1>1, <2>2 DEF Visited
  <2>4. \A x \in Read : (\A m \in Read : m <= x) => x = expectedSeq - 1
    <3> SUFFICES ASSUME NEW x \in Read, \A m \in Read : m <= x PROVE x = expectedSeq - 1
      OBVIOUS
    <3>1. expectedSeq - 1 <= x /\ x <= expectedSeq - 1 /\ x \in Nat
      BY <2>1, <2>2, <2>3
    <3> QED
      BY <2>2, <3>1
  <2>5. (CHOOSE n \in Read : \A m \in Read : m <= n) = expectedSeq - 1
    BY <2>1, <2>3, <2>4
  <2> QED
    BY <1>2, <1>4, <2>1, <2>5 DEF ExpectedPrev
<1> QED
  BY <1>3, <1>4

LEMMA VisitRowInv ==
    ASSUME Inv, NEW seq \in unread, VisitRow(seq)
    PROVE  Inv'
<1>1. /\ pc = "loop" /\ pc' = pc /\ \A n \in unread : seq <= n
      /\ unread' = unread \ {seq} /\ expectedSeq' = seq + 1
      /\ expectedPrev' = table[seq].hash
      /\ UNCHANGED <<table, written, foreign, damage>>
  BY DEF VisitRow, NextPrev, data
<1>2. /\ rep' = [links       |-> rep.links + 1,
                 gaps        |-> rep.gaps \cup expectedSeq .. (seq - 1),
                 badHashes   |-> rep.badHashes \cup {s \in {seq} : IsBad(s, table[s])},
                 brokenLinks |-> rep.brokenLinks
                                   \cup {s \in {seq} : table[s].prev_hash # expectedPrev}]
  BY DEF VisitRow
<1>3. /\ Visited /\ DOMAIN table \subseteq Nat \ {0} /\ expectedSeq \in Nat \ {0}
      /\ seq \in DOMAIN table /\ seq \in Nat \ {0} /\ unread \subseteq DOMAIN table
  BY <1>1 DEF Inv, TypeOK, Reading, Visited
<1>4. Read' = Read \cup {seq} /\ seq \notin Read
  BY <1>1, <1>3 DEF Read
<1>5. TypeOK'
  <2>1. rep'.links \in Nat
    BY <1>2 DEF Inv, TypeOK
  <2>2. rep'.gaps \cup rep'.badHashes \cup rep'.brokenLinks \subseteq Nat \ {0}
    <3>1. expectedSeq .. (seq - 1) \subseteq Nat \ {0}
      BY <1>3
    <3> QED
      BY <1>2, <1>3, <3>1 DEF Inv, TypeOK
  <2> QED
    BY <1>1, <1>3, <2>1, <2>2 DEF Inv, TypeOK
<1>6. Bounded' /\ Signed' /\ Intact'
  BY <1>1, SameTable DEF Inv
<1>7. rep'.links = Cardinality(Read')
  <2>1. IsFiniteSet(Read)
    <3>1. PICK n \in Nat : DOMAIN table \subseteq 1 .. n
      BY DEF Inv, Bounded
    <3>2. IsFiniteSet(1 .. n)
      BY <3>1, FS_Interval
    <3> QED
      BY <3>1, <3>2, FS_Subset DEF Read
  <2> QED
    BY <1>2, <1>3, <1>4, <2>1, FS_AddElement DEF Visited
<1>8. rep'.gaps = (1 .. (expectedSeq' - 1)) \ DOMAIN table'
  <2>1. rep.gaps = (1 .. (expectedSeq - 1)) \ DOMAIN table
    BY <1>3 DEF Visited
  <2>2. rep'.gaps = rep.gaps \cup expectedSeq .. (seq - 1)
    BY <1>2
  <2>3. expectedSeq <= seq
    <3>1. CASE Read = {}
      BY <1>3, <3>1 DEF Visited
    <3>2. CASE Read # {}
      BY <1>3, <3>2 DEF Visited
    <3> QED
      BY <3>1, <3>2
  <2>4. \A d \in DOMAIN table : d < expectedSeq \/ seq <= d
    BY <1>1, <1>3 DEF Visited, Read
  <2>5. \A d \in 1 .. seq :
          d \notin DOMAIN table => d \in 1 .. (expectedSeq - 1) \/ d \in expectedSeq .. (seq - 1)
    BY <1>3
  <2>6. \A d \in expectedSeq .. (seq - 1) : d \in 1 .. seq /\ d \notin DOMAIN table
    BY <1>3, <2>4
  <2>7. \A d \in 1 .. (expectedSeq - 1) : d \in 1 .. seq
    BY <1>3, <2>3
  <2>8. expectedSeq' - 1 = seq
    BY <1>1, <1>3
  <2> QED
    BY <1>1, <2>1, <2>2, <2>5, <2>6, <2>7, <2>8
<1>9. rep'.badHashes = BadHashes(VerifyKey, Agent, table') \ unread'
  <2>1. rep.badHashes = BadHashes(VerifyKey, Agent, table) \ unread
    BY <1>3 DEF Visited
  <2>2. IsBad(seq, table[seq]) <=> seq \in BadHashes(VerifyKey, Agent, table)
    BY <1>3 DEF IsBad, BadHashes
  <2>3. rep'.badHashes = rep.badHashes \cup {s \in {seq} : IsBad(s, table[s])}
    BY <1>2
  <2> QED
    BY <1>1, <2>1, <2>2, <2>3
<1>10. rep'.brokenLinks = BrokenLinks(table') \ unread'
  <2>1. rep.brokenLinks = BrokenLinks(table) \ unread
    BY <1>3 DEF Visited
  <2>2. table[seq].prev_hash # expectedPrev <=> seq \in BrokenLinks(table)
    BY <1>1, <1>3, ExpectedInLoop DEF BrokenLinks
  <2>3. rep'.brokenLinks = rep.brokenLinks
                             \cup {s \in {seq} : table[s].prev_hash # expectedPrev}
    BY <1>2
  <2> QED
    BY <1>1, <2>1, <2>2, <2>3
<1>11. Visited'
  <2>1. \A s \in Read' : s < expectedSeq' /\ \A n \in unread' : s < n
    <3>1. ASSUME NEW s \in Read PROVE s < expectedSeq' /\ \A n \in unread' : s < n
      <4>1. s \in Nat /\ s < seq /\ \A n \in unread : s < n
        BY <1>3 DEF Visited, Read
      <4> QED
        BY <1>1, <1>3, <4>1
    <3>2. seq < expectedSeq' /\ \A n \in unread' : seq < n
      BY <1>1, <1>3
    <3> QED
      BY <1>4, <3>1, <3>2
  <2>2. expectedSeq' - 1 = seq /\ seq \in Read' /\ expectedPrev' = table'[seq].hash
    BY <1>1, <1>3, <1>4
  <2>3. rep' = [links       |-> Cardinality(Read'),
                gaps        |-> (1 .. (expectedSeq' - 1)) \ DOMAIN table',
                badHashes   |-> BadHashes(VerifyKey, Agent, table') \ unread',
                brokenLinks |-> BrokenLinks(table') \ unread']
    <3>1. rep' = [links |-> rep'.links, gaps |-> rep'.gaps, badHashes |-> rep'.badHashes,
                  brokenLinks |-> rep'.brokenLinks]
      BY <1>2
    <3> QED
      BY <1>7, <1>8, <1>9, <1>10, <3>1
  <2> QED
    BY <1>1, <1>3, <2>1, <2>2, <2>3 DEF Visited
<1> QED
  BY <1>1, <1>5, <1>6, <1>11 DEF Inv, Reading

\* What is known of the rows visited stays true between two turns.
LEMMA SameVisited ==
    ASSUME UNCHANGED <<table, unread, expectedSeq, expectedPrev, rep>>
    PROVE  Visited => Visited'
<1>1. /\ table' = table /\ unread' = unread /\ expectedSeq' = expectedSeq
      /\ expectedPrev' = expectedPrev /\ rep' = rep
  OBVIOUS
<1>2. Read' = Read
  BY <1>1 DEF Read
<1> QED
  BY <1>1, <1>2 DEF Visited

LEMMA ReadErrorInv ==
    ASSUME Inv, ReadError
    PROVE  Inv'
<1>1. /\ UNCHANGED <<table, written, foreign, damage, expectedSeq, expectedPrev, rep>>
      /\ pc' = "idle" /\ unread' = {}
  BY DEF ReadError, data
<1>2. TypeOK'
  BY <1>1 DEF Inv, TypeOK
<1>3. Bounded' /\ Signed' /\ Intact'
  BY <1>1, SameTable DEF Inv
<1>4. Reading'
  BY <1>1 DEF Reading
<1> QED
  BY <1>2, <1>3, <1>4 DEF Inv

LEMMA ReturnInv ==
    ASSUME Inv, Return \/ Again
    PROVE  Inv'
<1>1. /\ UNCHANGED <<table, written, foreign, damage, unread, expectedSeq, expectedPrev, rep>>
      /\ \/ pc' = "idle" /\ unread = {}
         \/ pc' = "done" /\ unread = {} /\ pc = "loop"
  BY DEF Inv, Reading, Return, Again, data
<1>2. TypeOK'
  BY <1>1 DEF Inv, TypeOK
<1>3. Bounded' /\ Signed' /\ Intact'
  BY <1>1, SameTable DEF Inv
<1>4. Visited => Visited'
  BY <1>1, SameVisited
<1>5. Reading'
  BY <1>1, <1>4 DEF Inv, Reading
<1> QED
  BY <1>2, <1>3, <1>5 DEF Inv

-----------------------------------------------------------------------------
(* The theorems.                                                           *)

(* Whatever is appended, damaged and verified, Inv is never left.          *)
THEOREM Invariance == Spec => []Inv
<1>1. Init => Inv
  <2> SUFFICES ASSUME Init PROVE Inv
    OBVIOUS
  <2>1. DOMAIN table = {} /\ DOMAIN table \subseteq 1 .. 0
    BY DEF Init
  <2>2. LastSeq(table) = 0 /\ 1 .. 0 = {}
    BY <2>1 DEF LastSeq
  <2>3. TypeOK
    <3>1. NoReport.links \in Nat /\ 0 \in 0 .. MaxDamage
      BY BoundsAssumption DEF NoReport
    <3>2. /\ NoReport.gaps = {} /\ NoReport.badHashes = {}
          /\ NoReport.brokenLinks = {}
      BY DEF NoReport
    <3>3. /\ rep = NoReport /\ written = {} /\ foreign = {} /\ damage = 0
          /\ pc = "idle" /\ unread = {} /\ expectedSeq = 1
      BY DEF Init
    <3>4. DOMAIN table \subseteq Nat \ {0}
      BY <2>1
    <3>5. /\ rep.links \in Nat
          /\ rep.gaps \cup rep.badHashes \cup rep.brokenLinks \subseteq Nat \ {0}
      BY <3>1, <3>2, <3>3
    <3>6. damage \in 0 .. MaxDamage /\ expectedSeq \in Nat \ {0}
      BY <3>1, <3>3
    <3>7. foreign \subseteq Nat \ {0}
      BY <3>3
    <3>8. pc \in {"idle", "loop", "done"} /\ unread \subseteq DOMAIN table
      BY <3>3
    <3>9. \A w \in written :
            /\ w[1] \in Nat \ {0}
            /\ \E call \in Calls : w[2].event = call[1] /\ w[2].memory_id = call[2]
      BY <3>3
    <3> QED
      BY <3>4, <3>5, <3>6, <3>7, <3>8, <3>9, Zenon DEF TypeOK
  <2>4. Bounded
    BY <2>1 DEF Bounded
  <2>5. Signed /\ Intact /\ Reading
    BY <2>1, <2>2 DEF Init, Signed, Intact, BadHashes, Reading
  <2> QED
    BY <2>3, <2>4, <2>5 DEF Inv
<1>2. Inv /\ [Next]_vars => Inv'
  <2> SUFFICES ASSUME Inv, [Next]_vars PROVE Inv'
    OBVIOUS
  <2>1. CASE UNCHANGED vars
    <3>1. /\ UNCHANGED <<table, written, foreign, damage>>
          /\ UNCHANGED <<table, unread, expectedSeq, expectedPrev, rep>>
          /\ pc' = pc /\ unread' = unread
      BY <2>1 DEF vars
    <3>2. TypeOK'
      BY <3>1 DEF Inv, TypeOK
    <3>3. Bounded' /\ Signed' /\ Intact'
      BY <3>1, SameTable DEF Inv
    <3>4. Reading'
      BY <3>1, SameVisited DEF Inv, Reading
    <3> QED
      BY <3>2, <3>3, <3>4 DEF Inv
  <2> QED
    BY <2>1, AppendInv, LoseInv, AlterInv, CopyInv, SwapInv, QueryInv, VisitRowInv,
       ReadErrorInv, ReturnInv DEF Next
<1> QED
  BY <1>1, <1>2, PTL DEF Spec

(* Every variable has its type.                                            *)
THEOREM TypeCorrect == Spec => []TypeOK
<1>1. Inv => TypeOK
  BY DEF Inv
<1> QED
  BY Invariance, <1>1, PTL

\* When the loop has ended, its variables hold the report.
LEMMA ReportAtEnd == Inv => LoopMeetsReport
<1> SUFFICES ASSUME Inv, pc = "done"
             PROVE  /\ rep.links = Cardinality(DOMAIN table)
                    /\ rep.gaps = Gaps(table)
                    /\ rep.badHashes = BadHashes(VerifyKey, Agent, table)
                    /\ rep.brokenLinks = BrokenLinks(table)
  BY DEF LoopMeetsReport
<1>1. Visited /\ unread = {} /\ Read = DOMAIN table
  BY DEF Inv, Reading, Read
<1>2. /\ rep.links = Cardinality(DOMAIN table)
      /\ rep.gaps = (1 .. (expectedSeq - 1)) \ DOMAIN table
      /\ rep.badHashes = BadHashes(VerifyKey, Agent, table)
      /\ rep.brokenLinks = BrokenLinks(table)
  BY <1>1 DEF Visited
<1>3. LastSeq(table) = expectedSeq - 1
  <2>1. CASE DOMAIN table = {}
    BY <1>1, <2>1 DEF Visited, LastSeq
  <2>2. CASE DOMAIN table # {}
    <3>1. /\ expectedSeq - 1 \in DOMAIN table
          /\ expectedSeq \in Nat /\ DOMAIN table \subseteq Nat
          /\ \A m \in DOMAIN table : m < expectedSeq
      BY <1>1, <2>2 DEF Visited, Inv, TypeOK
    <3>2. \A m \in DOMAIN table : m <= expectedSeq - 1
      BY <3>1
    <3> QED
      BY <3>1, <3>2, LastSeqUnique
  <2> QED
    BY <2>1, <2>2
<1> QED
  BY <1>2, <1>3 DEF Gaps

(* The one pass of Verify finds the gaps, the bad hashes and the broken    *)
(* links of any table, however it was damaged.                             *)
THEOREM LoopFindsAll == Spec => []LoopMeetsReport
BY Invariance, ReportAtEnd, PTL

\* A row whose hash is right is one that Append wrote.
LEMMA GoodRowWasWritten ==
    ASSUME Inv, NEW s \in DOMAIN table, s \notin BadHashes(VerifyKey, Agent, table)
    PROVE  <<s, table[s]>> \in written
<1> DEFINE row == table[s]
<1>1. Link(VerifyKey, Agent, s, row.event, row.memory_id, row.prev_hash) = row.hash
  BY DEF BadHashes
<1>2. PICK w \in written : row.hash = w[2].hash
  <2>1. row.hash[1] = VerifyKey /\ Junk[1] = NoKey
    BY <1>1 DEF Link, Junk
  <2>2. row.hash # Junk
    BY <2>1, KeyAssumption
  <2> QED
    BY <2>2 DEF Inv, Signed, KnownHash
<1>3. w = <<w[1], NewRow(w[2].hash[1], Agent, w[1], w[2].event, w[2].memory_id,
                         w[2].prev_hash)>>
  BY DEF Inv, Signed
<1>4. /\ w[2] = [event     |-> w[2].event,
                 memory_id |-> w[2].memory_id,
                 prev_hash |-> w[2].prev_hash,
                 hash      |-> w[2].hash]
      /\ w[2].hash = <<w[2].hash[1], Agent, w[1], w[2].event, w[2].memory_id, w[2].prev_hash>>
      /\ w = <<w[1], w[2]>>
  BY <1>3 DEF NewRow, Link
<1>5. <<VerifyKey, Agent, s, row.event, row.memory_id, row.prev_hash>>
        = <<w[2].hash[1], Agent, w[1], w[2].event, w[2].memory_id, w[2].prev_hash>>
  BY <1>1, <1>2, <1>4 DEF Link
<1>6. s = w[1] /\ row.event = w[2].event /\ row.memory_id = w[2].memory_id
      /\ row.prev_hash = w[2].prev_hash
  BY <1>5
<1>7. row = w[2]
  <2>1. row = [event |-> row.event, memory_id |-> row.memory_id,
               prev_hash |-> row.prev_hash, hash |-> row.hash]
    BY DEF Inv, Signed, IsRow
  <2> HIDE DEF row
  <2> QED
    BY <1>2, <1>4, <1>6, <2>1
<1> QED
  BY <1>4, <1>6, <1>7

(* The claim of the audit log: whatever happened to the rows, a chain that *)
(* Verify accepts holds only links that Append wrote, where it wrote them. *)
THEOREM VerifyMeansGenuine == Spec => []VerifiedIsGenuine
<1>1. Inv => VerifiedIsGenuine
  <2> SUFFICES ASSUME Inv, Verified
               PROVE  /\ \A s \in DOMAIN table : <<s, table[s]>> \in written
                      /\ \A s \in DOMAIN table : s > 1 =>
                            /\ s - 1 \in DOMAIN table
                            /\ table[s].prev_hash = table[s - 1].hash
    BY DEF VerifiedIsGenuine
  <2>1. /\ Gaps(table) = {} /\ BadHashes(VerifyKey, Agent, table) = {}
        /\ BrokenLinks(table) = {}
    BY ReportAtEnd DEF LoopMeetsReport, Verified, OK
  <2>2. \A s \in DOMAIN table : <<s, table[s]>> \in written
    BY <2>1, GoodRowWasWritten
  <2>3. ASSUME NEW s \in DOMAIN table, s > 1
        PROVE  s - 1 \in DOMAIN table /\ table[s].prev_hash = table[s - 1].hash
    <3>1. /\ DOMAIN table \subseteq Nat /\ s \in Nat
          /\ LastSeq(table) \in Nat /\ s <= LastSeq(table)
      <4>1. PICK n \in Nat : DOMAIN table \subseteq 1 .. n
        BY DEF Inv, Bounded
      <4> QED
        BY <4>1, LastSeqIsGreatest
    <3>2. s - 1 \in DOMAIN table
      BY <2>1, <2>3, <3>1 DEF Gaps
    <3>3. s - 1 \in Before(table, s) /\ \A m \in Before(table, s) : m <= s - 1 /\ m \in Nat
      BY <3>1, <3>2 DEF Before
    <3>4. \A x \in Before(table, s) : (\A m \in Before(table, s) : m <= x) => x = s - 1
      <4> SUFFICES ASSUME NEW x \in Before(table, s), \A m \in Before(table, s) : m <= x
                   PROVE  x = s - 1
        OBVIOUS
      <4>1. s - 1 <= x /\ x <= s - 1 /\ x \in Nat
        BY <3>3
      <4> QED
        BY <3>1, <4>1
    <3>5. ExpectedPrev(table, s) = table[s - 1].hash
      BY <3>3, <3>4 DEF ExpectedPrev
    <3> QED
      BY <2>1, <3>2, <3>5 DEF BrokenLinks
  <2> QED
    BY <2>2, <2>3
<1> QED
  BY Invariance, <1>1, PTL

(* Of a chain that is as Append left it Verify reports the links that were *)
(* signed under another key, and nothing else.                             *)
THEOREM NoFalseAlarm == Spec => []IntactVerifies
<1>1. Inv => IntactVerifies
  <2> SUFFICES ASSUME Inv, pc = "done", damage = 0
               PROVE  /\ rep.gaps = {}
                      /\ rep.brokenLinks = {}
                      /\ rep.badHashes = foreign
    BY DEF IntactVerifies
  <2>1. /\ DOMAIN table = 1 .. LastSeq(table)
        /\ \A s \in DOMAIN table :
             table[s].prev_hash = IF s = 1 THEN Genesis ELSE table[s - 1].hash
        /\ BadHashes(VerifyKey, Agent, table) = foreign
    BY DEF Inv, Intact
  <2>2. Gaps(table) = {}
    BY <2>1 DEF Gaps
  <2>3. LastSeq(table) \in Nat
    BY LastSeqIsGreatest DEF Inv, Bounded
  <2>4. ASSUME NEW s \in DOMAIN table PROVE ExpectedPrev(table, s) = table[s].prev_hash
    <3>1. s \in Nat \ {0} /\ Before(table, s) = 1 .. (s - 1)
      BY <2>1, <2>3 DEF Before
    <3>2. CASE s = 1
      <4>1. Before(table, s) = {}
        BY <3>1, <3>2
      <4> QED
        BY <2>1, <3>2, <4>1 DEF ExpectedPrev
    <3>3. CASE s # 1
      <4>1. /\ s - 1 \in Before(table, s)
            /\ \A x \in Before(table, s) : (\A m \in Before(table, s) : m <= x) => x = s - 1
            /\ \A m \in Before(table, s) : m <= s - 1
        BY <3>1, <3>3
      <4> QED
        BY <2>1, <3>3, <4>1 DEF ExpectedPrev
    <3> QED
      BY <3>2, <3>3
  <2>5. BrokenLinks(table) = {}
    BY <2>4 DEF BrokenLinks
  <2> QED
    BY <2>1, <2>2, <2>5, ReportAtEnd DEF LoopMeetsReport
<1> QED
  BY Invariance, <1>1, PTL

=============================================================================

------------------------- MODULE AuditExportProofs -------------------------
(***************************************************************************)
(* Theorems about AuditExport: for any number of exporters, invocations    *)
(* and faults, and whatever the clocks show, a response is covered by what *)
(* is in S3, and nothing in S3 is overwritten.                             *)
(***************************************************************************)
EXTENDS AuditExport, TLAPS

-----------------------------------------------------------------------------
(* The inductive invariant.                                                *)

Bundles == bundle \in [Exporters -> [links : Nat, exported_at : Seconds \cup {0}]]

\* The name of an object tells what it holds.
Named == \A k \in DOMAIN bucket : k[2] = bucket[k]

\* An invocation that is being worked on has not been answered, and no one
\* else works on it.
Serving ==
    \A x \in Exporters : invocation[x] # NoInvocation =>
        /\ status[invocation[x]] = "given"
        /\ \A y \in Exporters \ {x} : invocation[y] # invocation[x]

\* A snapshot covers what there was when its invocation was made.
Past ==
    /\ \A r \in Invocations : floor[r] <= links
    /\ \A x \in Exporters :
         /\ snapshot[x] <= links
         /\ pc[x] \in {"rows", "put", "ok"} /\ invocation[x] # NoInvocation
              => floor[invocation[x]] <= snapshot[x]

\* What is about to be stored, or has been, is a whole snapshot.
Complete ==
    \A x \in Exporters :
        /\ pc[x] \in {"put", "ok"} => bundle[x].links = snapshot[x] /\ snapshot[x] >= 1
        /\ pc[x] = "ok" => Key(bundle[x]) \in DOMAIN bucket

Inv ==
    TypeOK /\ Bundles /\ Named /\ Serving /\ Past /\ Complete /\ AnswerCoversPast

-----------------------------------------------------------------------------
LEMMA InitInv == Init => Inv
<1> SUFFICES ASSUME Init PROVE Inv
  OBVIOUS
<1>1. TypeOK
  <2>1. DOMAIN bucket = {}
    BY DEF Init
  <2>2. /\ \A x \in Exporters : bundle[x].links = 0 /\ snapshot[x] = 0
        /\ 0 \in 0 .. MaxLinks /\ 0 \in 0 .. 0 /\ 0 \in 0 .. MaxFaults
    BY BoundsAssumption DEF Init, NoBundle
  <2>3. \A x \in Shells : pc[x] # "next" /\ invocation[x] = NoInvocation
    BY ExportersAssumption DEF Init, Exporters, Rest
  <2>4. pc \in [Exporters -> {"next", "away", "handle", "rows", "put", "ok", "error"}]
    BY DEF Init, Rest
  <2> QED
    BY <2>1, <2>2, <2>3, <2>4 DEF Init, TypeOK
<1>2. Bundles /\ Named
  <2>1. DOMAIN bucket = {}
    BY DEF Init
  <2> QED
    BY <2>1 DEF Init, Bundles, Named, NoBundle
<1>3. Serving /\ Past /\ Complete /\ AnswerCoversPast
  BY DEF Init, Serving, Past, Complete, AnswerCoversPast, Rest
<1> QED
  BY <1>1, <1>2, <1>3 DEF Inv

\* What PUT does to the bucket.
LEMMA StoreAdds ==
    ASSUME TypeOK, Bundles, Named, Complete, NEW x \in Exporters, Store(x)
    PROVE  /\ DOMAIN bucket' = DOMAIN bucket \cup {Key(bundle[x])}
           /\ bucket'[Key(bundle[x])] = bundle[x].links
           /\ \A k \in DOMAIN bucket : bucket'[k] = bucket[k]
           /\ bundle[x].links \in 1 .. MaxLinks
           /\ Named'
<1>1. /\ DOMAIN bucket' = DOMAIN bucket \cup {Key(bundle[x])}
      /\ \A k \in DOMAIN bucket' :
           bucket'[k] = IF k = Key(bundle[x]) THEN bundle[x].links ELSE bucket[k]
  BY DEF Store
<1>2. Key(bundle[x])[2] = bundle[x].links
  BY DEF Key
<1>3. bundle[x].links = snapshot[x] /\ snapshot[x] >= 1 /\ snapshot[x] \in 0 .. MaxLinks
  BY DEF Store, Complete, TypeOK
<1>4. bundle[x].links \in 1 .. MaxLinks
  BY <1>3, BoundsAssumption
<1> QED
  BY <1>1, <1>2, <1>4 DEF Named

-----------------------------------------------------------------------------
(* Each kind of step keeps the invariant.                                  *)

LEMMA GrowInv ==
    ASSUME Inv, Grow
    PROVE  Inv'
<1> USE DEF Inv, Grow, service
<1>1. links \in Nat /\ links' = links + 1 /\ links' \in 0 .. MaxLinks
  BY BoundsAssumption DEF TypeOK
<1>2. TypeOK' /\ Bundles' /\ Named' /\ Serving' /\ Complete' /\ AnswerCoversPast'
  BY <1>1 DEF TypeOK, Bundles, Named, Serving, Complete, AnswerCoversPast
<1>3. Past'
  <2>1. \A r \in Invocations : floor[r] \in Nat
    BY BoundsAssumption DEF TypeOK
  <2>2. \A x \in Exporters : snapshot[x] \in Nat
    BY BoundsAssumption DEF TypeOK
  <2> QED
    BY <1>1, <2>1, <2>2 DEF Past
<1> QED
  BY <1>2, <1>3

LEMMA InvokeInv ==
    ASSUME Inv, NEW r \in Invocations, Invoke(r)
    PROVE  Inv'
<1> USE DEF Inv, Invoke
<1>0. \A x \in Exporters : invocation[x] # NoInvocation =>
        invocation[x] \in Invocations /\ invocation[x] # r
  BY DEF TypeOK, Serving
<1>1. TypeOK'
  BY DEF TypeOK
<1>2. Bundles' /\ Named' /\ Complete'
  BY DEF Bundles, Named, Complete
<1>3. Serving'
  BY <1>0 DEF TypeOK, Serving
<1>4. Past'
  BY <1>0, BoundsAssumption DEF TypeOK, Past
<1>5. AnswerCoversPast'
  BY DEF TypeOK, AnswerCoversPast
<1> QED
  BY <1>1, <1>2, <1>3, <1>4, <1>5

LEMMA WorkInv ==
    ASSUME Inv, NEW x \in Exporters,
           \/ \E r \in Invocations : NextInvocation(x, r)
           \/ NextRefused(x)
           \/ Run(x)
    PROVE  Inv'
<1> USE DEF Inv, Goto, service
<1>1. ASSUME NEW r \in Invocations, NextInvocation(x, r) PROVE Inv'
  <2> USE <1>1 DEF NextInvocation
  <2>1. TypeOK'
    BY DEF TypeOK
  <2>2. Bundles' /\ Named' /\ Complete'
    BY DEF TypeOK, Bundles, Named, Complete
  <2>3. Serving'
    BY ExportersAssumption DEF TypeOK, Serving
  <2>4. Past'
    BY DEF TypeOK, Past
  <2>5. AnswerCoversPast'
    BY DEF TypeOK, AnswerCoversPast
  <2> QED
    BY <2>1, <2>2, <2>3, <2>4, <2>5
<1>2. CASE NextRefused(x)
  <2> USE <1>2 DEF NextRefused, Fault
  <2>1. faults' \in 0 .. MaxFaults
    BY BoundsAssumption DEF TypeOK
  <2>2. TypeOK'
    BY <2>1 DEF TypeOK
  <2>3. Bundles' /\ Named' /\ Complete' /\ AnswerCoversPast'
    BY DEF TypeOK, Bundles, Named, Complete, AnswerCoversPast
  <2>4. Serving' /\ Past'
    BY DEF TypeOK, Serving, Past
  <2> QED
    BY <2>2, <2>3, <2>4
<1>3. CASE Run(x)
  <2> USE <1>3 DEF Run
  <2>1. TypeOK'
    BY DEF TypeOK
  <2>2. Bundles' /\ Named' /\ Complete' /\ AnswerCoversPast'
    BY DEF TypeOK, Bundles, Named, Complete, AnswerCoversPast
  <2>3. Serving' /\ Past'
    BY DEF TypeOK, Serving, Past
  <2> QED
    BY <2>1, <2>2, <2>3
<1> QED
  BY <1>1, <1>2, <1>3

LEMMA QueryInv ==
    ASSUME Inv, NEW x \in Exporters, NEW second \in Seconds, Query(x, second)
    PROVE  Inv'
<1> USE DEF Inv, Query, Goto, service
<1>1. links \in 0 .. MaxLinks /\ 0 \in 0 .. links
  BY BoundsAssumption DEF TypeOK
<1>2. \A y \in Exporters :
        /\ snapshot'[y] = IF y = x THEN links ELSE snapshot[y]
        /\ bundle'[y] = IF y = x THEN [links |-> 0, exported_at |-> second] ELSE bundle[y]
        /\ pc'[y] = IF y = x THEN "rows" ELSE pc[y]
  BY DEF TypeOK, Bundles
<1>3. TypeOK'
  <2>1. \A y \in Exporters : bundle'[y].links \in 0 .. snapshot'[y]
    BY <1>1, <1>2 DEF TypeOK
  <2> QED
    BY <1>1, <2>1 DEF TypeOK
<1>4. Bundles' /\ Named'
  BY DEF Bundles, Named
<1>5. Serving' /\ AnswerCoversPast'
  BY DEF Serving, AnswerCoversPast
<1>6. Complete'
  BY <1>2 DEF Complete
<1>7. Past'
  <2>1. \A y \in Exporters : invocation[y] # NoInvocation => invocation[y] \in Invocations
    BY DEF TypeOK
  <2>2. links <= links
    BY <1>1
  <2> QED
    BY <1>2, <2>1, <2>2 DEF Past
<1> QED
  BY <1>3, <1>4, <1>5, <1>6, <1>7

LEMMA ScanRowInv ==
    ASSUME Inv, NEW x \in Exporters, ScanRow(x)
    PROVE  Inv'
<1> USE DEF Inv, ScanRow, service
<1>1. /\ bundle[x].links + 1 \in 0 .. snapshot[x] /\ bundle[x].links + 1 \in Nat
      /\ bundle[x] \in [links : Nat, exported_at : Seconds \cup {0}]
  BY BoundsAssumption DEF TypeOK, Bundles
<1>2. /\ bundle'[x] = [bundle[x] EXCEPT !.links = bundle[x].links + 1]
      /\ \A y \in Exporters \ {x} : bundle'[y] = bundle[y]
  BY DEF Bundles
<1>3. bundle' \in [Exporters -> [links : Nat, exported_at : Seconds \cup {0}]]
  BY <1>1, <1>2 DEF Bundles
<1>4. TypeOK'
  <2>1. \A y \in Exporters : bundle'[y].links \in 0 .. snapshot[y]
    BY <1>1, <1>2 DEF TypeOK
  <2> QED
    BY <2>1 DEF TypeOK
<1>5. Bundles' /\ Named' /\ Serving' /\ Past' /\ AnswerCoversPast'
  BY <1>3 DEF Bundles, Named, Serving, Past, AnswerCoversPast
<1>6. Complete'
  BY <1>2 DEF Complete
<1> QED
  BY <1>4, <1>5, <1>6

LEMMA CollectedInv ==
    ASSUME Inv, NEW x \in Exporters, Collected(x)
    PROVE  Inv'
<1> USE DEF Inv, Collected, Goto, service
<1>1. /\ pc'[x] = IF bundle[x].links = 0 THEN "error" ELSE "put"
      /\ \A y \in Exporters \ {x} : pc'[y] = pc[y]
      /\ snapshot[x] \in Nat
  BY BoundsAssumption DEF TypeOK
<1>2. TypeOK'
  BY <1>1 DEF TypeOK
<1>3. Bundles' /\ Named' /\ Serving' /\ AnswerCoversPast'
  BY DEF Bundles, Named, Serving, AnswerCoversPast
<1>4. Past'
  BY <1>1 DEF Past
<1>5. Complete'
  BY <1>1 DEF Complete
<1> QED
  BY <1>2, <1>3, <1>4, <1>5

LEMMA ExportErrorInv ==
    ASSUME Inv, NEW x \in Exporters, RowsError(x) \/ ExportFails(x)
    PROVE  Inv'
<1> USE DEF Inv
<1>1. /\ pc' = [pc EXCEPT ![x] = "error"] /\ pc[x] \in {"handle", "rows", "put"}
      /\ faults < MaxFaults /\ faults' = faults + 1
      /\ UNCHANGED <<links, bucket, invocation, snapshot, bundle, status, floor, reported>>
  BY DEF RowsError, ExportFails, Fault, Goto, service
<1>2. /\ pc'[x] = "error" /\ \A y \in Exporters \ {x} : pc'[y] = pc[y]
      /\ faults' \in 0 .. MaxFaults
  BY <1>1, BoundsAssumption DEF TypeOK
<1>3. TypeOK'
  BY <1>1, <1>2 DEF TypeOK
<1>4. Bundles' /\ Named' /\ Serving' /\ AnswerCoversPast'
  BY <1>1 DEF Bundles, Named, Serving, AnswerCoversPast
<1>5. Past' /\ Complete'
  BY <1>1, <1>2 DEF Past, Complete
<1> QED
  BY <1>3, <1>4, <1>5

LEMMA PutInv ==
    ASSUME Inv, NEW x \in Exporters, Put(x) \/ PutAnswerLost(x)
    PROVE  Inv'
<1> USE DEF Inv
<1>1. /\ Store(x) /\ pc[x] = "put"
      /\ pc' = [pc EXCEPT ![x] = "ok"] \/ pc' = [pc EXCEPT ![x] = "error"]
      /\ UNCHANGED <<links, invocation, snapshot, bundle, status, floor, reported>>
  BY DEF Put, PutAnswerLost, Store, Goto, service
<1>2. faults' \in 0 .. MaxFaults
  BY BoundsAssumption DEF Put, PutAnswerLost, Fault, TypeOK
<1>3. /\ pc'[x] \in {"ok", "error"} /\ \A y \in Exporters \ {x} : pc'[y] = pc[y]
      /\ pc' \in [Exporters -> {"next", "away", "handle", "rows", "put", "ok", "error"}]
  BY <1>1 DEF TypeOK
<1>4. /\ DOMAIN bucket' = DOMAIN bucket \cup {Key(bundle[x])}
      /\ bucket'[Key(bundle[x])] = bundle[x].links
      /\ \A k \in DOMAIN bucket : bucket'[k] = bucket[k]
      /\ bundle[x].links \in 1 .. MaxLinks
      /\ Named'
  BY <1>1, StoreAdds
<1>5. TypeOK'
  <2>1. \A k \in DOMAIN bucket' : bucket'[k] \in 1 .. MaxLinks
    BY <1>4 DEF TypeOK
  <2>2. \A y \in Shells : pc'[y] # "next"
    BY <1>3 DEF TypeOK, Exporters
  <2> QED
    BY <1>1, <1>2, <1>3, <2>1, <2>2 DEF TypeOK
<1>6. Bundles' /\ Serving'
  BY <1>1 DEF Bundles, Serving
<1>7. Past'
  BY <1>1, <1>3 DEF Past
<1>8. Complete'
  BY <1>1, <1>3, <1>4 DEF Complete, Key
<1>9. AnswerCoversPast'
  BY <1>1, <1>4 DEF AnswerCoversPast, Range
<1> QED
  BY <1>4, <1>5, <1>6, <1>7, <1>8, <1>9

\* Reset leaves nothing behind for the next invocation of x, and does not touch
\* the other exporters.
Cleared(x) ==
    /\ UNCHANGED <<links, bucket>>
    /\ pc' \in [Exporters -> {"next", "away", "handle", "rows", "put", "ok", "error"}]
    /\ invocation' \in [Exporters -> Invocations \cup {NoInvocation}]
    /\ \A y \in Shells : pc'[y] # "next" /\ invocation'[y] = NoInvocation
    /\ snapshot' \in [Exporters -> 0 .. MaxLinks]
    /\ \A y \in Exporters : bundle'[y].links \in 0 .. snapshot'[y]
    /\ Bundles'
    /\ pc'[x] \in {"next", "away"} /\ invocation'[x] = NoInvocation /\ snapshot'[x] = 0
    /\ \A y \in Exporters \ {x} :
         /\ pc'[y] = pc[y] /\ invocation'[y] = invocation[y]
         /\ snapshot'[y] = snapshot[y] /\ bundle'[y] = bundle[y]

LEMMA ResetClears ==
    ASSUME TypeOK, Bundles, NEW x \in Exporters, Reset(x)
    PROVE  Cleared(x)
<1> USE DEF Reset, Goto
<1>1. 0 \in 0 .. MaxLinks /\ 0 \in 0 .. 0
  BY BoundsAssumption
<1>2. /\ bundle'[x].links = 0
      /\ \A y \in Exporters \ {x} : bundle'[y] = bundle[y]
      /\ Bundles'
  BY DEF Bundles, NoBundle
<1>3. /\ pc' \in [Exporters -> {"next", "away", "handle", "rows", "put", "ok", "error"}]
      /\ pc'[x] = Rest(x)
      /\ snapshot' \in [Exporters -> 0 .. MaxLinks] /\ snapshot'[x] = 0
      /\ invocation' \in [Exporters -> Invocations \cup {NoInvocation}]
      /\ invocation'[x] = NoInvocation
      /\ \A y \in Exporters \ {x} :
           /\ pc'[y] = pc[y] /\ invocation'[y] = invocation[y] /\ snapshot'[y] = snapshot[y]
  BY <1>1 DEF TypeOK, Rest
<1>4. \A y \in Shells : pc'[y] # "next" /\ invocation'[y] = NoInvocation
  BY <1>3, ExportersAssumption DEF TypeOK, Exporters, Rest
<1>5. \A y \in Exporters : bundle'[y].links \in 0 .. snapshot'[y]
  BY <1>1, <1>2, <1>3 DEF TypeOK
<1> QED
  BY <1>2, <1>3, <1>4, <1>5 DEF Rest, Cleared

LEMMA PostInv ==
    ASSUME Inv, NEW x \in Exporters, Post(x)
    PROVE  Inv'
<1> USE DEF Inv
<1>1. Reset(x) /\ pc[x] \in {"ok", "error"} /\ UNCHANGED <<floor, faults>>
  BY DEF Post, Finished
<1>2. Cleared(x)
  BY <1>1, ResetClears
<1>3. pc[x] = "ok" => bundle[x].links \in 0 .. MaxLinks
  BY <1>1 DEF TypeOK, Complete
<1>4. /\ status' \in [Invocations -> {"none", "waiting", "given", "response", "error", "lost"}]
      /\ reported' \in [Invocations -> 0 .. MaxLinks]
      /\ \A r \in Invocations : r # invocation[x] =>
           status'[r] = status[r] /\ reported'[r] = reported[r]
      /\ \A r \in Invocations : r = invocation[x] /\ status'[r] = "response" =>
           pc[x] = "ok" /\ reported'[r] = bundle[x].links
  <2>1. CASE invocation[x] \in Invocations
    <3>1. 0 \in 0 .. MaxLinks
      BY BoundsAssumption
    <3>2. CASE pc[x] = "ok"
      BY <1>3, <2>1, <3>2 DEF TypeOK, Post
    <3>3. CASE pc[x] # "ok"
      BY <2>1, <3>1, <3>3 DEF TypeOK, Post
    <3> QED
      BY <3>2, <3>3
  <2>2. CASE invocation[x] \notin Invocations
    BY <2>2 DEF TypeOK, Post
  <2> QED
    BY <2>1, <2>2
<1>5. TypeOK'
  BY <1>1, <1>2, <1>4 DEF TypeOK, Cleared
<1>6. Named'
  BY <1>2 DEF Named, Cleared
<1>7. Serving'
  <2> SUFFICES ASSUME NEW y \in Exporters, invocation'[y] # NoInvocation
               PROVE  /\ status'[invocation'[y]] = "given"
                      /\ \A z \in Exporters \ {y} : invocation'[z] # invocation'[y]
    BY DEF Serving
  <2>1. y # x /\ invocation'[y] = invocation[y] /\ invocation[y] \in Invocations
    BY <1>2 DEF TypeOK, Cleared
  <2>2. invocation[y] # invocation[x] /\ status[invocation[y]] = "given"
    BY <2>1 DEF Serving
  <2> QED
    BY <1>2, <1>4, <2>1, <2>2 DEF Serving, Cleared
<1>8. Past'
  <2>1. 0 <= links
    BY BoundsAssumption DEF TypeOK
  <2> QED
    BY <1>1, <1>2, <2>1 DEF Past, Cleared
<1>9. Complete'
  BY <1>2 DEF Complete, Key, Cleared
<1>10. AnswerCoversPast'
  <2> SUFFICES ASSUME NEW r \in Invocations, status'[r] = "response"
               PROVE  reported'[r] >= floor[r] /\ reported'[r] \in Range(bucket)
    BY <1>1, <1>2 DEF AnswerCoversPast, Cleared
  <2>1. CASE r # invocation[x]
    BY <1>4, <2>1 DEF AnswerCoversPast
  <2>2. CASE r = invocation[x]
    <3>1. pc[x] = "ok" /\ reported'[r] = bundle[x].links
      BY <1>4, <2>2
    <3>2. bundle[x].links = snapshot[x] /\ Key(bundle[x]) \in DOMAIN bucket
      BY <3>1 DEF Complete
    <3>3. floor[r] <= snapshot[x] /\ floor[r] \in Nat /\ snapshot[x] \in Nat
      BY <2>2, <3>1, ExportersAssumption, BoundsAssumption DEF Past, TypeOK
    <3>4. bucket[Key(bundle[x])] = bundle[x].links
      BY <3>2 DEF Named, Key
    <3>5. bundle[x].links \in Range(bucket)
      BY <3>2, <3>4 DEF Range
    <3> QED
      BY <3>1, <3>2, <3>3, <3>5
  <2> QED
    BY <2>1, <2>2
<1> QED
  BY <1>2, <1>5, <1>6, <1>7, <1>8, <1>9, <1>10 DEF Cleared

LEMMA LostInv ==
    ASSUME Inv, NEW x \in Exporters, Lost(x)
    PROVE  Inv'
<1> USE DEF Inv
<1>1. /\ Reset(x) /\ UNCHANGED <<floor, reported>>
      /\ status' = [r \in Invocations |-> IF r = invocation[x] THEN "lost" ELSE status[r]]
  BY DEF Lost
<1>2. Cleared(x)
  BY <1>1, ResetClears
<1>3. faults' \in 0 .. MaxFaults
  BY BoundsAssumption DEF Lost, Fault, TypeOK
<1>4. TypeOK'
  <2>1. status' \in [Invocations -> {"none", "waiting", "given", "response", "error", "lost"}]
    BY <1>1 DEF TypeOK
  <2> QED
    BY <1>1, <1>2, <1>3, <2>1 DEF TypeOK, Cleared
<1>5. Named'
  BY <1>2 DEF Named, Cleared
<1>6. Serving'
  <2> SUFFICES ASSUME NEW y \in Exporters, invocation'[y] # NoInvocation
               PROVE  /\ status'[invocation'[y]] = "given"
                      /\ \A z \in Exporters \ {y} : invocation'[z] # invocation'[y]
    BY DEF Serving
  <2>1. y # x /\ invocation'[y] = invocation[y] /\ invocation[y] \in Invocations
    BY <1>2 DEF TypeOK, Cleared
  <2>2. invocation[y] # invocation[x] /\ status[invocation[y]] = "given"
    BY <2>1 DEF Serving
  <2> QED
    BY <1>1, <1>2, <2>1, <2>2 DEF Serving, Cleared
<1>7. Past'
  <2>1. 0 <= links
    BY BoundsAssumption DEF TypeOK
  <2> QED
    BY <1>1, <1>2, <2>1 DEF Past, Cleared
<1>8. Complete'
  BY <1>2 DEF Complete, Key, Cleared
<1>9. AnswerCoversPast'
  BY <1>1, <1>2 DEF AnswerCoversPast, Cleared
<1> QED
  BY <1>2, <1>4, <1>5, <1>6, <1>7, <1>8, <1>9 DEF Cleared

LEMMA StepInv == Inv /\ [Next]_vars => Inv'
<1> SUFFICES ASSUME Inv, [Next]_vars PROVE Inv'
  OBVIOUS
<1>1. ASSUME NEW x \in Exporters, Step(x) PROVE Inv'
  BY <1>1, WorkInv, QueryInv, ScanRowInv, CollectedInv, PutInv, PostInv DEF Step
<1>2. ASSUME NEW x \in Exporters,
             Run(x) \/ NextRefused(x) \/ RowsError(x) \/ ExportFails(x) \/ PutAnswerLost(x)
             \/ Lost(x)
      PROVE  Inv'
  BY <1>2, WorkInv, ExportErrorInv, PutInv, LostInv
<1>3. CASE UNCHANGED vars
  BY <1>3 DEF Inv, vars, TypeOK, Bundles, Named, Serving, Past, Complete, AnswerCoversPast, Key
<1> QED
  BY <1>1, <1>2, <1>3, GrowInv, InvokeInv DEF Next

-----------------------------------------------------------------------------
(* The theorems.                                                           *)

(* Whatever chains, exporters and the Lambda service do, Inv is never left.*)
THEOREM Invariance == Spec => []Inv
BY InitInv, StepInv, PTL DEF Spec

(* Every variable has its type; no object in S3 is without receipts.       *)
THEOREM TypeCorrect == Spec => []TypeOK
<1>1. Inv => TypeOK
  BY DEF Inv
<1> QED
  BY Invariance, <1>1, PTL

(* Export: what a response reports is in S3 and covers every link that was *)
(* committed before the invocation.                                        *)
THEOREM ResponsesCoverPast == Spec => []AnswerCoversPast
<1>1. Inv => AnswerCoversPast
  BY DEF Inv
<1> QED
  BY Invariance, <1>1, PTL

(* PutS3 names objects by second and number of links: whatever the clocks  *)
(* of the exporters show, none replaces another one by a different one.    *)
THEOREM ExportsStay == Spec => NothingOverwritten
<1>1. Inv /\ [Next]_vars
        => [\A k \in DOMAIN bucket : k \in DOMAIN bucket' /\ bucket'[k] = bucket[k]]_vars
  <2> SUFFICES ASSUME Inv, Next
               PROVE  \A k \in DOMAIN bucket :
                         k \in DOMAIN bucket' /\ bucket'[k] = bucket[k]
    OBVIOUS
  <2>1. CASE UNCHANGED bucket
    BY <2>1
  <2>2. ASSUME NEW x \in Exporters, Store(x)
        PROVE  \A k \in DOMAIN bucket : k \in DOMAIN bucket' /\ bucket'[k] = bucket[k]
    <3>1. /\ DOMAIN bucket' = DOMAIN bucket \cup {Key(bundle[x])}
          /\ bucket'[Key(bundle[x])] = bundle[x].links
      BY <2>2 DEF Store
    <3>2. \A k \in DOMAIN bucket : k # Key(bundle[x]) => bucket'[k] = bucket[k]
      BY <2>2 DEF Store
    <3>3. \A k \in DOMAIN bucket : k = Key(bundle[x]) => bucket[k] = bundle[x].links
      BY DEF Inv, Named, Key
    <3> QED
      BY <3>1, <3>2, <3>3
  <2>3. UNCHANGED bucket \/ \E x \in Exporters : Store(x)
    BY DEF Next, Step, Grow, Invoke, NextInvocation, Run, NextRefused, Query, ScanRow,
           Collected, RowsError, ExportFails, Put, PutAnswerLost, Post, Lost, Reset
  <2> QED
    BY <2>1, <2>2, <2>3
<1> QED
  BY Invariance, <1>1, PTL DEF Spec, NothingOverwritten

=============================================================================

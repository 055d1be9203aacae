---------------------------- MODULE AuditExport -----------------------------
(***************************************************************************)
(* The copy of an agent's receipts in S3: awsexport.Export                 *)
(* (internal/awsexport/export.go) as the Lambda loop (lambda/main.go)      *)
(* and `agent export` (cmd/agent/export.go) run it, while agents go on     *)
(* appending to the chain.                                                 *)
(*                                                                         *)
(* StoreTxn shows that a chain is numbered without gaps and only grows, so *)
(* here the chain is the number of its links, and what a bundle holds is   *)
(* the number of rows read.  S3 and the Lambda service are external.       *)
(***************************************************************************)
EXTENDS Naturals, Functions

CONSTANTS
    Lambdas,        \* execution environments, each running main's loop
    Shells,         \* processes running `agent export` with credentials
    Invocations,    \* request ids of the Lambda service
    NoInvocation,   \* the empty header of an answer that holds no invocation
    Seconds,        \* what clocks show, to the second; machines may differ
    MaxLinks,       \* bound: links of the chain
    MaxFaults       \* bound: errors, lost answers and environments that end

ASSUME ExportersAssumption == Lambdas \cap Shells = {} /\ NoInvocation \notin Invocations
ASSUME BoundsAssumption == MaxLinks \in Nat /\ MaxFaults \in Nat

VARIABLES
    links,          \* committed links of the chain
    bucket,         \* the objects in S3: key -> number of receipts in it
    pc,             \* pc[x]: what exporter x does next
    invocation,     \* invocation[x]: what x works for
    snapshot,       \* snapshot[x]: links of the chain when its query ran
    bundle,         \* bundle[x]: rows it has scanned so far, and its timestamp
    status,         \* status[r]: what has become of invocation r
    floor,          \* history: links there were when r was invoked
    reported,       \* reported[r]: links the response to r says are in S3
    faults

service == <<status, floor, reported>>
vars == <<links, bucket, pc, invocation, snapshot, bundle, status, floor, reported, faults>>

Exporters == Lambdas \cup Shells

\* A Lambda environment asks for work, a shell waits for its user.
Rest(x) == IF x \in Lambdas THEN "next" ELSE "away"

NoBundle == [links |-> 0, exported_at |-> 0]

Init ==
    /\ links = 0
    /\ bucket = <<>>
    /\ pc = [x \in Exporters |-> Rest(x)]
    /\ invocation = [x \in Exporters |-> NoInvocation]
    /\ snapshot = [x \in Exporters |-> 0]
    /\ bundle = [x \in Exporters |-> NoBundle]
    /\ status = [r \in Invocations |-> "none"]
    /\ floor = [r \in Invocations |-> 0]
    /\ reported = [r \in Invocations |-> 0]
    /\ faults = 0

Goto(x, l) == pc' = [pc EXCEPT ![x] = l]
Fault == faults < MaxFaults /\ faults' = faults + 1

\* An agent commits a link.
Grow ==
    /\ links < MaxLinks
    /\ links' = links + 1
    /\ UNCHANGED <<bucket, pc, invocation, snapshot, bundle, service, faults>>

-----------------------------------------------------------------------------
(* Work arrives.                                                           *)

Invoke(r) ==
    /\ status[r] = "none"
    /\ status' = [status EXCEPT ![r] = "waiting"]
    /\ floor' = [floor EXCEPT ![r] = links]
    /\ UNCHANGED <<links, bucket, pc, invocation, snapshot, bundle, reported, faults>>

\* GET .../invocation/next returns.  When it fails the loop asks again.
NextInvocation(x, r) ==
    /\ pc[x] = "next"
    /\ status[r] = "waiting"
    /\ status' = [status EXCEPT ![r] = "given"]
    /\ invocation' = [invocation EXCEPT ![x] = r]
    /\ Goto(x, "handle")
    /\ UNCHANGED <<links, bucket, snapshot, bundle, floor, reported, faults>>

\* It returns an error status, which is not looked at: handle runs anyway.
NextRefused(x) ==
    /\ Fault
    /\ pc[x] = "next"
    /\ invocation' = [invocation EXCEPT ![x] = NoInvocation]
    /\ Goto(x, "handle")
    /\ UNCHANGED <<links, bucket, snapshot, bundle, service>>

Run(x) ==
    /\ pc[x] = "away"
    /\ Goto(x, "handle")
    /\ UNCHANGED <<links, bucket, invocation, snapshot, bundle, service, faults>>

-----------------------------------------------------------------------------
(* Collect and PutS3.                                                      *)

\* The SELECT reads one snapshot; the bundle's time is taken after it ran.
Query(x, second) ==
    /\ pc[x] = "handle"
    /\ snapshot' = [snapshot EXCEPT ![x] = links]
    /\ bundle' = [bundle EXCEPT ![x] = [links |-> 0, exported_at |-> second]]
    /\ Goto(x, "rows")
    /\ UNCHANGED <<links, bucket, invocation, service, faults>>

ScanRow(x) ==
    /\ pc[x] = "rows"
    /\ bundle[x].links < snapshot[x]
    /\ bundle' = [bundle EXCEPT ![x].links = @ + 1]
    /\ UNCHANGED <<links, bucket, pc, invocation, snapshot, service, faults>>

\* Mutant: an empty chain is exported as well.
CollectedOrEmpty(x) ==
    /\ pc[x] = "rows"
    /\ bundle[x].links = snapshot[x]
    /\ Goto(x, "put")
    /\ UNCHANGED <<links, bucket, invocation, snapshot, bundle, service, faults>>

\* All rows are read.  Export refuses an empty chain.
Collected(x) ==
    /\ pc[x] = "rows"
    /\ bundle[x].links = snapshot[x]
    /\ Goto(x, IF bundle[x].links = 0 THEN "error" ELSE "put")
    /\ UNCHANGED <<links, bucket, invocation, snapshot, bundle, service, faults>>

\* Mutant: rows.Err() is not looked at when rows.Next returns false.
RowsErrorIgnored(x) ==
    /\ Fault
    /\ pc[x] = "rows"
    /\ Goto(x, "put")
    /\ UNCHANGED <<links, bucket, invocation, snapshot, bundle, service>>

\* The connection is lost between two rows, or the 60 seconds are over.
RowsError(x) ==
    /\ Fault
    /\ pc[x] = "rows"
    /\ Goto(x, "error")
    /\ UNCHANGED <<links, bucket, invocation, snapshot, bundle, service>>

\* Mutant: the key has no number of links.
KeyOfSecond(b) == <<b.exported_at>>

\* audit/<agent>/<second>-<links>-links.json
Key(b) == <<b.exported_at, b.links>>

\* An object is its number of links.  Its body also holds the time of the
\* export with fractions of a second, so one that replaces another under the
\* same key tells another time, of the same links.
Store(x) ==
    /\ pc[x] = "put"
    /\ bucket' = [k \in DOMAIN bucket \cup {Key(bundle[x])} |->
                     IF k = Key(bundle[x]) THEN bundle[x].links ELSE bucket[k]]

Put(x) ==
    /\ Store(x)
    /\ Goto(x, "ok")
    /\ UNCHANGED <<links, invocation, snapshot, bundle, service, faults>>

\* No environment, no credentials, no answer, or a status other than 200 ...
ExportFails(x) ==
    /\ Fault
    /\ pc[x] \in {"handle", "put"}
    /\ Goto(x, "error")
    /\ UNCHANGED <<links, bucket, invocation, snapshot, bundle, service>>

\* ... or the answer is lost and the object is there.
PutAnswerLost(x) ==
    /\ Fault
    /\ Store(x)
    /\ Goto(x, "error")
    /\ UNCHANGED <<links, invocation, snapshot, bundle, service>>

-----------------------------------------------------------------------------
(* The answer.                                                             *)

Finished(x) == pc[x] \in {"ok", "error"}

\* The exporter forgets what it worked on.
Reset(x) ==
    /\ Goto(x, Rest(x))
    /\ invocation' = [invocation EXCEPT ![x] = NoInvocation]
    /\ snapshot' = [snapshot EXCEPT ![x] = 0]
    /\ bundle' = [bundle EXCEPT ![x] = NoBundle]
    /\ UNCHANGED <<links, bucket>>

\* Mutant: after an error the loop continues without an answer.
PostNoError(x) ==
    /\ Finished(x)
    /\ Reset(x)
    /\ IF invocation[x] \in Invocations /\ pc[x] = "ok"
       THEN /\ status' = [status EXCEPT ![invocation[x]] = "response"]
            /\ reported' = [reported EXCEPT ![invocation[x]] = bundle[x].links]
       ELSE UNCHANGED <<status, reported>>
    /\ UNCHANGED <<floor, faults>>

\* POST .../response or .../error; a shell prints the result and ends.
Post(x) ==
    /\ Finished(x)
    /\ Reset(x)
    /\ IF invocation[x] \in Invocations
       THEN /\ status' = [status EXCEPT ![invocation[x]] =
                             IF pc[x] = "ok" THEN "response" ELSE "error"]
            /\ reported' = [reported EXCEPT ![invocation[x]] =
                             IF pc[x] = "ok" THEN bundle[x].links ELSE 0]
       ELSE UNCHANGED <<status, reported>>
    /\ UNCHANGED <<floor, faults>>

\* The post is lost and the loop continues, or the environment ends anywhere.
Lost(x) ==
    /\ Fault
    /\ pc[x] # Rest(x)
    /\ Reset(x)
    /\ status' = [r \in Invocations |-> IF r = invocation[x] THEN "lost" ELSE status[r]]
    /\ UNCHANGED <<floor, reported>>

Step(x) ==
    \/ \E r \in Invocations : NextInvocation(x, r)
    \/ \E second \in Seconds : Query(x, second)
    \/ ScanRow(x)
    \/ Collected(x)
    \/ Put(x)
    \/ Post(x)

Next ==
    \/ Grow
    \/ \E r \in Invocations : Invoke(r)
    \/ \E x \in Exporters :
         \/ Step(x)
         \/ Run(x)
         \/ NextRefused(x)
         \/ RowsError(x)
         \/ ExportFails(x)
         \/ PutAnswerLost(x)
         \/ Lost(x)

Spec == Init /\ [][Next]_vars

\* A Lambda environment runs its loop: its calls return or time out.
Fairness == \A x \in Lambdas : WF_vars(Step(x))

FairSpec == Spec /\ Fairness

-----------------------------------------------------------------------------
(* Properties                                                              *)

(* Every variable has its type; an object is never without receipts.       *)
TypeOK ==
    /\ links \in 0 .. MaxLinks
    /\ \A k \in DOMAIN bucket : bucket[k] \in 1 .. MaxLinks
    /\ pc \in [Exporters -> {"next", "away", "handle", "rows", "put", "ok", "error"}]
    /\ \A x \in Shells : pc[x] # "next" /\ invocation[x] = NoInvocation
    /\ invocation \in [Exporters -> Invocations \cup {NoInvocation}]
    /\ snapshot \in [Exporters -> 0 .. MaxLinks]
    /\ \A x \in Exporters : bundle[x].links \in 0 .. snapshot[x]
    /\ status \in [Invocations ->
                     {"none", "waiting", "given", "response", "error", "lost"}]
    /\ floor \in [Invocations -> 0 .. MaxLinks]
    /\ reported \in [Invocations -> 0 .. MaxLinks]
    /\ faults \in 0 .. MaxFaults

(* "If the whole CockroachDB cluster were lost, the tamper-evident audit   *)
(* trail survives" (package comment of awsexport): after a response the    *)
(* bucket holds every link committed before the invocation, and what the   *)
(* response reports is there, whatever grew, failed or ran meanwhile.       *)
AnswerCoversPast ==
    \A r \in Invocations : status[r] = "response" =>
        /\ reported[r] >= floor[r]
        /\ reported[r] \in Range(bucket)

(* No export ever replaces another one by one with different links, though *)
(* clocks of several machines name the objects: an audit trail once in S3  *)
(* stays.                                                                  *)
NothingOverwritten ==
    [][\A k \in DOMAIN bucket : k \in DOMAIN bucket' /\ bucket'[k] = bucket[k]]_vars

(* An invocation is answered, with an error when the export failed, unless *)
(* its environment or its answer is lost: the loop never hangs or skips.   *)
EveryInvocationAnswered ==
    \A r \in Invocations :
        status[r] = "waiting" ~> status[r] \in {"response", "error", "lost"}

=============================================================================

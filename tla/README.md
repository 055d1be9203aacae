# Formal model of the amnesia-proof agent

TLA+ specifications, TLC configurations and TLAPS proofs for the agent in this
repository: a Go program whose memory lives in CockroachDB, with a hash-chained
audit log of every write. The models follow the code in `internal/`, `cmd/agent`,
`lambda` and `sql/schema.sql`. `PROJECT.json` maps each definition to its lines.

## 1. The system

| Component | Code | State it keeps | Operations | Models |
|---|---|---|---|---|
| Receipt chain | `internal/receipt/chain.go` | table `receipts`: rows keyed by (agent, seq) | `Append` (in the caller's transaction), `Verify` | `Receipts`, `StoreTxn`, `ChainVerify` |
| Memory store, writes | `internal/memory/store.go` | table `memories` | `Remember` | `StoreTxn`, `AuditLog` |
| Memory store, reads | same | none | `Recall`, `RecallLesson`, `Consolidate` (reads, then `Remember`) | `AgentLoop` |
| Agent loop | `internal/agent/agent.go` | table `tasks` | `Handle`, `recordStep` | `AgentLoop`, `StoreTxn` |
| Remedy text | same | none | `playbook`, `preferredRemedy`, `extractRemedy` | `Runbook` |
| Schema and TTL job | `sql/schema.sql` | the tables; rows past `expires_at` are deleted | the TTL job | all of the above |
| Dashboard hub | `cmd/agent/serve.go` | clients and their channels, `outageAnnounced` | `broadcast`, `handleSSE`, `pump` | `Dashboard`, `Server` |
| Connection pool, process | `cmd/agent/main.go`, `serve.go` | eight connections, their session settings; main's context | what each endpoint and the pump take from the pool; shutdown, restart by systemd | `Server` |
| HTTP API | `cmd/agent/serve.go` | none | `/api/incident`, `/events`, the endpoints that read | `AgentLoop`, `Dashboard`, `Server` |
| Command line | `main.go`, `skills.go`, `export.go` | `<slug>/SKILL.md` files | `demo`, `skills`, `export`; the other commands only read | `Commands`, `AuditExport` |
| Audit export | `internal/awsexport`, `lambda`, `cmd/agent/export.go` | objects in S3, invocations of the Lambda service | `Collect`, `PutS3`, `Export`, the runtime loop | `AuditExport` |
| Belief replay, query plan, embedder, MCP client, scripts | see `PROJECT.json` | none | pure functions, reads, formatting | not modelled, section 8 |

How they interact. A request to `/api/incident` runs `Handle` in its own
goroutine. `Handle` reads a lesson, commits the task step (`recordStep`), commits
the episode (`Remember`), reads again and perhaps commits a lesson (`Consolidate`
→ `Remember`). Every commit also appends a link to the agent's chain, whose head
all workers of that agent contend for. The result is broadcast through the hub,
under the mutex that the pump and the SSE handlers also take. All of them draw on
one pool of connections. `agent demo` calls `Remember` and `Handle` one after the
other; `agent skills` turns the lessons it finds into files. Other processes (the
shell, another server, the Lambda export) share the database and nothing else.

What is hard: transactions of several workers on one chain head; a failure or a
restart between the three transactions of one request; decisions on rows read
before the transaction that acts on them; the TTL job deleting rows meanwhile;
top-k reads that do not see everything; texts of different incidents that are near
each other; a mutex held while sending to slow readers; a channel closed while
someone sends; a cluster view that fails just when it matters; counters read by
separate statements; a setting made on one connection and needed on it; a pool that
can be used up; files that are truncated before they are written; exports that race
with appends and whose answers are lost. `hazards` in `PROJECT.json` lists these at
their lines, with the properties that cover them.

What makes each part correct:

- chain: never forks, never loses or rewrites a link; `Verify` reports exactly the damage there is;
- store: a memory and its link are both there or both absent; lessons outlive episodes; the answer to the caller is true;
- agent loop: no episode without its step, no lesson without experience, a lesson in reach is used, whole and for the incident it is about, and is written once;
- hub: never blocks the agent, never sends on a closed channel, keeps order, announces an outage;
- pool: no connection is lost or shared, nobody waits for ever; the pump does not invent a loss;
- commands: whatever an earlier run has left, `demo` ends in memory and `skills` with complete files;
- export: what is acknowledged is in S3 and complete, and nothing in S3 is overwritten.

## 2. The modules

```
AuditLog      what the memory layer promises: one step writes row and log entry
  ^ implemented by                      ^ composed by
StoreTxn      statement by statement    AgentLoop    Handle over AuditLog's steps
  | EXTENDS                               | EXTENDS      ^ EXTENDS
Receipts      rows, links, report       Runbook      Commands   demo and skills
  ^ EXTENDS                             (texts)
ChainVerify   the loop of Verify        Dashboard    the SSE hub
                                        Server       the pool and the process
StoreTxnInv   inductive invariant       AuditExport  the copy in S3
*Proofs       theorems, one module for each module they are about
MC*           instances for TLC
```

**Receipts.** A table is a function from sequence numbers to rows. `NextSeq` and
`HeadHash` are the two columns of Append's SELECT, `NewRow` the INSERT, `Gaps`,
`BadHashes`, `BrokenLinks` what `Verify` reports, stated without its loop. HMAC is a
free constructor (`Link`): two digests are equal iff key and fields are.

**AuditLog.** Three actions on `memories`, `tasks` and an event log for each agent:
`RecordStep`, `Remember`, `Forget`. No transactions, hashes or numbers.

**StoreTxn.** `pc[w]` is the statement worker `w` has completed: `begun` (BeginTx),
`written` (INSERT memories, or the upsert of tasks), `head` (the SELECT of Append),
`linked` (its INSERT), then `Commit`. The database is modelled from how the code uses
it: `BeginTx(ctx, nil)` is SERIALIZABLE, so a transaction commits only if what it
read is current (`ReadsAreCurrent`); otherwise `Conflict` (40001, or the violated
primary key) ends it with an error at any statement. `Fail` is any other error, a
cancelled context or a crash, in which the deferred rollback leaves nothing.
`CommitAckLost` is a commit whose answer is lost. The TTL job may take an expired
row at any time; `forgotten` remembers those rows. The events `act:<name>` and
`remember:<kind>` are abstracted to `act` and the kind.

**ChainVerify.** Append writes a chain with one of several keys; rows are then lost,
swapped, inserted a second time (`Copy`) or altered in the event, the memory, `prev_hash` or
`hash` (`Edits`); `Query`, `VisitRow` and `Return` are Verify's loop with its local
variables, `ReadError` its exits without a verdict. The deciding assumption is that nobody
without a key makes a hash: an altered hash is that of another row, or one no key gives
(`Junk`).

**Runbook.** The playbook, the lesson `preferredRemedy` writes and `extractRemedy`, which
reads it back. A text is a sequence of phrases with `Comma` for the separator `", "`,
because where the separator occurs is all these functions look at; a remedy may
contain it.

**AgentLoop.** One request of `/api/incident` per worker. `RecallLesson`, `RecordStep`,
`RememberEpisode`, `Consolidate`, `RememberLesson` are the steps of `Handle`; the three
that write are AuditLog's actions, which is sound because StoreTxn implements them.
`about[id]` holds the text, region and task of a memory; `Decision` is what the agent
does, from the lesson or the playbook. Texts are four reports, with the L2 distances
`HashEmbedder` gives them (times 100). `Nearest(text, k)` is the exact top-k with every
choice among ties; the real index is approximate, so what depends on a row being
returned (`LessonStaysInUse`, `SerialLessonsUnique`) is shown for an index that misses
nothing. `Fail`, `CommitAckLost` and `Restart` are the failures: the code retries and
resumes nothing.

**Commands.** Extends AgentLoop with a single worker, `Shell`. `Seed` and `Encounter` are
the two loops of `demo`, `HandleStep` the steps of `Handle` above; `OpenFile` and
`WriteFile` are the two halves of `os.WriteFile`. A command may break off anywhere
(`RequestBreaks`, `SeedAckLost`, `CommandBreaks`) and is then run again on what it left.
`CommandsInit` starts from empty tables or from those `agent serve` leaves after
learning another kind of incident (`LearnedEarlier`). `Slug` is the directory of a lesson's
skill file, its first words joined by `-`: `Word` says what is left of a kind of incident, so
that kinds which differ in punctuation only share a directory.

**Dashboard.** Each goroutine is a small state machine around `mu`: `Lock`, `Send` for
one client at a time, `Unlock`; `Register`, `Deliver`, `Disconnect`, `Unregister`,
`CloseChannel`; `Tick`, `Announce`, `NothingToAnnounce`, `Announced`, `SnapshotSent`. A
critical section that does nothing but one map operation is one step. `BlindTick` is
a tick in which `clusterNodes` fails or returns nothing, once, often or for good. The number
of dead nodes is a boolean, `regionDown`: the code asks only whether it is above zero.
Broadcasts are numbered.

**Server.** What a goroutine wants of the database is a sequence `todo` of uses, each of
one connection: a single read, a transaction, or the two statements of `clusterNodes`,
whose `SET` marks the session (`unsafe`) and stays on it when the connection goes
back. `at` is where the goroutine is, `held` what it holds. `Take` waits for a free
connection, `Finish` and `Fail` end a use; a handler stops at an error, the pump goes on
with what it has. `rows`, `total` and `readable` are the table's size and the pump's two
counts of it, made by different statements. `ContextEnds` is the end of main's five
minutes, after which the pump returns and the process restarts. Whether a request ends
in a lesson is left open, as AgentLoop decides that.

**AuditExport.** An exporter is a Lambda environment or a shell. `Query` takes the
snapshot, `ScanRow` reads on, `Collected` refuses an empty chain, `Put` stores under
`Key`, `Post` answers. A bundle is the number of rows read: by `ChainsAppendOnly` a
number of links determines which links they are. The body of an object also holds the time of
the export with fractions of a second, so an object that replaces another under the same key
has the same links but is not the same to the byte.

## 3. Runs

| Run | Expect | What it shows | Bounds |
|---|---|---|---|
| `storetxn` | pass | chains verify, memories attested, steps counted, lessons kept, answers true, append-only, implements AuditLog, `IndInv`; every call returns; contention never stops everyone | 2 agents, 2 workers, 1 task, 3 ids, 2 links, 1 fault |
| `chainverify_report` | pass | the loop finds what the report says; accepted chains are genuine; of an undamaged chain exactly the links under another key are reported | 3 links, 2 keys, 2 damages, 2 kinds of call |
| `chainverify_lost` | violation | a chain that lost its tail verifies | 3 links, 1 damage |
| `agentloop_handle` | pass | what `Handle` keeps between its transactions | 2 workers, 2 tasks, 5 memories, 1 fault |
| `agentloop_together` | violation | a step whose episode never comes | 1 worker, 1 fault |
| `agentloop_once` | violation | two requests write the same lesson | 2 workers, 9 memories, no fault |
| `agentloop_class` | violation | a lesson for one kind of incident decides another | 1 worker, 6 memories, no fault |
| `dashboard` | pass | no send on a closed channel, order, one announcement in sight; broadcasts end, lasting outages are announced | 1 dashboard, 1 handler, channel of 2 |
| `dashboard_once` | violation | a blind tick repeats the announcement | 1 dashboard, channel of 1 |
| `export` | pass | acknowledged exports are complete and stay; invocations are answered | 1 environment, 1 shell, 2 invocations, 2 links, 2 faults |
| `server` | pass | no connection is lost, everyone who waits is served, the cluster view is allowed, no invented loss | 2 handlers and the pump, 2 connections, 1 row |
| `commands` | pass | `demo` ends in memory, skill files are complete, decisions are whole | 20 memories, 6 candidates, 1 fault |

Why the bounds are enough.

- *StoreTxn.* Two workers make every conflict on a head or a task row; the second
  agent shares the task and the ids but not the chain. Three ids leave one for each
  possible INSERT and one that failed. `MaxLinks` counts links and open transactions, so TLC
  sees contention only near an empty chain. The run checks safety and liveness
  together, so it uses no symmetry. Everything but the two liveness properties is proved
  without these bounds, `ChainIntact` for contention on chains of any length.
- *ChainVerify.* Three links with two damages give a gap at the start, in the middle,
  and of two rows, adjacent and distant swaps, a copy that fills a gap or follows the last
  row, both ends of a link altered to fit, and a change of key at each place. All four
  properties are proved for any number of links, keys, calls and damages.
- *AgentLoop.* In `agentloop_handle` the thresholds are scaled down, three episodes and
  seven rows to two and four, 50 candidates to four, so that lessons, full windows and
  crowded-out rows occur within five memories. Distances and distance thresholds are
  the real ones, and the three violation runs use all constants of the code. Safety is
  proved without these bounds, for any texts and thresholds (`ActsOnOwnRunbook` for texts
  that `ClassesApart` accepts).
- *Commands.* The texts, regions and constants of the code, except `Candidates`: RecallLesson
  fetches six rows instead of 50, so that within twenty ids the rows near an incident both
  suffice and are too many (`Crowded`), in which case `DemoEndsInMemory` promises nothing.
  Twenty ids are two complete demos on an empty store, or one after a lesson of another
  kind; the second demo finds what the first one, complete or broken off, has left. All rows
  are within the 200 that `skills` recalls. The TTL job runs between commands. No two kinds
  share a directory here. The theorems are for any number of ids, runs and candidates, for any
  script, and for kinds that share directories; those about decisions need texts as section 5
  says, and `DemoChosen` in `MCCommands`, which TLC evaluates, says that the demo's texts are
  such.
- *Dashboard.* A channel of two can be empty, partly filled and full; broadcasts
  beyond the third all carry the number 3, for which `InOrder` makes no claim. One
  dashboard and one handler beside the pump: dashboards meet only in the mutex and in the
  set a broadcast still has to visit. Blind ticks are not bounded. An outage is announced if
  views of the cluster keep coming (the first half of `OutageIsAnnounced`); `blind` is the
  history `AnnouncedOnceInSight` needs and begins anew with each outage. The safety properties
  are proved for any number.
- *Server.* Two handlers and the pump on two connections: the pool is used up, and any use
  that needed a second connection could be waiting for itself. With `MaxRows` rows
  `Remember` only fails; one row more or less is enough to tell a loss. Safety is proved
  for any number of handlers, connections and rows.
- *AuditExport.* All clocks show the same second, the worst case for names. Safety is
  proved without the bounds.

Deadlock is checked except in `StoreTxn` and `AgentLoop`, whose instances may
stop: once the links or ids of the bound are used up no call begins, and the program
itself simply waits for requests. `EveryCallAnswered` excludes a stop inside a call.
Symmetry is used in `agentloop_handle` only, which has no liveness property.

Fairness. `StoreTxn`: a worker in a transaction keeps issuing statements; nothing is
assumed of new calls, faults or the TTL job. `Dashboard`: goroutines are scheduled, and
who waits for the mutex gets it in the end (strong fairness), as a `sync.Mutex` in
starvation mode hands over to its oldest waiter; dashboards need not read, connect or
leave. `Server`: a statement ends, well or badly (weak fairness), and the pool hands a
connection to whoever waits (strong fairness: `database/sql` keeps its waiters in a
queue); nothing is assumed of clients or of the clock. `AuditExport`: an environment
runs its loop, whose calls return or fail. For the Lambda runtime API this is an assumption
about a local endpoint, as the code's client has no timeout. `AgentLoop` and `Commands` have no
liveness property: a request, a command is straight-line code.

Every property of a passing run has a mutant in `PROJECT.json`, a plausible bug
defined next to the definition it replaces and marked "Mutant" there, which TLC
finds.

## 4. Where documentation and code disagree

Each of these is a run that expects a violation, and a finding in `PROJECT.json`:

1. `VerifiedLostNothing`: "did not lose ... a single write"; a chain that lost its last
   links verifies. What holds is `VerifiedIsGenuine`.
2. `CommitTogether`: "state, embedding and audit row commit atomically"; the step and the
   episode are two transactions. The second may fail, or never be tried because the first
   reported an error although it was committed, which is the trace TLC shows. What holds is
   `EpisodeFollowsStep`, and without faults `AgreeWithoutFaults`.
3. `LessonWrittenOnce`: "the lesson is written once"; two overlapping requests write it
   twice. What holds is `SerialLessonsUnique`.
4. `ActsOnOwnRunbook` in `agentloop_class`: "tight enough that an unrelated incident does
   not" match; the two buttons of the dashboard send texts 0.69 apart (the thresholds are
   1.15 and 1.20), and a disk incident is answered with the remedy for replication lag. It
   is proved for texts whose classes are further apart (`ClassesApart`), such as those of
   `agentloop_handle` and `commands`.
5. `AnnouncedOnce`: "announce the transition exactly once"; a tick that sees no node resets
   the flag. What holds is `AnnouncedOnceInSight`.

Others were met while modelling and have no run, because the model takes the code's
side from the start:

- `chain.go:44-46` speaks of a retry after 40001. No caller retries; the error reaches the
  client (`Conflict` in `StoreTxn`).
- `README.md:69-74` shows the demo consolidating at encounter 3. One of its seeds is
  within 1.15 of the encounters, so the third similar episode is that of encounter 2.
- `serve.go:176`: the session setting is "scoped to this read". It stays on the session
  when `conn.Close` returns it to the pool (`unsafe` in `Server`); no property says otherwise.
- `serve.go:325`: "readable is measured, not asserted". The error of that read is dropped
  and the count is then 0; and a row that expires between the two counts shows as a loss (the
  exceptions in `NoPhantomLoss`). A first read that ends early, whose `rows.Err` nobody asks
  for, makes the total too low and hides a loss.
- `agent.go:145`: a kind of incident with `", "` in it, which a request may send, is not
  read back by `extractRemedy`. `KindsAssumption` excludes it.

## 5. Proofs

All theorems are for any sets and any bounds. `Invariance`, where a module has it, is the
inductive invariant; the others follow from it or from the lemmas named.

| Module | Theorem | States |
|---|---|---|
| `StoreTxnProofs` | `TypeCorrect`, `ChainsVerify`, `MemoriesAttested`, `LessonsNeverForgotten`, `AnswersTruthful` | `TypeOK`, `ChainIntact`, `Attested`, `LessonsKept`, `AnswerIsTruthful` |
| | `StepsAllCounted` | `StepsCounted` |
| | `ChainsAppendOnly`, `ImplementsAuditLog` | `AppendOnly`; `Spec => Audit!Spec` with `Log` as refinement mapping |
| `ChainVerifyProofs` | `TypeCorrect`, `LoopFindsAll`, `VerifyMeansGenuine`, `NoFalseAlarm` | `TypeOK`, `LoopMeetsReport`, `VerifiedIsGenuine`, `IntactVerifies` |
| `AgentLoopProofs` | `TypeCorrect`, `EpisodesFollowSteps`, `LessonsHaveExperience`, `LessonsStayInUse`, `LessonsUniqueInSeries`, `AgreementWithoutFaults` | `TypeOK`, `EpisodeFollowsStep`, `LessonHasExperience`, `LessonStaysInUse`, `SerialLessonsUnique`, `AgreeWithoutFaults` |
| | `DecisionsFromOwnRunbook` | `ClassesApart(SignalTexts)` implies `ActsOnOwnRunbook` |
| | `ImplementsAuditLog`, `LessonsReadBack` | `Spec => AuditLog!Spec`; `ExtractRemedy` undoes `LessonText` |
| `CommandsProofs` | `CommandsTypesCorrect`, `SkillFilesAreComplete` | `CommandsTypeOK`, `SkillFilesComplete`, for any `Word` |
| | `DemosEndInMemory` | `OneClass` and `DemoSuffices` imply `DemoEndsInMemory` |
| | `DemoActsOnOwnRunbook` | `ClassesApart(LessonTexts)` implies `ActsOnOwnRunbook` of the demo |
| | `CommandsKeepMemory` | the demo keeps `EpisodeFollowsStep`, `LessonHasExperience`, `LessonStaysInUse`, `SerialLessonsUnique` |
| | `CommandsStepAuditLog` | every step of the commands is a step of AuditLog or leaves the tables alone |
| `DashboardProofs` | `TypeCorrect`, `ClosedNeverSentTo`, `BroadcastsInOrder`, `AnnouncedOnceIfSeen` | `TypeOK`, `NoSendOnClosed`, `InOrder`, `AnnouncedOnceInSight` |
| `AuditExportProofs` | `TypeCorrect`, `ResponsesCoverPast`, `ExportsStay` | `TypeOK`, `AnswerCoversPast`, `NothingOverwritten` |
| `ServerProofs` | `PoolKept`, `ViewAllowed`, `LossIsReal` | `TypeOK`, `ClusterViewAllowed`, `NoPhantomLoss` |

Together the two refinements say that a request of `agent serve`, statement by statement
and with everything that can fail, does to the tables what `AuditLog` allows:
`AgentLoop` uses AuditLog's actions, and `StoreTxn` implements them.

**Assumptions.** They are named in the modules, and TLC evaluates them in the runs:
bounds are naturals; NULL is not an id; a channel has a capacity; names of goroutines and
processes differ; `NoKey` is not a key; each kind of incident has a `Word`; workers and ids
are finite sets; kinds of incident contain no separator
(`KindsAssumption`); thresholds and distances are naturals; the gateway's region is a region; the
shell runs one command at a time (`ShellAssumption`) on a script of known texts
(`DemoAssumption`), and three reports of the earlier incident are near enough to each other
and enough for its lesson (`EarlierAssumption`). Hashes are free constructors by the
definition of `Link`. Three theorems have a hypothesis about the distances of the texts,
which the code does not guarantee for all of them (finding 4): `ClassesApart` or `OneClass`.
`DemosEndInMemory` also needs `DemoSuffices`, that the script has more incidents than
`MinEpisodes`. TLC evaluates the hypotheses on the texts of the code (`SignalsChosen` in
`MCAgentLoop`, `DemoChosen` in `MCCommands`): they hold for the demo and for the two classes
of `agentloop_handle`, and `ClassesApart` is false for the two buttons. No theorem bounds the
number of rows; but what depends on a row being fetched is stated for as many as are: the
rows ever written in `LessonsStayInUse` (`Candidates`) and `LessonsUniqueInSeries` (the window
of `Consolidate`), the rows near the last incident in `DemosEndInMemory` (`Crowded`).

**StoreTxn.** `ChainIntact` is not inductive: the report says nothing of transactions in
progress. `IndInv` (`StoreTxnInv`) adds the shape of a chain from which the report follows
(`ChainShape`); that an uncommitted receipt is made from the head its transaction read, so
that at commit, when that head is current, it extends the chain (`Buffered`); that an id
drawn by an open or failed call is in no row and in no other call (`Reserved`), which keeps
`Attested` one-to-one and makes an error truthful; and what the horizon of a row says
(`Horizons`, `OnlyExpiredForgotten`). There is a lemma for each action; the commit is split
into what it adds to the receipts, what to the other tables, and why they still match.
`StepsMatch` compares two sets, the steps counted by the rows of `tasks` and the links of
`recordStep`: a commit adds one element to both, because the row it read is the current one.

**ChainVerify.** `Visited` is the invariant of Verify's loop: rows visited come before rows
unvisited, and the variables of the loop hold the part of the declarative report about the
visited ones. At the end nothing is unvisited, which is `LoopMeetsReport`. That there is a
next row and a last one uses that the table is finite (`Bounded`). `Signed` says that every
hash in the table was made by Append or is one no key gives, whatever happened to the row
around it; with it a row whose hash fits is the row Append wrote. `Intact` is the chain as long
as nothing is damaged: its bad hashes are the links in `foreign`.

**AgentLoop.** `Attested`: each memory has its own link, and lessons stay. `Room`: there is an
id for whatever the requests in progress may write, which is why `Request` has its bound.
`Counted` adds to the episodes of a task the requests that have recorded a step and not yet
the episode; without faults this sum is the number of steps. `Experienced` carries what
`Consolidate` has counted to the transaction that uses it: similar memories are distinct
links (an injection), links are never lost, so what was enough still is, even if the TTL job
has taken the episodes. `Found` carries a lesson in reach from the arrival of the request to
the answer: lessons are not forgotten, and a read that fetches every row returns it.
`Serial` says, without overlap, that who is about to write a lesson writes the first of its
kind. The last two count rows: memories are distinct ids, so there are at most as many as
have been drawn (`Fits`). `LessonInReach` says that a decision from memory came from a lesson
within `LessonApplies` of the report, and `TextsFrom` that lessons are about reports that were
made; with `ClassesApart` and `LessonsReadBack` the decision is the whole remedy for its kind.

**Commands.** `CommandsInv` is the invariant of `AgentLoop`, which a seed, a command that
breaks off and the tables of an earlier server (`LearnedInv`) keep as well, and two parts of
its own. `Budget`: the demo began with ids for its whole script, so a request never lacks one.
`SkillsInv`: the remedy of a lesson that is no longer to be written is in a file, or a lesson
with the same directory is open and about to replace it. That the one that replaces it has the
same remedy is `SlugTells`: the directory need not tell the kind of incident, but it goes on
with the beginning of the remedy, and no two remedies begin alike.
`DemoInv` follows the demo: so many incidents done are so many episodes similar to each other
(`ReportsAreSimilar`), or a lesson is already known; when enough are done, a lesson of the class
is in the tables, and stays there. `Consolidate` counts only what a top-k read returns, and rows of earlier
runs may crowd out those of this one: by `FetchedRows` it then counts at least as many similar
rows, whoever wrote them. The same lemma says of RecallLesson that it either fetches all rows
near the incident, the lesson among them, or nothing but such rows; where they are not more
than it fetches, that is all of them, so it finds the lesson (`UncrowdedRecalls`), and as rows
only come while the demo runs, what is not crowded at its end was not crowded before
(`CrowdStays`). That a finite set has a nearest row is by the well-founded order of
its subsets, since induction is out of the prover's reach.

**Dashboard.** `Locked`: who broadcasts holds the mutex, and clients still to be visited are
registered. `Registered`: a channel is closed only once it is no longer registered. Together
they exclude the send on a closed channel. `Numbered` bounds what is in the queues by what
has been sent; `InSight` relates the flag to what the pump saw last.

**AuditExport.** `Past`: a snapshot holds what was there when its invocation was made.
`Complete`: what is stored is a whole snapshot. `Named`: a name tells how much an object
holds, so an object is only replaced by its equal.

**Server.** `Places` and the type: a connection is held by one goroutine, which has a statement
to make on it. `TickOrder`: from the second count on, the rows are below the total only if a
row has expired or been taken away meanwhile.

Model-checked only: the liveness properties (ENABLED and fairness are out of the prover's
reach). All other properties of the passing runs are theorems. The refinement of AuditLog by
`AgentLoop`, `CommandsStepAuditLog` and `LessonsReadBack` are proved only.

## 6. Abstractions to keep in mind

- CockroachDB is external: serializable transactions, committed data survives. Regions,
  replication and failover appear as errors and lost acknowledgements only.
- Optimistic validation stands for whatever mix of locks and refreshes the database
  uses; a conflict may be reported at any statement. In `AgentLoop` a conflict that ends a
  request in an error is a `Fail` like any other, so "without faults" is also without those.
- The vector index returns the exact nearest rows.
- Time is left out: the TTL job may run late or early relative to other rows, ticks
  come when they come, timeouts are faults.
- Agents run with the same `RECEIPT_KEY`, except in `ChainVerify`.
- A skill file is the lesson in it. Where lessons for two kinds share a directory, the file
  names the kind of the last one written; what is shown is that the remedy is kept. A slug is
  cut at 60 characters, taken to lie in the remedy's first words.
- Distances are those of four reports (and, in `Commands`, of the texts of the demo)
  under the embedder of the repository; another embedder would have others.

## 7. Plan

The order is by importance; items 1 to 8 exist, each with its proofs.

1. `Receipts`, `AuditLog`, `StoreTxn`: the transactions and the chain.
2. `StoreTxnInv`, `StoreTxnProofs`: its safety and the refinement, proved.
3. `ChainVerify`: the loop of `Verify` against its report; proved.
4. `AgentLoop`: `Handle` over `AuditLog`; proved, with the refinement.
5. `Dashboard`: hub and pump; safety proved.
6. `AuditExport`: Lambda loop and S3; safety proved.
7. `Runbook`, `Commands`: texts and remedies, `demo` and `skills`; proved.
8. `Server`: the pool, the session setting, the pump's reads, the end of the process;
   safety proved.
9. Left: kinds of incident with a separator in them; the row-level policies, which compare `agent_id` with
   the database user.

## 8. Not modelled, and why

- The embedder: floating point and hashing. `AgentLoop` takes measured distances.
- `BeliefAt`, `ExplainRecall`, `UsesVectorIndex`, and the commands `recall`, `verify`,
  `belief`, `explain`: reads that print. (`Verify` itself is `ChainVerify`.) Rounding in
  `BeliefAt` is listed as a hazard; what CockroachDB makes of the interval is not in the
  repository.
- The managed MCP client: read-only HTTP requests without state but an id counter.
- SigV4: a pure function of the request; S3 accepts or refuses.
- Labels, wording and layout: the dashboard page, rationales, the text of skill files and of
  the verification report; `memories_in_dead_regions`, from which nothing is decided.
- The columns region and created_at of receipts, which nothing signs.
- Regional placement, survival goals and row-level security: the database's.
- Scripts and deployment files: linear shell commands and configuration.

## 9. How to run

In this directory:

    tlc -config MCStoreTxn_all.cfg MCStoreTxn
    tlc -config MCAgentLoop_handle.cfg MCAgentLoop
    tlapm AgentLoopProofs.tla

`PROJECT.json` lists the configuration of every run and the mutants.

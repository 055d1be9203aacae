------------------------------- MODULE Server -------------------------------
(***************************************************************************)
(* The process of `agent serve` (cmd/agent/serve.go and main.go): the      *)
(* handlers of its HTTP requests and hub.pump share a pool of connections, *)
(* db.SetMaxOpenConns, until the context of main ends and the process      *)
(* with it; systemd starts it again (deploy/amnesia-agent.service).        *)
(*                                                                         *)
(* What a goroutine does with the database is a sequence of uses, each of  *)
(* one connection of the pool:                                             *)
(*   "query"        one read of a handler: Recall, Verify, Ping            *)
(*   "step"         the transaction of recordStep                          *)
(*   "remember"     the transaction of Remember                            *)
(*   "consolidate"  the read of Consolidate; one more "remember" may follow *)
(*   "view"         clusterNodes: a SET, and then its SELECT               *)
(*   "regions"      the pump's count of memories by region                 *)
(*   "count"        the pump's count of all memories                       *)
(* A stream of /events makes no use of the pool, see Dashboard.            *)
(***************************************************************************)
EXTENDS Naturals, Sequences, FiniteSets

CONSTANTS
    Handlers,     \* goroutines that serve requests
    Pump,         \* the goroutine of hub.pump
    Conns,        \* the connections of the pool (8)
    MaxRows       \* bound: rows of table memories

ASSUME NamesAssumption == Pump \notin Handlers
ASSUME RowsAssumption == MaxRows \in Nat

VARIABLES
    ctxDone,      \* main's context has ended, which ends the server
    todo,         \* todo[g]: the uses g has still to make, the current one first
    at,           \* at[g]: "rest", "wait" for a connection, "hold" one,
                  \* "set" when it runs the SELECT of a view; for the pump
                  \* also "read" after its reads, and "returned"
    held,         \* held[g]: the connections g holds
    unsafe,       \* connections whose session has allow_unsafe_internals
    rows,         \* rows of table memories
    total,        \* memories_total and memories_readable of the pump's
    readable,     \* snapshot; 0 outside a tick
    disturbed     \* history: in this tick of the pump a row has expired, or its
                  \* count has failed

pool == <<todo, at, held, unsafe>>
snap == <<total, readable, disturbed>>
vars == <<ctxDone, todo, at, held, unsafe, rows, total,
          readable, disturbed>>

Goroutines == Handlers \cup {Pump}

Uses == {"query", "step", "remember", "consolidate", "view", "regions", "count"}

\* What the endpoints that use the database do: /healthz, /api/memories and
\* /api/verify; /api/cluster; /api/incident.
Routes == {<<"query">>, <<"view">>, <<"query", "step", "remember", "consolidate">>}

\* Mutant: the rows are counted by region after they are counted together.
CountedFirst == <<"view", "count", "regions">>

PumpReads == <<"view", "regions", "count">>

-----------------------------------------------------------------------------
Init ==
    /\ ctxDone = FALSE
    /\ todo = [g \in Goroutines |-> <<>>]
    /\ at = [g \in Goroutines |-> "rest"]
    /\ held = [g \in Goroutines |-> {}]
    /\ unsafe = {}
    /\ rows \in 0 .. MaxRows
    /\ total = 0 /\ readable = 0 /\ disturbed = FALSE

Begin(g, uses) ==
    /\ at[g] = "rest"
    /\ todo' = [todo EXCEPT ![g] = uses]
    /\ at' = [at EXCEPT ![g] = "wait"]
    /\ UNCHANGED <<ctxDone, held, unsafe, rows>>

\* A request comes in.
Arrive(h, route) ==
    /\ Begin(h, route)
    /\ UNCHANGED snap

\* A tick of the pump.
Tick ==
    /\ Begin(Pump, PumpReads)
    /\ UNCHANGED snap

\* All reads are made: the snapshot is broadcast.
Broadcast ==
    /\ at[Pump] = "read"
    /\ at' = [at EXCEPT ![Pump] = "rest"]
    /\ total' = 0 /\ readable' = 0 /\ disturbed' = FALSE
    /\ UNCHANGED <<ctxDone, todo, held, unsafe, rows>>

-----------------------------------------------------------------------------
(* One use of the pool.                                                    *)

Use(g) == Head(todo[g])

\* Mutant: Append reads and writes the chain through the pool instead of the
\* transaction it is part of.
TwoForTransactions(use) == IF use \in {"step", "remember"} THEN 2 ELSE 1

\* Append works on the connection of the transaction it is given.
ConnsFor(use) == 1

Free == Conns \ UNION {held[g] : g \in Goroutines}

Take(g) ==
    /\ at[g] = "wait"
    /\ \E c \in Free :
         /\ held' = [held EXCEPT ![g] = @ \cup {c}]
         /\ at' = [at EXCEPT ![g] =
                     IF Cardinality(held'[g]) = ConnsFor(Use(g)) THEN "hold" ELSE "wait"]
    /\ UNCHANGED <<ctxDone, todo, unsafe, rows, snap>>

\* Mutant: the setting is made with db.Exec, on any connection that is free.
SetOnAnyConnection(g) ==
    /\ at[g] = "hold" /\ Use(g) = "view"
    /\ \E c \in Free \cup held[g] : unsafe' = unsafe \cup {c}
    /\ at' = [at EXCEPT ![g] = "set"]
    /\ UNCHANGED <<ctxDone, todo, held, rows, snap>>

\* clusterNodes: the SET succeeds.
Set(g) ==
    /\ at[g] = "hold" /\ Use(g) = "view"
    /\ unsafe' = unsafe \cup held[g]
    /\ at' = [at EXCEPT ![g] = "set"]
    /\ UNCHANGED <<ctxDone, todo, held, rows, snap>>

\* The connection goes back to the pool, which keeps its session or closes it.
Release(g) ==
    /\ held' = [held EXCEPT ![g] = {}]
    /\ \E closed \in SUBSET held[g] : unsafe' = unsafe \ closed

Continue(g, uses) ==
    /\ todo' = [todo EXCEPT ![g] = uses]
    /\ at' = [at EXCEPT ![g] = IF uses # <<>> THEN "wait"
                               ELSE IF g = Pump THEN "read" ELSE "rest"]

\* Whether a lesson is to be written, see AgentLoop, is any choice here.
After(g) ==
    IF Use(g) = "consolidate" THEN {<<>>, <<"remember">>} ELSE {Tail(todo[g])}

\* A use succeeds.  The SET of a view may be refused, which is no error.
\* Bound: with MaxRows rows, Remember only fails.
Finish(g) ==
    /\ at[g] \in {"hold", "set"}
    /\ Use(g) = "remember" => rows < MaxRows
    /\ Release(g)
    /\ \E uses \in After(g) : Continue(g, uses)
    /\ rows' = IF Use(g) = "remember" THEN rows + 1 ELSE rows
    /\ total' = IF Use(g) = "regions" THEN rows ELSE total
    /\ readable' = IF Use(g) = "count" THEN rows ELSE readable
    /\ UNCHANGED <<ctxDone, disturbed>>

\* The end of its context also ends a goroutine's wait for a connection.
MayFail(g) ==
    \/ at[g] \in {"hold", "set"}
    \/ at[g] = "wait" /\ (g = Pump => ctxDone)

\* Mutant: the error path does not give the connection back.
FailKeepsConnection(g) ==
    /\ MayFail(g)
    /\ Continue(g, IF g = Pump THEN Tail(todo[g]) ELSE <<>>)
    /\ disturbed' = (disturbed \/ Use(g) = "count")
    /\ UNCHANGED <<ctxDone, held, unsafe, rows, total, readable>>

\* A use fails: the database, the connection, or the context of the request
\* or of the pump.  A handler answers with an error.  The pump goes on, with a
\* count of 0, or of some of the rows when the result ended early, as rows.Err
\* is not read.
Fail(g) ==
    /\ MayFail(g)
    /\ Release(g)
    /\ Continue(g, IF g = Pump THEN Tail(todo[g]) ELSE <<>>)
    /\ IF Use(g) = "regions" THEN total' \in 0 .. rows ELSE UNCHANGED total
    /\ disturbed' = (disturbed \/ Use(g) = "count")
    /\ UNCHANGED <<ctxDone, rows, readable>>

-----------------------------------------------------------------------------
(* The rest of the world.                                                  *)

\* The TTL job deletes a row.
Expire ==
    /\ rows > 0
    /\ rows' = rows - 1
    /\ disturbed' = (at[Pump] \notin {"rest", "returned"})
    /\ UNCHANGED <<ctxDone, pool, total, readable>>

\* The five minutes of main's context are over.
ContextEnds ==
    /\ ~ctxDone
    /\ ctxDone' = TRUE
    /\ UNCHANGED <<pool, rows, snap>>

PumpReturns ==
    /\ ctxDone
    /\ at[Pump] = "rest"
    /\ at' = [at EXCEPT ![Pump] = "returned"]
    /\ UNCHANGED <<ctxDone, todo, held, unsafe, rows, snap>>

\* Shutdown makes ListenAndServe return at once, and with it serve and main:
\* whatever is still going on is cut off.  The service starts again.
Restart ==
    /\ ctxDone
    /\ ctxDone' = FALSE
    /\ todo' = [g \in Goroutines |-> <<>>]
    /\ at' = [g \in Goroutines |-> "rest"]
    /\ held' = [g \in Goroutines |-> {}]
    /\ unsafe' = {}
    /\ total' = 0 /\ readable' = 0 /\ disturbed' = FALSE
    /\ UNCHANGED rows

Statement(g) == Set(g) \/ Finish(g) \/ Fail(g)

Next ==
    \/ \E h \in Handlers, route \in Routes : Arrive(h, route)
    \/ Tick
    \/ \E g \in Goroutines : Take(g) \/ Statement(g)
    \/ Broadcast
    \/ PumpReturns
    \/ Expire
    \/ ContextEnds
    \/ Restart

Spec == Init /\ [][Next]_vars

\* A statement ends, well or badly; the pool serves all who wait for it, in
\* no particular order.  Nothing is assumed of clients.
Fairness ==
    /\ \A g \in Goroutines :
         /\ SF_vars(Take(g))
         /\ WF_vars(at[g] # "wait" /\ Statement(g))
    /\ WF_vars(Broadcast)

FairSpec == Spec /\ Fairness

-----------------------------------------------------------------------------
(* Properties                                                              *)

(* Every variable has its type.  No path, error or not, loses a connection *)
(* or shares one: those held are held by one goroutine, for its statement. *)
TypeOK ==
    /\ ctxDone \in BOOLEAN
    /\ todo \in [Goroutines -> Seq(Uses)]
    /\ at \in [Goroutines -> {"rest", "wait", "hold", "set", "read", "returned"}]
    /\ held \in [Goroutines -> SUBSET Conns] /\ unsafe \subseteq Conns
    /\ \A g \in Goroutines :
         /\ at[g] \in {"hold", "set"} => held[g] # {}
         /\ held[g] # {} => todo[g] # <<>>
         /\ \A f \in Goroutines \ {g} : held[f] \cap held[g] = {}
    /\ {rows, total, readable} \subseteq 0 .. MaxRows
    /\ disturbed \in BOOLEAN

(* Whoever waits for a connection gets one, or gives up: no set of         *)
(* requests can use up the pool while each of them needs one more.         *)
EveryWaiterServed ==
    \A g \in Goroutines : at[g] = "wait" ~> at[g] # "wait"

(* The SELECT on crdb_internal runs on a session that allows it, although  *)
(* the setting was made by an earlier statement: "per-session, scoped to   *)
(* this read" (comment of clusterNodes).                                   *)
ClusterViewAllowed ==
    \A g \in Goroutines : at[g] = "set" => held[g] \subseteq unsafe

(* The dashboard never shows fewer memories readable than there are, as if *)
(* some were lost with a region, because of what requests do between the   *)
(* pump's reads, or because the first of them fails: only a row that has   *)
(* expired meanwhile, or the failure of the last read, can do that.        *)
NoPhantomLoss ==
    at[Pump] = "read" => readable >= total \/ disturbed

=============================================================================

----------------------------- MODULE Dashboard -----------------------------
(***************************************************************************)
(* The SSE hub of `agent serve` (cmd/agent/serve.go): the goroutines that  *)
(* broadcast, which are the handlers of /api/incident and hub.pump, and    *)
(* one goroutine of handleSSE for each connected dashboard.                *)
(*                                                                         *)
(* A mutex guards the set of clients.  A client is a buffered channel that *)
(* its goroutine drains into the connection, as fast as the dashboard      *)
(* reads, which may be never.                                              *)
(***************************************************************************)
EXTENDS Naturals, Sequences

CONSTANTS
    Clients,        \* dashboards, each with one channel at a time
    Handlers,       \* goroutines that serve /api/incident
    Pump,           \* the goroutine of hub.pump
    Nobody,         \* the owner of a mutex nobody holds
    Capacity,       \* of a client's channel (16)
    MaxNumbered     \* bound: later broadcasts all carry this number

ASSUME CapacityAssumption == Capacity \in Nat \ {0}
ASSUME NamesAssumption == Pump \notin Handlers /\ Nobody \notin Handlers \cup {Pump}
ASSUME BoundsAssumption == MaxNumbered \in Nat \ {0}

VARIABLES
    mu,             \* the goroutine that holds h.mu
    clients,        \* h.clients
    queue,          \* queue[c]: what is in c's channel
    closed,         \* clients whose channel is closed
    sse,            \* sse[c]: where c's handleSSE is
    last,           \* history: number of the last broadcast c has read
    sending,        \* sending[b]: "idle", "lock" before h.mu.Lock, "send" after
    todo,           \* clients the range loop under the mutex has still to visit
    sent,           \* number of the broadcast under way, or the last one
    pump,           \* where the pump is in its loop
    seen,           \* dead > 0 in the snapshot the pump is working on
    outageAnnounced,
    regionDown,     \* some node of the cluster is dead, however many
    ctxDone,        \* the context of `serve` has ended
    announced,      \* history: outages broadcast since a region last died
    blind           \* history: a tick has shown no node since a region last died

Broadcasters == Handlers \cup {Pump}

hub == <<mu, clients, queue, closed, todo, sent, sending>>
sseVars == <<sse, last>>
pumpVars == <<pump, seen, outageAnnounced, announced, blind>>
world == <<regionDown, ctxDone>>
vars == <<mu, clients, queue, closed, sse, last, sending, todo, sent, pump, seen,
          outageAnnounced, regionDown, ctxDone, announced, blind>>

Init ==
    /\ mu = Nobody
    /\ clients = {}
    /\ queue = [c \in Clients |-> <<>>]
    /\ closed = {}
    /\ sse = [c \in Clients |-> "away"]
    /\ last = [c \in Clients |-> 0]
    /\ sending = [b \in Broadcasters |-> "idle"]
    /\ todo = {}
    /\ sent = 0
    /\ pump = "select"
    /\ seen = FALSE
    /\ outageAnnounced = FALSE
    /\ regionDown = FALSE
    /\ ctxDone = FALSE
    /\ announced = 0
    /\ blind = FALSE

-----------------------------------------------------------------------------
(* hub.broadcast                                                           *)

Lock(b) ==
    /\ sending[b] = "lock"
    /\ mu = Nobody
    /\ mu' = b
    /\ todo' = clients
    /\ sent' = IF sent < MaxNumbered THEN sent + 1 ELSE sent
    /\ sending' = [sending EXCEPT ![b] = "send"]
    /\ UNCHANGED <<clients, queue, closed, sseVars, pumpVars, world>>

\* Mutant: a plain send, which waits for room in the channel.
BlockingSend(b, c) ==
    /\ sending[b] = "send"
    /\ c \in todo
    /\ Len(queue[c]) < Capacity
    /\ queue' = [queue EXCEPT ![c] = Append(@, sent)]
    /\ todo' = todo \ {c}
    /\ UNCHANGED <<mu, clients, closed, sent, sending, sseVars, pumpVars, world>>

\* Mutant: a queue without a limit, as a slice would be.
UnboundedSend(b, c) ==
    /\ sending[b] = "send"
    /\ c \in todo
    /\ queue' = [queue EXCEPT ![c] = Append(@, sent)]
    /\ todo' = todo \ {c}
    /\ UNCHANGED <<mu, clients, closed, sent, sending, sseVars, pumpVars, world>>

\* select with default: the message is dropped when the channel is full.
Send(b, c) ==
    /\ sending[b] = "send"
    /\ c \in todo
    /\ queue' = IF Len(queue[c]) < Capacity
                THEN [queue EXCEPT ![c] = Append(@, sent)]
                ELSE queue
    /\ todo' = todo \ {c}
    /\ UNCHANGED <<mu, clients, closed, sent, sending, sseVars, pumpVars, world>>

Unlock(b) ==
    /\ sending[b] = "send"
    /\ todo = {}
    /\ mu' = Nobody
    /\ sending' = [sending EXCEPT ![b] = "idle"]
    /\ UNCHANGED <<clients, queue, closed, todo, sent, sseVars, pumpVars, world>>

\* A request has been handled, and its payload is broadcast.
Incident(h) ==
    /\ sending[h] = "idle"
    /\ sending' = [sending EXCEPT ![h] = "lock"]
    /\ UNCHANGED <<mu, clients, queue, closed, todo, sent, sseVars, pumpVars, world>>

-----------------------------------------------------------------------------
(* hub.handleSSE                                                           *)

\* A dashboard connects: a new channel is made, and registered under h.mu.
Register(c) ==
    /\ sse[c] = "away"
    /\ mu = Nobody
    /\ clients' = clients \cup {c}
    /\ queue' = [queue EXCEPT ![c] = <<>>]
    /\ closed' = closed \ {c}
    /\ sse' = [sse EXCEPT ![c] = "loop"]
    /\ last' = [last EXCEPT ![c] = 0]
    /\ UNCHANGED <<mu, todo, sent, sending, pumpVars, world>>

\* Mutant: the writer takes the newest message first.
DeliverNewest(c) ==
    /\ sse[c] = "loop"
    /\ queue[c] # <<>>
    /\ last' = [last EXCEPT ![c] = queue[c][Len(queue[c])]]
    /\ queue' = [queue EXCEPT ![c] = SubSeq(@, 1, Len(@) - 1)]
    /\ UNCHANGED <<mu, clients, closed, todo, sent, sending, sse, pumpVars, world>>

\* case b := <-ch: the message is written to the connection.
Deliver(c) ==
    /\ sse[c] = "loop"
    /\ queue[c] # <<>>
    /\ last' = [last EXCEPT ![c] = Head(queue[c])]
    /\ queue' = [queue EXCEPT ![c] = Tail(@)]
    /\ UNCHANGED <<mu, clients, closed, todo, sent, sending, sse, pumpVars, world>>

\* case <-r.Context().Done(), whatever the channel still holds.
Disconnect(c) ==
    /\ sse[c] = "loop"
    /\ sse' = [sse EXCEPT ![c] = "leaving"]
    /\ UNCHANGED <<hub, last, pumpVars, world>>

\* Mutant: the deferred function closes the channel before it unregisters it.
CloseFirst(c) ==
    /\ sse[c] = "leaving"
    /\ closed' = closed \cup {c}
    /\ sse' = [sse EXCEPT ![c] = "removed"]
    /\ UNCHANGED <<mu, clients, queue, todo, sent, sending, last, pumpVars, world>>

\* The deferred function: delete under h.mu ...
Unregister(c) ==
    /\ sse[c] = "leaving"
    /\ mu = Nobody
    /\ clients' = clients \ {c}
    /\ sse' = [sse EXCEPT ![c] = "removed"]
    /\ UNCHANGED <<mu, queue, closed, todo, sent, sending, last, pumpVars, world>>

\* ... and close(ch) without it.
CloseChannel(c) ==
    /\ sse[c] = "removed"
    /\ closed' = closed \cup {c}
    /\ sse' = [sse EXCEPT ![c] = "away"]
    /\ UNCHANGED <<mu, clients, queue, todo, sent, sending, last, pumpVars, world>>

-----------------------------------------------------------------------------
(* hub.pump                                                                *)

\* A tick: clusterNodes lists the nodes as they are.
Tick ==
    /\ pump = "select"
    /\ pump' = "viewed"
    /\ seen' = regionDown
    /\ UNCHANGED <<hub, sseVars, outageAnnounced, announced, blind, world>>

\* A tick in which it fails, or returns no node and no error: dead is 0.  This
\* may go on for ever, when the view stays refused.
BlindTick ==
    /\ pump = "select"
    /\ blind' = TRUE
    /\ pump' = "viewed"
    /\ seen' = FALSE
    /\ UNCHANGED <<hub, sseVars, outageAnnounced, announced, world>>

\* dead > 0 and not announced: the outage is broadcast first.
Announce ==
    /\ pump = "viewed"
    /\ seen /\ ~outageAnnounced
    /\ outageAnnounced' = TRUE
    /\ announced' = IF announced < 2 THEN announced + 1 ELSE announced
    /\ sending' = [sending EXCEPT ![Pump] = "lock"]
    /\ pump' = "announcing"
    /\ UNCHANGED <<mu, clients, queue, closed, todo, sent, sseVars, seen, blind, world>>

\* Mutant: the flag is not reset when no node is dead.
Unflagged(flag) == flag

\* Mutant: the flag is reset at every tick that announces nothing.
AlwaysReset(flag) == FALSE

\* else if dead == 0
Flagged(flag) == flag /\ seen

NothingToAnnounce ==
    /\ pump = "viewed"
    /\ ~seen \/ outageAnnounced
    /\ outageAnnounced' = Flagged(outageAnnounced)
    /\ sending' = [sending EXCEPT ![Pump] = "lock"]
    /\ pump' = "snapshot"
    /\ UNCHANGED <<mu, clients, queue, closed, todo, sent, sseVars, seen, announced,
                   blind, world>>

Announced ==
    /\ pump = "announcing"
    /\ sending[Pump] = "idle"
    /\ sending' = [sending EXCEPT ![Pump] = "lock"]
    /\ pump' = "snapshot"
    /\ UNCHANGED <<mu, clients, queue, closed, todo, sent, sseVars, seen,
                   outageAnnounced, announced, blind, world>>

SnapshotSent ==
    /\ pump = "snapshot"
    /\ sending[Pump] = "idle"
    /\ pump' = "select"
    /\ UNCHANGED <<hub, sseVars, seen, outageAnnounced, announced, blind, world>>

\* case <-ctx.Done()
PumpReturns ==
    /\ pump = "select"
    /\ ctxDone
    /\ pump' = "returned"
    /\ UNCHANGED <<hub, sseVars, seen, outageAnnounced, announced, blind, world>>

-----------------------------------------------------------------------------
(* The cluster and the process.                                            *)

RegionDies ==
    /\ ~regionDown
    /\ regionDown' = TRUE
    /\ announced' = 0
    /\ blind' = FALSE
    /\ UNCHANGED <<hub, sseVars, pump, seen, outageAnnounced, ctxDone>>

RegionRecovers ==
    /\ regionDown
    /\ regionDown' = FALSE
    /\ UNCHANGED <<hub, sseVars, pumpVars, ctxDone>>

ContextEnds ==
    /\ ~ctxDone
    /\ ctxDone' = TRUE
    /\ UNCHANGED <<hub, sseVars, pumpVars, regionDown>>

Broadcast(b) == Lock(b) \/ (\E c \in Clients : Send(b, c)) \/ Unlock(b)

PumpStep ==
    \/ Tick
    \/ Announce
    \/ NothingToAnnounce
    \/ Announced
    \/ SnapshotSent
    \/ PumpReturns

Next ==
    \/ \E b \in Broadcasters : Broadcast(b)
    \/ \E h \in Handlers : Incident(h)
    \/ \E c \in Clients :
         \/ Register(c)
         \/ Deliver(c)
         \/ Disconnect(c)
         \/ Unregister(c)
         \/ CloseChannel(c)
    \/ PumpStep
    \/ BlindTick
    \/ RegionDies
    \/ RegionRecovers
    \/ ContextEnds

Spec == Init /\ [][Next]_vars

\* Goroutines run.  A goroutine that waits for h.mu gets it in the end: a
\* sync.Mutex hands over to its oldest waiter after a millisecond.  Nothing
\* is assumed of dashboards: they need not read, connect or disconnect.
Fairness ==
    /\ \A b \in Broadcasters :
         /\ SF_vars(Lock(b))
         /\ WF_vars((\E c \in Clients : Send(b, c)) \/ Unlock(b))
    /\ \A c \in Clients : SF_vars(Unregister(c)) /\ WF_vars(CloseChannel(c))
    /\ WF_vars(PumpStep)

FairSpec == Spec /\ Fairness

-----------------------------------------------------------------------------
(* Properties                                                              *)

(* Every variable has its type; no channel holds more than its capacity.   *)
TypeOK ==
    /\ mu \in Broadcasters \cup {Nobody}
    /\ clients \subseteq Clients /\ closed \subseteq Clients /\ todo \subseteq Clients
    /\ queue \in [Clients -> Seq(1 .. MaxNumbered)]
    /\ \A c \in Clients : Len(queue[c]) <= Capacity
    /\ sse \in [Clients -> {"away", "loop", "leaving", "removed"}]
    /\ last \in [Clients -> 0 .. MaxNumbered]
    /\ sending \in [Broadcasters -> {"idle", "lock", "send"}]
    /\ sent \in 0 .. MaxNumbered
    /\ pump \in {"select", "viewed", "announcing", "snapshot", "returned"}
    /\ seen \in BOOLEAN /\ outageAnnounced \in BOOLEAN
    /\ regionDown \in BOOLEAN /\ ctxDone \in BOOLEAN
    /\ announced \in 0 .. 2
    /\ blind \in BOOLEAN

(* A send on a closed channel would panic and end the server: no client a  *)
(* broadcast has still to visit, or may yet find, has a closed channel.    *)
NoSendOnClosed == (clients \cup todo) \cap closed = {}

(* A dashboard sees broadcasts in the order they were made, each at most   *)
(* once, though some may be missing.                                       *)
InOrder ==
    \A c \in Clients :
        /\ \A i \in 1 .. Len(queue[c]) :
              last[c] < queue[c][i] \/ queue[c][i] = MaxNumbered
        /\ \A i, j \in 1 .. Len(queue[c]) :
              i < j => queue[c][i] < queue[c][j] \/ queue[c][j] = MaxNumbered

(* A broadcast always ends: dashboards that do not read their events never *)
(* hold up the agent ("drop rather than block the agent loop").            *)
BroadcastEnds ==
    \A b \in Broadcasters : sending[b] = "lock" ~> sending[b] = "idle"

(* An outage that lasts is announced, as long as the view of the cluster   *)
(* keeps coming back; and once a recovery has lasted the flag is down, so  *)
(* that the next outage can be announced, whatever ticks showed no node.   *)
(* The flag is what hub.pump knows: of a region that recovers and one that *)
(* dies within one tick it knows nothing, and has one outage for both.     *)
OutageIsAnnounced ==
    /\ []<><<Tick>>_vars => (regionDown ~> (outageAnnounced \/ ~regionDown \/ ctxDone))
    /\ ~regionDown ~> (~outageAnnounced \/ regionDown \/ ctxDone)

(* An outage is announced at most once if each tick in it sees the nodes,  *)
(* whatever earlier outages, and ticks between them, were like.            *)
AnnouncedOnceInSight == ~blind => announced <= 1

(* "Announce the transition exactly once" (comment in hub.pump).           *)
AnnouncedOnce == announced <= 1

=============================================================================

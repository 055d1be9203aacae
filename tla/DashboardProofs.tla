-------------------------- MODULE DashboardProofs --------------------------
(***************************************************************************)
(* Theorems about Dashboard: for any number of dashboards and handlers and *)
(* any capacity, no send meets a closed channel, dashboards see broadcasts *)
(* in order, and an outage in sight is announced once.                     *)
(***************************************************************************)
EXTENDS Dashboard, TLAPS, SequenceTheorems

-----------------------------------------------------------------------------
(* The inductive invariant.                                                *)

\* Who broadcasts holds h.mu, and only then are clients left to visit; the pump
\* broadcasts in two places of its loop.
Locked ==
    /\ sending[Pump] = "idle" \/ pump \in {"announcing", "snapshot"}
    /\ \A b \in Broadcasters : sending[b] = "send" <=> mu = b
    /\ mu = Nobody => todo = {}
    /\ todo \subseteq clients
    /\ mu # Nobody => sent >= 1

\* A channel is registered while its handler runs, and closed once it is not.
Registered ==
    \A c \in Clients :
        /\ c \in clients <=> sse[c] \in {"loop", "leaving"}
        /\ c \in closed => sse[c] = "away"

Older(c, n) == last[c] < n /\ \A i \in 1 .. Len(queue[c]) : queue[c][i] < n

\* What a client has been sent is no newer than the last broadcast, and older
\* than the one it has still to be sent.
Numbered ==
    \A c \in Clients :
        /\ Older(c, sent + 1)
        /\ c \in todo => sent = MaxNumbered \/ Older(c, sent)

\* Once an outage has been announced, the flag says so until the pump has seen
\* the recovery.
InSight ==
    ~blind /\ announced >= 1 =>
        /\ announced = 1
        /\ IF outageAnnounced THEN regionDown /\ pump = "viewed" => seen
                              ELSE ~regionDown /\ (pump = "viewed" => ~seen)

Inv == TypeOK /\ Locked /\ Registered /\ Numbered /\ InOrder /\ InSight

-----------------------------------------------------------------------------
(* Every step keeps the types.                                             *)

LEMMA InitInv == Init => Inv
<1> SUFFICES ASSUME Init PROVE Inv
  OBVIOUS
<1>1. TypeOK
  <2>1. <<>> \in Seq(1 .. MaxNumbered) /\ Len(<<>>) <= Capacity
    BY CapacityAssumption
  <2>2. \A c \in Clients : queue[c] = <<>>
    BY DEF Init
  <2>3. 0 \in 0 .. MaxNumbered /\ 0 \in 0 .. 2
    BY BoundsAssumption
  <2>4. queue \in [Clients -> Seq(1 .. MaxNumbered)]
    BY <2>1 DEF Init
  <2>5. /\ mu \in Broadcasters \cup {Nobody}
        /\ sse \in [Clients -> {"away", "loop", "leaving", "removed"}]
        /\ sending \in [Broadcasters -> {"idle", "lock", "send"}]
        /\ last \in [Clients -> 0 .. MaxNumbered]
    BY <2>3 DEF Init
  <2> QED
    BY <2>1, <2>2, <2>3, <2>4, <2>5 DEF Init, TypeOK
<1>2. Locked /\ Registered
  BY NamesAssumption DEF Init, Locked, Registered, Broadcasters
<1>3. Numbered /\ InOrder /\ InSight
  BY DEF Init, Numbered, Older, InOrder, InSight
<1> QED
  BY <1>1, <1>2, <1>3 DEF Inv

LEMMA SendTypes ==
    ASSUME TypeOK, Locked, NEW b \in Broadcasters, NEW c \in Clients, Send(b, c)
    PROVE  TypeOK'
<1>1. sent \in 1 .. MaxNumbered
  BY NamesAssumption, BoundsAssumption DEF TypeOK, Locked, Send, Broadcasters
<1>2. queue' \in [Clients -> Seq(1 .. MaxNumbered)]
  BY <1>1 DEF TypeOK, Send
<1>3. ASSUME NEW d \in Clients PROVE Len(queue'[d]) <= Capacity
  <2>1. queue[d] \in Seq(1 .. MaxNumbered) /\ Len(queue[d]) <= Capacity
    BY DEF TypeOK
  <2>2. CASE queue' = queue
    BY <2>1, <2>2
  <2>3. CASE Len(queue[c]) < Capacity /\ queue' = [queue EXCEPT ![c] = Append(@, sent)]
    <3>0. queue \in [Clients -> Seq(1 .. MaxNumbered)]
      BY DEF TypeOK
    <3>1. CASE d = c
      <4>1. queue'[d] = Append(queue[d], sent)
        BY <2>3, <3>0, <3>1
      <4>2. Len(Append(queue[d], sent)) = Len(queue[d]) + 1
        BY <2>1
      <4> QED
        BY <2>1, <2>3, <3>1, <4>1, <4>2, CapacityAssumption
    <3>2. CASE d # c
      <4>1. queue'[d] = queue[d]
        BY <2>3, <3>0, <3>2
      <4> QED
        BY <2>1, <4>1
    <3> QED
      BY <3>1, <3>2
  <2> QED
    BY <2>2, <2>3 DEF Send
<1> QED
  BY <1>2, <1>3 DEF TypeOK, Send, sseVars, pumpVars, world

LEMMA ClientTypes ==
    ASSUME TypeOK, NEW c \in Clients,
           Register(c) \/ Deliver(c) \/ Disconnect(c) \/ Unregister(c) \/ CloseChannel(c)
    PROVE  TypeOK'
<1>1. CASE Register(c)
  <2>1. <<>> \in Seq(1 .. MaxNumbered) /\ Len(<<>>) <= Capacity /\ 0 \in 0 .. MaxNumbered
    BY CapacityAssumption, BoundsAssumption
  <2> QED
    BY <1>1, <2>1 DEF TypeOK, Register, pumpVars, world
<1>2. CASE Deliver(c)
  <2>1. queue[c] \in Seq(1 .. MaxNumbered) /\ queue[c] # <<>> /\ Len(queue[c]) <= Capacity
    BY <1>2 DEF TypeOK, Deliver
  <2>2. /\ Head(queue[c]) \in 0 .. MaxNumbered
        /\ Tail(queue[c]) \in Seq(1 .. MaxNumbered)
        /\ Len(Tail(queue[c])) <= Capacity
    <3>1. Head(queue[c]) \in 1 .. MaxNumbered
      BY <2>1, HeadTailProperties
    <3>2. Tail(queue[c]) \in Seq(1 .. MaxNumbered) /\ Len(Tail(queue[c])) = Len(queue[c]) - 1
      BY <2>1, HeadTailProperties
    <3> QED
      BY <2>1, <3>1, <3>2, BoundsAssumption, CapacityAssumption
  <2> QED
    BY <1>2, <2>2 DEF TypeOK, Deliver, pumpVars, world
<1>3. CASE Disconnect(c)
  BY <1>3 DEF TypeOK, Disconnect, hub, pumpVars, world
<1>4. CASE Unregister(c) \/ CloseChannel(c)
  BY <1>4 DEF TypeOK, Unregister, CloseChannel, pumpVars, world
<1> QED
  BY <1>1, <1>2, <1>3, <1>4

Outside == RegionDies \/ RegionRecovers \/ ContextEnds

LEMMA StepTypes ==
    ASSUME TypeOK, Locked, [Next]_vars
    PROVE  TypeOK'
<1>1. ASSUME NEW b \in Broadcasters, Lock(b) \/ Unlock(b) PROVE TypeOK'
  <2>1. sent' \in 0 .. MaxNumbered
    BY <1>1, BoundsAssumption DEF TypeOK, Lock, Unlock
  <2> QED
    BY <1>1, <2>1 DEF TypeOK, Lock, Unlock, sseVars, pumpVars, world
<1>2. ASSUME NEW h \in Handlers, Incident(h) PROVE TypeOK'
  BY <1>2 DEF TypeOK, Incident, sseVars, pumpVars, world, Broadcasters
<1>3. CASE PumpStep \/ BlindTick
  <2>1. CASE Tick \/ SnapshotSent \/ PumpReturns
    BY <2>1 DEF TypeOK, Tick, SnapshotSent, PumpReturns, hub, sseVars, world
  <2>2. CASE Announce
    BY <2>2 DEF TypeOK, Announce, sseVars, world, Broadcasters
  <2>3. CASE NothingToAnnounce
    <3>1. Flagged(outageAnnounced) \in BOOLEAN
      BY DEF TypeOK, Flagged
    <3> QED
      BY <2>3, <3>1 DEF TypeOK, NothingToAnnounce, sseVars, world, Broadcasters
  <2>4. CASE Announced
    BY <2>4 DEF TypeOK, Announced, sseVars, world, Broadcasters
  <2>5. CASE BlindTick
    BY <2>5 DEF TypeOK, BlindTick, hub, sseVars, world
  <2> QED
    BY <1>3, <2>1, <2>2, <2>3, <2>4, <2>5 DEF PumpStep
<1>4. CASE Outside
  <2>1. CASE RegionDies
    <3>1. regionDown' \in BOOLEAN /\ blind' \in BOOLEAN
      BY <2>1, Zenon DEF RegionDies
    <3>2. announced' \in 0 .. 2
      BY <2>1 DEF RegionDies
    <3>3. UNCHANGED <<mu, clients, queue, closed, todo, sent, sending, sse, last, pump, seen,
                      outageAnnounced, ctxDone>>
      BY <2>1 DEF RegionDies, hub, sseVars
    <3> QED
      BY <3>1, <3>2, <3>3 DEF TypeOK
  <2>2. CASE RegionRecovers
    BY <2>2 DEF TypeOK, RegionRecovers, hub, sseVars, pumpVars
  <2>3. CASE ContextEnds
    BY <2>3 DEF TypeOK, ContextEnds, hub, sseVars, pumpVars
  <2> QED
    BY <1>4, <2>1, <2>2, <2>3 DEF Outside
<1>5. CASE UNCHANGED vars
  BY <1>5 DEF TypeOK, vars
<1> QED
  BY <1>1, <1>2, <1>3, <1>4, <1>5, SendTypes, ClientTypes DEF Next, Broadcast, Outside

-----------------------------------------------------------------------------
(* Every step keeps the mutex and the channels in order.                   *)

LEMMA StepLocked ==
    ASSUME TypeOK, Locked, Registered, [Next]_vars
    PROVE  Locked' /\ Registered'
<1> USE DEF TypeOK, Locked, Registered
<1>1. ASSUME NEW b \in Broadcasters, Lock(b) PROVE Locked' /\ Registered'
  <2>1. sent' >= 1
    BY <1>1, BoundsAssumption DEF Lock
  <2> QED
    BY <1>1, <2>1, NamesAssumption DEF Lock, sseVars, pumpVars, Broadcasters
<1>2. ASSUME NEW b \in Broadcasters, NEW c \in Clients, Send(b, c)
      PROVE  Locked' /\ Registered'
  BY <1>2 DEF Send, sseVars, pumpVars
<1>3. ASSUME NEW b \in Broadcasters, Unlock(b) PROVE Locked' /\ Registered'
  BY <1>3, NamesAssumption DEF Unlock, sseVars, pumpVars, Broadcasters
<1>4. ASSUME NEW h \in Handlers, Incident(h) PROVE Locked' /\ Registered'
  BY <1>4, NamesAssumption DEF Incident, sseVars, pumpVars, Broadcasters
<1>5. ASSUME NEW c \in Clients, Register(c) PROVE Locked' /\ Registered'
  BY <1>5 DEF Register, pumpVars
<1>6. ASSUME NEW c \in Clients, Deliver(c) PROVE Locked' /\ Registered'
  BY <1>6 DEF Deliver, pumpVars
<1>7. ASSUME NEW c \in Clients, Disconnect(c) PROVE Locked' /\ Registered'
  BY <1>7 DEF Disconnect, hub, pumpVars
<1>8. ASSUME NEW c \in Clients, Unregister(c) PROVE Locked' /\ Registered'
  BY <1>8 DEF Unregister, pumpVars
<1>9. ASSUME NEW c \in Clients, CloseChannel(c) PROVE Locked' /\ Registered'
  BY <1>9 DEF CloseChannel, pumpVars
<1>10. CASE Tick \/ BlindTick \/ SnapshotSent \/ PumpReturns
  BY <1>10 DEF Tick, BlindTick, SnapshotSent, PumpReturns, hub, sseVars
<1>11. CASE Announce \/ NothingToAnnounce \/ Announced
  <2>1. /\ UNCHANGED <<mu, clients, closed, todo, sent, sse>>
        /\ sending' = [sending EXCEPT ![Pump] = "lock"]
    BY <1>11 DEF Announce, NothingToAnnounce, Announced, sseVars
  <2>2. sending[Pump] = "idle" /\ pump' \in {"announcing", "snapshot"}
    BY <1>11 DEF Announce, NothingToAnnounce, Announced
  <2> QED
    BY <2>1, <2>2 DEF Broadcasters
<1>12. CASE Outside
  BY <1>12 DEF Outside, RegionDies, RegionRecovers, ContextEnds, hub, sseVars, pumpVars
<1>13. CASE UNCHANGED vars
  BY <1>13 DEF vars
<1> QED
  BY <1>1, <1>2, <1>3, <1>4, <1>5, <1>6, <1>7, <1>8, <1>9, <1>10, <1>11, <1>12, <1>13
     DEF Next, Broadcast, PumpStep, Outside

-----------------------------------------------------------------------------
(* Every step keeps the numbers of the broadcasts in order.                *)

LEMMA NumberedFrame ==
    ASSUME Numbered, InOrder, UNCHANGED <<queue, last, sent>>, todo' \subseteq todo
    PROVE  Numbered' /\ InOrder'
<1>1. ASSUME NEW c \in Clients
      PROVE  Older(c, sent + 1)' /\ (c \in todo' => sent' = MaxNumbered \/ Older(c, sent)')
  <2>1. Older(c, sent + 1) /\ (c \in todo' => sent = MaxNumbered \/ Older(c, sent))
    BY DEF Numbered
  <2> QED
    BY <2>1 DEF Older
<1>2. Numbered'
  BY <1>1 DEF Numbered
<1>3. InOrder'
  BY DEF InOrder
<1> QED
  BY <1>2, <1>3

LEMMA LockNumbered ==
    ASSUME TypeOK, Numbered, InOrder, NEW b \in Broadcasters, Lock(b)
    PROVE  Numbered' /\ InOrder'
<1>1. /\ queue' = queue /\ last' = last /\ sent \in Nat
      /\ sent' = sent + 1 \/ (sent' = sent /\ sent = MaxNumbered)
  <2>1. sent \in 0 .. MaxNumbered /\ MaxNumbered \in Nat
    BY BoundsAssumption DEF TypeOK
  <2>2. sent' = IF sent < MaxNumbered THEN sent + 1 ELSE sent
    BY DEF Lock
  <2> QED
    BY <2>1, <2>2 DEF Lock, sseVars
<1>2. ASSUME NEW c \in Clients
      PROVE  Older(c, sent + 1)' /\ (sent' = MaxNumbered \/ Older(c, sent)')
  <2>1. /\ last[c] \in Nat /\ last[c] < sent + 1
        /\ \A i \in 1 .. Len(queue[c]) : queue[c][i] \in Nat /\ queue[c][i] < sent + 1
    BY BoundsAssumption DEF TypeOK, Numbered, Older
  <2> QED
    BY <1>1, <2>1 DEF Older
<1> QED
  BY <1>1, <1>2 DEF Numbered, InOrder

LEMMA SendNumbered ==
    ASSUME TypeOK, Locked, Numbered, InOrder,
           NEW b \in Broadcasters, NEW c \in Clients, Send(b, c)
    PROVE  Numbered' /\ InOrder'
<1>1. /\ last' = last /\ sent' = sent /\ sent \in Nat /\ todo' = todo \ {c} /\ c \in todo
      /\ queue \in [Clients -> Seq(1 .. MaxNumbered)] /\ last \in [Clients -> 0 .. MaxNumbered]
  BY BoundsAssumption DEF TypeOK, Send, sseVars
<1>2. CASE queue' = queue
  BY <1>1, <1>2, NumberedFrame
<1>3. CASE queue' = [queue EXCEPT ![c] = Append(@, sent)]
  <2>1. \A d \in Clients \ {c} : queue'[d] = queue[d]
    BY <1>1, <1>3
  <2>2. /\ queue'[c] = Append(queue[c], sent) /\ queue[c] \in Seq(1 .. MaxNumbered)
        /\ last[c] \in Nat
    BY <1>1, <1>3, BoundsAssumption
  <2>3. /\ Len(queue[c]) \in Nat /\ Len(queue'[c]) = Len(queue[c]) + 1
        /\ \A i \in 1 .. Len(queue[c]) :
             queue[c][i] \in Nat /\ queue'[c][i] = queue[c][i]
        /\ queue'[c][Len(queue[c]) + 1] = sent
    <3>1. sent \in 1 .. MaxNumbered
      BY NamesAssumption, BoundsAssumption DEF TypeOK, Locked, Send, Broadcasters
    <3>2. Len(queue[c]) \in Nat /\ \A i \in 1 .. Len(queue[c]) : queue[c][i] \in 1 .. MaxNumbered
      <4> DEFINE Numbers == 1 .. MaxNumbered
      <4>1. queue[c] \in Seq(Numbers)
        BY <2>2
      <4> HIDE DEF Numbers
      <4>2. Len(queue[c]) \in Nat /\ \A i \in 1 .. Len(queue[c]) : queue[c][i] \in Numbers
        BY <4>1
      <4> QED
        BY <4>2 DEF Numbers
    <3>3. \A i \in 1 .. Len(queue[c]) : queue[c][i] \in Nat
      BY <3>2
    <3>4. /\ Len(Append(queue[c], sent)) = Len(queue[c]) + 1
          /\ \A i \in 1 .. Len(queue[c]) : Append(queue[c], sent)[i] = queue[c][i]
          /\ Append(queue[c], sent)[Len(queue[c]) + 1] = sent
      <4> DEFINE Numbers == 1 .. MaxNumbered
      <4>1. queue[c] \in Seq(Numbers) /\ sent \in Numbers
        BY <2>2, <3>1
      <4> HIDE DEF Numbers
      <4> QED
        BY <4>1, AppendProperties
    <3> QED
      BY <2>2, <3>2, <3>3, <3>4
  <2>4. /\ last[c] < sent + 1 /\ \A i \in 1 .. Len(queue[c]) : queue[c][i] < sent + 1
        /\ \/ sent = MaxNumbered
           \/ /\ last[c] < sent
              /\ \A i \in 1 .. Len(queue[c]) : queue[c][i] < sent
    <3>1. Older(c, sent + 1) /\ (sent = MaxNumbered \/ Older(c, sent))
      BY <1>1 DEF Numbered
    <3> QED
      BY <3>1 DEF Older
  <2>5. \A i \in 1 .. Len(queue'[c]) :
          i \in 1 .. Len(queue[c]) \/ i = Len(queue[c]) + 1
    BY <2>3
  <2>6. Older(c, sent + 1)'
    <3>1. \A i \in 1 .. Len(queue'[c]) : queue'[c][i] < sent + 1
      BY <1>1, <2>3, <2>4, <2>5
    <3> QED
      BY <1>1, <2>4, <3>1 DEF Older
  <2>7. Numbered'
    BY <1>1, <2>1, <2>6 DEF Numbered, Older
  <2>8. /\ \A i \in 1 .. Len(queue'[c]) :
             last'[c] < queue'[c][i] \/ queue'[c][i] = MaxNumbered
        /\ \A i, j \in 1 .. Len(queue'[c]) :
             i < j => queue'[c][i] < queue'[c][j] \/ queue'[c][j] = MaxNumbered
    <3>1. /\ \A i \in 1 .. Len(queue[c]) :
               last[c] < queue[c][i] \/ queue[c][i] = MaxNumbered
          /\ \A i, j \in 1 .. Len(queue[c]) :
               i < j => queue[c][i] < queue[c][j] \/ queue[c][j] = MaxNumbered
      BY DEF InOrder
    <3>2. ASSUME NEW i \in 1 .. Len(queue'[c])
          PROVE  last'[c] < queue'[c][i] \/ queue'[c][i] = MaxNumbered
      BY <1>1, <2>3, <2>4, <2>5, <3>1
    <3>3. ASSUME NEW i \in 1 .. Len(queue'[c]), NEW j \in 1 .. Len(queue'[c]), i < j
          PROVE  queue'[c][i] < queue'[c][j] \/ queue'[c][j] = MaxNumbered
      <4>1. i \in 1 .. Len(queue[c])
        BY <2>3, <3>3
      <4> QED
        BY <2>3, <2>4, <2>5, <3>1, <3>3, <4>1
    <3> QED
      BY <3>2, <3>3
  <2>9. InOrder'
    BY <1>1, <2>1, <2>8 DEF InOrder
  <2> QED
    BY <2>7, <2>9
<1> QED
  BY <1>2, <1>3 DEF Send

LEMMA RegisterNumbered ==
    ASSUME TypeOK, Locked, Numbered, InOrder, NEW c \in Clients, Register(c)
    PROVE  Numbered' /\ InOrder'
<1>1. /\ sent' = sent /\ sent \in Nat /\ todo' = todo /\ todo = {}
      /\ queue'[c] = <<>> /\ last'[c] = 0
      /\ \A d \in Clients \ {c} : queue'[d] = queue[d] /\ last'[d] = last[d]
  BY BoundsAssumption DEF TypeOK, Locked, Register
<1> QED
  BY <1>1 DEF Numbered, InOrder, Older

LEMMA DeliverNumbered ==
    ASSUME TypeOK, Numbered, InOrder, NEW c \in Clients, Deliver(c)
    PROVE  Numbered' /\ InOrder'
<1>1. /\ sent' = sent /\ todo' = todo
      /\ queue[c] \in Seq(1 .. MaxNumbered) /\ queue[c] # <<>>
      /\ queue'[c] = Tail(queue[c]) /\ last'[c] = Head(queue[c])
      /\ \A d \in Clients \ {c} : queue'[d] = queue[d] /\ last'[d] = last[d]
  BY DEF TypeOK, Deliver
<1>2. /\ Len(queue[c]) \in Nat /\ Len(queue[c]) >= 1
      /\ Len(queue'[c]) = Len(queue[c]) - 1
      /\ last'[c] = queue[c][1]
      /\ \A i \in 1 .. Len(queue'[c]) : queue'[c][i] = queue[c][i + 1]
  BY <1>1, HeadTailProperties
<1>3. \A i \in 1 .. Len(queue'[c]) : i + 1 \in 1 .. Len(queue[c])
  BY <1>2
<1>4. /\ Older(c, sent + 1)'
      /\ c \in todo => sent = MaxNumbered \/ Older(c, sent)'
  BY <1>1, <1>2, <1>3 DEF Numbered, Older
<1>5. Numbered'
  BY <1>1, <1>4 DEF Numbered, Older
<1>6. /\ \A i \in 1 .. Len(queue'[c]) :
           last'[c] < queue'[c][i] \/ queue'[c][i] = MaxNumbered
      /\ \A i, j \in 1 .. Len(queue'[c]) :
           i < j => queue'[c][i] < queue'[c][j] \/ queue'[c][j] = MaxNumbered
  <2>1. \A i, j \in 1 .. Len(queue[c]) :
          i < j => queue[c][i] < queue[c][j] \/ queue[c][j] = MaxNumbered
    BY DEF InOrder
  <2>2. 1 \in 1 .. Len(queue[c])
    BY <1>2
  <2>3. ASSUME NEW i \in 1 .. Len(queue'[c])
        PROVE  last'[c] < queue'[c][i] \/ queue'[c][i] = MaxNumbered
    <3>1. 1 < i + 1 /\ i + 1 \in 1 .. Len(queue[c])
      BY <1>3
    <3>2. queue[c][1] < queue[c][i + 1] \/ queue[c][i + 1] = MaxNumbered
      BY <2>1, <2>2, <3>1
    <3> QED
      BY <1>2, <3>2
  <2>4. ASSUME NEW i \in 1 .. Len(queue'[c]), NEW j \in 1 .. Len(queue'[c]), i < j
        PROVE  queue'[c][i] < queue'[c][j] \/ queue'[c][j] = MaxNumbered
    <3>1. i + 1 < j + 1 /\ i + 1 \in 1 .. Len(queue[c]) /\ j + 1 \in 1 .. Len(queue[c])
      BY <1>3, <2>4
    <3>2. queue[c][i + 1] < queue[c][j + 1] \/ queue[c][j + 1] = MaxNumbered
      BY <2>1, <3>1
    <3> QED
      BY <1>2, <3>2
  <2> QED
    BY <2>3, <2>4
<1>7. InOrder'
  <2> SUFFICES ASSUME NEW d \in Clients
               PROVE  /\ \A i \in 1 .. Len(queue'[d]) :
                           last'[d] < queue'[d][i] \/ queue'[d][i] = MaxNumbered
                      /\ \A i, j \in 1 .. Len(queue'[d]) :
                           i < j => queue'[d][i] < queue'[d][j] \/ queue'[d][j] = MaxNumbered
    BY DEF InOrder
  <2>1. CASE d = c
    BY <1>6, <2>1
  <2>2. CASE d # c
    <3>1. queue'[d] = queue[d] /\ last'[d] = last[d]
      BY <1>1, <2>2
    <3> QED
      BY <3>1 DEF InOrder
  <2> QED
    BY <2>1, <2>2
<1> QED
  BY <1>5, <1>7

LEMMA StepNumbered ==
    ASSUME TypeOK, Locked, Numbered, InOrder, [Next]_vars
    PROVE  Numbered' /\ InOrder'
<1>1. ASSUME NEW b \in Broadcasters, Unlock(b) PROVE Numbered' /\ InOrder'
  BY <1>1, NumberedFrame DEF Unlock, sseVars
<1>2. ASSUME NEW h \in Handlers, Incident(h) PROVE Numbered' /\ InOrder'
  BY <1>2, NumberedFrame DEF Incident, sseVars
<1>3. ASSUME NEW c \in Clients, Disconnect(c) \/ Unregister(c) \/ CloseChannel(c)
      PROVE  Numbered' /\ InOrder'
  BY <1>3, NumberedFrame DEF Disconnect, Unregister, CloseChannel, hub
<1>4. CASE PumpStep \/ BlindTick
  BY <1>4, NumberedFrame DEF PumpStep, Tick, BlindTick, SnapshotSent, PumpReturns, Announce,
                             NothingToAnnounce, Announced, hub, sseVars
<1>5. CASE Outside
  BY <1>5, NumberedFrame DEF Outside, RegionDies, RegionRecovers, ContextEnds, hub, sseVars
<1>6. CASE UNCHANGED vars
  BY <1>6, NumberedFrame DEF vars
<1> QED
  BY <1>1, <1>2, <1>3, <1>4, <1>5, <1>6, LockNumbered, SendNumbered, RegisterNumbered,
     DeliverNumbered DEF Next, Broadcast, Outside

-----------------------------------------------------------------------------
(* Every step keeps the announcement in step with the outage.              *)

LEMMA StepInSight ==
    ASSUME TypeOK, InSight, [Next]_vars
    PROVE  InSight'
<1> USE DEF InSight
<1>1. CASE UNCHANGED <<pumpVars, regionDown>>
  BY <1>1 DEF pumpVars
<1>2. CASE Tick
  BY <1>2 DEF Tick, world
<1>3. CASE BlindTick
  BY <1>3 DEF BlindTick
<1>4. CASE Announce
  <2>1. ~(~blind /\ announced >= 1)
    BY <1>4 DEF Announce
  <2>2. announced \in 0 .. 2 /\ blind' = blind
    BY <1>4 DEF TypeOK, Announce
  <2>3. ~blind' => announced' = 1
    BY <1>4, <2>1, <2>2 DEF Announce
  <2> QED
    BY <1>4, <2>3 DEF Announce
<1>5. CASE NothingToAnnounce
  BY <1>5 DEF NothingToAnnounce, Flagged, world
<1>6. CASE Announced \/ SnapshotSent \/ PumpReturns
  BY <1>6 DEF Announced, SnapshotSent, PumpReturns, world
<1>7. CASE RegionDies
  BY <1>7 DEF RegionDies
<1>8. CASE RegionRecovers
  BY <1>8 DEF RegionRecovers, pumpVars
<1>9. ASSUME NEW b \in Broadcasters, Broadcast(b) PROVE UNCHANGED <<pumpVars, regionDown>>
  BY <1>9 DEF Broadcast, Lock, Send, Unlock, world
<1>10. ASSUME NEW c \in Clients,
              Register(c) \/ Deliver(c) \/ Disconnect(c) \/ Unregister(c) \/ CloseChannel(c)
       PROVE  UNCHANGED <<pumpVars, regionDown>>
  BY <1>10 DEF Register, Deliver, Disconnect, Unregister, CloseChannel, world
<1>11. ASSUME NEW h \in Handlers, Incident(h) PROVE UNCHANGED <<pumpVars, regionDown>>
  BY <1>11 DEF Incident, world
<1>12. ContextEnds \/ UNCHANGED vars => UNCHANGED <<pumpVars, regionDown>>
  BY DEF ContextEnds, vars, pumpVars
<1> QED
  BY <1>1, <1>2, <1>3, <1>4, <1>5, <1>6, <1>7, <1>8, <1>9, <1>10, <1>11, <1>12
     DEF Next, PumpStep

-----------------------------------------------------------------------------
(* The theorems.                                                           *)

(* Whatever the hub, the pump and its dashboards do, Inv is never left.    *)
THEOREM Invariance == Spec => []Inv
<1>1. Inv /\ [Next]_vars => Inv'
  BY StepTypes, StepLocked, StepNumbered, StepInSight DEF Inv
<1> QED
  BY InitInv, <1>1, PTL DEF Spec

(* Every variable has its type; no channel ever exceeds its capacity.      *)
THEOREM TypeCorrect == Spec => []TypeOK
<1>1. Inv => TypeOK
  BY DEF Inv
<1> QED
  BY Invariance, <1>1, PTL

(* broadcast never sends on a channel handleSSE has closed, whichever      *)
(* dashboards leave while it runs: the server does not panic.              *)
THEOREM ClosedNeverSentTo == Spec => []NoSendOnClosed
<1>1. Inv => NoSendOnClosed
  BY DEF Inv, TypeOK, Locked, Registered, NoSendOnClosed
<1> QED
  BY Invariance, <1>1, PTL

(* A dashboard sees the broadcasts it gets in the order of h.mu.           *)
THEOREM BroadcastsInOrder == Spec => []InOrder
<1>1. Inv => InOrder
  BY DEF Inv
<1> QED
  BY Invariance, <1>1, PTL

(* hub.pump announces an outage at most once if each tick in it sees the   *)
(* nodes, however blind it was in earlier ones.                            *)
THEOREM AnnouncedOnceIfSeen == Spec => []AnnouncedOnceInSight
<1>1. Inv => AnnouncedOnceInSight
  <2> SUFFICES ASSUME Inv, ~blind PROVE announced <= 1
    BY DEF AnnouncedOnceInSight
  <2> QED
    BY DEF Inv, TypeOK, InSight
<1> QED
  BY Invariance, <1>1, PTL

=============================================================================

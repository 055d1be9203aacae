---------------------------- MODULE ServerProofs ----------------------------
(***************************************************************************)
(* Theorems about Server: for any number of handlers and connections, no   *)
(* connection is lost or shared, the view of the cluster runs where it is  *)
(* allowed, and the pump's counts do not invent a loss.                    *)
(***************************************************************************)
EXTENDS Server, TLAPS, FiniteSetTheorems

-----------------------------------------------------------------------------
(* The inductive invariant.                                                *)

\* Where a goroutine is, and what it has still to do.
Places ==
    \A g \in Goroutines :
        /\ todo[g] = <<>> <=> at[g] \in {"rest", "read", "returned"}
        /\ at[g] = "wait" => held[g] = {}

\* The pump makes its reads in order; from the count by region on, only a
\* recorded disturbance can take the rows below the total.
TickOrder ==
    /\ todo[Pump] \in {<<>>, PumpReads, <<"regions", "count">>, <<"count">>}
    /\ todo[Pump] = <<"count">> => total <= rows \/ disturbed

\* Only the pump counts rows.
HandlerUses == {"query", "step", "remember", "consolidate", "view"}

HandlersAnswer == \A h \in Handlers : todo[h] \in Seq(HandlerUses)

Inv ==
    /\ TypeOK /\ Places /\ HandlersAnswer
    /\ ClusterViewAllowed /\ TickOrder /\ NoPhantomLoss

-----------------------------------------------------------------------------
LEMMA InitInv == Init => Inv
<1> SUFFICES ASSUME Init PROVE Inv
  OBVIOUS
<1>1. TypeOK
  <2>1. {rows, total, readable} \subseteq 0 .. MaxRows
    BY RowsAssumption DEF Init
  <2>2. <<>> \in Seq(Uses)
    OBVIOUS
  <2>3. \A g \in Goroutines : at[g] = "rest" /\ held[g] = {}
    BY DEF Init
  <2> QED
    BY <2>1, <2>2, <2>3 DEF Init, TypeOK
<1>2. Places /\ HandlersAnswer /\ ClusterViewAllowed /\ TickOrder /\ NoPhantomLoss
  BY DEF Init, Places, HandlersAnswer, ClusterViewAllowed, TickOrder, NoPhantomLoss,
         Goroutines
<1> QED
  BY <1>1, <1>2 DEF Inv

LEMMA ArriveInv ==
    ASSUME Inv, NEW h \in Handlers, NEW route \in Routes, Arrive(h, route)
    PROVE  Inv'
<1> USE DEF Inv, Arrive, Begin, snap
<1>0. route \in Seq(HandlerUses) /\ route \in Seq(Uses) /\ route # <<>>
  <2>1. CASE route = <<"query">>
    BY <2>1 DEF HandlerUses, Uses
  <2>2. CASE route = <<"view">>
    BY <2>2 DEF HandlerUses, Uses
  <2>3. CASE route = <<"query", "step", "remember", "consolidate">>
    <3>1. /\ <<"query", "step", "remember", "consolidate">> \in Seq(HandlerUses)
          /\ <<"query", "step", "remember", "consolidate">> \in Seq(Uses)
      BY DEF HandlerUses, Uses
    <3> QED
      BY <2>3, <3>1
  <2> QED
    BY <2>1, <2>2, <2>3 DEF Routes
<1>1. TypeOK'
  BY <1>0 DEF TypeOK, Goroutines
<1>2. Places' /\ HandlersAnswer'
  BY <1>0 DEF TypeOK, Places, HandlersAnswer, Goroutines
<1>3. ClusterViewAllowed' /\ TickOrder' /\ NoPhantomLoss'
  BY NamesAssumption DEF TypeOK, ClusterViewAllowed, TickOrder, NoPhantomLoss, Goroutines
<1> QED
  BY <1>1, <1>2, <1>3

LEMMA TickInv ==
    ASSUME Inv, Tick
    PROVE  Inv'
<1> USE DEF Inv, Tick, Begin, snap
<1>0. PumpReads \in Seq(Uses) /\ PumpReads # <<>> /\ PumpReads # <<"count">>
  BY DEF PumpReads, Uses
<1>1. TypeOK'
  BY <1>0 DEF TypeOK, Goroutines
<1>2. Places' /\ HandlersAnswer'
  BY <1>0, NamesAssumption DEF TypeOK, Places, HandlersAnswer, Goroutines
<1>3. ClusterViewAllowed' /\ TickOrder' /\ NoPhantomLoss'
  BY <1>0 DEF TypeOK, ClusterViewAllowed, TickOrder, NoPhantomLoss, Goroutines
<1> QED
  BY <1>1, <1>2, <1>3

LEMMA TakeInv ==
    ASSUME Inv, NEW g \in Goroutines, Take(g)
    PROVE  Inv'
<1> USE DEF Inv
<1>1. PICK c \in Free :
        /\ held' = [held EXCEPT ![g] = @ \cup {c}]
        /\ at' = [at EXCEPT ![g] =
                     IF Cardinality(held'[g]) = ConnsFor(Use(g)) THEN "hold" ELSE "wait"]
  BY DEF Take
<1>2. held'[g] = {c}
  BY <1>1 DEF Take, Places, TypeOK
<1>3. at' = [at EXCEPT ![g] = "hold"]
  BY <1>1, <1>2, FS_Singleton DEF ConnsFor
<1>4. /\ at[g] = "wait"
      /\ UNCHANGED <<ctxDone, todo, unsafe, rows, total, readable, disturbed>>
  BY DEF Take, snap
<1>5. TypeOK'
  <2>1. c \in Conns /\ \A f \in Goroutines : c \notin held[f]
    BY DEF Free
  <2>2. held' \in [Goroutines -> SUBSET Conns] /\ at' \in [Goroutines ->
             {"rest", "wait", "hold", "set", "read", "returned"}]
    BY <1>1, <1>3, <2>1 DEF TypeOK
  <2>3. ASSUME NEW f \in Goroutines
        PROVE  /\ at'[f] \in {"hold", "set"} => held'[f] # {}
               /\ held'[f] # {} => todo'[f] # <<>>
    BY <1>1, <1>2, <1>3, <1>4 DEF TypeOK, Places
  <2>4. ASSUME NEW f \in Goroutines, NEW e \in Goroutines \ {f}
        PROVE  held'[e] \cap held'[f] = {}
    <3>1. held[e] \cap held[f] = {}
      BY DEF TypeOK
    <3>2. held'[e] \in {held[e], held[e] \cup {c}} /\ held'[f] \in {held[f], held[f] \cup {c}}
      BY <1>1 DEF TypeOK
    <3>3. held'[e] = held[e] \/ held'[f] = held[f]
      BY <1>1 DEF TypeOK
    <3> QED
      BY <2>1, <3>1, <3>2, <3>3
  <2> QED
    BY <1>4, <2>2, <2>3, <2>4 DEF TypeOK
<1>6. Places' /\ HandlersAnswer' /\ ClusterViewAllowed'
  BY <1>1, <1>3, <1>4 DEF TypeOK, Places, HandlersAnswer, ClusterViewAllowed
<1>7. TickOrder' /\ NoPhantomLoss'
  BY <1>3, <1>4 DEF TypeOK, TickOrder, NoPhantomLoss, Goroutines
<1> QED
  BY <1>5, <1>6, <1>7

LEMMA SetInv ==
    ASSUME Inv, NEW g \in Goroutines, Set(g)
    PROVE  Inv'
<1> USE DEF Inv, Set, snap
<1>1. TypeOK'
  BY DEF TypeOK
<1>2. Places' /\ HandlersAnswer' /\ ClusterViewAllowed'
  BY DEF TypeOK, Places, HandlersAnswer, ClusterViewAllowed
<1>3. TickOrder' /\ NoPhantomLoss'
  BY DEF TypeOK, TickOrder, NoPhantomLoss, Goroutines
<1> QED
  BY <1>1, <1>2, <1>3

-----------------------------------------------------------------------------
(* What Finish and Fail have in common.                                    *)

\* After the step, the pool and the places of its users are in order.
PoolInOrder ==
    /\ todo' \in [Goroutines -> Seq(Uses)]
    /\ at' \in [Goroutines -> {"rest", "wait", "hold", "set", "read", "returned"}]
    /\ held' \in [Goroutines -> SUBSET Conns] /\ unsafe' \subseteq Conns
    /\ \A f \in Goroutines :
         /\ at'[f] \in {"hold", "set"} => held'[f] # {}
         /\ held'[f] # {} => todo'[f] # <<>>
         /\ \A e \in Goroutines \ {f} : held'[e] \cap held'[f] = {}
    /\ Places'
    /\ ClusterViewAllowed'

\* A goroutine that gives its connection back, and goes on, disturbs no other.
LEMMA ReleaseKeepsPool ==
    ASSUME TypeOK, Places, ClusterViewAllowed, NEW g \in Goroutines,
           NEW uses \in Seq(Uses), Release(g), Continue(g, uses)
    PROVE  PoolInOrder
<1>1. /\ held' = [held EXCEPT ![g] = {}]
      /\ todo' = [todo EXCEPT ![g] = uses]
      /\ at' = [at EXCEPT ![g] = IF uses # <<>> THEN "wait"
                                 ELSE IF g = Pump THEN "read" ELSE "rest"]
  BY DEF Release, Continue
<1>2. PICK closed \in SUBSET held[g] : unsafe' = unsafe \ closed
  BY DEF Release
<1>3. /\ todo' \in [Goroutines -> Seq(Uses)]
      /\ at' \in [Goroutines -> {"rest", "wait", "hold", "set", "read", "returned"}]
      /\ held' \in [Goroutines -> SUBSET Conns] /\ unsafe' \subseteq Conns
  BY <1>1, <1>2 DEF TypeOK
<1>4. ASSUME NEW f \in Goroutines
      PROVE  /\ at'[f] \in {"hold", "set"} => held'[f] # {}
             /\ held'[f] # {} => todo'[f] # <<>>
             /\ \A e \in Goroutines \ {f} : held'[e] \cap held'[f] = {}
  BY <1>1 DEF TypeOK
<1>5. Places'
  BY <1>1 DEF TypeOK, Places
<1>6. ASSUME NEW f \in Goroutines, at'[f] = "set"
      PROVE  held'[f] \subseteq unsafe'
  <2>1. f # g /\ at[f] = "set"
    BY <1>1, <1>6 DEF TypeOK
  <2>2. held[f] \cap held[g] = {} /\ held'[f] = held[f] /\ held[f] \subseteq unsafe
    BY <1>1, <2>1 DEF TypeOK, ClusterViewAllowed
  <2> QED
    BY <1>2, <2>2
<1> QED
  BY <1>3, <1>4, <1>5, <1>6 DEF ClusterViewAllowed, PoolInOrder

LEMMA FinishInv ==
    ASSUME Inv, NEW g \in Goroutines, Finish(g)
    PROVE  Inv'
<1> USE DEF Inv
<1>1. todo[g] \in Seq(Uses) /\ todo[g] # <<>>
  BY DEF TypeOK, Places, Finish
<1>2. Use(g) \in Uses /\ Tail(todo[g]) \in Seq(Uses)
  BY <1>1 DEF Use
<1>3. PICK uses \in After(g) : Continue(g, uses)
  BY DEF Finish
<1>4. uses \in Seq(Uses)
  <2>1. <<>> \in Seq(Uses) /\ <<"remember">> \in Seq(Uses)
    BY DEF Uses
  <2> QED
    BY <1>2, <1>3, <2>1 DEF After
<1>5. PoolInOrder
  BY <1>3, <1>4, ReleaseKeepsPool DEF Finish
<1>6. /\ rows \in Nat /\ rows' \in Nat /\ rows <= rows' /\ rows' <= MaxRows
      /\ total \in Nat /\ total <= MaxRows /\ readable \in Nat /\ readable <= MaxRows
      /\ disturbed' = disturbed /\ ctxDone' = ctxDone
  BY RowsAssumption DEF Finish, TypeOK
<1>7. /\ total' = IF Use(g) = "regions" THEN rows ELSE total
      /\ readable' = IF Use(g) = "count" THEN rows ELSE readable
      /\ Use(g) # "remember" => rows' = rows
  BY DEF Finish
<1>8. TypeOK'
  BY <1>5, <1>6, <1>7, RowsAssumption DEF TypeOK, PoolInOrder
<1>9. TickOrder' /\ NoPhantomLoss'
  <2>1. CASE g = Pump
    <3>1. \/ Use(g) = "view" /\ Tail(todo[g]) = <<"regions", "count">>
          \/ Use(g) = "regions" /\ Tail(todo[g]) = <<"count">>
          \/ todo[g] = <<"count">> /\ Use(g) = "count" /\ Tail(todo[g]) = <<>>
      <4>1. CASE todo[g] = PumpReads
        BY <4>1 DEF PumpReads, Use
      <4>2. CASE todo[g] = <<"regions", "count">>
        BY <4>2 DEF Use
      <4>3. CASE todo[g] = <<"count">>
        BY <4>3 DEF Use
      <4> QED
        BY <1>1, <2>1, <4>1, <4>2, <4>3 DEF TickOrder
    <3>2. uses = Tail(todo[g])
      BY <1>3, <3>1 DEF After
    <3>3. /\ todo'[Pump] = uses
          /\ at'[Pump] = IF uses # <<>> THEN "wait" ELSE "read"
      BY <1>3, <2>1 DEF Continue, TypeOK
    <3>4. CASE Use(g) = "view" /\ uses = <<"regions", "count">>
      BY <3>3, <3>4 DEF TickOrder, NoPhantomLoss
    <3>5. CASE Use(g) = "regions" /\ uses = <<"count">>
      BY <3>3, <3>5, <1>6, <1>7 DEF TickOrder, NoPhantomLoss
    <3>6. CASE todo[g] = <<"count">> /\ Use(g) = "count" /\ uses = <<>>
      <4>1. total' = total /\ readable' = rows
        BY <3>6, <1>7
      <4>2. total <= rows \/ disturbed
        BY <2>1, <3>6 DEF TickOrder
      <4> QED
        BY <3>3, <3>6, <4>1, <4>2, <1>6 DEF TickOrder, NoPhantomLoss
    <3> QED
      BY <3>1, <3>2, <3>4, <3>5, <3>6
  <2>2. CASE g # Pump
    <3>1. Pump \in Goroutines /\ todo'[Pump] = todo[Pump] /\ at'[Pump] = at[Pump]
      BY <1>3, <2>2 DEF Continue, TypeOK, Goroutines
    <3>2. Use(g) \in HandlerUses
      BY <1>1, <2>2 DEF HandlersAnswer, Goroutines, Use
    <3>3. total' = total /\ readable' = readable
      BY <3>2, <1>7 DEF HandlerUses
    <3> QED
      BY <3>1, <3>3, <1>6 DEF TickOrder, NoPhantomLoss
  <2> QED
    BY <2>1, <2>2
<1>10. HandlersAnswer'
  <2> SUFFICES ASSUME NEW h \in Handlers PROVE todo'[h] \in Seq(HandlerUses)
    BY DEF HandlersAnswer
  <2>1. CASE h = g
    <3>1. todo[g] \in Seq(HandlerUses) /\ Tail(todo[g]) \in Seq(HandlerUses)
      BY <1>1, <2>1 DEF HandlersAnswer
    <3>2. <<>> \in Seq(HandlerUses) /\ <<"remember">> \in Seq(HandlerUses)
      BY DEF HandlerUses
    <3> QED
      BY <1>3, <2>1, <3>1, <3>2 DEF Continue, After, TypeOK
  <2>2. CASE h # g
    BY <1>3, <2>2 DEF Continue, HandlersAnswer, TypeOK, Goroutines
  <2> QED
    BY <2>1, <2>2
<1> QED
  BY <1>5, <1>8, <1>9, <1>10 DEF PoolInOrder

LEMMA FailInv ==
    ASSUME Inv, NEW g \in Goroutines, Fail(g)
    PROVE  Inv'
<1> USE DEF Inv
<1> DEFINE uses == IF g = Pump THEN Tail(todo[g]) ELSE <<>>
<1>1. todo[g] \in Seq(Uses) /\ todo[g] # <<>>
  BY DEF TypeOK, Places, Fail, MayFail
<1>2. Continue(g, uses) /\ Release(g)
  BY DEF Fail
<1>3. uses \in Seq(Uses)
  BY <1>1
<1> HIDE DEF uses
<1>4. PoolInOrder
  BY <1>2, <1>3, ReleaseKeepsPool
<1>5. /\ rows \in Nat /\ rows <= MaxRows /\ rows' = rows
      /\ total \in Nat /\ total <= MaxRows /\ readable \in Nat /\ readable <= MaxRows
      /\ readable' = readable /\ ctxDone' = ctxDone
  BY RowsAssumption DEF Fail, TypeOK
<1>6. /\ total' \in Nat /\ total' <= MaxRows
      /\ Use(g) # "regions" => total' = total
      /\ Use(g) = "regions" => total' <= rows
  BY <1>5, RowsAssumption DEF Fail
<1>7. /\ disturbed' \in BOOLEAN
      /\ Use(g) = "count" => disturbed'
      /\ disturbed => disturbed'
  <2>1. disturbed' = (disturbed \/ Use(g) = "count") /\ disturbed \in BOOLEAN
    BY DEF Fail, TypeOK
  <2> QED
    BY <2>1
<1>8. TypeOK'
  <2>1. {rows', total', readable'} \subseteq 0 .. MaxRows
    BY <1>5, <1>6, RowsAssumption
  <2>2. ctxDone' \in BOOLEAN
    BY <1>5 DEF TypeOK
  <2> QED
    BY <1>4, <1>7, <2>1, <2>2 DEF TypeOK, PoolInOrder
<1>9. TickOrder' /\ NoPhantomLoss'
  <2>1. CASE g = Pump
    <3>1. \/ Use(g) = "view" /\ Tail(todo[g]) = <<"regions", "count">>
          \/ Use(g) = "regions" /\ Tail(todo[g]) = <<"count">>
          \/ todo[g] = <<"count">> /\ Use(g) = "count" /\ Tail(todo[g]) = <<>>
      <4>1. CASE todo[g] = PumpReads
        BY <4>1 DEF PumpReads, Use
      <4>2. CASE todo[g] = <<"regions", "count">>
        BY <4>2 DEF Use
      <4>3. CASE todo[g] = <<"count">>
        BY <4>3 DEF Use
      <4> QED
        BY <1>1, <2>1, <4>1, <4>2, <4>3 DEF TickOrder
    <3>2. uses = Tail(todo[g])
      BY <2>1 DEF uses
    <3>3. /\ todo'[Pump] = uses
          /\ at'[Pump] = IF uses # <<>> THEN "wait" ELSE "read"
      BY <1>2, <2>1 DEF Continue, TypeOK
    <3>4. CASE Use(g) = "view" /\ uses = <<"regions", "count">>
      BY <3>3, <3>4 DEF TickOrder, NoPhantomLoss
    <3>5. CASE Use(g) = "regions" /\ uses = <<"count">>
      BY <3>3, <3>5, <1>5, <1>6 DEF TickOrder, NoPhantomLoss
    <3>6. CASE Use(g) = "count" /\ uses = <<>>
      BY <3>3, <3>6, <1>7 DEF TickOrder, NoPhantomLoss
    <3> QED
      BY <3>1, <3>2, <3>4, <3>5, <3>6
  <2>2. CASE g # Pump
    <3>1. Pump \in Goroutines /\ todo'[Pump] = todo[Pump] /\ at'[Pump] = at[Pump]
      BY <1>2, <2>2 DEF Continue, TypeOK, Goroutines
    <3>2. Use(g) \in HandlerUses
      BY <1>1, <2>2 DEF HandlersAnswer, Goroutines, Use
    <3>3. total' = total /\ readable' = readable /\ rows' = rows
      BY <3>2, <1>5, <1>6 DEF HandlerUses
    <3>4. todo[Pump] = <<"count">> => total <= rows \/ disturbed
      BY DEF TickOrder
    <3> QED
      BY <3>1, <3>3, <3>4, <1>7 DEF TickOrder, NoPhantomLoss
  <2> QED
    BY <2>1, <2>2
<1>10. HandlersAnswer'
  <2> SUFFICES ASSUME NEW h \in Handlers PROVE todo'[h] \in Seq(HandlerUses)
    BY DEF HandlersAnswer
  <2>1. CASE h = g
    <3>1. uses = <<>> /\ <<>> \in Seq(HandlerUses)
      BY <2>1, NamesAssumption DEF uses
    <3> QED
      BY <1>2, <2>1, <3>1 DEF Continue, TypeOK
  <2>2. CASE h # g
    BY <1>2, <2>2 DEF Continue, HandlersAnswer, TypeOK, Goroutines
  <2> QED
    BY <2>1, <2>2
<1> QED
  BY <1>4, <1>8, <1>9, <1>10 DEF PoolInOrder

-----------------------------------------------------------------------------
(* The steps that use no connection.                                       *)

LEMMA BroadcastInv ==
    ASSUME Inv, Broadcast
    PROVE  Inv'
<1> USE DEF Inv, Broadcast
<1>1. TypeOK'
  <2>1. {rows', total', readable'} \subseteq 0 .. MaxRows
    BY RowsAssumption DEF TypeOK
  <2> QED
    BY <2>1 DEF TypeOK, Goroutines
<1>2. Places' /\ HandlersAnswer' /\ ClusterViewAllowed'
  BY DEF TypeOK, Places, HandlersAnswer, ClusterViewAllowed, Goroutines
<1>3. TickOrder' /\ NoPhantomLoss'
  BY DEF TypeOK, Places, TickOrder, NoPhantomLoss, Goroutines
<1> QED
  BY <1>1, <1>2, <1>3

LEMMA PumpReturnsInv ==
    ASSUME Inv, PumpReturns
    PROVE  Inv'
<1> USE DEF Inv, PumpReturns, snap
<1>1. TypeOK'
  BY DEF TypeOK, Goroutines
<1>2. Places' /\ HandlersAnswer' /\ ClusterViewAllowed'
  BY DEF TypeOK, Places, HandlersAnswer, ClusterViewAllowed, Goroutines
<1>3. TickOrder' /\ NoPhantomLoss'
  BY DEF TypeOK, Places, TickOrder, NoPhantomLoss, Goroutines
<1> QED
  BY <1>1, <1>2, <1>3

LEMMA ExpireInv ==
    ASSUME Inv, Expire
    PROVE  Inv'
<1> USE DEF Inv, Expire, pool
<1>1. rows \in Nat /\ rows <= MaxRows /\ rows' \in Nat /\ rows' <= MaxRows
  BY RowsAssumption DEF TypeOK
<1>2. disturbed' \in BOOLEAN /\ (at[Pump] \notin {"rest", "returned"} => disturbed')
  OBVIOUS
<1>3. TypeOK'
  <2>1. {rows', total', readable'} \subseteq 0 .. MaxRows
    BY <1>1, RowsAssumption DEF TypeOK
  <2> QED
    BY <1>2, <2>1 DEF TypeOK
<1>4. Places' /\ HandlersAnswer' /\ ClusterViewAllowed'
  BY DEF Places, HandlersAnswer, ClusterViewAllowed
<1>5. TickOrder' /\ NoPhantomLoss'
  <2>1. todo[Pump] = <<"count">> => at[Pump] \notin {"rest", "returned"}
    BY DEF Places, Goroutines
  <2>2. TickOrder'
    BY <1>2, <2>1 DEF TickOrder
  <2>3. NoPhantomLoss'
    BY <1>2 DEF NoPhantomLoss
  <2> QED
    BY <2>2, <2>3
<1> QED
  BY <1>3, <1>4, <1>5

LEMMA RestartInv ==
    ASSUME Inv, Restart
    PROVE  Inv'
<1> USE DEF Inv, Restart
<1>1. TypeOK'
  <2>1. {rows', total', readable'} \subseteq 0 .. MaxRows
    BY RowsAssumption DEF TypeOK
  <2>2. <<>> \in Seq(Uses)
    OBVIOUS
  <2>3. \A g \in Goroutines : at'[g] = "rest" /\ held'[g] = {}
    OBVIOUS
  <2> QED
    BY <2>1, <2>2, <2>3 DEF TypeOK
<1>2. Places' /\ HandlersAnswer' /\ ClusterViewAllowed' /\ TickOrder' /\ NoPhantomLoss'
  BY DEF Places, HandlersAnswer, ClusterViewAllowed, TickOrder, NoPhantomLoss, Goroutines
<1> QED
  BY <1>1, <1>2

LEMMA StepInv == Inv /\ [Next]_vars => Inv'
<1> SUFFICES ASSUME Inv, [Next]_vars PROVE Inv'
  OBVIOUS
<1>1. ASSUME NEW h \in Handlers, NEW route \in Routes, Arrive(h, route) PROVE Inv'
  BY <1>1, ArriveInv
<1>2. ASSUME NEW g \in Goroutines, Take(g) PROVE Inv'
  BY <1>2, TakeInv
<1>3. ASSUME NEW g \in Goroutines, Statement(g) PROVE Inv'
  BY <1>3, SetInv, FinishInv, FailInv DEF Statement
<1>4. CASE ContextEnds
  BY <1>4 DEF Inv, ContextEnds, pool, snap, TypeOK, Places, HandlersAnswer,
              ClusterViewAllowed, TickOrder, NoPhantomLoss
<1>5. CASE UNCHANGED vars
  BY <1>5 DEF Inv, vars, TypeOK, Places, HandlersAnswer, ClusterViewAllowed, TickOrder,
              NoPhantomLoss
<1> QED
  BY <1>1, <1>2, <1>3, <1>4, <1>5, TickInv, BroadcastInv, PumpReturnsInv, ExpireInv,
     RestartInv DEF Next

-----------------------------------------------------------------------------
(* The theorems.                                                           *)

(* Whatever requests, failures and restarts there are, Inv is never left.  *)
THEOREM Invariance == Spec => []Inv
BY InitInv, StepInv, PTL DEF Spec

(* The connections of the pool: none is held by a goroutine that has       *)
(* nothing to do with it, and none by two, however the uses of it end.     *)
THEOREM PoolKept == Spec => []TypeOK
<1>1. Inv => TypeOK
  BY DEF Inv
<1> QED
  BY Invariance, <1>1, PTL

(* clusterNodes reads crdb_internal on the session its SET was made on,    *)
(* whatever other goroutines do between the two statements.                *)
THEOREM ViewAllowed == Spec => []ClusterViewAllowed
<1>1. Inv => ClusterViewAllowed
  BY DEF Inv
<1> QED
  BY Invariance, <1>1, PTL

(* hub.pump counts by region before it counts all: no number of rows, and  *)
(* of requests that add to them in between, makes the dashboard show a     *)
(* loss that an expired row or a failed read does not explain.             *)
THEOREM LossIsReal == Spec => []NoPhantomLoss
<1>1. Inv => NoPhantomLoss
  BY DEF Inv
<1> QED
  BY Invariance, <1>1, PTL

=============================================================================

------------------------- MODULE MEOrderBook_proof -------------------------
(***************************************************************************)
(* Theorems about MEOrderBook, MEOrderBookPriority and BookMirror, for     *)
(* every number of clients, orders, price levels, slots and for every      *)
(* sequence of requests: also for those that damage the list of price      *)
(* levels, where no condition on arrivals is stated.                       *)
(***************************************************************************)
EXTENDS MEOrderBookPriority, BookMirror, FiniteSetTheorems, SequenceTheorems,
        WellFoundedInduction, TLAPS

-----------------------------------------------------------------------------
\* The pools.

\* Among the free slots of a pool of n slots one is nearest to slot i.
LEMMA NearestFreeSlot ==
  ASSUME NEW n \in Nat \ {0}, NEW used, NEW i \in 0 .. n - 1, (0 .. n - 1) \ used # {}
  PROVE  \E j \in (0 .. n - 1) \ used : \A k \in (0 .. n - 1) \ used :
           (IF i <= j THEN j - i ELSE j - i + n) <= (IF i <= k THEN k - i ELSE k - i + n)
<1> DEFINE Free == (0 .. n - 1) \ used
           Dist(j) == IF i <= j THEN j - i ELSE j - i + n
           Dists == {Dist(j) : j \in Free}
<1>1. \A j \in Free : Dist(j) \in Nat
  OBVIOUS
<1>2. Dists \subseteq Nat /\ Dists # {}
  BY <1>1
<1> DEFINE Less == {ss \in Nat \X Nat : ss[1] < ss[2]}
<1>3. IsWellFoundedOn(Less, Nat)
  BY NatLessThanWellFounded DEF OpToRel
<1>4. \E x \in Dists : \A y \in Dists : x <= y
  <2>0. \A x, y \in Nat : x <= y \/ <<y, x>> \in Less
    OBVIOUS
  <2> HIDE DEF Less, Dists
  <2>1. \E x \in Dists : \A y \in Dists : ~(<<y, x>> \in Less)
    BY <1>2, <1>3, WFMin
  <2>2. QED
    BY <1>2, <2>0, <2>1
<1>5. PICK j \in Free : \A k \in Free : Dist(j) <= Dist(k)
  <2>1. PICK x \in Dists : \A y \in Dists : x <= y
    BY <1>4
  <2>2. PICK j \in Free : x = Dist(j)
    OBVIOUS
  <2>3. \A k \in Free : Dist(k) \in Dists
    OBVIOUS
  <2> QED
    BY <2>1, <2>2, <2>3
<1>6. QED
  BY <1>5

\* The search of a pool stops at a free slot when there is one.
LEMMA OrderPoolFree ==
  ASSUME NEW used, NEW i \in OrderSlots, OrderSlots \ used # {}
  PROVE  OrderPool!FirstFree(used, i) \in OrderSlots \ used
BY NearestFreeSlot, ConstantsAssumption
   DEF OrderSlots, OrderPool!FirstFree, OrderPool!Distance, OrderPool!Blocks

LEMMA LevelPoolFree ==
  ASSUME NEW used, NEW i \in LevelSlots, LevelSlots \ used # {}
  PROVE  LevelPool!FirstFree(used, i) \in LevelSlots \ used
BY NearestFreeSlot, ConstantsAssumption
   DEF LevelSlots, LevelPool!FirstFree, LevelPool!Distance, LevelPool!Blocks

-----------------------------------------------------------------------------
\* The inductive invariant.

\* The next slot of a pool is free.
PoolsReady == freeOrder \in OrderSlots \ usedOrders /\ freeLevel \in LevelSlots \ usedLevels

\* The order under way is younger than the resting ones; while the place of its
\* level is searched it is one of them.
CallOpen ==
  /\ pc \in {"match", "walk"} => nextMarketOrderId = agg.moid + 1
  /\ pc = "match" => \A o \in usedOrders : order[o].moid < agg.moid
  /\ pc = "walk" => /\ walk.order \in usedOrders
                    /\ order[walk.order].client = agg.client /\ order[walk.order].oid = agg.oid
                    /\ order[walk.order].moid = agg.moid

BookInv == FifoLists /\ LevelsIndexed /\ ClientMapSound /\ RestingOrdersOpen
IInv == TypeOK /\ BookInv /\ PoolsReady /\ CallOpen

\* The priority, index and id of a resting order are numbers.
LEMMA RestingNumbers ==
  ASSUME TypeOK, NEW o \in usedOrders
  PROVE  /\ order[o].prio \in Nat /\ order[o].moid \in Nat
         /\ order[o].price \in Nat /\ order[o].side \in Sides
         /\ order[o].client \in Clients /\ order[o].oid \in OrderIds
BY DEF TypeOK, OrderData

\* Every price has its index in the price map.
LEMMA IndicesInRange ==
  ASSUME TypeOK
  PROVE  /\ \A o \in usedOrders : PriceToIndex(order[o].price) \in PriceIndices
         /\ \A l \in usedLevels : PriceToIndex(level[l].price) \in PriceIndices
         /\ pc = "match" => AggIndex \in PriceIndices
<1>1. \A p \in Nat : PriceToIndex(p) \in PriceIndices
  BY ConstantsAssumption DEF PriceToIndex, PriceIndices
<1>2. \A l \in usedLevels : level[l].price \in Nat
  BY DEF TypeOK, LevelData
<1>3. pc = "match" => agg.price \in Nat
  BY DEF TypeOK, Aggressors
<1>4. QED
  BY <1>1, <1>2, <1>3, RestingNumbers DEF AggIndex

\* Before orders the resting orders of a level.
LEMMA BeforeOrders ==
  ASSUME TypeOK, NEW o \in usedOrders, NEW p \in usedOrders, NEW q \in usedOrders
  PROVE  /\ ~Before(o, o)
         /\ Before(o, p) => ~Before(p, o)
         /\ Before(o, p) /\ ~Before(q, p) => Before(o, q)
         /\ ~Before(p, o) /\ Before(p, q) => Before(o, q)
BY RestingNumbers DEF Before

\* An order whose ring holds only itself is alone under its index.
LEMMA AloneInRing ==
  ASSUME TypeOK, FifoLists, NEW o \in usedOrders, prevOrder[o] = o
  PROVE  \A p \in usedOrders : SameLevel(o, p) => p = o
<1> SUFFICES ASSUME NEW p \in usedOrders, SameLevel(o, p), p # o PROVE FALSE
  OBVIOUS
<1>1. nextOrder[o] = o /\ SameLevel(p, o)
  BY DEF FifoLists, SameLevel
<1>2. Before(o, p) \/ Before(p, o)
  BY DEF FifoLists
<1>3. Before(o, p) => Before(o, o)
  BY <1>1 DEF FifoLists
<1>4. Before(p, o) => Before(o, o)
  BY <1>1 DEF FifoLists
<1>5. QED
  BY <1>2, <1>3, <1>4, BeforeOrders

-----------------------------------------------------------------------------
\* removeOrder().

\* Removing the only order of a level, together with the level, keeps the lists.
LEMMA RemoveLastKeepsLists ==
  ASSUME TypeOK, FifoLists, LevelsIndexed, NEW o \in usedOrders,
         CanRemove(o), RemoveOrder(o), prevOrder[o] = o
  PROVE  FifoLists' /\ LevelsIndexed'
<1> DEFINE i == PriceToIndex(order[o].price)
           l == LevelOf(o)
<1>1. \A p \in usedOrders : SameLevel(o, p) => p = o
  BY AloneInRing
<1>2. /\ UNCHANGED <<order, prevOrder, nextOrder, level, firstOrder>>
      /\ usedOrders' = usedOrders \ {o}
      /\ usedLevels' = usedLevels \ {l}
      /\ priceMap' = [priceMap EXCEPT ![i] = nullptr]
  BY DEF RemoveOrder, ClearEntry, RemoveOrdersAtPrice
<1>3. i \in PriceIndices /\ l = priceMap[i] /\ l # nullptr /\ l \in usedLevels
  BY IndicesInRange DEF LevelsIndexed, LevelOf
<1>4. FifoLists'
  <2>1. \A p \in usedOrders : nextOrder[p] = o \/ prevOrder[p] = o => p = o
    BY <1>1 DEF FifoLists, SameLevel
  <2>2. QED
    BY <1>2, <2>1 DEF FifoLists, SameLevel, Before
<1>5. LevelsIndexed'
  <2>1. \A p \in usedOrders' : PriceToIndex(order[p].price) # i
    BY <1>1, <1>2 DEF SameLevel
  <2>2. \A m \in usedLevels' : PriceToIndex(level[m].price) # i
    BY <1>2, <1>3 DEF LevelsIndexed
  <2>3. \A j \in PriceIndices : priceMap'[j] = IF j = i THEN nullptr ELSE priceMap[j]
    BY <1>2, <1>3 DEF TypeOK
  <2>4. \A j \in PriceIndices \ {i} : priceMap[j] # nullptr =>
          priceMap[j] \in usedLevels' /\ firstOrder[priceMap[j]] \in usedOrders'
    BY <1>2, <1>3 DEF LevelsIndexed
  <2>5. QED
    BY <1>2, <2>1, <2>2, <2>3, <2>4 DEF LevelsIndexed, LevelOf, Before
<1>6. QED
  BY <1>4, <1>5

\* Taking an order out of the list of its level keeps the lists.
LEMMA UnlinkKeepsLists ==
  ASSUME TypeOK, FifoLists, LevelsIndexed, NEW o \in usedOrders,
         CanRemove(o), RemoveOrder(o), prevOrder[o] # o
  PROVE  FifoLists' /\ LevelsIndexed'
<1> DEFINE b == prevOrder[o]
           a == nextOrder[o]
           l == LevelOf(o)
<1>1. /\ UNCHANGED <<order, level, priceMap, usedLevels>>
      /\ usedOrders' = usedOrders \ {o}
      /\ UnlinkOrder(o, l)
  BY DEF RemoveOrder, ClearEntry
<1>2. /\ a \in usedOrders \ {o} /\ b \in usedOrders \ {o}
      /\ SameLevel(o, a) /\ SameLevel(b, o) /\ nextOrder[b] = o /\ prevOrder[a] = o
  BY DEF FifoLists
<1>3. \A p \in usedOrders \ {o} :
        /\ nextOrder'[p] = IF p = b THEN a ELSE nextOrder[p]
        /\ prevOrder'[p] = IF p = a THEN b ELSE prevOrder[p]
  BY <1>1, <1>2 DEF UnlinkOrder, TypeOK
<1>4. \A p \in usedOrders : /\ nextOrder[p] = o => p = b
                            /\ prevOrder[p] = o => p = a
  BY DEF FifoLists
<1>5. FifoLists'
  <2>1. ASSUME NEW p \in usedOrders'
        PROVE  /\ nextOrder'[p] \in usedOrders' /\ SameLevel(p, nextOrder[p])'
               /\ prevOrder'[p] \in usedOrders'
               /\ prevOrder'[nextOrder'[p]] = p /\ nextOrder'[prevOrder'[p]] = p
    BY <1>1, <1>2, <1>3, <1>4, <2>1 DEF FifoLists, SameLevel
  <2>2. ASSUME NEW p \in usedOrders', NEW q \in usedOrders', SameLevel(p, q), Before(p, q)
        PROVE  /\ Before(p, nextOrder'[p]) /\ ~Before(q, nextOrder'[p])
               /\ Before(prevOrder'[q], q) /\ ~Before(prevOrder'[q], p)
    <3>1. p \in usedOrders /\ q \in usedOrders /\ p # o /\ q # o
      BY <1>1
    <3>2. Before(p, nextOrder'[p]) /\ ~Before(q, nextOrder'[p])
      <4>1. CASE p = b
        <5>1. Before(b, o) /\ ~Before(q, o) /\ SameLevel(q, o) /\ q # o
          BY <1>2, <2>2, <3>1, <4>1 DEF FifoLists, SameLevel
        <5>2. Before(o, q) /\ SameLevel(o, q)
          BY <3>1, <5>1 DEF FifoLists, SameLevel
        <5>3. Before(o, a) /\ ~Before(q, a)
          BY <3>1, <5>2 DEF FifoLists
        <5>4. Before(b, a)
          BY <1>2, <5>1, <5>3, BeforeOrders
        <5>5. QED
          BY <1>3, <3>1, <4>1, <5>3, <5>4
      <4>2. CASE p # b
        BY <1>3, <2>2, <3>1, <4>2 DEF FifoLists
      <4>3. QED
        BY <4>1, <4>2
    <3>3. Before(prevOrder'[q], q) /\ ~Before(prevOrder'[q], p)
      <4>1. CASE q = a
        <5>1. Before(o, a) /\ ~Before(o, p) /\ SameLevel(p, o) /\ p # o
          BY <1>2, <2>2, <3>1, <4>1 DEF FifoLists, SameLevel
        <5>2. Before(p, o)
          BY <3>1, <5>1 DEF FifoLists, SameLevel
        <5>3. Before(b, o) /\ ~Before(b, p)
          BY <3>1, <5>1, <5>2 DEF FifoLists
        <5>4. Before(b, a)
          BY <1>2, <5>1, <5>3, BeforeOrders
        <5>5. QED
          BY <1>3, <3>1, <4>1, <5>3, <5>4
      <4>2. CASE q # a
        BY <1>3, <2>2, <3>1, <4>2 DEF FifoLists
      <4>3. QED
        BY <4>1, <4>2
    <3>4. QED
      BY <3>2, <3>3
  <2>3. \A p, q \in usedOrders' : SameLevel(p, q) /\ p # q => Before(p, q) \/ Before(q, p)
    BY <1>1 DEF FifoLists
  <2>4. QED
    BY <1>1, <2>1, <2>2, <2>3 DEF FifoLists, SameLevel, Before
<1>6. LevelsIndexed'
  <2>1. l = priceMap[PriceToIndex(order[o].price)] /\ l # nullptr /\ l \in usedLevels
        /\ PriceToIndex(order[o].price) \in PriceIndices
    BY IndicesInRange DEF LevelsIndexed, LevelOf
  <2>2. \A m \in LevelSlots : firstOrder'[m] = IF m = l /\ firstOrder[l] = o THEN a ELSE firstOrder[m]
    BY <1>1, <2>1 DEF UnlinkOrder, TypeOK
  <2>3. ASSUME NEW p \in usedOrders', LevelOf(p) = l, firstOrder[l] = o
        PROVE  ~Before(p, a)
    <3>1. SameLevel(o, p) /\ p \in usedOrders /\ p # o
      <4>1. p \in usedOrders /\ p # o /\ PriceToIndex(order[p].price) \in PriceIndices
        BY <1>1, IndicesInRange
      <4>2. priceMap[PriceToIndex(order[p].price)] = l
        BY <2>3 DEF LevelOf
      <4>3. QED
        BY <2>1, <4>1, <4>2 DEF LevelsIndexed, SameLevel
    <3>2. ~Before(p, o)
      BY <3>1, <2>3 DEF LevelsIndexed
    <3>3. Before(o, p)
      BY <3>1, <3>2 DEF FifoLists, SameLevel
    <3>4. QED
      BY <3>1, <3>3 DEF FifoLists
  <2>4. ASSUME NEW p \in usedOrders'
        PROVE  /\ LevelOf(p)' # nullptr
               /\ ~Before(p, firstOrder[LevelOf(p)])'
    <3>1. LevelOf(p) \in LevelSlots /\ LevelOf(p)' = LevelOf(p) /\ p \in usedOrders
      BY <1>1, <2>4, IndicesInRange DEF LevelsIndexed, LevelOf, TypeOK
    <3>2. \A x : Before(p, x)' <=> Before(p, x)
      BY <1>1 DEF Before
    <3>3. ~Before(p, firstOrder'[LevelOf(p)])
      BY <2>2, <2>3, <2>4, <3>1 DEF LevelsIndexed
    <3>4. QED
      BY <1>1, <3>1, <3>3 DEF LevelsIndexed, Before
  <2>5. ASSUME NEW j \in PriceIndices, priceMap'[j] # nullptr
        PROVE  /\ priceMap'[j] \in usedLevels' /\ PriceToIndex(level'[priceMap'[j]].price) = j
               /\ firstOrder'[priceMap'[j]] \in usedOrders'
               /\ PriceToIndex(order'[firstOrder'[priceMap'[j]]].price) = j
    <3>1. priceMap[j] \in usedLevels /\ priceMap[j] \in LevelSlots
      BY <1>1, <2>5 DEF LevelsIndexed, TypeOK
    <3>2. QED
      BY <1>1, <1>2, <2>1, <2>2, <2>5, <3>1 DEF LevelsIndexed, SameLevel
  <2>6. QED
    BY <1>1, <2>4, <2>5 DEF LevelsIndexed
<1>7. QED
  BY <1>5, <1>6

\* The book after removeOrder() took out an order, whose quantity may have been
\* set to 0 before: the caller's variables do not matter.
LEMMA RemoveKeepsBook ==
  ASSUME IInv, NEW o \in usedOrders, CanRemove(o), RemoveOrder(o),
         nextMarketOrderId' = nextMarketOrderId,
         \A p \in usedOrders \ {o} : qty'[p] = qty[p]
  PROVE  BookInv' /\ PoolsReady'
<1> USE DEF IInv, BookInv
<1>1. FifoLists' /\ LevelsIndexed'
  BY RemoveLastKeepsLists, UnlinkKeepsLists
<1>2. usedOrders' = usedOrders \ {o} /\ order' = order
  BY DEF RemoveOrder, ClearEntry
<1>3. ClientMapSound'
  <2> SUFFICES ASSUME NEW c \in Clients, NEW id \in ValidIds, cidOid'[c][id] # nullptr
               PROVE  /\ cidOid'[c][id] \in usedOrders'
                      /\ order'[cidOid'[c][id]].client = c /\ order'[cidOid'[c][id]].oid = id
    BY DEF ClientMapSound
  <2>1. cidOid' = [cidOid EXCEPT ![order[o].client][order[o].oid] = nullptr]
    BY DEF RemoveOrder, ClearEntry
  <2>2. cidOid'[c][id] = IF c = order[o].client /\ id = order[o].oid THEN nullptr ELSE cidOid[c][id]
    BY <2>1 DEF TypeOK
  <2>3. QED
    BY <1>2, <2>2 DEF ClientMapSound
<1>4. RestingOrdersOpen'
  BY <1>2 DEF RestingOrdersOpen
<1>5. PoolsReady'
  BY <1>2 DEF PoolsReady, RemoveOrder, ClearEntry, RemoveOrdersAtPrice
<1>6. QED
  BY <1>1, <1>3, <1>4, <1>5

\* removeOrder() keeps every variable it changes to its values.
LEMMA RemoveKeepsTypes ==
  ASSUME TypeOK, LevelsIndexed, NEW o \in usedOrders, CanRemove(o), RemoveOrder(o)
  PROVE  /\ prevOrder' \in [OrderSlots -> OrderPtrs] /\ nextOrder' \in [OrderSlots -> OrderPtrs]
         /\ usedOrders' \subseteq usedOrders /\ freeOrder' = freeOrder
         /\ order' = order
         /\ firstOrder' \in [LevelSlots -> OrderPtrs]
         /\ prevEntry' \in [LevelSlots -> LevelPtrs] /\ nextEntry' \in [LevelSlots -> LevelPtrs]
         /\ usedLevels' \subseteq usedLevels /\ freeLevel' = freeLevel
         /\ best' \in [Sides -> LevelPtrs]
         /\ priceMap' \in [PriceIndices -> LevelPtrs]
         /\ cidOid' \in [Clients -> [ValidIds -> OrderPtrs]]
<1> DEFINE l == LevelOf(o)
<1>1. /\ l \in LevelSlots /\ o \in OrderSlots
      /\ prevEntry \in [LevelSlots -> LevelPtrs] /\ nextEntry \in [LevelSlots -> LevelPtrs]
      /\ best \in [Sides -> LevelPtrs] /\ priceMap \in [PriceIndices -> LevelPtrs]
  BY IndicesInRange DEF LevelsIndexed, LevelOf, TypeOK
<1>2. cidOid' \in [Clients -> [ValidIds -> OrderPtrs]]
  <2>1. cidOid' = [cidOid EXCEPT ![order[o].client][order[o].oid] = nullptr]
    BY DEF RemoveOrder, ClearEntry
  <2>2. QED
    BY <2>1 DEF TypeOK, OrderPtrs
<1>3. CASE prevOrder[o] = o
  <2>1. RemoveOrdersAtPrice(order[o].side, PriceToIndex(order[o].price), l)
        /\ UNCHANGED <<order, prevOrder, nextOrder, firstOrder, freeOrder, freeLevel>>
        /\ usedOrders' = usedOrders \ {o}
    BY <1>3 DEF RemoveOrder, ClearEntry
  <2>2. prevEntry' \in [LevelSlots -> LevelPtrs] /\ nextEntry' \in [LevelSlots -> LevelPtrs]
    BY <1>1, <2>1 DEF RemoveOrdersAtPrice, LevelPtrs
  <2>3. best' \in [Sides -> LevelPtrs] /\ priceMap' \in [PriceIndices -> LevelPtrs]
    BY <1>1, <2>1 DEF RemoveOrdersAtPrice, LevelPtrs
  <2>4. QED
    BY <1>1, <1>2, <2>1, <2>2, <2>3 DEF RemoveOrdersAtPrice, TypeOK
<1>4. CASE prevOrder[o] # o
  <2>1. UnlinkOrder(o, l)
        /\ UNCHANGED <<order, prevEntry, nextEntry, usedLevels, best, priceMap, freeOrder, freeLevel>>
        /\ usedOrders' = usedOrders \ {o}
    BY <1>4 DEF RemoveOrder, ClearEntry
  <2>2. QED
    BY <1>1, <1>2, <2>1 DEF UnlinkOrder, TypeOK, OrderPtrs
<1>5. QED
  BY <1>3, <1>4

-----------------------------------------------------------------------------
\* addOrder().

\* What AllocateOrder puts into the free slot.
LEMMA AllocatedOrder ==
  ASSUME IInv, pc = "match", leaves > 0, CanAllocateOrder, NEW l, AllocateOrder(l),
         NextPriority(l) \in Nat
  PROVE  /\ \A p \in usedOrders : order'[p] = order[p] /\ qty'[p] = qty[p]
         /\ usedOrders' = usedOrders \cup {freeOrder} /\ freeOrder \notin usedOrders
         /\ freeOrder \in OrderSlots /\ freeOrder' \in OrderSlots \ usedOrders'
         /\ qty' \in [OrderSlots -> Nat] /\ qty'[freeOrder] = leaves
         /\ order'[freeOrder] \in OrderData
         /\ order'[freeOrder].client = agg.client /\ order'[freeOrder].oid = agg.oid
         /\ order'[freeOrder].price = agg.price /\ order'[freeOrder].moid = agg.moid
         /\ order'[freeOrder].prio = NextPriority(l)
<1>1. agg \in Aggressors /\ leaves \in Nat /\ freeOrder \in OrderSlots \ usedOrders
      /\ usedOrders \subseteq OrderSlots
  BY DEF IInv, TypeOK, PoolsReady
<1>2. order' = [order EXCEPT ![freeOrder] =
                 [client |-> agg.client, oid |-> agg.oid, moid |-> agg.moid,
                  side |-> agg.side, price |-> agg.price, prio |-> NextPriority(l)]]
      /\ qty' = [qty EXCEPT ![freeOrder] = leaves]
      /\ usedOrders' = usedOrders \cup {freeOrder}
  BY DEF AllocateOrder
<1>3. freeOrder' \in OrderSlots \ usedOrders'
  BY <1>1, <1>2, OrderPoolFree DEF AllocateOrder, CanAllocateOrder
<1>4. order \in [OrderSlots -> OrderData \cup {NoOrder}] /\ qty \in [OrderSlots -> Nat]
  BY DEF IInv, TypeOK
<1>5. order'[freeOrder] =
                 [client |-> agg.client, oid |-> agg.oid, moid |-> agg.moid,
                  side |-> agg.side, price |-> agg.price, prio |-> NextPriority(l)]
  BY <1>1, <1>2, <1>4
<1>6. order'[freeOrder] \in OrderData
  BY <1>1, <1>5 DEF OrderData, Aggressors
<1>7. QED
  BY <1>1, <1>2, <1>3, <1>4, <1>5, <1>6

\* The tail of a level is its youngest order.
LEMMA TailIsYoungest ==
  ASSUME IInv, NEW i \in PriceIndices, priceMap[i] # nullptr
  PROVE  LET first == firstOrder[priceMap[i]]
             last == prevOrder[first]
         IN /\ first \in usedOrders /\ last \in usedOrders /\ nextOrder[last] = first
            /\ PriceToIndex(order[first].price) = i /\ PriceToIndex(order[last].price) = i
            /\ \A p \in usedOrders : PriceToIndex(order[p].price) = i =>
                 /\ ~Before(p, first)
                 /\ p # last => Before(p, last)
<1> DEFINE first == firstOrder[priceMap[i]]
           last == prevOrder[first]
<1> USE DEF IInv, BookInv
<1>1. first \in usedOrders /\ PriceToIndex(order[first].price) = i
  BY DEF LevelsIndexed
<1>2. last \in usedOrders /\ nextOrder[last] = first /\ PriceToIndex(order[last].price) = i
  BY <1>1 DEF FifoLists, SameLevel
<1>3. ASSUME NEW p \in usedOrders, PriceToIndex(order[p].price) = i
      PROVE  ~Before(p, first)
  BY <1>3 DEF LevelsIndexed, LevelOf
<1>4. ASSUME NEW p \in usedOrders, PriceToIndex(order[p].price) = i, p # last
      PROVE  Before(p, last)
  <2>1. SameLevel(last, p)
    BY <1>2, <1>4 DEF SameLevel
  <2>2. CASE Before(last, p)
    BY <1>2, <1>3, <2>1, <2>2 DEF FifoLists
  <2>3. QED
    BY <1>2, <1>4, <2>1, <2>2 DEF FifoLists
<1>5. QED
  BY <1>1, <1>2, <1>3, <1>4

\* An order at the end of its level keeps the lists.
LEMMA AppendKeepsLists ==
  ASSUME IInv, Rests, CanRest, priceMap[AggIndex] # nullptr, RestAtLevel
  PROVE  FifoLists' /\ LevelsIndexed'
<1> DEFINE l == priceMap[AggIndex]
           first == firstOrder[l]
           last == prevOrder[first]
           o == freeOrder
<1> USE DEF IInv, BookInv
<1>1. AggIndex \in PriceIndices /\ AggIndex = PriceToIndex(agg.price)
  BY IndicesInRange DEF Rests, AggIndex
<1>2. /\ first \in usedOrders /\ last \in usedOrders /\ nextOrder[last] = first
      /\ PriceToIndex(order[first].price) = AggIndex /\ PriceToIndex(order[last].price) = AggIndex
      /\ \A p \in usedOrders : PriceToIndex(order[p].price) = AggIndex =>
           ~Before(p, first) /\ (p # last => Before(p, last))
  BY <1>1, TailIsYoungest
<1>3. NextPriority(l) = order[last].prio + 1 /\ order[last].prio \in Nat
  BY <1>2, RestingNumbers DEF NextPriority
<1>4. /\ \A p \in usedOrders : order'[p] = order[p]
      /\ usedOrders' = usedOrders \cup {o} /\ o \notin usedOrders /\ o \in OrderSlots
      /\ order'[o].price = agg.price /\ order'[o].prio = order[last].prio + 1
  <2>1. pc = "match" /\ leaves > 0 /\ CanAllocateOrder
    BY DEF Rests, CanRest
  <2>2. AllocateOrder(l)
    BY DEF RestAtLevel
  <2>3. NextPriority(l) \in Nat
    BY <1>3
  <2>4. QED
    BY <1>3, <2>1, <2>2, <2>3, AllocatedOrder
<1>5. /\ UNCHANGED <<level, firstOrder, usedLevels, priceMap>>
      /\ nextOrder' = [nextOrder EXCEPT ![last] = o, ![o] = first]
      /\ prevOrder' = [prevOrder EXCEPT ![o] = last, ![first] = o]
  BY DEF RestAtLevel, levelVars
<1>6. /\ \A p \in usedOrders : /\ nextOrder'[p] = IF p = last THEN o ELSE nextOrder[p]
                               /\ prevOrder'[p] = IF p = first THEN o ELSE prevOrder[p]
      /\ nextOrder'[o] = first /\ prevOrder'[o] = last
  BY <1>2, <1>4, <1>5 DEF TypeOK
<1>7. /\ \A p \in usedOrders : order'[p].prio = order[p].prio /\ order[p].prio \in Nat
                               /\ order'[p].price = order[p].price
      /\ \A p \in usedOrders : PriceToIndex(order[p].price) = AggIndex =>
           order[p].prio < order'[o].prio /\ order[p].prio <= order[last].prio
      /\ order'[o].prio \in Nat /\ PriceToIndex(order'[o].price) = AggIndex
  <2>1. \A p \in usedOrders : PriceToIndex(order[p].price) = AggIndex => order[p].prio <= order[last].prio
    BY <1>2, RestingNumbers DEF Before
  <2>2. order'[o].prio = order[last].prio + 1 /\ order'[o].prio \in Nat
        /\ PriceToIndex(order'[o].price) = AggIndex
    BY <1>1, <1>3, <1>4
  <2>3. \A p \in usedOrders : order'[p] = order[p] /\ order[p].prio \in Nat
    BY <1>4, RestingNumbers
  <2>4. QED
    BY <1>3, <2>1, <2>2, <2>3
<1>8. \A p \in usedOrders : nextOrder[p] = first => p = last
  BY <1>2 DEF FifoLists
<1>9. \A p \in usedOrders : prevOrder[p] = last => p = first
  BY <1>2 DEF FifoLists
<1>10. FifoLists'
  <2>1. ASSUME NEW p \in usedOrders'
        PROVE  /\ nextOrder'[p] \in usedOrders' /\ SameLevel(p, nextOrder[p])'
               /\ prevOrder'[p] \in usedOrders'
               /\ prevOrder'[nextOrder'[p]] = p /\ nextOrder'[prevOrder'[p]] = p
    <3>1. CASE p = o
      <4>1. /\ nextOrder'[p] = first /\ prevOrder'[p] = last /\ first \in usedOrders' /\ last \in usedOrders'
            /\ prevOrder'[first] = o /\ nextOrder'[last] = o
        BY <1>2, <1>4, <1>6, <3>1
      <4>2. SameLevel(p, nextOrder[p])'
        BY <1>2, <1>4, <1>7, <3>1, <4>1 DEF SameLevel
      <4> QED
        BY <3>1, <4>1, <4>2
    <3>2. CASE p # o
      <4>1. p \in usedOrders
        BY <1>4, <3>2
      <4>2. /\ nextOrder[p] \in usedOrders /\ prevOrder[p] \in usedOrders
            /\ prevOrder[nextOrder[p]] = p /\ nextOrder[prevOrder[p]] = p
            /\ PriceToIndex(order[p].price) = PriceToIndex(order[nextOrder[p]].price)
        BY <4>1 DEF FifoLists, SameLevel
      <4>3. SameLevel(p, nextOrder[p])'
        BY <1>2, <1>6, <1>7, <4>1, <4>2 DEF SameLevel
      <4>4. prevOrder'[nextOrder'[p]] = p
        BY <1>2, <1>6, <1>8, <4>1, <4>2
      <4>5. nextOrder'[prevOrder'[p]] = p
        BY <1>2, <1>6, <1>9, <4>1, <4>2
      <4>6. QED
        BY <1>4, <1>6, <4>1, <4>2, <4>3, <4>4, <4>5
    <3>3. QED
      BY <3>1, <3>2
  <2>2. ASSUME NEW p \in usedOrders', NEW q \in usedOrders', SameLevel(p, q)', p # q
        PROVE  Before(p, q)' \/ Before(q, p)'
    BY <1>4, <1>7, <2>2 DEF FifoLists, SameLevel, Before
  <2>3. ASSUME NEW p \in usedOrders', NEW q \in usedOrders', SameLevel(p, q)', Before(p, q)'
        PROVE  /\ Before(p, nextOrder[p])' /\ ~Before(q, nextOrder[p])'
               /\ Before(prevOrder[q], q)' /\ ~Before(prevOrder[q], p)'
    <3>1. p # o /\ p \in usedOrders
      <4>1. CASE p = o
        <5>1. q \in usedOrders \/ q = o
          BY <1>4
        <5>2. PriceToIndex(order'[q].price) = AggIndex /\ order'[o].prio < order'[q].prio
          BY <1>7, <2>3, <4>1 DEF SameLevel, Before
        <5>3. QED
          BY <1>7, <5>1, <5>2
      <4>2. QED
        BY <1>4, <4>1
    <3>2. nextOrder[p] \in usedOrders
          /\ PriceToIndex(order[p].price) = PriceToIndex(order[nextOrder[p]].price)
      BY <3>1 DEF FifoLists, SameLevel
    <3>3. CASE q = o
      <4>1. PriceToIndex(order[p].price) = AggIndex
        BY <1>7, <2>3, <3>1, <3>3 DEF SameLevel
      <4>2. prevOrder'[q] = last /\ order'[last].prio < order'[q].prio
            /\ ~(order'[last].prio < order'[p].prio)
        BY <1>2, <1>6, <1>7, <3>1, <3>3, <4>1
      <4>3. CASE p = last
        BY <1>6, <1>7, <3>1, <3>3, <4>2, <4>3 DEF Before
      <4>4. CASE p # last
        <5>1. Before(p, last) /\ SameLevel(p, last)
          BY <1>2, <3>1, <4>1, <4>4 DEF SameLevel
        <5>2. Before(p, nextOrder[p])
          BY <1>2, <3>1, <5>1 DEF FifoLists
        <5>3. nextOrder'[p] = nextOrder[p] /\ order[nextOrder[p]].prio < order'[q].prio
          BY <1>6, <1>7, <3>1, <3>2, <3>3, <4>1, <4>4
        <5>4. QED
          BY <1>7, <3>1, <3>2, <3>3, <4>2, <5>2, <5>3 DEF Before
      <4>5. QED
        BY <4>3, <4>4
    <3>4. CASE q # o
      <4>1. q \in usedOrders /\ SameLevel(p, q) /\ Before(p, q)
        BY <1>4, <1>7, <2>3, <3>1, <3>4 DEF SameLevel, Before
      <4>2. p # last
        BY <1>2, <1>7, <3>1, <4>1 DEF SameLevel, Before
      <4>3. q # first
        BY <1>2, <3>1, <4>1 DEF SameLevel
      <4>4. nextOrder'[p] = nextOrder[p] /\ prevOrder'[q] = prevOrder[q]
            /\ prevOrder[q] \in usedOrders
        BY <1>6, <3>1, <4>1, <4>2, <4>3 DEF FifoLists
      <4>5. /\ Before(p, nextOrder[p]) /\ ~Before(q, nextOrder[p])
            /\ Before(prevOrder[q], q) /\ ~Before(prevOrder[q], p)
        BY <3>1, <4>1 DEF FifoLists
      <4>6. QED
        BY <1>7, <3>1, <3>2, <4>1, <4>4, <4>5 DEF Before
    <3>5. QED
      BY <3>3, <3>4
  <2>4. QED
    BY <2>1, <2>2, <2>3 DEF FifoLists, SameLevel, Before
<1>11. LevelsIndexed'
  <2>1. ASSUME NEW p \in usedOrders'
        PROVE  /\ LevelOf(p)' # nullptr
               /\ ~Before(p, firstOrder[LevelOf(p)])'
    <3>1. CASE p = o
      <4>1. LevelOf(p)' = l /\ firstOrder' = firstOrder
        BY <1>5, <1>7, <3>1 DEF LevelOf
      <4>2. ~(order'[p].prio < order'[first].prio)
        BY <1>2, <1>7, <3>1
      <4>3. QED
        BY <1>1, <1>7, <3>1, <4>1, <4>2 DEF Before
    <3>2. CASE p # o
      <4>1. p \in usedOrders /\ LevelOf(p)' = LevelOf(p)
        BY <1>4, <1>5, <1>7, <3>2 DEF LevelOf
      <4>2. firstOrder[LevelOf(p)] \in usedOrders /\ LevelOf(p) # nullptr
            /\ ~Before(p, firstOrder[LevelOf(p)])
        BY <4>1, IndicesInRange DEF LevelsIndexed, LevelOf
      <4>3. QED
        BY <1>5, <1>7, <4>1, <4>2 DEF Before
    <3>3. QED
      BY <3>1, <3>2
  <2>2. QED
    BY <1>4, <1>5, <1>7, <2>1 DEF LevelsIndexed, LevelOf, Before
<1>12. QED
  BY <1>10, <1>11

\* A level with one new order, under an index that had none, keeps the lists.
LEMMA OpenLevelKeepsLists ==
  ASSUME IInv, Rests, CanRest, priceMap[AggIndex] = nullptr,
         AllocateOrder(nullptr), LinkAlone(freeOrder), AllocateLevel
  PROVE  /\ FifoLists' /\ LevelsIndexed'
         /\ freeLevel' \in LevelSlots \ usedLevels'
         /\ firstOrder' \in [LevelSlots -> OrderPtrs] /\ usedLevels' \subseteq LevelSlots
         /\ priceMap' \in [PriceIndices -> LevelPtrs]
         /\ level' \in [LevelSlots -> LevelData \cup {NoLevel}]
         /\ \A m \in usedLevels' : level'[m] \in LevelData
<1> DEFINE o == freeOrder
           l == freeLevel
<1> USE DEF IInv, BookInv
<1>1. AggIndex \in PriceIndices /\ AggIndex = PriceToIndex(agg.price) /\ agg \in Aggressors
      /\ nullptr \notin LevelSlots /\ nullptr \notin OrderSlots
  BY ConstantsAssumption, IndicesInRange DEF AggIndex, Rests, TypeOK, LevelSlots, OrderSlots
<1>2. NextPriority(nullptr) = 1
  BY DEF NextPriority
<1>3. /\ \A p \in usedOrders : order'[p] = order[p]
      /\ usedOrders' = usedOrders \cup {o} /\ o \notin usedOrders /\ o \in OrderSlots
      /\ order'[o].price = agg.price /\ order'[o].prio = 1
  BY <1>1, <1>2, AllocatedOrder DEF Rests, CanRest
<1>4. /\ \A p \in usedOrders : nextOrder'[p] = nextOrder[p] /\ prevOrder'[p] = prevOrder[p]
      /\ nextOrder'[o] = o /\ prevOrder'[o] = o
  BY <1>3 DEF LinkAlone, TypeOK
<1>5. l \in LevelSlots \ usedLevels
  BY DEF PoolsReady
<1>6. /\ level' = [level EXCEPT ![l] = [side |-> agg.side, price |-> agg.price]]
      /\ firstOrder' = [firstOrder EXCEPT ![l] = o]
      /\ usedLevels' = usedLevels \cup {l}
      /\ priceMap' = [priceMap EXCEPT ![AggIndex] = l]
  BY DEF AllocateLevel
<1>7. /\ \A m \in usedLevels : level'[m] = level[m] /\ firstOrder'[m] = firstOrder[m]
      /\ level'[l].price = agg.price /\ firstOrder'[l] = o
      /\ \A j \in PriceIndices : priceMap'[j] = IF j = AggIndex THEN l ELSE priceMap[j]
  BY <1>1, <1>5, <1>6 DEF TypeOK
<1>8. \A p \in usedOrders : PriceToIndex(order[p].price) # AggIndex
  BY <1>1 DEF LevelsIndexed, LevelOf
<1>9. FifoLists'
  <2>1. \A p \in usedOrders : /\ nextOrder[p] \in usedOrders /\ prevOrder[p] \in usedOrders
                              /\ order'[p].price = order[p].price
                              /\ order'[p].prio = order[p].prio
    BY <1>3 DEF FifoLists
  <2>2. PriceToIndex(order'[o].price) = AggIndex
    BY <1>1, <1>3
  <2>3. ASSUME NEW p \in usedOrders'
        PROVE  /\ nextOrder'[p] \in usedOrders' /\ SameLevel(p, nextOrder[p])'
               /\ prevOrder'[p] \in usedOrders'
               /\ prevOrder'[nextOrder'[p]] = p /\ nextOrder'[prevOrder'[p]] = p
    BY <1>3, <1>4, <2>1 DEF FifoLists, SameLevel
  <2>4. ASSUME NEW p \in usedOrders', NEW q \in usedOrders', SameLevel(p, q)', p # q
        PROVE  /\ p \in usedOrders /\ q \in usedOrders /\ SameLevel(p, q)
               /\ Before(p, q)' <=> Before(p, q)
               /\ Before(p, q)' \/ Before(q, p)'
    <3>1. p \in usedOrders /\ q \in usedOrders
      BY <1>3, <1>8, <2>1, <2>2, <2>4 DEF SameLevel
    <3>2. QED
      BY <2>1, <2>4, <3>1 DEF FifoLists, SameLevel, Before
  <2>5. ASSUME NEW p \in usedOrders', NEW q \in usedOrders', SameLevel(p, q)', Before(p, q)'
        PROVE  /\ Before(p, nextOrder[p])' /\ ~Before(q, nextOrder[p])'
               /\ Before(prevOrder[q], q)' /\ ~Before(prevOrder[q], p)'
    <3>1. p # q
      <4>1. CASE p = o
        BY <1>3, <2>5, <4>1 DEF Before
      <4>2. CASE p # o
        BY <1>3, <2>1, <2>5, <4>2, RestingNumbers DEF Before
      <4>3. QED
        BY <4>1, <4>2
    <3>2. p \in usedOrders /\ q \in usedOrders /\ SameLevel(p, q) /\ Before(p, q)
      BY <2>4, <2>5, <3>1
    <3>3. /\ Before(p, nextOrder[p]) /\ ~Before(q, nextOrder[p])
          /\ Before(prevOrder[q], q) /\ ~Before(prevOrder[q], p)
      BY <3>2 DEF FifoLists
    <3>4. QED
      BY <1>4, <2>1, <3>2, <3>3 DEF Before
  <2>6. QED
    BY <2>3, <2>4, <2>5 DEF FifoLists, SameLevel, Before
<1>10. LevelsIndexed'
  <2>1. ASSUME NEW m \in usedLevels'
        PROVE  /\ PriceToIndex(level'[m].price) \in PriceIndices
               /\ priceMap'[PriceToIndex(level'[m].price)] = m
    <3>1. CASE m = l
      BY <1>1, <1>7, <3>1
    <3>2. CASE m # l
      <4>1. m \in usedLevels /\ level'[m] = level[m]
        BY <1>6, <1>7, <3>2
      <4>2. PriceToIndex(level[m].price) \in PriceIndices /\ priceMap[PriceToIndex(level[m].price)] = m
            /\ m # nullptr
        BY <1>1, <4>1, IndicesInRange DEF LevelsIndexed, TypeOK
      <4>3. QED
        BY <1>7, <4>1, <4>2
    <3>3. QED
      BY <3>1, <3>2
  <2>2. ASSUME NEW j \in PriceIndices, priceMap'[j] # nullptr
        PROVE  /\ priceMap'[j] \in usedLevels' /\ PriceToIndex(level'[priceMap'[j]].price) = j
               /\ firstOrder'[priceMap'[j]] \in usedOrders'
               /\ PriceToIndex(order'[firstOrder'[priceMap'[j]]].price) = j
    BY <1>1, <1>3, <1>6, <1>7, <2>2 DEF LevelsIndexed
  <2>3. ASSUME NEW p \in usedOrders'
        PROVE  /\ PriceToIndex(order'[p].price) \in PriceIndices
               /\ priceMap'[PriceToIndex(order'[p].price)] # nullptr
               /\ ~(order'[p].prio < order'[firstOrder'[priceMap'[PriceToIndex(order'[p].price)]]].prio)
    <3>1. CASE p = o
      BY <1>1, <1>3, <1>5, <1>7, <3>1
    <3>2. CASE p # o
      <4>1. p \in usedOrders /\ PriceToIndex(order[p].price) # AggIndex /\ order'[p] = order[p]
        BY <1>3, <1>8, <3>2
      <4>2. /\ PriceToIndex(order[p].price) \in PriceIndices
            /\ LevelOf(p) # nullptr /\ LevelOf(p) \in usedLevels
            /\ firstOrder[LevelOf(p)] \in usedOrders
            /\ ~(order[p].prio < order[firstOrder[LevelOf(p)]].prio)
        BY <4>1, IndicesInRange DEF LevelsIndexed, LevelOf, Before
      <4>3. priceMap'[PriceToIndex(order[p].price)] = LevelOf(p)
        BY <1>7, <4>1, <4>2 DEF LevelOf
      <4>4. QED
        BY <1>3, <1>7, <4>1, <4>2, <4>3
    <3>3. QED
      BY <3>1, <3>2
  <2>4. QED
    BY <2>1, <2>2, <2>3 DEF LevelsIndexed, LevelOf, Before
<1>11. freeLevel' \in LevelSlots \ usedLevels'
  <2>1. usedLevels \cup {l} # LevelSlots /\ usedLevels \cup {l} \subseteq LevelSlots
    BY <1>5 DEF CanRest, CanAllocateLevel, TypeOK
  <2>2. LevelPool!FirstFree(usedLevels \cup {l}, l) \in LevelSlots \ (usedLevels \cup {l})
    BY <1>5, <2>1, LevelPoolFree
  <2>3. QED
    BY <1>6, <2>2 DEF AllocateLevel
<1>12. /\ firstOrder' \in [LevelSlots -> OrderPtrs] /\ usedLevels' \subseteq LevelSlots
       /\ priceMap' \in [PriceIndices -> LevelPtrs]
       /\ level' \in [LevelSlots -> LevelData \cup {NoLevel}]
       /\ \A m \in usedLevels' : level'[m] \in LevelData
  <2>1. firstOrder' \in [LevelSlots -> OrderPtrs] /\ usedLevels' \subseteq LevelSlots
    BY <1>3, <1>5, <1>6 DEF TypeOK, OrderPtrs
  <2>2. priceMap' \in [PriceIndices -> LevelPtrs]
    BY <1>1, <1>5, <1>6 DEF TypeOK, LevelPtrs
  <2>3. [side |-> agg.side, price |-> agg.price] \in LevelData
    BY <1>1 DEF Aggressors, LevelData
  <2>4. /\ level' \in [LevelSlots -> LevelData \cup {NoLevel}]
        /\ \A m \in usedLevels' : level'[m] \in LevelData
    BY <1>5, <1>6, <1>7, <2>3 DEF TypeOK
  <2>5. QED
    BY <2>1, <2>2, <2>4
<1>13. QED
  BY <1>9, <1>10, <1>11, <1>12

\* A new order is open, has an id of its own and keeps the other orders.
LEMMA AllocateKeepsOrders ==
  ASSUME IInv, Rests, CanRest, NEW l, AllocateOrder(l), NextPriority(l) \in Nat,
         nextMarketOrderId' = nextMarketOrderId
  PROVE  /\ RestingOrdersOpen'
         /\ order' \in [OrderSlots -> OrderData \cup {NoOrder}]
         /\ \A p \in usedOrders' : order'[p] \in OrderData
         /\ qty' \in [OrderSlots -> Nat] /\ usedOrders' \subseteq OrderSlots
         /\ freeOrder' \in OrderSlots \ usedOrders'
<1>1. /\ \A p \in usedOrders : order'[p] = order[p] /\ qty'[p] = qty[p]
      /\ usedOrders' = usedOrders \cup {freeOrder} /\ freeOrder \notin usedOrders
      /\ freeOrder \in OrderSlots /\ freeOrder' \in OrderSlots \ usedOrders'
      /\ qty' \in [OrderSlots -> Nat] /\ qty'[freeOrder] = leaves
      /\ order'[freeOrder] \in OrderData /\ order'[freeOrder].moid = agg.moid
  BY AllocatedOrder DEF Rests, CanRest
<1>2. /\ \A p \in usedOrders : order[p] \in OrderData /\ order[p].moid < agg.moid
      /\ nextMarketOrderId = agg.moid + 1 /\ agg.moid \in Nat /\ leaves > 0
      /\ usedOrders \subseteq OrderSlots
  BY DEF IInv, CallOpen, Rests, TypeOK, Aggressors
<1>3. RestingOrdersOpen'
  <2>1. \A p \in usedOrders : order[p].moid \in Nat
    BY RestingNumbers DEF IInv
  <2>2. QED
    BY <1>1, <1>2, <2>1 DEF IInv, BookInv, RestingOrdersOpen
<1>4. order' \in [OrderSlots -> OrderData \cup {NoOrder}]
  <2>1. order' = [order EXCEPT ![freeOrder] = order'[freeOrder]]
    BY <1>1 DEF AllocateOrder, IInv, TypeOK
  <2>2. QED
    BY <1>1, <2>1 DEF IInv, TypeOK
<1>5. QED
  BY <1>1, <1>2, <1>3, <1>4

\* The entry of a new order in its client's map is sound.
LEMMA PublishKeepsMap ==
  ASSUME IInv, pc \in {"match", "walk"}, agg.oid \in ValidIds,
         NEW o, NEW q, NEW prio, Publish(o, q, prio),
         usedOrders \subseteq usedOrders', o \in usedOrders', o \in OrderSlots,
         \A p \in usedOrders : order'[p] = order[p],
         order'[o].client = agg.client, order'[o].oid = agg.oid
  PROVE  /\ ClientMapSound' /\ cidOid' \in [Clients -> [ValidIds -> OrderPtrs]]
         /\ pc' = "idle" /\ leaves' \in Nat
<1>1. agg.client \in Clients /\ cidOid \in [Clients -> [ValidIds -> OrderPtrs]]
  BY DEF IInv, TypeOK, Aggressors
<1>2. cidOid' = [cidOid EXCEPT ![agg.client][agg.oid] = o] /\ pc' = "idle" /\ leaves' = 0
  BY DEF Publish, Return
<1>3. \A c \in Clients, id \in ValidIds :
        cidOid'[c][id] = IF c = agg.client /\ id = agg.oid THEN o ELSE cidOid[c][id]
  BY <1>1, <1>2
<1>4. cidOid' \in [Clients -> [ValidIds -> OrderPtrs]]
  BY <1>1, <1>2 DEF OrderPtrs
<1>5. ClientMapSound'
  BY <1>3 DEF IInv, BookInv, ClientMapSound
<1>6. QED
  BY <1>2, <1>4, <1>5

-----------------------------------------------------------------------------
\* The steps.

\* A book that was just constructed satisfies the invariant.
LEMMA InitIInv == Init => IInv
<1> SUFFICES ASSUME Init PROVE IInv
  OBVIOUS
<1>1. 0 \in OrderSlots /\ 0 \in LevelSlots
  BY ConstantsAssumption DEF OrderSlots, LevelSlots
<1>2. TypeOK
  BY <1>1 DEF Init, TypeOK, OrderPtrs, LevelPtrs
<1>3. BookInv
  BY DEF Init, BookInv, FifoLists, LevelsIndexed, ClientMapSound, RestingOrdersOpen
<1>4. PoolsReady /\ CallOpen
  BY <1>1 DEF Init, PoolsReady, CallOpen
<1>5. QED
  BY <1>2, <1>3, <1>4 DEF IInv

\* The quantity checkForMatch() starts from is a quantity.
LEMMA InitialLeavesNat ==
  ASSUME NEW m \in Nat, NEW q
  PROVE  InitialLeaves(m, q) \in Nat
BY ConstantsAssumption DEF InitialLeaves

\* A step that ends the process changes no order and no level.
LEMMA HaltStep == IInv /\ Halt => IInv'
BY DEF IInv, TypeOK, BookInv, FifoLists, LevelsIndexed, ClientMapSound, RestingOrdersOpen,
       PoolsReady, CallOpen, Halt, orderVars, levelVars, indexVars, SameLevel, Before, LevelOf

\* The start of add().
LEMMA AcceptStep ==
  ASSUME IInv, NEW c \in Clients, NEW id \in OrderIds, NEW s \in Sides, NEW p \in Prices,
         NEW q \in Quantities, Accept(c, id, s, p, q)
  PROVE  IInv'
<1>1. /\ UNCHANGED <<orderVars, levelVars, indexVars, walk>>
      /\ nextMarketOrderId' = nextMarketOrderId + 1 /\ nextMarketOrderId \in Nat
      /\ agg' = [client |-> c, oid |-> id, moid |-> nextMarketOrderId, side |-> s,
                 price |-> p, qty |-> q]
      /\ leaves' = InitialLeaves(nextMarketOrderId, q) /\ pc' = "match"
  BY DEF Accept, IInv, TypeOK
<1>2. agg' \in Aggressors /\ leaves' \in Nat
  BY <1>1, InitialLeavesNat, ConstantsAssumption DEF Aggressors
<1>3. TypeOK'
  BY <1>1, <1>2 DEF IInv, TypeOK, orderVars, levelVars, indexVars
<1>4. FifoLists' /\ LevelsIndexed' /\ ClientMapSound'
  BY <1>1 DEF IInv, BookInv, FifoLists, LevelsIndexed, ClientMapSound,
              orderVars, levelVars, indexVars, SameLevel, Before, LevelOf
<1>5. RestingOrdersOpen'
  <2>1. \A o \in usedOrders : order[o].moid \in Nat
    BY RestingNumbers DEF IInv
  <2>2. QED
    BY <1>1, <2>1 DEF IInv, BookInv, RestingOrdersOpen, orderVars
<1>6. PoolsReady' /\ CallOpen'
  BY <1>1 DEF IInv, BookInv, RestingOrdersOpen, PoolsReady, CallOpen, orderVars, levelVars
<1>7. QED
  BY <1>3, <1>4, <1>5, <1>6 DEF IInv, BookInv

\* match() of a part of the passive order.
LEMMA MatchPartlyStep == IInv /\ MatchPartly => IInv'
<1> SUFFICES ASSUME IInv, MatchPartly PROVE IInv'
  OBVIOUS
<1> DEFINE o == Passive
<1>1. /\ UNCHANGED <<order, prevOrder, nextOrder, usedOrders, freeOrder, levelVars, indexVars,
                     nextMarketOrderId, pc, agg, walk>>
      /\ qty' = [qty EXCEPT ![o] = qty[o] - leaves] /\ leaves < qty[o] /\ leaves' = 0
  BY DEF MatchPartly
<1>2. /\ qty' \in [OrderSlots -> Nat]
      /\ \A p \in OrderSlots : qty[p] > 0 => qty'[p] > 0
  <2>1. qty \in [OrderSlots -> Nat] /\ leaves \in Nat
    BY DEF IInv, TypeOK
  <2>2. o \in OrderSlots => qty[o] \in Nat /\ qty[o] - leaves \in Nat /\ qty[o] - leaves > 0
    BY <1>1, <2>1
  <2>3. QED
    BY <1>1, <2>1, <2>2
<1>3. TypeOK'
  BY <1>1, <1>2 DEF IInv, TypeOK, levelVars, indexVars
<1>4. BookInv'
  BY <1>1, <1>2 DEF IInv, TypeOK, BookInv, FifoLists, LevelsIndexed, ClientMapSound,
     RestingOrdersOpen, levelVars, indexVars, SameLevel, Before, LevelOf
<1>5. PoolsReady' /\ CallOpen'
  BY <1>1 DEF IInv, PoolsReady, CallOpen, levelVars
<1>6. QED
  BY <1>3, <1>4, <1>5 DEF IInv

\* match() of the whole passive order.
LEMMA MatchFullyStep == IInv /\ MatchFully => IInv'
<1> SUFFICES ASSUME IInv, MatchFully PROVE IInv'
  OBVIOUS
<1> DEFINE o == Passive
<1>1. /\ UNCHANGED <<nextMarketOrderId, pc, agg, walk>>
      /\ CanRemove(o) /\ RemoveOrder(o) /\ pc = "match"
      /\ qty[o] <= leaves /\ leaves' = leaves - qty[o] /\ qty' = [qty EXCEPT ![o] = 0]
  BY DEF MatchFully
<1>2. o \in usedOrders /\ o \in OrderSlots
  BY <1>1 DEF CanRemove, IInv, TypeOK
<1>3. leaves' \in Nat /\ qty' \in [OrderSlots -> Nat]
      /\ \A p \in usedOrders \ {o} : qty'[p] = qty[p]
  BY <1>1, <1>2 DEF IInv, TypeOK
<1>4. BookInv' /\ PoolsReady'
  BY <1>1, <1>2, <1>3, RemoveKeepsBook
<1>5. TypeOK'
  <2>1. LevelsIndexed
    BY DEF IInv, BookInv
  <2>2. /\ prevOrder' \in [OrderSlots -> OrderPtrs] /\ nextOrder' \in [OrderSlots -> OrderPtrs]
        /\ usedOrders' \subseteq usedOrders /\ freeOrder' = freeOrder /\ order' = order
        /\ firstOrder' \in [LevelSlots -> OrderPtrs]
        /\ prevEntry' \in [LevelSlots -> LevelPtrs] /\ nextEntry' \in [LevelSlots -> LevelPtrs]
        /\ usedLevels' \subseteq usedLevels /\ freeLevel' = freeLevel
        /\ best' \in [Sides -> LevelPtrs] /\ priceMap' \in [PriceIndices -> LevelPtrs]
        /\ cidOid' \in [Clients -> [ValidIds -> OrderPtrs]]
    BY <1>1, <1>2, <2>1, RemoveKeepsTypes DEF IInv
  <2>3. level' = level
    BY <1>1 DEF RemoveOrder, ClearEntry
  <2>4. QED
    BY <1>1, <1>3, <2>2, <2>3 DEF IInv, TypeOK
<1>6. CallOpen'
  BY <1>1 DEF IInv, CallOpen, RemoveOrder, ClearEntry
<1>7. QED
  BY <1>4, <1>5, <1>6 DEF IInv

\* add() returns after its order was filled.
LEMMA FilledStep == IInv /\ Filled => IInv'
BY DEF IInv, TypeOK, BookInv, FifoLists, LevelsIndexed, ClientMapSound, RestingOrdersOpen,
       PoolsReady, CallOpen, Filled, Return, orderVars, levelVars, indexVars, SameLevel,
       Before, LevelOf

\* The order joins a level.
LEMMA RestAtLevelStep == IInv /\ RestAtLevel => IInv'
<1> SUFFICES ASSUME IInv, RestAtLevel PROVE IInv'
  OBVIOUS
<1> DEFINE l == priceMap[AggIndex]
           first == firstOrder[l]
           o == freeOrder
<1>1. /\ Rests /\ CanRest /\ l # nullptr /\ AllocateOrder(l)
      /\ nextOrder' = [nextOrder EXCEPT ![prevOrder[first]] = o, ![o] = first]
      /\ prevOrder' = [prevOrder EXCEPT ![o] = prevOrder[first], ![first] = o]
      /\ Publish(o, leaves, NextPriority(l))
      /\ UNCHANGED <<levelVars, best, priceMap, nextMarketOrderId>>
  BY DEF RestAtLevel
<1>2. /\ AggIndex \in PriceIndices /\ pc = "match" /\ leaves > 0 /\ CanAllocateOrder
      /\ agg.oid \in ValidIds
  BY <1>1, IndicesInRange DEF CanRest, Rests, IInv
<1>3. first \in usedOrders /\ prevOrder[first] \in usedOrders
  BY <1>1, <1>2, TailIsYoungest
<1>4. NextPriority(l) \in Nat
  BY <1>1, <1>3, RestingNumbers DEF NextPriority, IInv
<1>5. FifoLists' /\ LevelsIndexed'
  BY <1>1, AppendKeepsLists
<1>6. /\ RestingOrdersOpen'
      /\ order' \in [OrderSlots -> OrderData \cup {NoOrder}]
      /\ \A p \in usedOrders' : order'[p] \in OrderData
      /\ qty' \in [OrderSlots -> Nat] /\ usedOrders' \subseteq OrderSlots
      /\ freeOrder' \in OrderSlots \ usedOrders'
  BY <1>1, <1>4, AllocateKeepsOrders
<1>7. /\ \A p \in usedOrders : order'[p] = order[p]
      /\ usedOrders' = usedOrders \cup {o} /\ o \in OrderSlots
      /\ order'[o].client = agg.client /\ order'[o].oid = agg.oid
  BY <1>1, <1>2, <1>4, AllocatedOrder
<1>8. /\ ClientMapSound' /\ cidOid' \in [Clients -> [ValidIds -> OrderPtrs]]
      /\ pc' = "idle" /\ leaves' \in Nat
  BY <1>1, <1>2, <1>7, PublishKeepsMap
<1>9. prevOrder' \in [OrderSlots -> OrderPtrs] /\ nextOrder' \in [OrderSlots -> OrderPtrs]
  BY <1>1, <1>3, <1>7 DEF IInv, TypeOK, OrderPtrs
<1>10. TypeOK'
  BY <1>1, <1>6, <1>8, <1>9 DEF IInv, TypeOK, levelVars
<1>11. PoolsReady' /\ CallOpen'
  BY <1>1, <1>6, <1>8 DEF IInv, PoolsReady, CallOpen, levelVars
<1>12. QED
  BY <1>5, <1>6, <1>8, <1>10, <1>11 DEF IInv, BookInv

\* The order opens the first level of its side.
LEMMA RestOnEmptySideStep == IInv /\ RestOnEmptySide => IInv'
<1> SUFFICES ASSUME IInv, RestOnEmptySide PROVE IInv'
  OBVIOUS
<1> DEFINE o == freeOrder
           l == freeLevel
<1>1. /\ Rests /\ CanRest /\ priceMap[AggIndex] = nullptr /\ best[agg.side] = nullptr
      /\ AllocateOrder(nullptr) /\ LinkAlone(o) /\ AllocateLevel
      /\ best' = [best EXCEPT ![agg.side] = l]
      /\ prevEntry' = [prevEntry EXCEPT ![l] = l]
      /\ nextEntry' = [nextEntry EXCEPT ![l] = l]
      /\ Publish(o, leaves, 1)
      /\ UNCHANGED nextMarketOrderId
  BY DEF RestOnEmptySide
<1>2. /\ pc = "match" /\ leaves > 0 /\ CanAllocateOrder /\ AggIndex \in PriceIndices
      /\ agg.oid \in ValidIds /\ l \in LevelSlots /\ NextPriority(nullptr) \in Nat
  BY <1>1, IndicesInRange DEF CanRest, Rests, NextPriority, IInv, TypeOK
<1>3. /\ FifoLists' /\ LevelsIndexed'
      /\ freeLevel' \in LevelSlots \ usedLevels'
      /\ firstOrder' \in [LevelSlots -> OrderPtrs] /\ usedLevels' \subseteq LevelSlots
      /\ priceMap' \in [PriceIndices -> LevelPtrs]
      /\ level' \in [LevelSlots -> LevelData \cup {NoLevel}]
      /\ \A m \in usedLevels' : level'[m] \in LevelData
  BY <1>1, OpenLevelKeepsLists
<1>4. /\ RestingOrdersOpen'
      /\ order' \in [OrderSlots -> OrderData \cup {NoOrder}]
      /\ \A p \in usedOrders' : order'[p] \in OrderData
      /\ qty' \in [OrderSlots -> Nat] /\ usedOrders' \subseteq OrderSlots
      /\ freeOrder' \in OrderSlots \ usedOrders'
  BY <1>1, <1>2, AllocateKeepsOrders
<1>5. /\ \A p \in usedOrders : order'[p] = order[p]
      /\ usedOrders' = usedOrders \cup {o} /\ o \in OrderSlots
      /\ order'[o].client = agg.client /\ order'[o].oid = agg.oid
  BY <1>1, <1>2, AllocatedOrder
<1>6. /\ ClientMapSound' /\ cidOid' \in [Clients -> [ValidIds -> OrderPtrs]]
      /\ pc' = "idle" /\ leaves' \in Nat
  BY <1>1, <1>2, <1>5, PublishKeepsMap
<1>7. prevOrder' \in [OrderSlots -> OrderPtrs] /\ nextOrder' \in [OrderSlots -> OrderPtrs]
  BY <1>1, <1>5 DEF LinkAlone, IInv, TypeOK, OrderPtrs
<1>8. /\ prevEntry' \in [LevelSlots -> LevelPtrs] /\ nextEntry' \in [LevelSlots -> LevelPtrs]
      /\ best' \in [Sides -> LevelPtrs]
  BY <1>1, <1>2 DEF IInv, TypeOK, LevelPtrs
<1>9. TypeOK'
  BY <1>1, <1>3, <1>4, <1>6, <1>7, <1>8 DEF IInv, TypeOK
<1>10. PoolsReady' /\ CallOpen'
  BY <1>3, <1>4, <1>6 DEF PoolsReady, CallOpen
<1>11. QED
  BY <1>3, <1>4, <1>6, <1>9, <1>10 DEF IInv, BookInv

\* The order opens a level whose place is searched next.
LEMMA RestOnSideStep == IInv /\ RestOnSide => IInv'
<1> SUFFICES ASSUME IInv, RestOnSide PROVE IInv'
  OBVIOUS
<1> DEFINE o == freeOrder
           l == freeLevel
           b == best[agg.side]
<1>1. /\ Rests /\ CanRest /\ priceMap[AggIndex] = nullptr /\ b # nullptr
      /\ AllocateOrder(nullptr) /\ LinkAlone(o) /\ AllocateLevel
      /\ prevEntry' = [prevEntry EXCEPT ![l] = nullptr]
      /\ nextEntry' = [nextEntry EXCEPT ![l] = nullptr]
      /\ UNCHANGED <<best, cidOid, nextMarketOrderId, agg, leaves>>
      /\ IF FirstTarget = nullptr
           THEN pc' = "halted" /\ walk' = nullptr
           ELSE /\ pc' = "walk"
                /\ walk' = [order |-> o, level |-> l, target |-> FirstTarget,
                            addAfter |-> LessAggressive(agg.side, agg.price, level'[FirstTarget].price)]
  BY DEF RestOnSide
<1>2. /\ pc = "match" /\ leaves > 0 /\ CanAllocateOrder /\ AggIndex \in PriceIndices
      /\ l \in LevelSlots /\ NextPriority(nullptr) \in Nat /\ agg \in Aggressors
  BY <1>1, IndicesInRange DEF CanRest, Rests, NextPriority, IInv, TypeOK
<1>3. /\ FifoLists' /\ LevelsIndexed'
      /\ freeLevel' \in LevelSlots \ usedLevels'
      /\ firstOrder' \in [LevelSlots -> OrderPtrs] /\ usedLevels' \subseteq LevelSlots
      /\ priceMap' \in [PriceIndices -> LevelPtrs]
      /\ level' \in [LevelSlots -> LevelData \cup {NoLevel}]
      /\ \A m \in usedLevels' : level'[m] \in LevelData
  BY <1>1, OpenLevelKeepsLists
<1>4. /\ RestingOrdersOpen'
      /\ order' \in [OrderSlots -> OrderData \cup {NoOrder}]
      /\ \A p \in usedOrders' : order'[p] \in OrderData
      /\ qty' \in [OrderSlots -> Nat] /\ usedOrders' \subseteq OrderSlots
      /\ freeOrder' \in OrderSlots \ usedOrders'
  BY <1>1, <1>2, AllocateKeepsOrders
<1>5. /\ \A p \in usedOrders : order'[p] = order[p]
      /\ usedOrders' = usedOrders \cup {o} /\ o \in OrderSlots
      /\ order'[o].client = agg.client /\ order'[o].oid = agg.oid /\ order'[o].moid = agg.moid
  BY <1>1, <1>2, AllocatedOrder
<1>6. ClientMapSound'
  BY <1>1, <1>5 DEF IInv, BookInv, ClientMapSound
<1>7. prevOrder' \in [OrderSlots -> OrderPtrs] /\ nextOrder' \in [OrderSlots -> OrderPtrs]
  BY <1>1, <1>5 DEF LinkAlone, IInv, TypeOK, OrderPtrs
<1>8. prevEntry' \in [LevelSlots -> LevelPtrs] /\ nextEntry' \in [LevelSlots -> LevelPtrs]
  BY <1>1, <1>2 DEF IInv, TypeOK, LevelPtrs
<1>9. pc' = "walk" => walk' \in Walks /\ walk'.order = o
  <2>1. b \in LevelSlots
    BY <1>1, <1>2 DEF IInv, TypeOK, LevelPtrs, Aggressors
  <2>2. FirstTarget # nullptr => FirstTarget \in LevelSlots
    BY <1>8, <2>1 DEF FirstTarget, LevelPtrs
  <2>3. LessAggressive(agg.side, agg.price, level'[FirstTarget].price) \in BOOLEAN
    <3>1. CASE agg.side = "SELL"
      BY <3>1 DEF LessAggressive
    <3>2. CASE agg.side # "SELL"
      BY <3>2 DEF LessAggressive
    <3>3. QED
      BY <3>1, <3>2
  <2>4. QED
    BY <1>1, <1>2, <1>5, <2>2, <2>3 DEF Walks
<1>10. TypeOK'
  BY <1>1, <1>2, <1>3, <1>4, <1>7, <1>8, <1>9 DEF IInv, TypeOK
<1>11. PoolsReady' /\ CallOpen'
  BY <1>1, <1>2, <1>3, <1>4, <1>5, <1>9 DEF IInv, PoolsReady, CallOpen
<1>12. QED
  BY <1>3, <1>4, <1>6, <1>10, <1>11 DEF IInv, BookInv

\* An iteration of the search for the place of a level.
LEMMA WalkStepStep == IInv /\ WalkStep => IInv'
<1> SUFFICES ASSUME IInv, WalkStep PROVE IInv'
  OBVIOUS
<1>1. /\ pc = "walk" /\ walk \in Walks /\ agg \in Aggressors
      /\ UNCHANGED <<orderVars, levelVars, indexVars, nextMarketOrderId, agg, leaves>>
      /\ walk'.order = walk.order
      /\ pc' \in {"walk", "halted"} /\ (pc' = "walk" => walk' \in Walks)
  BY DEF WalkStep, IInv, TypeOK, Walks, LevelPtrs
<1>2. TypeOK'
  BY <1>1 DEF IInv, TypeOK, orderVars, levelVars, indexVars
<1>3. BookInv' /\ PoolsReady'
  BY <1>1 DEF IInv, BookInv, FifoLists, LevelsIndexed, ClientMapSound, RestingOrdersOpen,
              PoolsReady, orderVars, levelVars, indexVars, SameLevel, Before, LevelOf
<1>4. CallOpen'
  BY <1>1 DEF IInv, CallOpen, orderVars
<1>5. QED
  BY <1>2, <1>3, <1>4 DEF IInv

\* What both ends of the search have in common: only the list of price levels
\* changes, and the order under way is entered in its client's map.
LEMMA InsertStep ==
  ASSUME IInv, pc = "walk", CanInsert, PublishWalked,
         UNCHANGED <<orderVars, level, firstOrder, usedLevels, freeLevel, priceMap,
                     nextMarketOrderId>>,
         prevEntry' \in [LevelSlots -> LevelPtrs], nextEntry' \in [LevelSlots -> LevelPtrs],
         best' \in [Sides -> LevelPtrs]
  PROVE  IInv'
<1>1. /\ agg.oid \in ValidIds /\ walk.order \in usedOrders /\ walk.order \in OrderSlots
      /\ order[walk.order].client = agg.client /\ order[walk.order].oid = agg.oid
  BY DEF CanInsert, IInv, CallOpen, TypeOK
<1>2. UNCHANGED <<order, qty, prevOrder, nextOrder, usedOrders, freeOrder>>
  BY DEF orderVars
<1>3. /\ ClientMapSound' /\ cidOid' \in [Clients -> [ValidIds -> OrderPtrs]]
      /\ pc' = "idle" /\ leaves' \in Nat
  BY <1>1, <1>2, PublishKeepsMap DEF PublishWalked
<1>4. TypeOK'
  BY <1>2, <1>3 DEF IInv, TypeOK
<1>5. FifoLists' /\ LevelsIndexed' /\ RestingOrdersOpen'
  BY <1>2 DEF IInv, BookInv, FifoLists, LevelsIndexed, RestingOrdersOpen, SameLevel, Before,
              LevelOf
<1>6. PoolsReady' /\ CallOpen'
  BY <1>2, <1>3 DEF IInv, PoolsReady, CallOpen
<1>7. QED
  BY <1>3, <1>4, <1>5, <1>6 DEF IInv, BookInv

\* The level goes to the end of the list.
LEMMA InsertAtEndStep == IInv /\ InsertAtEnd => IInv'
<1> SUFFICES ASSUME IInv, InsertAtEnd PROVE IInv'
  OBVIOUS
<1> DEFINE n == walk.level
           last == prevEntry[walk.target]
<1>1. /\ AtEnd /\ CanInsert /\ PublishWalked
      /\ prevEntry' = [prevEntry EXCEPT ![n] = last, ![nextEntry[last]] = n]
      /\ nextEntry' = [nextEntry EXCEPT ![n] = nextEntry[last], ![last] = n]
      /\ UNCHANGED <<orderVars, level, firstOrder, usedLevels, freeLevel, best, priceMap,
                     nextMarketOrderId>>
  BY DEF InsertAtEnd
<1>2. n \in LevelSlots /\ last \in LevelSlots /\ pc = "walk"
  BY <1>1 DEF AtEnd, CanInsert, IInv, TypeOK, Walks, LevelPtrs
<1>3. /\ prevEntry' \in [LevelSlots -> LevelPtrs] /\ nextEntry' \in [LevelSlots -> LevelPtrs]
      /\ best' \in [Sides -> LevelPtrs]
  BY <1>1, <1>2 DEF IInv, TypeOK, LevelPtrs
<1>4. QED
  BY <1>1, <1>2, <1>3, InsertStep

\* The level goes before the target of the search.
LEMMA InsertBeforeTargetStep == IInv /\ InsertBeforeTarget => IInv'
<1> SUFFICES ASSUME IInv, InsertBeforeTarget PROVE IInv'
  OBVIOUS
<1> DEFINE n == walk.level
           t == walk.target
           b == best[agg.side]
           linked == [nextEntry EXCEPT ![n] = t, ![prevEntry[t]] = n]
<1>1. /\ AtTarget /\ CanInsert /\ PublishWalked
      /\ prevEntry' = [prevEntry EXCEPT ![n] = prevEntry[t], ![t] = n]
      /\ IF BecomesBest(agg.side, agg.price, level[b].price)
           THEN /\ best' = [best EXCEPT ![agg.side] = n]
                /\ nextEntry' = IF linked[t] = b THEN [linked EXCEPT ![t] = n] ELSE linked
           ELSE nextEntry' = linked /\ UNCHANGED best
      /\ UNCHANGED <<orderVars, level, firstOrder, usedLevels, freeLevel, priceMap,
                     nextMarketOrderId>>
  BY DEF InsertBeforeTarget
<1>2. n \in LevelSlots /\ t \in LevelSlots /\ pc = "walk" /\ prevEntry[t] \in LevelPtrs
  BY <1>1 DEF AtTarget, IInv, TypeOK, Walks
<1>3. linked \in [LevelSlots -> LevelPtrs]
  BY <1>2 DEF IInv, TypeOK, LevelPtrs
<1>4. /\ prevEntry' \in [LevelSlots -> LevelPtrs] /\ nextEntry' \in [LevelSlots -> LevelPtrs]
      /\ best' \in [Sides -> LevelPtrs]
  <2>1. prevEntry' \in [LevelSlots -> LevelPtrs]
    BY <1>1, <1>2 DEF IInv, TypeOK, LevelPtrs
  <2>2. [linked EXCEPT ![t] = n] \in [LevelSlots -> LevelPtrs]
    BY <1>2, <1>3 DEF LevelPtrs
  <2>3. [best EXCEPT ![agg.side] = n] \in [Sides -> LevelPtrs] /\ best \in [Sides -> LevelPtrs]
    BY <1>2 DEF IInv, TypeOK, LevelPtrs
  <2> HIDE DEF linked
  <2>4. QED
    BY <1>1, <1>3, <2>1, <2>2, <2>3
<1>5. QED
  BY <1>1, <1>2, <1>4, InsertStep

\* cancel() of an order in the book.
LEMMA CancelStep ==
  ASSUME IInv, NEW c \in Clients, NEW id \in OrderIds, Cancel(c, id)
  PROVE  IInv'
<1> DEFINE o == cidOid[c][id]
<1>1. /\ pc = "idle" /\ id \in ValidIds /\ o # nullptr /\ CanRemove(o) /\ RemoveOrder(o)
      /\ UNCHANGED <<qty, nextMarketOrderId, pc, agg, leaves, walk>>
  BY DEF Cancel, callVars
<1>2. o \in usedOrders
  BY <1>1 DEF IInv, BookInv, ClientMapSound
<1>3. BookInv' /\ PoolsReady'
  BY <1>1, <1>2, RemoveKeepsBook
<1>4. TypeOK'
  <2>1. LevelsIndexed
    BY DEF IInv, BookInv
  <2>2. /\ prevOrder' \in [OrderSlots -> OrderPtrs] /\ nextOrder' \in [OrderSlots -> OrderPtrs]
        /\ usedOrders' \subseteq usedOrders /\ freeOrder' = freeOrder /\ order' = order
        /\ firstOrder' \in [LevelSlots -> OrderPtrs]
        /\ prevEntry' \in [LevelSlots -> LevelPtrs] /\ nextEntry' \in [LevelSlots -> LevelPtrs]
        /\ usedLevels' \subseteq usedLevels /\ freeLevel' = freeLevel
        /\ best' \in [Sides -> LevelPtrs] /\ priceMap' \in [PriceIndices -> LevelPtrs]
        /\ cidOid' \in [Clients -> [ValidIds -> OrderPtrs]]
    BY <1>1, <1>2, <2>1, RemoveKeepsTypes DEF IInv
  <2>3. level' = level
    BY <1>1 DEF RemoveOrder, ClearEntry
  <2>4. QED
    BY <1>1, <2>2, <2>3 DEF IInv, TypeOK
<1>5. CallOpen'
  BY <1>1 DEF CallOpen
<1>6. QED
  BY <1>3, <1>4, <1>5 DEF IInv

\* cancel() of an order the client's map does not hold changes no order.
LEMMA CancelRejectStep ==
  ASSUME IInv, NEW c, NEW id, CancelReject(c, id)
  PROVE  IInv'
<1>1. UNCHANGED <<orderVars, levelVars, indexVars, nextMarketOrderId, callVars>>
  BY DEF CancelReject
<1>2. QED
  BY <1>1 DEF IInv, TypeOK, BookInv, FifoLists, LevelsIndexed, ClientMapSound,
     RestingOrdersOpen, PoolsReady, CallOpen, orderVars, levelVars, indexVars, callVars,
     SameLevel, Before, LevelOf

\* Every step keeps the invariant.
LEMMA NextIInv == IInv /\ [Next]_vars => IInv'
<1> SUFFICES ASSUME IInv, [Next]_vars PROVE IInv'
  OBVIOUS
<1>1. CASE UNCHANGED vars
  BY <1>1 DEF IInv, TypeOK, BookInv, FifoLists, LevelsIndexed, ClientMapSound,
     RestingOrdersOpen, PoolsReady, CallOpen, vars, orderVars, levelVars, indexVars, callVars,
     outVars, SameLevel, Before, LevelOf
<1>2. CASE Request
  <2>1. ASSUME NEW c \in Clients, NEW id \in OrderIds, CancelCrash(c, id) PROVE IInv'
    BY <2>1, HaltStep DEF CancelCrash
  <2>2. QED
    BY <1>2, <2>1, AcceptStep, CancelStep, CancelRejectStep DEF Request
<1>3. CASE Running
  <2>1. MatchCrash \/ RestCrash \/ InsertCrash => IInv'
    BY HaltStep DEF MatchCrash, RestCrash, InsertCrash
  <2>2. QED
    BY <1>3, <2>1, MatchPartlyStep, MatchFullyStep, FilledStep, RestAtLevelStep,
       RestOnEmptySideStep, RestOnSideStep, WalkStepStep, InsertAtEndStep,
       InsertBeforeTargetStep DEF Running
<1>4. QED
  BY <1>1, <1>2, <1>3 DEF Next

\* The invariant holds in every state of the book.
LEMMA SpecIInv == Spec => []IInv
BY InitIInv, NextIInv, PTL DEF Spec

-----------------------------------------------------------------------------
\* The theorems.

\* Every variable keeps to the values its declaration allows: no step of add() or
\* cancel() works on a slot outside a pool or on a call that is not under way.
THEOREM TypeCorrect == Spec => []TypeOK
BY SpecIInv, PTL DEF IInv

\* "Internally maintains a list of MEOrder objects arranged in FIFO order"
\* (me_order.h:53): true of every level at every time, whatever the prices and
\* the order of the requests.
THEOREM ListsAreFifo == Spec => []FifoLists
<1>1. IInv => FifoLists
  BY DEF IInv, BookInv
<1>2. QED
  BY <1>1, SpecIInv, PTL

\* The price map, the pool of levels and the orders agree at all times: no level
\* in use starts with an order that left the book.
THEOREM LevelsStayIndexed == Spec => []LevelsIndexed
<1>1. IInv => LevelsIndexed
  BY DEF IInv, BookInv
<1>2. QED
  BY <1>1, SpecIInv, PTL

\* cancel() reaches only live orders of the client that asks.
THEOREM CancelsReachOwnOrders == Spec => []ClientMapSound
<1>1. IInv => ClientMapSound
  BY DEF IInv, BookInv
<1>2. QED
  BY <1>1, SpecIInv, PTL

\* Orders in the book are open and have ids of their own.
THEOREM OrdersStayOpen == Spec => []RestingOrdersOpen
<1>1. IInv => RestingOrdersOpen
  BY DEF IInv, BookInv
<1>2. QED
  BY <1>1, SpecIInv, PTL

-----------------------------------------------------------------------------
\* The log of the matching engine.

NoneOf(S, m) == \A x \in S : x[1] # m
Holds(s, x) == \E i \in DOMAIN s : s[i] = x
ButTrades(us, u) == \A i \in DOMAIN us : us[i] = u \/ us[i].type = "TRADE"

\* What a step logs tells what it changes: the kinds of steps.
LEMMA TellsNothing ==
  ASSUME NEW S, NEW rs
  PROVE  Tells(S, S, <<>>, rs)
BY DEF Tells

LEMMA TellsAdded ==
  ASSUME NEW S, NEW m, NEW q, NoneOf(S, m), NEW us, NEW rs, NEW u, us = <<u>>,
         u.type = "ADD", u.moid = m, u.qty = q
  PROVE  Tells(S, S \cup {<<m, q>>}, us, rs)
<1>1. us[1] = u /\ DOMAIN us = {1}
  OBVIOUS
<1>2. <<m, q>> \notin S
  BY DEF NoneOf
<1>3. /\ Text!UpdateText(u).oid = Text!Shown(m) /\ Text!UpdateText(u).type = "ADD"
      /\ Text!UpdateText(u).qty = Text!QtyShown(q)
  BY DEF Text!UpdateText, Text!UpdateTypeShown
<1>4. QED
  BY <1>1, <1>2, <1>3 DEF Tells

LEMMA TellsRemoved ==
  ASSUME NEW T, NEW m, NEW q, NoneOf(T, m), NEW us, NEW rs, NEW u, NEW r,
         Holds(us, u), ButTrades(us, u), Holds(rs, r),
         u.type = "CANCEL", u.moid = m, r.moid = m,
         (r.type = "CANCELED" /\ r.leaves = q) \/ (r.type = "FILLED" /\ r.leaves = 0)
  PROVE  Tells(T \cup {<<m, q>>}, T, us, rs)
<1>1. (T \cup {<<m, q>>}) \ T = {<<m, q>>} /\ T \ (T \cup {<<m, q>>}) = {}
  <2>1. <<m, q>> \notin T
    BY DEF NoneOf
  <2>2. QED
    BY <2>1
<1>2. Text!UpdateText(u).oid = Text!Shown(m) /\ Text!UpdateText(u).type = "CANCEL"
  BY DEF Text!UpdateText, Text!UpdateTypeShown
<1>3. \A i \in DOMAIN us : us[i] = u \/ Text!UpdateText(us[i]).type = "TRADE"
  BY DEF ButTrades, Text!UpdateText, Text!UpdateTypeShown
<1>4. /\ Text!ResponseText(r).moid = Text!Shown(m)
      /\ Text!ResponseText(r).type = r.type /\ Text!ResponseText(r).leaves_qty = Text!QtyShown(r.leaves)
  BY DEF Text!ResponseText, Text!ResponseTypeShown
<1> DEFINE S == T \cup {<<m, q>>}
           told == {Text!UpdateText(us[i]) : i \in DOMAIN us}
           owners == {Text!ResponseText(rs[i]) : i \in DOMAIN rs}
<1>5. {n[2] : n \in {x \in T \ S : x[1] = m}} = {}
  BY <1>1
<1>6. /\ \E v \in told : v.oid = Text!Shown(m) /\ v.type = "CANCEL"
      /\ \A v \in told : v.type = "TRADE" \/ v.oid = Text!Shown(m)
  BY <1>2, <1>3 DEF Holds
<1>7. \E v \in owners : /\ v.moid = Text!Shown(m)
                        /\ \/ v.type = "CANCELED" /\ v.leaves_qty = Text!QtyShown(q)
                           \/ v.type = "FILLED" /\ v.leaves_qty = Text!QtyShown(0)
  BY <1>4 DEF Holds
<1>8. <<m, q>>[1] = m /\ <<m, q>>[2] = q
  OBVIOUS
<1> HIDE DEF S, told, owners
<1>9. Tells(S, T, us, rs)
  BY <1>1, <1>5, <1>6, <1>7, <1>8 DEF Tells, S, told, owners
<1>10. QED
  BY <1>9 DEF S

LEMMA TellsReduced ==
  ASSUME NEW R, NEW m, NEW q, NEW l, q # l, NoneOf(R, m), NEW us, NEW rs, NEW u, NEW r,
         Holds(us, u), ButTrades(us, u), Holds(rs, r),
         u.type = "MODIFY", u.moid = m, u.qty = l, r.moid = m, r.type = "FILLED", r.leaves = l
  PROVE  Tells(R \cup {<<m, q>>}, R \cup {<<m, l>>}, us, rs)
<1> DEFINE S == R \cup {<<m, q>>}
           T == R \cup {<<m, l>>}
<1>1. S \ T = {<<m, q>>} /\ T \ S = {<<m, l>>}
  <2>1. <<m, q>> \notin R /\ <<m, l>> \notin R /\ <<m, l>> # <<m, q>>
    BY DEF NoneOf
  <2>2. QED
    BY <2>1
<1>2. /\ Text!UpdateText(u).oid = Text!Shown(m) /\ Text!UpdateText(u).type = "MODIFY"
      /\ Text!UpdateText(u).qty = Text!QtyShown(l)
  BY DEF Text!UpdateText, Text!UpdateTypeShown
<1>3. \A i \in DOMAIN us : us[i] = u \/ Text!UpdateText(us[i]).type = "TRADE"
  BY DEF ButTrades, Text!UpdateText, Text!UpdateTypeShown
<1>4. /\ Text!ResponseText(r).moid = Text!Shown(m)
      /\ Text!ResponseText(r).type = "FILLED" /\ Text!ResponseText(r).leaves_qty = Text!QtyShown(l)
  BY DEF Text!ResponseText, Text!ResponseTypeShown
<1>5. {n[2] : n \in {x \in T \ S : x[1] = m}} = {l}
  <2>1. {x \in T \ S : x[1] = m} = {<<m, l>>} /\ <<m, l>>[2] = l
    BY <1>1
  <2>2. \A y : y \in {n[2] : n \in {<<m, l>>}} <=> y = l
    BY <2>1
  <2>3. QED
    BY <2>1, <2>2
<1>6. (CHOOSE k \in {l} : TRUE) = l /\ {l} # {}
  OBVIOUS
<1> DEFINE told == {Text!UpdateText(us[i]) : i \in DOMAIN us}
           owners == {Text!ResponseText(rs[i]) : i \in DOMAIN rs}
<1>7. /\ \E v \in told : v.oid = Text!Shown(m) /\ v.type = "MODIFY" /\ v.qty = Text!QtyShown(l)
      /\ \A v \in told : v.type = "TRADE" \/ v.oid = Text!Shown(m)
  BY <1>2, <1>3 DEF Holds
<1>8. \E v \in owners : v.moid = Text!Shown(m) /\ v.type = "FILLED" /\ v.leaves_qty = Text!QtyShown(l)
  BY <1>4 DEF Holds
<1>9. <<m, q>>[1] = m /\ <<m, q>>[2] = q /\ <<m, l>>[1] = m /\ <<m, l>>[2] = l
  OBVIOUS
<1> DEFINE Left(id) == {n[2] : n \in {x \in T \ S : x[1] = id}}
<1>10. Left(m) = {l}
  BY <1>5
<1> HIDE DEF S, T, told, owners, Left
<1>11. \A n \in T \ S : \E v \in told :
        /\ v.oid = Text!Shown(n[1]) /\ v.qty = Text!QtyShown(n[2])
        /\ v.type = (IF \E w \in S \ T : w[1] = n[1] THEN "MODIFY" ELSE "ADD")
  BY <1>1, <1>7, <1>9
<1>12. \A w \in S \ T :
        /\ Left(w[1]) = {} => \E v \in told : v.oid = Text!Shown(w[1]) /\ v.type = "CANCEL"
        /\ \E v \in owners :
             /\ v.moid = Text!Shown(w[1])
             /\ \/ v.type = "CANCELED" /\ Left(w[1]) = {} /\ v.leaves_qty = Text!QtyShown(w[2])
                \/ /\ v.type = "FILLED"
                   /\ v.leaves_qty = Text!QtyShown(IF Left(w[1]) = {} THEN 0
                                                   ELSE CHOOSE k \in Left(w[1]) : TRUE)
  <2>1. (IF Left(m) = {} THEN 0 ELSE CHOOSE k \in Left(m) : TRUE) = l
    BY <1>6, <1>10, Zenon
  <2>2. QED
    BY <1>1, <1>6, <1>8, <1>9, <1>10, <2>1
<1>13. \A v \in told : v.type = "TRADE" \/ \E x \in (S \ T) \cup (T \ S) : v.oid = Text!Shown(x[1])
  BY <1>1, <1>7, <1>9
<1>14. Tells(S, T, us, rs)
  BY <1>11, <1>12, <1>13, Zenon DEF Tells, told, owners, Left
<1>15. QED
  BY <1>14 DEF S, T

\* What stands in the book, but for one order.
Others(o) == {<<order[p].moid, qty[p]>> : p \in usedOrders \ {o}}

LEMMA OthersDiffer ==
  ASSUME IInv, NEW o \in usedOrders
  PROVE  NoneOf(Others(o), order[o].moid)
<1>1. \A p \in usedOrders \ {o} : order[p].moid # order[o].moid
  BY DEF IInv, BookInv, RestingOrdersOpen
<1>2. QED
  BY <1>1 DEF Others, NoneOf

LEMMA StandingWith ==
  ASSUME NEW o \in usedOrders, pc # "walk"
  PROVE  Standing = Others(o) \cup {<<order[o].moid, qty[o]>>}
<1>1. Resters = (usedOrders \ {o}) \cup {o}
  BY DEF Resters
<1>2. QED
  BY <1>1 DEF Standing, Others

\* What a step sends of what it changes: nothing, or an update about the one order that
\* stands differently after it.  A MODIFY may also be about an order that left the book.
SameBut(S, T, m) == \A x : x[1] # m => (x \in S <=> x \in T)
AddUpdates == [type : {"ADD"}, moid : Nat, side : Sides, price : Nat, qty : Nat, prio : Nat]
AfterTrade(us, u) == us = <<u>> \/ \E t : t.type = "TRADE" /\ us = <<t, u>>
SendsAdd(u) ==
  /\ u \in AddUpdates /\ updates' = <<u>>
  /\ SameBut(Standing, Standing', u.moid) /\ <<u.moid, u.qty>> \in Standing'
SendsCancel(u) ==
  /\ u.type = "CANCEL" /\ u.moid \in Nat /\ AfterTrade(updates', u)
  /\ SameBut(Standing, Standing', u.moid) /\ NoneOf(Standing', u.moid)
SendsModify(u) ==
  /\ u.type = "MODIFY" /\ u.moid \in Nat /\ u.qty \in Nat /\ AfterTrade(updates', u)
  /\ SameBut(Standing, Standing', u.moid)
  /\ NoneOf(Standing, u.moid) \/ <<u.moid, u.qty>> \in Standing'
SendsNothing == Standing' = Standing /\ updates' = <<>>
Sends == SendsNothing \/ \E u : SendsAdd(u) \/ SendsCancel(u) \/ SendsModify(u)

\* Steps that change no order.
LEMMA QuietTells ==
  ASSUME IInv,
         \/ \E c \in Clients, id \in OrderIds, s \in Sides, p \in Prices, q \in Quantities :
              Accept(c, id, s, p, q)
         \/ \E c \in Clients, id \in OrderIds : CancelReject(c, id)
         \/ Filled \/ WalkStep,
         pc' # "halted"
  PROVE  LogTells /\ SendsNothing
<1>1. UNCHANGED <<order, qty, usedOrders>> /\ updates' = <<>>
  BY DEF Accept, CancelReject, Filled, WalkStep, orderVars, Send
<1>2. \/ pc # "walk" /\ pc' # "walk"
      \/ pc = "walk" /\ pc' = "walk" /\ walk'.order = walk.order
  BY DEF Accept, CancelReject, Filled, Return, WalkStep, callVars, IInv, TypeOK, Walks
<1>3. Standing' = Standing
  <2>1. Resters' = Resters
    BY <1>1, <1>2 DEF Resters
  <2>2. QED
    BY <1>1, <2>1 DEF Standing
<1>4. QED
  BY <1>1, <1>3, TellsNothing DEF LogTells, SendsNothing

\* While the place of its level is searched an order does not stand in the book yet.
LEMMA RestOnSideTells ==
  ASSUME IInv, RestOnSide, pc' # "halted"
  PROVE  LogTells /\ SendsNothing
<1>1. /\ pc = "match" /\ leaves > 0 /\ CanAllocateOrder /\ AllocateOrder(nullptr)
      /\ NextPriority(nullptr) \in Nat /\ pc' = "walk" /\ walk'.order = freeOrder /\ updates' = <<>>
  BY DEF RestOnSide, Rests, CanRest, NextPriority, Send
<1>2. /\ \A p \in usedOrders : order'[p] = order[p] /\ qty'[p] = qty[p]
      /\ usedOrders' = usedOrders \cup {freeOrder} /\ freeOrder \notin usedOrders
  BY <1>1, AllocatedOrder
<1>3. Resters' = usedOrders /\ Resters = usedOrders
  BY <1>1, <1>2 DEF Resters
<1>4. Standing' = Standing
  BY <1>2, <1>3 DEF Standing
<1>5. QED
  BY <1>1, <1>4, TellsNothing DEF LogTells, SendsNothing

\* An order that joins the book at once.
LEMMA RestTells ==
  ASSUME IInv, pc = "match", leaves > 0, CanAllocateOrder, NEW l, AllocateOrder(l),
         NextPriority(l) \in Nat, NEW q, NEW prio \in Nat, Publish(freeOrder, q, prio), q = leaves
  PROVE  LogTells /\ \E u : SendsAdd(u)
<1>1. /\ \A p \in usedOrders : order'[p] = order[p] /\ qty'[p] = qty[p]
      /\ usedOrders' = usedOrders \cup {freeOrder} /\ freeOrder \notin usedOrders
      /\ order'[freeOrder].moid = agg.moid /\ qty'[freeOrder] = leaves
  BY AllocatedOrder
<1>2. pc' = "idle" /\ updates' = <<Update("ADD", agg.moid, agg.side, agg.price, q, prio)>>
  BY DEF Publish, Return, Send
<1>3. Resters = usedOrders /\ Resters' = usedOrders \cup {freeOrder}
  BY <1>1, <1>2 DEF Resters
<1>4. Standing' = Standing \cup {<<agg.moid, leaves>>}
  BY <1>1, <1>3 DEF Standing
<1>5. NoneOf(Standing, agg.moid)
  <2>1. \A o \in usedOrders : order[o].moid < agg.moid /\ order[o].moid \in Nat /\ agg.moid \in Nat
    BY RestingNumbers DEF IInv, CallOpen, TypeOK, Aggressors
  <2>2. \A o \in usedOrders : order[o].moid # agg.moid
    BY <2>1
  <2>3. QED
    BY <1>3, <2>2 DEF Standing, NoneOf
<1> DEFINE u == Update("ADD", agg.moid, agg.side, agg.price, q, prio)
<1>6. u.type = "ADD" /\ u.moid = agg.moid /\ u.qty = q
  BY DEF Update
<1> HIDE DEF u
<1>7. Tells(Standing, Standing \cup {<<agg.moid, q>>}, updates', responses')
  BY <1>2, <1>5, <1>6, TellsAdded, Zenon DEF u
<1>8. SendsAdd(u)
  <2>1. u \in AddUpdates
    BY DEF u, Update, AddUpdates, IInv, TypeOK, Aggressors
  <2>2. SameBut(Standing, Standing', agg.moid) /\ <<agg.moid, q>> \in Standing'
    BY <1>4 DEF SameBut
  <2>3. QED
    BY <1>2, <1>6, <2>1, <2>2 DEF SendsAdd, u
<1>9. QED
  BY <1>4, <1>7, <1>8 DEF LogTells

\* An order that joins the book once the place of its level is found.
LEMMA InsertTells ==
  ASSUME IInv, pc = "walk", PublishWalked, UNCHANGED orderVars
  PROVE  LogTells /\ \E u : SendsAdd(u)
<1> DEFINE o == walk.order
<1>1. UNCHANGED <<order, qty, usedOrders>> /\ o \in usedOrders /\ order[o].moid = agg.moid
  BY DEF orderVars, IInv, CallOpen
<1>2. pc' = "idle"
      /\ updates' = <<Update("ADD", agg.moid, agg.side, agg.price, qty[o], order[o].prio)>>
  BY DEF PublishWalked, Publish, Return, Send
<1>3. Standing = Others(o)
  <2>1. Resters = usedOrders \ {o}
    BY DEF Resters
  <2>2. QED
    BY <2>1 DEF Standing, Others
<1>4. Standing' = Standing \cup {<<agg.moid, qty[o]>>}
  <2>1. Resters' = (usedOrders \ {o}) \cup {o}
    BY <1>1, <1>2 DEF Resters
  <2>2. QED
    BY <1>1, <1>3, <2>1 DEF Standing, Others
<1>5. NoneOf(Standing, agg.moid)
  BY <1>1, <1>3, OthersDiffer
<1> DEFINE u == Update("ADD", agg.moid, agg.side, agg.price, qty[o], order[o].prio)
<1>6. u.type = "ADD" /\ u.moid = agg.moid /\ u.qty = qty[o]
  BY DEF Update
<1> HIDE DEF u
<1>7. Tells(Standing, Standing \cup {<<agg.moid, qty[o]>>}, updates', responses')
  BY <1>2, <1>5, <1>6, TellsAdded, Zenon DEF u
<1>8. SendsAdd(u)
  <2>1. qty[o] \in Nat /\ order[o].prio \in Nat
    BY <1>1, RestingNumbers DEF IInv, TypeOK
  <2>2. u \in AddUpdates
    BY <2>1 DEF u, Update, AddUpdates, IInv, TypeOK, Aggressors
  <2>3. SameBut(Standing, Standing', agg.moid) /\ <<agg.moid, qty[o]>> \in Standing'
    BY <1>4 DEF SameBut
  <2>4. QED
    BY <1>2, <1>6, <2>2, <2>3 DEF SendsAdd, u
<1>9. QED
  BY <1>4, <1>7, <1>8 DEF LogTells

\* An order that leaves the book.
LEMMA RemoveTells ==
  ASSUME IInv, pc # "walk", pc' # "walk", NEW o \in usedOrders, RemoveOrder(o),
         \A p \in usedOrders \ {o} : qty'[p] = qty[p],
         NEW u, NEW r, u.type = "CANCEL", u.moid = order[o].moid, r.moid = order[o].moid,
         (r.type = "CANCELED" /\ r.leaves = qty[o]) \/ (r.type = "FILLED" /\ r.leaves = 0),
         Holds(updates', u), ButTrades(updates', u), Holds(responses', r), AfterTrade(updates', u)
  PROVE  LogTells /\ SendsCancel(u)
<1>1. order' = order /\ usedOrders' = usedOrders \ {o}
  BY DEF RemoveOrder
<1>2. Standing' = Others(o)
  <2>1. Resters' = usedOrders \ {o}
    BY <1>1 DEF Resters
  <2>2. QED
    BY <1>1, <2>1 DEF Standing, Others
<1>3. Standing = Others(o) \cup {<<order[o].moid, qty[o]>>}
  BY StandingWith
<1>4. NoneOf(Others(o), order[o].moid)
  BY OthersDiffer
<1> DEFINE m == order[o].moid
           q == qty[o]
           T == Others(o)
<1> HIDE DEF m, q, T
<1>5. Tells(T \cup {<<m, q>>}, T, updates', responses')
  BY <1>4, TellsRemoved, Zenon DEF m, q, T
<1>6. SendsCancel(u)
  <2>1. SameBut(T \cup {<<m, q>>}, T, m)
    BY DEF SameBut
  <2>2. m \in Nat
    BY RestingNumbers DEF IInv, m
  <2>3. QED
    BY <1>2, <1>3, <1>4, <2>1, <2>2 DEF SendsCancel, m, q, T
<1>7. QED
  BY <1>2, <1>3, <1>5, <1>6 DEF LogTells, m, q, T

LEMMA CancelTells ==
  ASSUME IInv, NEW c \in Clients, NEW id \in OrderIds, Cancel(c, id)
  PROVE  LogTells /\ \E u : SendsCancel(u)
<1> DEFINE o == cidOid[c][id]
           r == Response("CANCELED", c, id, order[o].moid, order[o].side, order[o].price, nullptr, qty[o])
           u == Update("CANCEL", order[o].moid, order[o].side, order[o].price, 0, order[o].prio)
<1>1. /\ pc = "idle" /\ id \in ValidIds /\ o # nullptr /\ RemoveOrder(o)
      /\ pc' = "idle" /\ qty' = qty /\ responses' = <<r>> /\ updates' = <<u>>
  BY DEF Cancel, callVars, Send
<1>2. o \in usedOrders
  BY <1>1 DEF IInv, BookInv, ClientMapSound
<1>3. /\ u.type = "CANCEL" /\ u.moid = order[o].moid
      /\ r.moid = order[o].moid /\ r.type = "CANCELED" /\ r.leaves = qty[o]
  BY DEF Update, Response
<1> HIDE DEF o, r, u
<1>4. /\ Holds(updates', u)
      /\ ButTrades(updates', u) /\ Holds(responses', r) /\ AfterTrade(updates', u)
  BY <1>1 DEF Holds, ButTrades, AfterTrade
<1>5. QED
  BY <1>1, <1>2, <1>3, <1>4, RemoveTells

LEMMA MatchFullyTells == ASSUME IInv, MatchFully PROVE LogTells /\ \E u : SendsCancel(u)
<1> DEFINE o == Passive
           r == Fills(o, qty[o])[2]
           u == Update("CANCEL", order[o].moid, order[o].side, order[o].price, qty[o], nullptr)
<1>1. /\ pc = "match" /\ RemoveOrder(o) /\ CanRemove(o) /\ pc' = pc /\ qty' = [qty EXCEPT ![o] = 0]
      /\ responses' = Fills(o, qty[o]) /\ updates' = <<Trade(o, qty[o]), u>>
  BY DEF MatchFully, Send
<1>2. /\ o \in usedOrders /\ o \in OrderSlots /\ qty[o] \in Nat
      /\ \A p \in usedOrders \ {o} : qty'[p] = qty[p]
  BY <1>1 DEF CanRemove, IInv, TypeOK
<1>3. /\ u.type = "CANCEL" /\ u.moid = order[o].moid
      /\ r.moid = order[o].moid /\ r.type = "FILLED" /\ r.leaves = 0
      /\ Trade(o, qty[o]).type = "TRADE"
  BY <1>2 DEF Update, Response, Fills, Trade
<1>4. 2 \in DOMAIN responses'
  BY <1>1 DEF Fills
<1> HIDE DEF o, u
<1>5. /\ Holds(updates', u)
      /\ ButTrades(updates', u) /\ Holds(responses', r) /\ AfterTrade(updates', u)
  BY <1>1, <1>3, <1>4 DEF Holds, ButTrades, AfterTrade
<1> HIDE DEF r
<1>6. QED
  BY <1>1, <1>2, <1>3, <1>5, RemoveTells

LEMMA MatchPartlyTells == ASSUME IInv, MatchPartly PROVE LogTells
<1> SUFFICES ASSUME PassiveRests PROVE Tells(Standing, Standing', updates', responses')
  BY DEF LogTells
<1> DEFINE o == Passive
           r == Fills(o, leaves)[2]
           u == Update("MODIFY", order[o].moid, order[o].side, order[o].price, qty[o] - leaves,
                       order[o].prio)
<1>1. /\ pc = "match" /\ CanMatch /\ leaves < qty[o] /\ qty' = [qty EXCEPT ![o] = qty[o] - leaves]
      /\ responses' = Fills(o, leaves) /\ updates' = <<Trade(o, leaves), u>>
      /\ UNCHANGED <<order, usedOrders, pc>>
  BY DEF MatchPartly, Send
<1>2. o \in usedOrders /\ o \in OrderSlots /\ qty \in [OrderSlots -> Nat] /\ leaves \in Nat
  BY <1>1 DEF PassiveRests, IInv, TypeOK
<1>3. /\ qty'[o] = qty[o] - leaves /\ \A p \in usedOrders \ {o} : qty'[p] = qty[p]
      /\ qty'[o] # qty[o]
  <2>1. leaves > 0 /\ qty[o] \in Nat
    BY <1>1, <1>2 DEF CanMatch
  <2>2. QED
    BY <1>1, <1>2, <2>1 DEF IInv, TypeOK
<1>4. /\ u.type = "MODIFY" /\ u.moid = order[o].moid /\ u.qty = qty'[o]
      /\ r.moid = order[o].moid /\ r.type = "FILLED" /\ r.leaves = qty'[o]
      /\ Trade(o, leaves).type = "TRADE"
  BY <1>3 DEF Update, Response, Fills, Trade
<1>5. 2 \in DOMAIN responses'
  BY <1>1 DEF Fills
<1>6. Standing = Others(o) \cup {<<order[o].moid, qty[o]>>}
  BY <1>1, <1>2, StandingWith
<1>7. Standing' = Others(o) \cup {<<order[o].moid, qty'[o]>>}
  <2>1. Resters' = (usedOrders \ {o}) \cup {o}
    BY <1>1, <1>2 DEF Resters
  <2>2. QED
    BY <1>1, <1>3, <2>1 DEF Standing, Others
<1>8. NoneOf(Others(o), order[o].moid)
  BY <1>2, OthersDiffer
<1> HIDE DEF o, u
<1>9. /\ Holds(updates', u)
      /\ ButTrades(updates', u) /\ Holds(responses', r)
  BY <1>1, <1>4, <1>5 DEF Holds, ButTrades
<1> DEFINE m == order[o].moid
           q == qty[o]
           l == qty'[o]
           R == Others(o)
<1> HIDE DEF r, m, q, l, R
<1>10. Tells(R \cup {<<m, q>>}, R \cup {<<m, l>>}, updates', responses')
  BY <1>3, <1>4, <1>8, <1>9, TellsReduced, Zenon DEF m, q, l, R
<1>11. QED
  BY <1>6, <1>7, <1>10 DEF m, q, l, R

\* Every step but one tells what it changes, and sends an update about that.
LEMMA StepTells ==
  ASSUME IInv, Next, pc' # "halted"
  PROVE  LogTells /\ (MatchPartly \/ Sends)
<1>1. ~Halt
  BY DEF Halt
<1>2. CASE Request
  BY <1>1, <1>2, QuietTells, CancelTells DEF Request, CancelCrash, Sends
<1>3. RestAtLevel => LogTells /\ Sends
  <2> SUFFICES ASSUME RestAtLevel PROVE LogTells /\ Sends
    OBVIOUS
  <2> DEFINE l == priceMap[AggIndex]
  <2>1. /\ pc = "match" /\ leaves > 0 /\ CanAllocateOrder /\ AllocateOrder(l) /\ l # nullptr
        /\ Publish(freeOrder, leaves, NextPriority(l)) /\ AggIndex \in PriceIndices
    BY IndicesInRange DEF RestAtLevel, Rests, CanRest, IInv
  <2>2. NextPriority(l) \in Nat
    BY <2>1, TailIsYoungest, RestingNumbers DEF NextPriority, IInv
  <2>3. QED
    BY <2>1, <2>2, RestTells DEF Sends
<1>4. RestOnEmptySide => LogTells /\ Sends
  <2> SUFFICES ASSUME RestOnEmptySide PROVE LogTells /\ Sends
    OBVIOUS
  <2>1. /\ pc = "match" /\ leaves > 0 /\ CanAllocateOrder /\ AllocateOrder(nullptr)
        /\ Publish(freeOrder, leaves, 1) /\ NextPriority(nullptr) \in Nat
    BY DEF RestOnEmptySide, Rests, CanRest, NextPriority
  <2>2. QED
    BY <2>1, RestTells DEF Sends
<1>5. InsertAtEnd \/ InsertBeforeTarget => LogTells /\ Sends
  BY InsertTells DEF InsertAtEnd, AtEnd, InsertBeforeTarget, AtTarget, Sends
<1>6. CASE Running
  <2>1. ~(MatchCrash \/ RestCrash \/ InsertCrash)
    BY <1>1 DEF MatchCrash, RestCrash, InsertCrash
  <2>2. Filled \/ WalkStep \/ RestOnSide \/ MatchFully => LogTells /\ Sends
    BY QuietTells, RestOnSideTells, MatchFullyTells DEF Sends
  <2>3. MatchPartly => LogTells
    BY MatchPartlyTells
  <2>4. QED
    BY <1>3, <1>4, <1>5, <1>6, <2>1, <2>2, <2>3 DEF Running
<1>7. QED
  BY <1>2, <1>6 DEF Next

LEMMA NextTells == IInv /\ Next => LogTells
BY StepTells DEF LogTells

\* The log of the matching engine tells the book, whatever the clients send.
THEOREM LogIsComplete == Spec => LogTellsBook
<1>1. IInv /\ [Next]_vars => [LogTells]_vars
  BY NextTells
<1>2. QED
  BY <1>1, SpecIInv, PTL DEF Spec, LogTellsBook

-----------------------------------------------------------------------------
\* Cancels.

\* While no client reuses the id of a resting order, its map finds every order that stands
\* in the book, and none that stands has the id of the order under way.
Found(o) == order[o].oid \in ValidIds /\ cidOid[order[o].client][order[o].oid] = o
NotAgain(o) == ~(order[o].client = agg.client /\ order[o].oid = agg.oid)
MapFinds ==
  /\ pc # "halted" => \A o \in Resters : Found(o)
  /\ pc \in {"match", "walk"} => \A o \in Resters : NotAgain(o)

\* removeOrder() takes the entry of no other order away.
LEMMA RemoveFinds ==
  ASSUME IInv, MapFinds, pc \in {"idle", "match"}, pc' = pc, agg' = agg,
         NEW o \in usedOrders, RemoveOrder(o)
  PROVE  MapFinds'
<1>1. order' = order /\ usedOrders' = usedOrders \ {o}
      /\ cidOid' = [cidOid EXCEPT ![order[o].client][order[o].oid] = nullptr]
  BY DEF RemoveOrder, ClearEntry
<1>2. Resters = usedOrders /\ Resters' = usedOrders \ {o}
  BY <1>1 DEF Resters
<1>3. ASSUME NEW p \in usedOrders \ {o} PROVE Found(p)'
  <2>1. Found(p) /\ Found(o) /\ p # o
    BY <1>2 DEF MapFinds
  <2>2. order[p].client \in Clients /\ order[o].client \in Clients
    BY RestingNumbers DEF IInv
  <2>3. \A c \in Clients, id \in ValidIds :
          ~(c = order[o].client /\ id = order[o].oid) => cidOid'[c][id] = cidOid[c][id]
    BY <1>1 DEF IInv, TypeOK
  <2>4. QED
    BY <1>1, <2>1, <2>2, <2>3 DEF Found
<1>4. pc' \in {"match", "walk"} => \A p \in usedOrders \ {o} : NotAgain(p)'
  BY <1>1, <1>2 DEF MapFinds, NotAgain
<1>5. QED
  BY <1>2, <1>3, <1>4 DEF MapFinds

\* The entry of a new order takes no other order's place.
LEMMA PublishFinds ==
  ASSUME IInv, MapFinds, pc \in {"match", "walk"}, agg.oid \in ValidIds,
         NEW o, NEW q, NEW prio, Publish(o, q, prio),
         usedOrders' = Resters \cup {o}, \A p \in Resters : order'[p] = order[p],
         order'[o].client = agg.client, order'[o].oid = agg.oid
  PROVE  MapFinds'
<1>1. cidOid' = [cidOid EXCEPT ![agg.client][agg.oid] = o] /\ pc' = "idle"
  BY DEF Publish, Return
<1>2. Resters' = Resters \cup {o}
  BY <1>1 DEF Resters
<1>3. agg.client \in Clients /\ cidOid \in [Clients -> [ValidIds -> OrderPtrs]]
  BY DEF IInv, TypeOK, Aggressors
<1>4. \A c \in Clients, id \in ValidIds :
        cidOid'[c][id] = IF c = agg.client /\ id = agg.oid THEN o ELSE cidOid[c][id]
  BY <1>1, <1>3
<1>5. ASSUME NEW p \in Resters PROVE Found(p)'
  <2>1. Found(p) /\ NotAgain(p) /\ order[p].client \in Clients /\ order'[p] = order[p]
    BY RestingNumbers DEF MapFinds, Resters, IInv
  <2>2. QED
    BY <1>4, <2>1 DEF Found, NotAgain
<1>6. Found(o)'
  BY <1>3, <1>4 DEF Found
<1>7. QED
  BY <1>1, <1>2, <1>5, <1>6 DEF MapFinds

LEMMA RestFinds ==
  ASSUME IInv, MapFinds, pc = "match", leaves > 0, CanAllocateOrder, NEW l, AllocateOrder(l),
         NextPriority(l) \in Nat, agg.oid \in ValidIds, NEW q, NEW prio, Publish(freeOrder, q, prio)
  PROVE  MapFinds'
<1>1. Resters = usedOrders
  BY DEF Resters
<1>2. /\ \A p \in usedOrders : order'[p] = order[p]
      /\ usedOrders' = usedOrders \cup {freeOrder}
      /\ order'[freeOrder].client = agg.client /\ order'[freeOrder].oid = agg.oid
  BY AllocatedOrder
<1>3. QED
  BY <1>1, <1>2, PublishFinds

LEMMA InsertFinds ==
  ASSUME IInv, MapFinds, pc = "walk", CanInsert, PublishWalked, UNCHANGED orderVars
  PROVE  MapFinds'
<1>1. /\ walk.order \in usedOrders /\ agg.oid \in ValidIds
      /\ order[walk.order].client = agg.client /\ order[walk.order].oid = agg.oid
      /\ UNCHANGED <<order, usedOrders>>
  BY DEF IInv, CallOpen, CanInsert, orderVars
<1>2. usedOrders' = Resters \cup {walk.order}
  BY <1>1 DEF Resters
<1>3. QED
  BY <1>1, <1>2, PublishFinds DEF PublishWalked, Resters

LEMMA RestOnSideFinds == ASSUME IInv, MapFinds, RestOnSide PROVE MapFinds'
<1>1. /\ pc = "match" /\ leaves > 0 /\ CanAllocateOrder /\ AllocateOrder(nullptr)
      /\ NextPriority(nullptr) \in Nat /\ UNCHANGED <<cidOid, agg>>
      /\ pc' = "halted" \/ (pc' = "walk" /\ walk'.order = freeOrder)
  BY DEF RestOnSide, Rests, CanRest, NextPriority
<1>2. /\ \A p \in usedOrders : order'[p] = order[p]
      /\ usedOrders' = usedOrders \cup {freeOrder} /\ freeOrder \notin usedOrders
  BY <1>1, AllocatedOrder
<1>3. Resters = usedOrders /\ (pc' = "walk" => Resters' = usedOrders)
  BY <1>1, <1>2 DEF Resters
<1>4. QED
  BY <1>1, <1>2, <1>3 DEF MapFinds, Found, NotAgain

LEMMA NextFinds == IInv /\ MapFinds /\ [Next /\ FreshArrivals]_vars => MapFinds'
<1> SUFFICES ASSUME IInv, MapFinds, [Next /\ FreshArrivals]_vars PROVE MapFinds'
  OBVIOUS
<1>1. CASE UNCHANGED vars
  BY <1>1 DEF MapFinds, Resters, Found, NotAgain, vars, orderVars, indexVars, callVars
<1>2. Halt => MapFinds'
  BY DEF Halt, MapFinds
<1>3. CASE Request /\ FreshArrivals
  <2>1. ASSUME NEW c \in Clients, NEW id \in OrderIds, NEW s \in Sides, NEW p \in Prices,
               NEW q \in Quantities, Accept(c, id, s, p, q)
        PROVE  MapFinds'
    <3>1. UNCHANGED <<order, usedOrders, cidOid>> /\ pc = "idle" /\ pc' = "match"
      BY <2>1 DEF Accept, orderVars, indexVars
    <3>2. Resters = usedOrders /\ Resters' = usedOrders
      BY <3>1 DEF Resters
    <3>3. \A o \in usedOrders : ~(order[o].client = agg'.client /\ order[o].oid = agg'.oid)
      BY <1>3, <3>1 DEF FreshArrivals
    <3>4. QED
      BY <3>1, <3>2, <3>3 DEF MapFinds, Found, NotAgain
  <2>2. ASSUME NEW c \in Clients, NEW id \in OrderIds, Cancel(c, id) PROVE MapFinds'
    <3>1. cidOid[c][id] \in usedOrders
      BY <2>2 DEF Cancel, IInv, BookInv, ClientMapSound
    <3>2. QED
      BY <2>2, <3>1, RemoveFinds DEF Cancel, callVars
  <2>3. ASSUME NEW c \in Clients, NEW id \in OrderIds, CancelReject(c, id) PROVE MapFinds'
    BY <2>3 DEF CancelReject, MapFinds, Resters, Found, NotAgain, orderVars, indexVars, callVars
  <2>4. QED
    BY <1>2, <1>3, <2>1, <2>2, <2>3 DEF Request, CancelCrash
<1>4. MatchPartly => MapFinds'
  BY DEF MatchPartly, MapFinds, Resters, Found, NotAgain, indexVars
<1>5. MatchFully => MapFinds'
  BY RemoveFinds DEF MatchFully, CanRemove
<1>6. Filled => MapFinds'
  BY DEF Filled, Return, MapFinds, Resters, Found, NotAgain, orderVars, indexVars
<1>7. RestAtLevel => MapFinds'
  <2> SUFFICES ASSUME RestAtLevel PROVE MapFinds'
    OBVIOUS
  <2> DEFINE l == priceMap[AggIndex]
  <2>1. /\ pc = "match" /\ leaves > 0 /\ CanAllocateOrder /\ AllocateOrder(l) /\ l # nullptr
        /\ Publish(freeOrder, leaves, NextPriority(l)) /\ agg.oid \in ValidIds
        /\ AggIndex \in PriceIndices
    BY IndicesInRange DEF RestAtLevel, Rests, CanRest, IInv
  <2>2. NextPriority(l) \in Nat
    BY <2>1, TailIsYoungest, RestingNumbers DEF NextPriority, IInv
  <2>3. QED
    BY <2>1, <2>2, RestFinds
<1>8. RestOnEmptySide => MapFinds'
  <2> SUFFICES ASSUME RestOnEmptySide PROVE MapFinds'
    OBVIOUS
  <2>1. /\ pc = "match" /\ leaves > 0 /\ CanAllocateOrder /\ AllocateOrder(nullptr)
        /\ Publish(freeOrder, leaves, 1) /\ agg.oid \in ValidIds /\ NextPriority(nullptr) \in Nat
    BY DEF RestOnEmptySide, Rests, CanRest, NextPriority
  <2>2. QED
    BY <2>1, RestFinds
<1>9. WalkStep => MapFinds'
  <2> SUFFICES ASSUME WalkStep PROVE MapFinds'
    OBVIOUS
  <2>1. /\ UNCHANGED <<order, usedOrders, cidOid, agg>> /\ pc = "walk" /\ pc' \in {"walk", "halted"}
        /\ walk'.order = walk.order
    BY DEF WalkStep, orderVars, indexVars, IInv, TypeOK, Walks
  <2>2. QED
    BY <2>1 DEF MapFinds, Resters, Found, NotAgain
<1>10. InsertAtEnd \/ InsertBeforeTarget => MapFinds'
  BY InsertFinds DEF InsertAtEnd, AtEnd, InsertBeforeTarget, AtTarget
<1>11. CASE Running
  BY <1>2, <1>4, <1>5, <1>6, <1>7, <1>8, <1>9, <1>10, <1>11, RestOnSideFinds
     DEF Running, MatchCrash, RestCrash, InsertCrash
<1>12. QED
  BY <1>1, <1>3, <1>11 DEF Next

\* As long as no client reuses the id of a resting order, its cancel() finds every order of
\* it that rests.
THEOREM CancelFinds == Init /\ [][Next /\ FreshArrivals]_vars => []CancelFindsOrder
<1>1. Init => IInv /\ MapFinds
  BY InitIInv DEF Init, MapFinds, Resters
<1>2. IInv /\ MapFinds /\ [Next /\ FreshArrivals]_vars => (IInv /\ MapFinds)'
  BY NextIInv, NextFinds
<1>3. MapFinds => CancelFindsOrder
  BY DEF MapFinds, Resters, Found, CancelFindsOrder
<1>4. QED
  BY <1>1, <1>2, <1>3, PTL

-----------------------------------------------------------------------------
\* Rings: the list of the levels of a side.

\* What is outside S makes no difference.
LEMMA SortedSame ==
  ASSUME NEW S, NEW nx, NEW pv, NEW rk, NEW mx, NEW qv, NEW sk, Sorted(S, nx, pv, rk),
         \A x \in S : mx[x] = nx[x] /\ qv[x] = pv[x] /\ sk[x] = rk[x]
  PROVE  Sorted(S, mx, qv, sk)
<1>1. \A x \in S : nx[x] \in S /\ pv[x] \in S
  BY DEF Sorted
<1>2. QED
  BY <1>1 DEF Sorted

LEMMA Alone ==
  ASSUME NEW S, NEW nx, NEW pv, NEW rk, Sorted(S, nx, pv, rk), NEW x \in S, nx[x] = x
  PROVE  S = {x}
<1> SUFFICES ASSUME NEW y \in S, y # x PROVE FALSE
  OBVIOUS
<1>1. pv[x] = x /\ rk[x] # rk[y] /\ rk[x] \in Int /\ rk[y] \in Int
  BY DEF Sorted
<1>2. ~(rk[x] < rk[y])
  BY <1>1 DEF Sorted
<1>3. ~(rk[y] < rk[x])
  BY <1>1 DEF Sorted
<1>4. QED
  BY <1>1, <1>2, <1>3

\* The one before the least member is the greatest.
LEMMA LastIsGreatest ==
  ASSUME NEW S, NEW nx, NEW pv, NEW rk, Sorted(S, nx, pv, rk), NEW b, Least(S, b, rk)
  PROVE  pv[b] \in S /\ \A x \in S : rk[x] <= rk[pv[b]]
<1>1. pv[b] \in S /\ nx[pv[b]] = b /\ b \in S
  BY DEF Sorted, Least
<1> SUFFICES ASSUME NEW x \in S PROVE rk[x] <= rk[pv[b]]
  BY <1>1
<1>2. rk[x] \in Int /\ rk[b] \in Int /\ rk[pv[b]] \in Int /\ rk[b] <= rk[pv[b]]
  BY <1>1 DEF Sorted, Least
<1>3. ~(rk[pv[b]] < rk[x])
  BY <1>1, <1>2 DEF Sorted
<1>4. QED
  BY <1>2, <1>3

\* A member that is taken out.
LEMMA RingRemove ==
  ASSUME NEW S, NEW nx, NEW pv, NEW rk, Sorted(S, nx, pv, rk), NEW x \in S, nx[x] # x,
         NEW mx, NEW qv,
         \A y \in S \ {x} : /\ mx[y] = IF y = pv[x] THEN nx[x] ELSE nx[y]
                            /\ qv[y] = IF y = nx[x] THEN pv[x] ELSE pv[y]
  PROVE  Sorted(S \ {x}, mx, qv, rk)
<1> DEFINE a == nx[x]
           b == pv[x]
           T == S \ {x}
<1>1. a \in T /\ b \in T /\ nx[b] = x /\ pv[a] = x /\ pv[x] = b /\ nx[x] = a
  BY DEF Sorted
<1>2. \A y \in S : /\ nx[y] \in S /\ pv[y] \in S /\ pv[nx[y]] = y /\ nx[pv[y]] = y
                   /\ nx[y] = x => y = b
                   /\ pv[y] = x => y = a
  BY DEF Sorted
<1>3. \A y \in T : mx[y] \in T /\ qv[y] \in T /\ qv[mx[y]] = y /\ mx[qv[y]] = y
  <2> SUFFICES ASSUME NEW y \in T PROVE mx[y] \in T /\ qv[y] \in T /\ qv[mx[y]] = y /\ mx[qv[y]] = y
    OBVIOUS
  <2> HIDE DEF a, b
  <2>1. /\ mx[y] = (IF y = b THEN a ELSE nx[y]) /\ qv[y] = (IF y = a THEN b ELSE pv[y])
    BY DEF a, b
  <2>2. mx[y] \in T /\ qv[y] \in T
    BY <1>1, <1>2, <2>1
  <2>3. qv[mx[y]] = (IF mx[y] = a THEN b ELSE pv[mx[y]]) /\ mx[qv[y]] = (IF qv[y] = b THEN a ELSE nx[qv[y]])
    BY <2>2 DEF a, b
  <2>4. QED
    BY <1>1, <1>2, <2>1, <2>2, <2>3
<1>4. ASSUME NEW y \in T, NEW z \in T, rk[y] < rk[z]
      PROVE  /\ rk[y] < rk[mx[y]] /\ rk[mx[y]] <= rk[z]
             /\ rk[qv[z]] < rk[z] /\ rk[y] <= rk[qv[z]]
  <2>1. /\ rk[x] \in Int /\ rk[y] \in Int /\ rk[z] \in Int /\ rk[a] \in Int /\ rk[b] \in Int
        /\ rk[x] # rk[y] /\ rk[x] # rk[z]
    BY <1>1 DEF Sorted
  <2>2. /\ rk[y] < rk[nx[y]] /\ rk[nx[y]] <= rk[z]
        /\ rk[pv[z]] < rk[z] /\ rk[y] <= rk[pv[z]]
    BY <1>4 DEF Sorted
  <2>3. rk[y] < rk[mx[y]] /\ rk[mx[y]] <= rk[z]
    <3>1. CASE y = b
      <4>1. rk[y] < rk[x] /\ rk[x] < rk[z]
        BY <1>1, <2>1, <2>2, <3>1
      <4>2. rk[x] < rk[a] /\ rk[a] <= rk[z]
        BY <4>1 DEF Sorted
      <4>3. QED
        BY <2>1, <3>1, <4>1, <4>2
    <3>2. CASE y # b
      BY <2>2, <3>2
    <3>3. QED
      BY <3>1, <3>2
  <2>4. rk[qv[z]] < rk[z] /\ rk[y] <= rk[qv[z]]
    <3>1. CASE z = a
      <4>1. rk[x] < rk[z] /\ rk[y] < rk[x]
        BY <1>1, <2>1, <2>2, <3>1
      <4>2. rk[b] < rk[x] /\ rk[y] <= rk[b]
        BY <4>1 DEF Sorted
      <4>3. QED
        BY <2>1, <3>1, <4>1, <4>2
    <3>2. CASE z # a
      BY <2>2, <3>2
    <3>3. QED
      BY <3>1, <3>2
  <2>5. QED
    BY <2>3, <2>4
<1>5. \A y, z \in T : y # z => rk[y] # rk[z]
  BY DEF Sorted
<1>6. \A y \in T : rk[y] \in Int
  BY DEF Sorted
<1> HIDE DEF T
<1>7. Sorted(T, mx, qv, rk)
  BY <1>3, <1>4, <1>5, <1>6 DEF Sorted
<1>8. QED
  BY <1>7 DEF T

\* When the least member is taken out the one after it is the least.
LEMMA RemoveLeast ==
  ASSUME NEW S, NEW nx, NEW pv, NEW rk, Sorted(S, nx, pv, rk), NEW b, Least(S, b, rk), nx[b] # b
  PROVE  Least(S \ {b}, nx[b], rk)
<1>1. b \in S /\ nx[b] \in S \ {b}
  BY DEF Sorted, Least
<1> SUFFICES ASSUME NEW x \in S \ {b} PROVE rk[nx[b]] <= rk[x]
  BY <1>1 DEF Least
<1>2. rk[x] \in Int /\ rk[b] \in Int /\ rk[b] <= rk[x] /\ rk[b] # rk[x]
  BY <1>1 DEF Sorted, Least
<1>3. rk[b] < rk[x]
  BY <1>2
<1>4. QED
  BY <1>1, <1>3 DEF Sorted

\* A member that ranks after all others goes to the end.
LEMMA RingAppend ==
  ASSUME NEW S, NEW nx, NEW pv, NEW rk, Sorted(S, nx, pv, rk), NEW b, Least(S, b, rk),
         NEW x, x \notin S, rk[x] \in Int, \A y \in S : rk[y] < rk[x],
         NEW mx, NEW qv, mx[x] = b, qv[x] = pv[b],
         \A y \in S : /\ mx[y] = IF y = pv[b] THEN x ELSE nx[y]
                      /\ qv[y] = IF y = b THEN x ELSE pv[y]
  PROVE  Sorted(S \cup {x}, mx, qv, rk) /\ Least(S \cup {x}, b, rk)
<1> DEFINE T == S \cup {x}
           last == pv[b]
<1>1. /\ b \in S /\ last \in S /\ nx[last] = b
      /\ \A y \in S : rk[y] <= rk[last] /\ rk[b] <= rk[y]
      /\ \A y \in T : rk[y] \in Int
  BY LastIsGreatest DEF Sorted, Least
<1>2. \A y \in S : /\ nx[y] \in S /\ pv[y] \in S /\ pv[nx[y]] = y /\ nx[pv[y]] = y
  BY DEF Sorted
<1>3. \A y \in T : mx[y] \in T /\ qv[y] \in T /\ qv[mx[y]] = y /\ mx[qv[y]] = y
  <2> HIDE DEF last
  <2>1. \A y \in S : mx[y] = (IF y = last THEN x ELSE nx[y]) /\ qv[y] = (IF y = b THEN x ELSE pv[y])
    BY DEF last
  <2>2. mx[x] = b /\ qv[x] = last
    BY DEF last
  <2>3. pv[b] = last
    BY DEF last
  <2>4. QED
    BY <1>1, <1>2, <2>1, <2>2, <2>3
<1>4. \A y, z \in T : y # z => rk[y] # rk[z]
  <2>1. \A y, z \in S : y # z => rk[y] # rk[z]
    BY DEF Sorted
  <2>2. \A y \in S : rk[y] # rk[x]
    BY <1>1
  <2>3. QED
    BY <2>1, <2>2
<1>5. ASSUME NEW y \in T, NEW z \in T, rk[y] < rk[z]
      PROVE  /\ rk[y] < rk[mx[y]] /\ rk[mx[y]] <= rk[z]
             /\ rk[qv[z]] < rk[z] /\ rk[y] <= rk[qv[z]]
  <2>1. y \in S /\ y # x
    <3>1. ASSUME y = x PROVE FALSE
      <4>1. rk[z] <= rk[x] /\ rk[x] \in Int /\ rk[z] \in Int
        BY <1>1
      <4>2. QED
        BY <1>5, <3>1, <4>1
    <3>2. QED
      BY <3>1
  <2>2. CASE z = x
    <3>1. /\ qv[z] = last /\ rk[last] < rk[x] /\ rk[y] <= rk[last] /\ rk[last] \in Int
          /\ rk[y] \in Int /\ rk[x] \in Int
      BY <1>1, <2>1, <2>2
    <3>2. CASE y = last
      BY <1>1, <2>1, <2>2, <3>1, <3>2
    <3>3. CASE y # last
      <4>1. mx[y] = nx[y] /\ nx[y] \in S /\ rk[y] # rk[last] /\ rk[nx[y]] < rk[x] /\ rk[nx[y]] \in Int
        BY <1>1, <1>2, <2>1, <3>3 DEF Sorted
      <4>2. rk[y] < rk[last]
        BY <3>1, <4>1
      <4>3. rk[y] < rk[nx[y]]
        BY <1>1, <2>1, <4>2 DEF Sorted
      <4>4. QED
        BY <2>2, <3>1, <4>1, <4>3
    <3>4. QED
      BY <3>2, <3>3
  <2>3. CASE z \in S
    <3>1. /\ rk[y] < rk[nx[y]] /\ rk[nx[y]] <= rk[z]
          /\ rk[pv[z]] < rk[z] /\ rk[y] <= rk[pv[z]]
      BY <1>5, <2>1, <2>3 DEF Sorted
    <3>2. /\ rk[z] <= rk[last] /\ rk[b] <= rk[y] /\ rk[y] \in Int /\ rk[z] \in Int
          /\ rk[last] \in Int /\ rk[b] \in Int
      BY <1>1, <2>1, <2>3
    <3>3. y # last /\ z # b
      BY <1>5, <3>2
    <3>4. mx[y] = nx[y] /\ qv[z] = pv[z]
      BY <2>1, <2>3, <3>3
    <3>5. QED
      BY <3>1, <3>4
  <2>4. QED
    BY <2>2, <2>3
<1>6. b \in T /\ \A y \in T : rk[b] <= rk[y]
  BY <1>1
<1> HIDE DEF T
<1>7. Sorted(T, mx, qv, rk)
  BY <1>1, <1>3, <1>4, <1>5 DEF Sorted
<1>8. Least(T, b, rk)
  BY <1>6 DEF Least
<1>9. QED
  BY <1>7, <1>8 DEF T

\* A member by itself.
LEMMA RingOfOne ==
  ASSUME NEW x, NEW nx, NEW pv, NEW rk, nx[x] = x, pv[x] = x, rk[x] \in Int
  PROVE  Sorted({x}, nx, pv, rk) /\ Least({x}, x, rk)
BY DEF Sorted, Least

-----------------------------------------------------------------------------
\* Books whose levels are in order, and the calls of add().

\* The priorities of a level tell the order of arrival.
OlderFirst == \A o, p \in usedOrders : SameLevel(o, p) /\ Before(o, p) => order[o].moid < order[p].moid

\* The locals of a call, whatever the order of the levels: the search holds a level of the price
\* of the order and ends at one that is not more aggressive.
CallPlaced ==
  /\ pc = "idle" => agg = nullptr /\ walk = nullptr
  /\ pc = "match" => walk = nullptr
  /\ pc = "walk" =>
       /\ walk.level \in usedLevels /\ level[walk.level] = [side |-> agg.side, price |-> agg.price]
       /\ ~walk.addAfter => ~NewLessAggressive(walk.target)

\* In a list that is in order the search is at a level of the list, and it has not passed one
\* that the new one belongs before.
SearchPlaced ==
  pc = "walk" /\ SidesSorted =>
    /\ walk.target \in Linked(agg.side)
    /\ walk.addAfter => NewLessAggressive(prevEntry[walk.target])

CallSound == OlderFirst /\ CallPlaced /\ SearchPlaced
Placed == OrdersPlaced /\ OlderFirst

LEMMA RankTells ==
  ASSUME NEW s \in Sides, NEW p \in Nat, NEW q \in Nat
  PROVE  /\ PriceRank(s, p) \in Int
         /\ LessAggressive(s, p, q) <=> PriceRank(s, q) < PriceRank(s, p)
         /\ PriceRank(s, p) = PriceRank(s, q) => p = q
BY DEF PriceRank, LessAggressive, Sides

\* Orders and levels agree.
LEMMA LevelsPlaced ==
  ASSUME IInv, OrdersPlaced
  PROVE  /\ \A o \in usedOrders : /\ LevelOf(o) \in usedLevels
                                  /\ order[o].price \in Nat
                                  /\ order[o].side \in Sides
         /\ \A l \in usedLevels : /\ level[l].price \in Nat
                                  /\ l \in LevelSlots /\ level[l].side \in Sides
                                  /\ priceMap[PriceToIndex(level[l].price)] = l
                                  /\ firstOrder[l] \in usedOrders /\ LevelOf(firstOrder[l]) = l
                                  /\ order[firstOrder[l]].price = level[l].price
                                  /\ order[firstOrder[l]].side = level[l].side
<1>1. ASSUME NEW o \in usedOrders
      PROVE  /\ LevelOf(o) \in usedLevels /\ order[o].price \in Nat
             /\ order[o].side \in Sides
  <2>1. PriceToIndex(order[o].price) \in PriceIndices /\ order[o].price \in Nat /\ order[o].side \in Sides
    BY IndicesInRange, RestingNumbers DEF IInv
  <2>2. LevelOf(o) # nullptr /\ LevelOf(o) \in usedLevels
    BY <2>1 DEF IInv, BookInv, LevelsIndexed, LevelOf
  <2>3. QED
    BY <2>1, <2>2 DEF OrdersPlaced
<1>2. ASSUME NEW l \in usedLevels
      PROVE  /\ level[l].price \in Nat
             /\ l \in LevelSlots /\ level[l].side \in Sides
             /\ priceMap[PriceToIndex(level[l].price)] = l
             /\ firstOrder[l] \in usedOrders /\ LevelOf(firstOrder[l]) = l
             /\ order[firstOrder[l]].price = level[l].price
             /\ order[firstOrder[l]].side = level[l].side
  <2>1. /\ level[l].price \in Nat /\ l \in LevelSlots
        /\ level[l].side \in Sides /\ l # nullptr
        /\ PriceToIndex(level[l].price) \in PriceIndices
    BY IndicesInRange, ConstantsAssumption DEF IInv, TypeOK, LevelData, OrdersPlaced, LevelSlots
  <2>2. priceMap[PriceToIndex(level[l].price)] = l
    BY DEF IInv, BookInv, LevelsIndexed
  <2>3. /\ firstOrder[l] \in usedOrders
        /\ PriceToIndex(order[firstOrder[l]].price) = PriceToIndex(level[l].price)
    BY <2>1, <2>2 DEF IInv, BookInv, LevelsIndexed
  <2>4. LevelOf(firstOrder[l]) = l
    BY <2>2, <2>3 DEF LevelOf
  <2>5. QED
    BY <2>1, <2>2, <2>3, <2>4 DEF OrdersPlaced
<1>3. QED
  BY <1>1, <1>2

\* What the order lists of the levels look like matters to no level.
LEMMA LevelsSame ==
  ASSUME SidesSorted, pc # "walk", pc' # "walk",
         UNCHANGED <<level, prevEntry, nextEntry, usedLevels, best>>
  PROVE  SidesSorted'
<1>1. \A s \in Sides : Linked(s)' = Linked(s) /\ Rank(s)' = Rank(s)
  BY DEF Linked, Rank
<1>2. QED
  BY <1>1 DEF SidesSorted, SideSorted

\* removeOrder() of one order of several.
LEMMA UnlinkArranged ==
  ASSUME IInv, SidesSorted, Placed, pc \in {"idle", "match"}, pc' = pc,
         NEW o \in usedOrders, RemoveOrder(o), prevOrder[o] # o
  PROVE  SidesSorted' /\ Placed'
<1>1. /\ UNCHANGED <<order, level, priceMap, prevEntry, nextEntry, usedLevels, best>>
      /\ usedOrders' = usedOrders \ {o}
  BY DEF RemoveOrder
<1>2. SidesSorted'
  BY <1>1, LevelsSame
<1>3. Placed'
  BY <1>1 DEF Placed, OrdersPlaced, OlderFirst, LevelOf, SameLevel, Before
<1>4. QED
  BY <1>2, <1>3

\* removeOrder() of the only order of a level, and removeOrdersAtPrice().
LEMMA RemoveLevelArranged ==
  ASSUME IInv, SidesSorted, Placed, pc \in {"idle", "match"}, pc' = pc,
         NEW o \in usedOrders, RemoveOrder(o), prevOrder[o] = o
  PROVE  SidesSorted' /\ Placed'
<1> DEFINE i == PriceToIndex(order[o].price)
           l == LevelOf(o)
<1>0. PICK s \in Sides : s = order[o].side
  BY LevelsPlaced DEF Placed
<1>1. /\ UNCHANGED <<order, level>> /\ usedOrders' = usedOrders \ {o}
      /\ RemoveOrdersAtPrice(s, i, l)
  BY <1>0 DEF RemoveOrder
<1>2. /\ l \in usedLevels /\ l \in LevelSlots /\ s \in Sides /\ level[l].side = s
      /\ usedLevels' = usedLevels \ {l}
      /\ priceMap' = [priceMap EXCEPT ![i] = nullptr] /\ i \in PriceIndices
  BY <1>0, <1>1, LevelsPlaced, IndicesInRange DEF Placed, OrdersPlaced, IInv, RemoveOrdersAtPrice
<1>3. /\ prevEntry \in [LevelSlots -> LevelPtrs] /\ nextEntry \in [LevelSlots -> LevelPtrs]
      /\ best \in [Sides -> LevelPtrs] /\ priceMap \in [PriceIndices -> LevelPtrs]
      /\ usedLevels \subseteq LevelSlots
  BY DEF IInv, TypeOK
<1>4. /\ Linked(s)' = Linked(s) \ {l} /\ l \in Linked(s)
      /\ \A t \in Sides \ {s} : Linked(t)' = Linked(t) /\ l \notin Linked(t)
      /\ \A t \in Sides : Rank(t)' = Rank(t) /\ Linked(t) \subseteq LevelSlots
      /\ \A t \in Sides \ {s} : Linked(t) \cap Linked(s) = {}
  BY <1>1, <1>2, <1>3 DEF Linked, Rank
<1>5. SideSorted(s) /\ prevEntry[l] \in Linked(s) /\ nextEntry[l] \in Linked(s)
  BY <1>2, <1>4 DEF SidesSorted, SideSorted, Sorted
<1>6. SideSorted(s)'
  <2>1. CASE nextEntry[l] = l
    <3>1. Linked(s) = {l}
      BY <1>4, <1>5, <2>1, Alone DEF SideSorted
    <3>2. best'[s] = nullptr /\ Linked(s)' = {}
      BY <1>1, <1>2, <1>3, <1>4, <2>1, <3>1 DEF RemoveOrdersAtPrice
    <3>3. Sorted({}, nextEntry', prevEntry', Rank(s)')
      BY DEF Sorted
    <3>4. QED
      BY <3>2, <3>3 DEF SideSorted
  <2>2. CASE nextEntry[l] # l
    <3>1. /\ nextEntry' = [nextEntry EXCEPT ![prevEntry[l]] = nextEntry[l], ![l] = nullptr]
          /\ prevEntry' = [prevEntry EXCEPT ![nextEntry[l]] = prevEntry[l], ![l] = nullptr]
          /\ best' = IF l = best[s] THEN [best EXCEPT ![s] = nextEntry[l]] ELSE best
      BY <1>1, <2>2 DEF RemoveOrdersAtPrice
    <3>2. \A m \in Linked(s) \ {l} : /\ nextEntry'[m] = IF m = prevEntry[l] THEN nextEntry[l] ELSE nextEntry[m]
                                     /\ prevEntry'[m] = IF m = nextEntry[l] THEN prevEntry[l] ELSE prevEntry[m]
      <4> DEFINE a == nextEntry[l]
                 b == prevEntry[l]
      <4>1. a \in LevelSlots /\ b \in LevelSlots /\ Linked(s) \subseteq LevelSlots
        BY <1>4, <1>5
      <4>2. /\ nextEntry' = [nextEntry EXCEPT ![b] = a, ![l] = nullptr]
            /\ prevEntry' = [prevEntry EXCEPT ![a] = b, ![l] = nullptr]
        BY <3>1
      <4> HIDE DEF a, b
      <4>3. \A m \in LevelSlots \ {l} : /\ nextEntry'[m] = IF m = b THEN a ELSE nextEntry[m]
                                        /\ prevEntry'[m] = IF m = a THEN b ELSE prevEntry[m]
        BY <1>3, <4>1, <4>2
      <4>4. QED
        BY <4>1, <4>3 DEF a, b
    <3>3. Sorted(Linked(s) \ {l}, nextEntry', prevEntry', Rank(s))
      BY <1>4, <1>5, <2>2, <3>2, RingRemove, SMTT(30) DEF SideSorted
    <3>4. best[s] # nullptr /\ Least(Linked(s), best[s], Rank(s))
      BY <1>4, <1>5 DEF SideSorted
    <3>5. best'[s] # nullptr /\ Least(Linked(s) \ {l}, best'[s], Rank(s))
      <4>1. CASE l = best[s]
        <5>1. best'[s] = nextEntry[l]
          BY <1>2, <1>3, <3>1, <4>1
        <5>2. Least(Linked(s) \ {l}, nextEntry[l], Rank(s))
          BY <1>5, <2>2, <3>4, <4>1, RemoveLeast DEF SideSorted
        <5>3. nextEntry[l] # nullptr
          BY <1>4, <1>5, ConstantsAssumption DEF LevelSlots
        <5>4. QED
          BY <5>1, <5>2, <5>3
      <4>2. CASE l # best[s]
        BY <3>1, <3>4, <4>2 DEF Least
      <4>3. QED
        BY <4>1, <4>2
    <3>6. QED
      BY <1>2, <1>4, <3>3, <3>5 DEF SideSorted
  <2>3. QED
    BY <2>1, <2>2
<1>7. ASSUME NEW t \in Sides \ {s} PROVE SideSorted(t)'
  <2>1. /\ \A m \in Linked(t) : nextEntry'[m] = nextEntry[m] /\ prevEntry'[m] = prevEntry[m]
        /\ best'[t] = best[t]
    BY <1>1, <1>2, <1>3, <1>4, <1>5 DEF RemoveOrdersAtPrice
  <2>2. Sorted(Linked(t), nextEntry', prevEntry', Rank(t))
    BY <2>1, SortedSame DEF SidesSorted, SideSorted
  <2>3. QED
    BY <1>4, <2>1, <2>2 DEF SidesSorted, SideSorted
<1>8. Placed'
  <2>1. \A p \in usedOrders \ {o} : LevelOf(p)' = LevelOf(p)
    <3>1. \A p \in usedOrders \ {o} : PriceToIndex(order[p].price) # i
      BY AloneInRing DEF IInv, BookInv, SameLevel
    <3>2. \A p \in usedOrders : PriceToIndex(order[p].price) \in PriceIndices
      BY IndicesInRange DEF IInv
    <3>3. QED
      BY <1>1, <1>2, <1>3, <3>1, <3>2 DEF LevelOf
  <2>2. QED
    BY <1>1, <1>2, <2>1 DEF Placed, OrdersPlaced, OlderFirst, SameLevel, Before
<1>9. SidesSorted'
  BY <1>6, <1>7 DEF SidesSorted
<1>10. QED
  BY <1>8, <1>9

LEMMA RemoveArranged ==
  ASSUME IInv, SidesSorted, Placed, pc \in {"idle", "match"}, pc' = pc,
         NEW o \in usedOrders, RemoveOrder(o)
  PROVE  SidesSorted' /\ Placed'
BY UnlinkArranged, RemoveLevelArranged

\* Nothing crosses what is left of an order that rests.
LEMMA NothingCrosses ==
  ASSUME IInv, SidesSorted, Placed, Rests
  PROVE  \A l \in usedLevels : level[l].side = Opposite(agg.side) =>
           LessAggressive(agg.side, agg.price, level[l].price)
<1> DEFINE s == Opposite(agg.side)
           b == best[s]
<1>1. agg \in Aggressors /\ pc = "match" /\ s \in Sides /\ agg.side \in Sides /\ agg.price \in Nat
  BY DEF Rests, IInv, TypeOK, Aggressors, Opposite, Sides
<1> SUFFICES ASSUME NEW l \in usedLevels, level[l].side = s
             PROVE  LessAggressive(agg.side, agg.price, level[l].price)
  OBVIOUS
<1>2. l \in Linked(s) /\ l \in LevelSlots /\ level[l].price \in Nat
  BY <1>1, LevelsPlaced DEF Linked, Placed
<1>3. b # nullptr /\ Least(Linked(s), b, Rank(s))
  BY <1>1, <1>2 DEF SidesSorted, SideSorted
<1>4. b \in usedLevels /\ b \in LevelSlots /\ level[b].price \in Nat /\ order[firstOrder[b]].price = level[b].price
  BY <1>3, LevelsPlaced DEF Least, Linked, Placed
<1>5. LessAggressive(agg.side, agg.price, level[b].price)
  BY <1>3, <1>4 DEF Rests, CanMatch, BestOpposite, Passive, Crosses
<1>6. PriceRank(s, level[b].price) <= PriceRank(s, level[l].price)
  BY <1>2, <1>3, <1>4 DEF Least, Rank
<1>7. QED
  <2> DEFINE p == agg.price
             q == level[b].price
             r == level[l].price
             t == agg.side
  <2>1. p \in Nat /\ q \in Nat /\ r \in Nat /\ t \in {"BUY", "SELL"}
    BY <1>1, <1>2, <1>4 DEF Sides
  <2>2. LessAggressive(t, p, q) /\ PriceRank(Opposite(t), q) <= PriceRank(Opposite(t), r)
    BY <1>5, <1>6
  <2> HIDE DEF p, q, r, t
  <2>3. LessAggressive(t, p, r)
    BY <2>1, <2>2 DEF LessAggressive, PriceRank, Opposite
  <2>4. QED
    BY <2>3 DEF p, r, t

\* The level of an order that joins one of its price is of its side.
LEMMA JoinedLevel ==
  ASSUME IInv, SidesSorted, Placed, Rests, priceMap[AggIndex] # nullptr,
         level[priceMap[AggIndex]].price = agg.price
  PROVE  priceMap[AggIndex] \in usedLevels /\ level[priceMap[AggIndex]].side = agg.side
<1> DEFINE l == priceMap[AggIndex]
<1>1. agg \in Aggressors /\ pc = "match" /\ agg.side \in Sides /\ agg.price \in Nat /\ AggIndex \in PriceIndices
  BY IndicesInRange DEF Rests, IInv, TypeOK, Aggressors
<1>2. l \in usedLevels /\ level[l].side \in Sides
  BY <1>1, LevelsPlaced DEF IInv, BookInv, LevelsIndexed, Placed
<1>3. ~LessAggressive(agg.side, agg.price, level[l].price)
  BY <1>1 DEF LessAggressive
<1>4. level[l].side # Opposite(agg.side)
  BY <1>2, <1>3, NothingCrosses
<1>5. QED
  BY <1>1, <1>2, <1>4 DEF Sides, Opposite

\* The order that joins a level is the youngest under its index.
LEMMA RestAtLevelOlder ==
  ASSUME IInv, OlderFirst, RestAtLevel
  PROVE  OlderFirst'
<1> DEFINE l == priceMap[AggIndex]
           last == prevOrder[firstOrder[l]]
<1>0. PICK o \in OrderSlots : o = freeOrder
  BY DEF IInv, TypeOK
<1>1. /\ Rests /\ l # nullptr /\ AllocateOrder(l) /\ pc = "match" /\ leaves > 0 /\ CanAllocateOrder
      /\ AggIndex \in PriceIndices
  BY IndicesInRange DEF RestAtLevel, CanRest, Rests, IInv
<1>5. /\ last \in usedOrders /\ PriceToIndex(order[last].price) = AggIndex
      /\ \A p \in usedOrders : PriceToIndex(order[p].price) = AggIndex /\ p # last => Before(p, last)
      /\ NextPriority(l) = order[last].prio + 1
  BY <1>1, TailIsYoungest DEF NextPriority
<1>6. NextPriority(l) \in Nat
  BY <1>5, RestingNumbers DEF IInv
<1>7. /\ \A p \in usedOrders : order'[p] = order[p]
      /\ usedOrders' = usedOrders \cup {o} /\ o \notin usedOrders
      /\ order'[o].price = agg.price /\ order'[o].moid = agg.moid /\ order'[o].prio = NextPriority(l)
  BY <1>0, <1>1, <1>6, AllocatedOrder
<1> SUFFICES ASSUME NEW p \in usedOrders', NEW q \in usedOrders', SameLevel(p, q)', Before(p, q)'
             PROVE  order'[p].moid < order'[q].moid
  BY DEF OlderFirst
<1>8. p # o
  <2> SUFFICES ASSUME p = o PROVE FALSE
    OBVIOUS
  <2>1. q # o
    <3>1. order'[o].prio \in Nat
      BY <1>6, <1>7
    <3>2. QED
      BY <3>1 DEF Before
  <2>2. q \in usedOrders /\ PriceToIndex(order[q].price) = AggIndex
    BY <1>7, <2>1 DEF SameLevel, AggIndex
  <2>3. order[last].prio + 1 < order[q].prio /\ order[q].prio \in Nat /\ order[last].prio \in Nat
    BY <1>5, <1>7, <2>2, RestingNumbers DEF Before, IInv
  <2>4. q = last \/ order[q].prio < order[last].prio
    BY <1>5, <2>2 DEF Before
  <2>5. QED
    BY <2>3, <2>4
<1>9. CASE q = o
  BY <1>1, <1>7, <1>8, <1>9 DEF IInv, CallOpen
<1>10. CASE q # o
  BY <1>7, <1>8, <1>10 DEF OlderFirst, SameLevel, Before
<1>11. QED
  BY <1>9, <1>10

\* The order joins a level: in order if that is the level of its price, and else not.
LEMMA RestAtLevelArranged ==
  ASSUME IInv, SidesSorted, Placed, RestAtLevel
  PROVE  /\ SidesSorted'
         /\ level[priceMap[AggIndex]].price = agg.price <=> OrdersPlaced'
<1> DEFINE l == priceMap[AggIndex]
<1>0. PICK o \in OrderSlots : o = freeOrder
  BY DEF IInv, TypeOK
<1>1. /\ Rests /\ CanRest /\ l # nullptr /\ AllocateOrder(l) /\ pc = "match" /\ leaves > 0
      /\ CanAllocateOrder
      /\ Publish(o, leaves, NextPriority(l))
      /\ UNCHANGED <<levelVars, best, priceMap, nextMarketOrderId>>
      /\ AggIndex \in PriceIndices
  BY <1>0, IndicesInRange DEF RestAtLevel, CanRest, Rests, IInv
<1>3. pc' = "idle"
  BY <1>1 DEF Publish, Return
<1>4. SidesSorted'
  BY <1>1, <1>3, LevelsSame DEF levelVars
<1>6. NextPriority(l) \in Nat
  BY <1>1, TailIsYoungest, RestingNumbers DEF NextPriority, IInv
<1>7. /\ \A p \in usedOrders : order'[p] = order[p]
      /\ usedOrders' = usedOrders \cup {o} /\ o \notin usedOrders
      /\ order'[o].price = agg.price
  BY <1>0, <1>1, <1>6, AllocatedOrder
<1>8. order'[o].side = agg.side
  BY <1>0, <1>1, <1>7 DEF AllocateOrder, IInv, TypeOK, PoolsReady
<1>9. UNCHANGED <<level, usedLevels, priceMap>>
  BY <1>1 DEF levelVars
<1>10. LevelOf(o)' = l /\ \A p \in usedOrders : LevelOf(p)' = LevelOf(p)
  BY <1>7, <1>9 DEF LevelOf, AggIndex
<1>11. ASSUME level[l].price = agg.price PROVE OrdersPlaced'
  BY <1>1, <1>7, <1>8, <1>9, <1>10, <1>11, JoinedLevel DEF Placed, OrdersPlaced
<1>12. ASSUME OrdersPlaced' PROVE level[l].price = agg.price
  BY <1>7, <1>9, <1>10, <1>12 DEF OrdersPlaced
<1>13. QED
  BY <1>4, <1>11, <1>12

\* The order of a new level is under an index of its own.
LEMMA OpenLevelOlder ==
  ASSUME IInv, OlderFirst, Rests, CanAllocateOrder, priceMap[AggIndex] = nullptr, AllocateOrder(nullptr)
  PROVE  OlderFirst'
<1>0. PICK o \in OrderSlots : o = freeOrder
  BY DEF IInv, TypeOK
<1>1. /\ pc = "match" /\ leaves > 0 /\ NextPriority(nullptr) \in Nat /\ AggIndex \in PriceIndices
  BY IndicesInRange DEF Rests, NextPriority, IInv
<1>3. /\ \A p \in usedOrders : order'[p] = order[p]
      /\ usedOrders' = usedOrders \cup {o} /\ o \notin usedOrders
      /\ order'[o].price = agg.price /\ order'[o].prio \in Nat
  BY <1>0, <1>1, AllocatedOrder
<1>6. \A p \in usedOrders : PriceToIndex(order[p].price) # AggIndex
  BY <1>1, IndicesInRange DEF IInv, BookInv, LevelsIndexed, LevelOf
<1>7. \A p \in usedOrders : ~SameLevel(p, o)' /\ ~SameLevel(o, p)'
  BY <1>3, <1>6 DEF SameLevel, AggIndex
<1>8. ~Before(o, o)'
  BY <1>3 DEF Before
<1>9. QED
  BY <1>3, <1>7, <1>8 DEF OlderFirst, SameLevel, Before

\* A new level is opened: the lists of the levels in use before stay as they are.
LEMMA OpenLevelArranged ==
  ASSUME IInv, Rests, CanRest, priceMap[AggIndex] = nullptr,
         AllocateOrder(nullptr), AllocateLevel, NEW e,
         prevEntry' = [prevEntry EXCEPT ![freeLevel] = e],
         nextEntry' = [nextEntry EXCEPT ![freeLevel] = e]
  PROVE  /\ OrdersPlaced => OrdersPlaced'
         /\ usedLevels' = usedLevels \cup {freeLevel} /\ freeLevel \notin usedLevels
         /\ freeLevel \in LevelSlots
         /\ level'[freeLevel] = [side |-> agg.side, price |-> agg.price]
         /\ prevEntry'[freeLevel] = e /\ nextEntry'[freeLevel] = e
         /\ \A m \in usedLevels : /\ level'[m] = level[m]
                                   /\ prevEntry'[m] = prevEntry[m] /\ nextEntry'[m] = nextEntry[m]
<1> DEFINE l == freeLevel
<1>0. PICK o \in OrderSlots : o = freeOrder
  BY DEF IInv, TypeOK
<1>1. /\ pc = "match" /\ leaves > 0 /\ CanAllocateOrder /\ NextPriority(nullptr) \in Nat
      /\ AggIndex \in PriceIndices /\ agg \in Aggressors
  BY IndicesInRange DEF Rests, CanRest, NextPriority, IInv, TypeOK
<1>2. /\ usedLevels' = usedLevels \cup {l} /\ l \notin usedLevels /\ l \in LevelSlots
      /\ level' = [level EXCEPT ![l] = [side |-> agg.side, price |-> agg.price]]
      /\ priceMap' = [priceMap EXCEPT ![AggIndex] = l]
      /\ level \in [LevelSlots -> LevelData \cup {NoLevel}] /\ usedLevels \subseteq LevelSlots
      /\ prevEntry \in [LevelSlots -> LevelPtrs] /\ nextEntry \in [LevelSlots -> LevelPtrs]
      /\ priceMap \in [PriceIndices -> LevelPtrs]
  BY DEF AllocateLevel, IInv, TypeOK, PoolsReady
<1>3. /\ \A p \in usedOrders : order'[p] = order[p]
      /\ usedOrders' = usedOrders \cup {o} /\ o \notin usedOrders
      /\ order'[o].price = agg.price /\ order'[o].moid = agg.moid
  BY <1>0, <1>1, AllocatedOrder
<1>4. order'[o].side = agg.side
  BY <1>0, <1>1, <1>3 DEF AllocateOrder, IInv, TypeOK, PoolsReady
<1>5. /\ level'[l] = [side |-> agg.side, price |-> agg.price] /\ prevEntry'[l] = e /\ nextEntry'[l] = e
      /\ \A m \in usedLevels : /\ level'[m] = level[m]
                                /\ prevEntry'[m] = prevEntry[m] /\ nextEntry'[m] = nextEntry[m]
  BY <1>2
<1>6. \A p \in usedOrders : /\ PriceToIndex(order[p].price) # AggIndex
                            /\ PriceToIndex(order[p].price) \in PriceIndices
  BY <1>1, IndicesInRange DEF IInv, BookInv, LevelsIndexed, LevelOf
<1>8. ASSUME OrdersPlaced PROVE OrdersPlaced'
  <2>1. \A p \in usedOrders : LevelOf(p)' = LevelOf(p) /\ LevelOf(p) \in usedLevels
    BY <1>2, <1>3, <1>6, <1>8, LevelsPlaced DEF LevelOf
  <2>2. LevelOf(o)' = l
    BY <1>1, <1>2, <1>3 DEF LevelOf, AggIndex
  <2>3. QED
    BY <1>3, <1>4, <1>5, <1>8, <2>1, <2>2 DEF OrdersPlaced
<1>10. QED
  BY <1>2, <1>5, <1>8

\* The order opens the first level of its side.
LEMMA RestOnEmptySideArranged ==
  ASSUME IInv, SidesSorted, OrdersPlaced, RestOnEmptySide
  PROVE  SidesSorted' /\ OrdersPlaced'
<1>0. PICK s \in Sides, l \in LevelSlots : s = agg.side /\ l = freeLevel
  BY DEF RestOnEmptySide, Rests, IInv, TypeOK, Aggressors
<1>1. /\ Rests /\ CanRest /\ priceMap[AggIndex] = nullptr /\ best[s] = nullptr
      /\ AllocateOrder(nullptr) /\ AllocateLevel
      /\ best' = [best EXCEPT ![s] = l]
      /\ prevEntry' = [prevEntry EXCEPT ![l] = l]
      /\ nextEntry' = [nextEntry EXCEPT ![l] = l]
      /\ pc = "match" /\ pc' = "idle"
      /\ agg \in Aggressors
  BY <1>0 DEF RestOnEmptySide, Publish, Return, Rests, IInv, TypeOK
<1>2. /\ OrdersPlaced'
      /\ usedLevels' = usedLevels \cup {l} /\ l \notin usedLevels
      /\ level'[l] = [side |-> s, price |-> agg.price]
      /\ prevEntry'[l] = l /\ nextEntry'[l] = l
      /\ \A m \in usedLevels : /\ level'[m] = level[m]
                               /\ prevEntry'[m] = prevEntry[m] /\ nextEntry'[m] = nextEntry[m]
  BY <1>0, <1>1, OpenLevelArranged
<1>3. usedLevels \subseteq LevelSlots /\ best \in [Sides -> LevelPtrs] /\ l # nullptr
  BY ConstantsAssumption DEF IInv, TypeOK, LevelSlots
<1>4. /\ Linked(s)' = Linked(s) \cup {l}
      /\ \A t \in Sides \ {s} : Linked(t)' = Linked(t)
      /\ \A t \in Sides : Linked(t) \subseteq usedLevels
      /\ \A t \in Sides, m \in LevelSlots : Rank(t)'[m] = PriceRank(t, level'[m].price)
      /\ \A t \in Sides, m \in usedLevels : Rank(t)'[m] = Rank(t)[m]
  BY <1>1, <1>2, <1>3 DEF Linked, Rank
<1>5. SideSorted(s)'
  <2>1. Linked(s)' = {l} /\ best'[s] = l
    BY <1>1, <1>3, <1>4 DEF SidesSorted, SideSorted
  <2>2. Rank(s)'[l] \in Int
    BY <1>1, <1>2, <1>4, RankTells DEF Aggressors
  <2>3. Sorted({l}, nextEntry', prevEntry', Rank(s)') /\ Least({l}, l, Rank(s)')
    BY <1>2, <2>2, RingOfOne
  <2>4. QED
    BY <1>3, <2>1, <2>3 DEF SideSorted
<1>6. ASSUME NEW t \in Sides \ {s} PROVE SideSorted(t)'
  <2>1. best'[t] = best[t] /\ SideSorted(t)
    BY <1>1, <1>3 DEF SidesSorted
  <2>2. Sorted(Linked(t), nextEntry', prevEntry', Rank(t)')
    BY <1>2, <1>4, <2>1, SortedSame DEF SideSorted
  <2>3. best[t] # nullptr => Least(Linked(t), best[t], Rank(t)')
    BY <1>4, <2>1 DEF SideSorted, Least
  <2>4. QED
    BY <1>4, <2>1, <2>2, <2>3 DEF SideSorted
<1>7. SidesSorted'
  BY <1>5, <1>6 DEF SidesSorted
<1>8. QED
  BY <1>2, <1>7

\* What addOrdersAtPrice() has done when its loop starts.
LEMMA SearchOpened ==
  ASSUME IInv, RestOnSide
  PROVE  /\ agg.side \in Sides /\ best[agg.side] # nullptr /\ pc = "match" /\ agg \in Aggressors
         /\ OrdersPlaced => OrdersPlaced'
         /\ usedLevels' = usedLevels \cup {freeLevel} /\ freeLevel \notin usedLevels
         /\ level'[freeLevel] = [side |-> agg.side, price |-> agg.price]
         /\ \A m \in usedLevels : /\ level'[m] = level[m]
                                  /\ prevEntry'[m] = prevEntry[m] /\ nextEntry'[m] = nextEntry[m]
         /\ UNCHANGED <<best, agg>>
         /\ IF FirstTarget = nullptr
              THEN pc' = "halted" /\ walk' = nullptr
              ELSE /\ pc' = "walk" /\ walk'.level = freeLevel /\ walk'.target = FirstTarget
                   /\ walk'.addAfter = LessAggressive(agg.side, agg.price, level'[FirstTarget].price)
<1>1. /\ Rests /\ CanRest /\ priceMap[AggIndex] = nullptr /\ best[agg.side] # nullptr
      /\ AllocateOrder(nullptr) /\ AllocateLevel
      /\ prevEntry' = [prevEntry EXCEPT ![freeLevel] = nullptr]
      /\ nextEntry' = [nextEntry EXCEPT ![freeLevel] = nullptr]
      /\ UNCHANGED <<best, agg>> /\ pc = "match"
      /\ agg \in Aggressors
  BY DEF RestOnSide, Rests, IInv, TypeOK
<1>2. /\ OrdersPlaced => OrdersPlaced'
      /\ usedLevels' = usedLevels \cup {freeLevel} /\ freeLevel \notin usedLevels
      /\ level'[freeLevel] = [side |-> agg.side, price |-> agg.price]
      /\ \A m \in usedLevels : /\ level'[m] = level[m]
                               /\ prevEntry'[m] = prevEntry[m] /\ nextEntry'[m] = nextEntry[m]
  BY <1>1, OpenLevelArranged
<1>3. IF FirstTarget = nullptr
        THEN pc' = "halted" /\ walk' = nullptr
        ELSE /\ pc' = "walk" /\ walk'.level = freeLevel /\ walk'.target = FirstTarget
             /\ walk'.addAfter = LessAggressive(agg.side, agg.price, level'[FirstTarget].price)
  BY DEF RestOnSide
<1>4. QED
  BY <1>1, <1>2, <1>3 DEF Aggressors

\* The order opens a level: a book in order stays so, and there is a level to start from.
LEMMA RestOnSideArranged ==
  ASSUME IInv, SidesSorted, OrdersPlaced, RestOnSide
  PROVE  SidesSorted' /\ OrdersPlaced' /\ pc' = "walk"
<1>0. PICK s, l, b : s \in Sides /\ s = agg.side /\ l = freeLevel /\ b = best[s]
  BY SearchOpened
<1>1. b \in Linked(s) /\ nextEntry[b] \in Linked(s)
  BY <1>0, SearchOpened DEF SidesSorted, SideSorted, Sorted, Least
<1>2. \A m \in Linked(s) : m \in usedLevels /\ m \in LevelSlots /\ m # nullptr
  BY ConstantsAssumption DEF Linked, IInv, TypeOK, LevelSlots
<1>3. FirstTarget # nullptr
  BY <1>0, <1>1, <1>2, SearchOpened DEF FirstTarget
<1>4. pc' = "walk" /\ walk'.level = l /\ OrdersPlaced' /\ l \notin usedLevels /\ pc = "match"
  BY <1>0, <1>3, SearchOpened
<1>9. /\ \A r \in Sides : Linked(r)' = Linked(r) /\ Linked(r) \subseteq usedLevels
      /\ \A r \in Sides, m \in usedLevels : Rank(r)'[m] = Rank(r)[m]
  <2>1. usedLevels \subseteq LevelSlots
    BY DEF IInv, TypeOK
  <2>2. QED
    BY <1>0, <1>4, <2>1, SearchOpened DEF Linked, Rank
<1>10. ASSUME NEW r \in Sides PROVE SideSorted(r)'
  <2>1. best'[r] = best[r] /\ SideSorted(r)
    BY SearchOpened DEF SidesSorted
  <2>2. \A m \in Linked(r) : /\ prevEntry'[m] = prevEntry[m] /\ nextEntry'[m] = nextEntry[m]
                             /\ Rank(r)'[m] = Rank(r)[m]
    BY <1>9, SearchOpened
  <2>3. Sorted(Linked(r), nextEntry', prevEntry', Rank(r)')
    BY <2>1, <2>2, SortedSame DEF SideSorted
  <2>4. best[r] # nullptr => Least(Linked(r), best[r], Rank(r)')
    BY <2>1, <2>2 DEF SideSorted, Least
  <2>5. QED
    BY <1>9, <2>1, <2>3, <2>4 DEF SideSorted
<1>12. QED
  BY <1>4, <1>10 DEF SidesSorted

\* The search starts at the best level or at the one after it.
LEMMA RestOnSideSearches ==
  ASSUME IInv, RestOnSide, pc' = "walk"
  PROVE  CallPlaced' /\ SearchPlaced'
<1>0. PICK s, l, b, t : s \in Sides /\ s = agg.side /\ l = freeLevel /\ b = best[s] /\ t = FirstTarget
  BY SearchOpened
<1>1. /\ walk'.level = l /\ walk'.target = t /\ agg' = agg /\ best'[s] = b /\ b # nullptr
      /\ walk'.addAfter = LessAggressive(s, agg.price, level'[t].price)
      /\ l \in usedLevels' /\ level'[l] = [side |-> s, price |-> agg.price]
  BY <1>0, SearchOpened
<1>2. \A m : NewLessAggressive(m)' <=> LessAggressive(s, agg.price, level'[m].price)
  BY <1>0, <1>1 DEF NewLessAggressive
<1>3. CallPlaced'
  BY <1>0, <1>1, <1>2 DEF CallPlaced
<1>4. ASSUME SidesSorted' PROVE t \in Linked(s)' /\ (walk'.addAfter => NewLessAggressive(prevEntry[t])')
  <2>1. b \in Linked(s)' /\ nextEntry'[b] \in Linked(s)' /\ prevEntry'[nextEntry'[b]] = b
    BY <1>0, <1>1, <1>4 DEF SidesSorted, SideSorted, Sorted, Least
  <2>2. t = IF LessAggressive(s, agg.price, level'[b].price) THEN nextEntry'[b] ELSE b
    BY <1>0 DEF FirstTarget
  <2>3. QED
    BY <1>1, <1>2, <2>1, <2>2
<1>5. SearchPlaced'
  BY <1>0, <1>1, <1>4 DEF SearchPlaced
<1>6. QED
  BY <1>3, <1>5

\* The search goes on to the next level.
LEMMA WalkStepSearches ==
  ASSUME IInv, CallPlaced, SearchPlaced, WalkStep
  PROVE  /\ SidesSorted => SidesSorted' /\ pc' = "walk"
         /\ OrdersPlaced => OrdersPlaced'
         /\ CallPlaced' /\ SearchPlaced'
<1>0. PICK s, t : s \in Sides /\ s = agg.side /\ t = walk.target
  BY DEF WalkStep, IInv, TypeOK, Aggressors
<1>1. /\ pc = "walk" /\ walk \in Walks
      /\ UNCHANGED <<order, usedOrders, level, firstOrder, prevEntry, nextEntry, usedLevels, best, priceMap, agg>>
      /\ walk'.level = walk.level
      /\ IF NewLessAggressive(t)
           THEN /\ walk'.target = nextEntry[t] /\ walk'.addAfter
                /\ pc' = IF nextEntry[t] = nullptr THEN "halted" ELSE "walk"
           ELSE walk'.target = t /\ ~walk'.addAfter /\ pc' = "walk"
  BY <1>0 DEF WalkStep, IInv, TypeOK, Walks, orderVars, levelVars, indexVars
<1>2. \A m : NewLessAggressive(m)' <=> NewLessAggressive(m)
  BY <1>1 DEF NewLessAggressive
<1>3. CallPlaced'
  BY <1>0, <1>1, <1>2 DEF CallPlaced
<1>4. ASSUME SidesSorted
      PROVE  t \in Linked(s) /\ nextEntry[t] \in Linked(s) /\ prevEntry[nextEntry[t]] = t /\ nextEntry[t] # nullptr
  <2>1. t \in Linked(s) /\ nextEntry[t] \in Linked(s) /\ prevEntry[nextEntry[t]] = t
    BY <1>0, <1>1, <1>4 DEF SearchPlaced, SidesSorted, SideSorted, Sorted
  <2>2. nextEntry[t] \in LevelSlots
    BY <2>1 DEF Linked, IInv, TypeOK
  <2>3. QED
    BY <2>1, <2>2, ConstantsAssumption DEF LevelSlots
<1>5. ASSUME pc' = "walk"
      PROVE  /\ \A r \in Sides : Linked(r)' = Linked(r) /\ Rank(r)' = Rank(r)
             /\ SidesSorted' <=> SidesSorted
  <2>1. \A r \in Sides : Linked(r)' = Linked(r) /\ Rank(r)' = Rank(r)
    BY <1>1, <1>5 DEF Linked, Rank
  <2>2. QED
    BY <1>1, <2>1 DEF SidesSorted, SideSorted
<1>6. SearchPlaced'
  <2> SUFFICES ASSUME pc' = "walk", SidesSorted'
               PROVE  walk'.target \in Linked(s)' /\ (walk'.addAfter => NewLessAggressive(prevEntry[walk.target])')
    BY <1>0, <1>1 DEF SearchPlaced
  <2>1. SidesSorted /\ Linked(s)' = Linked(s)
    BY <1>0, <1>5
  <2>2. QED
    BY <1>1, <1>2, <1>4, <2>1
<1>7. SidesSorted => SidesSorted' /\ pc' = "walk"
  BY <1>1, <1>4, <1>5
<1>8. OrdersPlaced => OrdersPlaced'
  BY <1>1 DEF OrdersPlaced, LevelOf
<1>9. QED
  BY <1>3, <1>6, <1>7, <1>8

\* The end of the search in a list that is in order: the new level is less aggressive than all.
LEMMA AtEndOfOrder ==
  ASSUME IInv, SidesSorted, OrdersPlaced, CallPlaced, SearchPlaced, AtEnd
  PROVE  \A m \in Linked(agg.side) : NewLessAggressive(m)
<1>0. PICK s, b : s \in Sides /\ s = agg.side /\ b = walk.target
  BY DEF AtEnd, IInv, TypeOK, Aggressors
<1>1. /\ pc = "walk" /\ walk.addAfter /\ b = best[s] /\ b \in Linked(s) /\ agg.price \in Nat
      /\ NewLessAggressive(prevEntry[b])
  BY <1>0 DEF AtEnd, SearchPlaced, IInv, TypeOK, Aggressors
<1>2. b # nullptr
  BY <1>1, ConstantsAssumption DEF Linked, IInv, TypeOK, LevelSlots
<1>3. Sorted(Linked(s), nextEntry, prevEntry, Rank(s)) /\ Least(Linked(s), b, Rank(s))
  BY <1>0, <1>1, <1>2 DEF SidesSorted, SideSorted
<1>4. prevEntry[b] \in Linked(s) /\ \A m \in Linked(s) : Rank(s)[m] <= Rank(s)[prevEntry[b]]
  BY <1>3, LastIsGreatest
<1>5. \A m \in Linked(s) : level[m].price \in Nat /\ Rank(s)[m] = PriceRank(s, level[m].price)
  BY LevelsPlaced DEF Linked, Rank
<1> SUFFICES ASSUME NEW m \in Linked(s) PROVE LessAggressive(s, agg.price, level[m].price)
  BY <1>0 DEF NewLessAggressive
<1>6. LessAggressive(s, agg.price, level[prevEntry[b]].price)
  BY <1>0, <1>1 DEF NewLessAggressive
<1>7. /\ PriceRank(s, level[prevEntry[b]].price) < PriceRank(s, agg.price)
      /\ PriceRank(s, level[m].price) <= PriceRank(s, level[prevEntry[b]].price)
      /\ PriceRank(s, level[m].price) \in Int /\ PriceRank(s, agg.price) \in Int
      /\ PriceRank(s, level[prevEntry[b]].price) \in Int
  BY <1>0, <1>1, <1>4, <1>5, <1>6, RankTells
<1>8. PriceRank(s, level[m].price) < PriceRank(s, agg.price)
  BY <1>7
<1>9. QED
  BY <1>0, <1>1, <1>5, <1>8, RankTells

\* The new level goes to the end of the list, which stays in order.
LEMMA InsertAtEndArranged ==
  ASSUME IInv, SidesSorted, OrdersPlaced, CallPlaced, SearchPlaced, InsertAtEnd
  PROVE  SidesSorted' /\ OrdersPlaced'
<1>0. PICK s \in Sides, n \in LevelSlots, b \in LevelSlots :
        s = agg.side /\ n = walk.level /\ b = walk.target
  BY DEF InsertAtEnd, AtEnd, IInv, TypeOK, Aggressors, Walks
<1>1. PICK last : last = prevEntry[b]
  OBVIOUS
<1>2. /\ pc = "walk" /\ walk \in Walks /\ agg \in Aggressors
      /\ b = best[s]
      /\ prevEntry' = [prevEntry EXCEPT ![n] = last, ![nextEntry[last]] = n]
      /\ nextEntry' = [nextEntry EXCEPT ![n] = nextEntry[last], ![last] = n]
      /\ UNCHANGED <<order, usedOrders, level, usedLevels, best, priceMap>>
      /\ pc' = "idle"
      /\ n \in usedLevels /\ level[n] = [side |-> s, price |-> agg.price]
  BY <1>0, <1>1 DEF InsertAtEnd, AtEnd, IInv, TypeOK, CallPlaced, orderVars, PublishWalked, Publish, Return
<1>2a. b \in Linked(s) /\ \A m \in Linked(s) : NewLessAggressive(m)
  BY <1>0, <1>2, AtEndOfOrder DEF InsertAtEnd, SearchPlaced
<1>3. /\ prevEntry \in [LevelSlots -> LevelPtrs] /\ nextEntry \in [LevelSlots -> LevelPtrs]
      /\ usedLevels \subseteq LevelSlots /\ b # nullptr
  BY ConstantsAssumption DEF IInv, TypeOK, LevelSlots
<1>4. /\ Linked(s)' = Linked(s) \cup {n} /\ n \notin Linked(s)
      /\ \A r \in Sides \ {s} : Linked(r)' = Linked(r) /\ n \notin Linked(r) /\ Linked(r) \cap Linked(s) = {}
      /\ \A r \in Sides : Rank(r)' = Rank(r) /\ Linked(r) \subseteq LevelSlots
  BY <1>0, <1>2, <1>3 DEF Linked, Rank
<1>5. /\ Sorted(Linked(s), nextEntry, prevEntry, Rank(s)) /\ Least(Linked(s), b, Rank(s))
      /\ last \in Linked(s) /\ nextEntry[last] = b
  BY <1>1, <1>2, <1>2a, <1>3 DEF SidesSorted, SideSorted, Sorted
<1>6. /\ last \in LevelSlots
      /\ prevEntry' = [prevEntry EXCEPT ![n] = last, ![b] = n]
      /\ nextEntry' = [nextEntry EXCEPT ![n] = b, ![last] = n]
      /\ b # n /\ last # n
  BY <1>2, <1>2a, <1>4, <1>5
<1>7. /\ nextEntry'[n] = b /\ prevEntry'[n] = last
      /\ \A m \in LevelSlots \ {n} : /\ nextEntry'[m] = IF m = last THEN n ELSE nextEntry[m]
                                     /\ prevEntry'[m] = IF m = b THEN n ELSE prevEntry[m]
  BY <1>3, <1>6
<1>8. SideSorted(s)'
  <2>1. Rank(s)[n] \in Int /\ \A m \in Linked(s) : Rank(s)[m] < Rank(s)[n]
    <3>1. agg.price \in Nat /\ level[n].price = agg.price
      BY <1>2 DEF Aggressors
    <3>2. \A m \in Linked(s) : level[m].price \in Nat /\ m \in LevelSlots /\ LessAggressive(s, agg.price, level[m].price)
      BY <1>0, <1>2, <1>2a, LevelsPlaced DEF Linked, NewLessAggressive
    <3>3. QED
      BY <3>1, <3>2, RankTells DEF Rank
  <2>2. \A m \in Linked(s) : /\ nextEntry'[m] = IF m = prevEntry[b] THEN n ELSE nextEntry[m]
                             /\ prevEntry'[m] = IF m = b THEN n ELSE prevEntry[m]
    BY <1>1, <1>4, <1>7
  <2>3. Sorted(Linked(s) \cup {n}, nextEntry', prevEntry', Rank(s)) /\ Least(Linked(s) \cup {n}, b, Rank(s))
    BY <1>1, <1>4, <1>5, <1>7, <2>1, <2>2, RingAppend, SMTT(30)
  <2>4. QED
    BY <1>2, <1>3, <1>4, <2>3 DEF SideSorted
<1>9. ASSUME NEW r \in Sides \ {s} PROVE SideSorted(r)'
  <2>1. \A m \in Linked(r) : nextEntry'[m] = nextEntry[m] /\ prevEntry'[m] = prevEntry[m]
    BY <1>4, <1>5, <1>7 DEF Least
  <2>2. Sorted(Linked(r), nextEntry', prevEntry', Rank(r))
    BY <2>1, SortedSame DEF SidesSorted, SideSorted
  <2>3. QED
    BY <1>2, <1>4, <2>2 DEF SidesSorted, SideSorted
<1>11. OrdersPlaced'
  BY <1>2 DEF OrdersPlaced, LevelOf
<1>12. QED
  BY <1>8, <1>9, <1>11 DEF SidesSorted

\* The new level goes before another one of a list that is in order: it is more aggressive than
\* that one, and the best level of the list is then not the most aggressive one.
LEMMA InsertBeforeTargetMisplaces ==
  ASSUME IInv, SidesSorted, OrdersPlaced, CallPlaced, SearchPlaced, InsertBeforeTarget
  PROVE  /\ \E l \in Linked(agg.side) : ~NewLessAggressive(l)
         /\ ~SidesSorted'
<1>0. PICK s, n, t, b : s \in Sides /\ s = agg.side /\ n = walk.level /\ t = walk.target /\ b = best[s]
  BY DEF InsertBeforeTarget, AtTarget, IInv, TypeOK, Aggressors
<1>1. /\ pc = "walk" /\ pc' = "idle" /\ UNCHANGED <<level, usedLevels>>
      /\ best' = IF LessAggressive(s, agg.price, level[b].price) THEN [best EXCEPT ![s] = n] ELSE best
      /\ best \in [Sides -> LevelPtrs] /\ agg.price \in Nat
      /\ n \in usedLevels /\ level[n] = [side |-> s, price |-> agg.price]
      /\ t \in Linked(s) /\ ~NewLessAggressive(t)
  <2>1. pc = "walk" /\ ~walk.addAfter /\ agg \in Aggressors /\ best \in [Sides -> LevelPtrs]
    BY DEF InsertBeforeTarget, AtTarget, IInv, TypeOK
  <2>2. best' = IF LessAggressive(s, agg.price, level[b].price) THEN [best EXCEPT ![s] = n] ELSE best
    BY <1>0 DEF InsertBeforeTarget, BecomesBest
  <2>3. pc' = "idle" /\ UNCHANGED <<level, usedLevels>>
    BY DEF InsertBeforeTarget, PublishWalked, Publish, Return
  <2>4. QED
    BY <1>0, <2>1, <2>2, <2>3 DEF Aggressors, CallPlaced, SearchPlaced
<1>2. b # nullptr /\ b \in Linked(s) /\ Least(Linked(s), b, Rank(s))
  BY <1>0, <1>1 DEF SidesSorted, SideSorted, Least
<1>3. \A m \in Linked(s) : /\ level[m].price \in Nat /\ m \in LevelSlots /\ m # n
                           /\ level[m].price # agg.price
  <2>1. \A m \in Linked(s) : m \in usedLevels /\ m # n
    BY <1>0, <1>1 DEF Linked
  <2>2. \A m \in usedLevels : level[m].price \in Nat /\ m \in LevelSlots /\ priceMap[PriceToIndex(level[m].price)] = m
    BY LevelsPlaced
  <2>3. QED
    BY <1>1, <2>1, <2>2
<1>4. n \in LevelSlots /\ level[n].price = agg.price /\ n # nullptr
  BY <1>1, ConstantsAssumption DEF IInv, TypeOK, LevelSlots
<1>5. Linked(s)' = Linked(s) \cup {n} /\ Rank(s)' = Rank(s)
  BY <1>0, <1>1 DEF Linked, Rank
<1>6. \A m \in Linked(s) \cup {n} : Rank(s)[m] = PriceRank(s, level[m].price) /\ level[m].price \in Nat
  BY <1>1, <1>3, <1>4 DEF Rank
<1>7. ~LessAggressive(s, agg.price, level[t].price)
  BY <1>0, <1>1 DEF NewLessAggressive
<1>8. PriceRank(s, agg.price) < PriceRank(s, level[t].price)
  BY <1>1, <1>3, <1>7 DEF LessAggressive, PriceRank, Sides
<1>9. ASSUME SidesSorted' PROVE FALSE
  <2>1. CASE LessAggressive(s, agg.price, level[b].price)
    <3>1. best'[s] = n
      BY <1>0, <1>1, <2>1
    <3>2. Rank(s)[n] <= Rank(s)[b]
      BY <1>0, <1>2, <1>4, <1>5, <1>9, <3>1 DEF SidesSorted, SideSorted, Least
    <3>3. PriceRank(s, level[b].price) < PriceRank(s, agg.price)
      BY <1>0, <1>1, <1>2, <1>3, <2>1, RankTells
    <3>4. PriceRank(s, agg.price) <= PriceRank(s, level[b].price)
      BY <1>2, <1>4, <1>6, <3>2
    <3>5. QED
      BY <1>0, <1>1, <1>2, <1>3, <3>3, <3>4, RankTells
  <2>2. CASE ~LessAggressive(s, agg.price, level[b].price)
    <3>1. best'[s] = b
      BY <1>0, <1>1, <2>2
    <3>2. Rank(s)[b] <= Rank(s)[n]
      BY <1>0, <1>2, <1>4, <1>5, <1>9, <3>1 DEF SidesSorted, SideSorted, Least
    <3>3. PriceRank(s, level[b].price) <= PriceRank(s, agg.price)
      BY <1>2, <1>4, <1>6, <3>2
    <3>4. PriceRank(s, agg.price) < PriceRank(s, level[b].price)
      BY <1>0, <1>1, <1>2, <1>3, <2>2 DEF LessAggressive, PriceRank, Sides
    <3>5. QED
      BY <1>0, <1>1, <1>2, <1>3, <3>3, <3>4, RankTells
  <2>3. QED
    BY <2>1, <2>2
<1>10. QED
  BY <1>0, <1>1, <1>9

-----------------------------------------------------------------------------
\* The calls, whatever the order of the levels.

LEMMA StillOlder ==
  ASSUME OlderFirst, order' = order, usedOrders' \subseteq usedOrders
  PROVE  OlderFirst'
BY DEF OlderFirst, SameLevel, Before

LEMMA NextCallSound == IInv /\ CallSound /\ [Next]_vars => CallSound'
<1> SUFFICES ASSUME IInv, OlderFirst, CallPlaced, SearchPlaced, [Next]_vars PROVE CallSound'
  BY DEF CallSound
\* Steps out of the search, or far from it.
<1>1. ASSUME OlderFirst', pc' # "walk", pc' = "idle" => agg' = nullptr /\ walk' = nullptr,
             pc' = "match" => walk' = nullptr
      PROVE  CallSound'
  BY <1>1 DEF CallSound, CallPlaced, SearchPlaced
<1>2. CASE UNCHANGED vars
  <2>1. UNCHANGED <<order, usedOrders, level, prevEntry, nextEntry, usedLevels, best, priceMap, pc, agg, walk>>
    BY <1>2 DEF vars, orderVars, levelVars, indexVars, callVars
  <2>2. \A r \in Sides : Linked(r)' = Linked(r) /\ Rank(r)' = Rank(r)
    BY <2>1 DEF Linked, Rank
  <2>3. SidesSorted' <=> SidesSorted
    BY <2>1, <2>2 DEF SidesSorted, SideSorted
  <2>4. \A m : NewLessAggressive(m)' <=> NewLessAggressive(m)
    BY <2>1 DEF NewLessAggressive
  <2>5. OlderFirst' /\ CallPlaced'
    BY <2>1, <2>4, StillOlder DEF CallPlaced
  <2>6. SearchPlaced'
    <3>1. pc = "walk" => agg.side \in Sides
      BY DEF IInv, TypeOK, Aggressors
    <3>2. QED
      BY <2>1, <2>2, <2>3, <2>4, <3>1 DEF SearchPlaced
  <2>7. QED
    BY <2>5, <2>6 DEF CallSound
<1>3. ASSUME Halt PROVE CallSound'
  <2>1. pc' = "halted" /\ order' = order /\ usedOrders' = usedOrders
    BY <1>3 DEF Halt, orderVars
  <2>2. QED
    BY <1>1, <2>1, StillOlder
<1>4. CASE Request
  <2>1. ASSUME NEW c \in Clients, NEW id \in OrderIds, NEW s \in Sides, NEW p \in Prices, NEW q \in Quantities,
               Accept(c, id, s, p, q)
        PROVE  CallSound'
    <3>1. pc = "idle" /\ pc' = "match" /\ UNCHANGED <<order, usedOrders, walk>>
      BY <2>1 DEF Accept, orderVars
    <3>2. QED
      BY <1>1, <3>1, StillOlder DEF CallPlaced
  <2>2. ASSUME NEW c \in Clients, NEW id \in OrderIds, Cancel(c, id) \/ CancelReject(c, id)
        PROVE  CallSound'
    <3>1. pc = "idle" /\ UNCHANGED <<pc, agg, walk>> /\ order' = order /\ usedOrders' \subseteq usedOrders
      BY <2>2 DEF Cancel, CancelReject, RemoveOrder, callVars, orderVars
    <3>2. QED
      BY <1>1, <3>1, StillOlder DEF CallPlaced
  <2>3. QED
    BY <1>3, <1>4, <2>1, <2>2 DEF Request, CancelCrash
<1>5. CASE Running
  <2>1. ASSUME MatchPartly \/ MatchFully PROVE CallSound'
    <3>1. pc = "match" /\ UNCHANGED <<pc, agg, walk>> /\ order' = order /\ usedOrders' \subseteq usedOrders
      BY <2>1 DEF MatchPartly, MatchFully, RemoveOrder
    <3>2. QED
      BY <1>1, <3>1, StillOlder DEF CallPlaced
  <2>2. ASSUME Filled \/ InsertAtEnd \/ InsertBeforeTarget PROVE CallSound'
    <3>1. pc' = "idle" /\ agg' = nullptr /\ walk' = nullptr /\ order' = order /\ usedOrders' = usedOrders
      BY <2>2 DEF Filled, InsertAtEnd, InsertBeforeTarget, PublishWalked, Publish, Return, orderVars
    <3>2. QED
      BY <1>1, <3>1, StillOlder
  <2>3. ASSUME RestAtLevel PROVE CallSound'
    <3>1. pc' = "idle" /\ agg' = nullptr /\ walk' = nullptr
      BY <2>3 DEF RestAtLevel, Publish, Return
    <3>2. QED
      BY <1>1, <2>3, <3>1, RestAtLevelOlder
  <2>4. ASSUME RestOnEmptySide PROVE CallSound'
    <3>1. pc' = "idle" /\ agg' = nullptr /\ walk' = nullptr
      BY <2>4 DEF RestOnEmptySide, Publish, Return
    <3>2. OlderFirst'
      BY <2>4, OpenLevelOlder DEF RestOnEmptySide, CanRest
    <3>3. QED
      BY <1>1, <3>1, <3>2
  <2>5. ASSUME RestOnSide PROVE CallSound'
    <3>1. OlderFirst'
      BY <2>5, OpenLevelOlder DEF RestOnSide, CanRest
    <3>2. pc' \in {"halted", "walk"}
      BY <2>5 DEF RestOnSide
    <3>3. QED
      BY <1>1, <2>5, <3>1, <3>2, RestOnSideSearches DEF CallSound
  <2>6. ASSUME WalkStep PROVE CallSound'
    <3>1. order' = order /\ usedOrders' = usedOrders
      BY <2>6 DEF WalkStep, orderVars
    <3>2. QED
      BY <2>6, <3>1, StillOlder, WalkStepSearches DEF CallSound
  <2>7. QED
    BY <1>3, <1>5, <2>1, <2>2, <2>3, <2>4, <2>5, <2>6 DEF Running, MatchCrash, RestCrash, InsertCrash
<1>6. QED
  BY <1>2, <1>4, <1>5 DEF Next

LEMMA SpecCallSound == Spec => [](IInv /\ CallSound)
<1>1. Init => IInv /\ CallSound
  BY InitIInv DEF Init, CallSound, OlderFirst, CallPlaced, SearchPlaced
<1>2. IInv /\ CallSound /\ [Next]_vars => (IInv /\ CallSound)'
  BY NextIInv, NextCallSound
<1>3. QED
  BY <1>1, <1>2, PTL DEF Spec

-----------------------------------------------------------------------------
\* Which steps leave a book out of order.

\* Steps that change no level and no list.
LEMMA StillInOrder ==
  ASSUME LevelsInOrder, pc \in {"idle", "match"}, pc' \in {"idle", "match"},
         UNCHANGED <<order, usedOrders, level, prevEntry, nextEntry, usedLevels, best, priceMap>>
  PROVE  LevelsInOrder'
<1>1. SidesSorted'
  BY LevelsSame DEF LevelsInOrder
<1>2. OrdersPlaced'
  BY DEF LevelsInOrder, OrdersPlaced, LevelOf
<1>3. QED
  BY <1>1, <1>2 DEF LevelsInOrder

LEMMA RequestKeepsOrder ==
  ASSUME IInv, CallSound, LevelsInOrder, Request, pc' # "halted"
  PROVE  LevelsInOrder' /\ ~Misplaces
<1>1. pc = "idle" /\ ~Misplaces
  BY DEF Request, Accept, Cancel, CancelReject, CancelCrash, Misplaces
<1>2. ASSUME NEW c \in Clients, NEW id \in OrderIds, NEW s \in Sides, NEW p \in Prices, NEW q \in Quantities,
             Accept(c, id, s, p, q)
      PROVE  LevelsInOrder'
  <2>1. /\ pc' = "match"
        /\ UNCHANGED <<order, usedOrders, level, prevEntry, nextEntry, usedLevels, best, priceMap>>
    BY <1>2 DEF Accept, orderVars, levelVars, indexVars
  <2>2. QED
    BY <1>1, <2>1, StillInOrder
<1>3. ASSUME NEW c \in Clients, NEW id \in OrderIds, Cancel(c, id)
      PROVE  LevelsInOrder'
  <2>1. cidOid[c][id] \in usedOrders /\ UNCHANGED <<pc, agg, walk>> /\ RemoveOrder(cidOid[c][id])
    BY <1>3 DEF Cancel, callVars, IInv, BookInv, ClientMapSound
  <2>2. QED
    BY <1>1, <2>1, RemoveArranged DEF LevelsInOrder, CallSound, Placed
<1>4. ASSUME NEW c \in Clients, NEW id \in OrderIds, CancelReject(c, id)
      PROVE  LevelsInOrder'
  <2>1. UNCHANGED <<order, usedOrders, level, prevEntry, nextEntry, usedLevels, best, priceMap, pc>>
    BY <1>4 DEF CancelReject, orderVars, levelVars, indexVars, callVars
  <2>2. QED
    BY <1>1, <2>1, StillInOrder
<1>5. QED
  BY <1>1, <1>2, <1>3, <1>4 DEF Request, CancelCrash, Halt

LEMMA MatchKeepsOrder ==
  ASSUME IInv, CallSound, LevelsInOrder, MatchPartly \/ MatchFully \/ Filled
  PROVE  LevelsInOrder' /\ ~Misplaces
<1>1. ASSUME MatchPartly \/ Filled PROVE LevelsInOrder' /\ ~Misplaces
  <2>1. /\ pc = "match" /\ pc' \in {"idle", "match"} /\ (pc' = "idle" => leaves = 0)
        /\ UNCHANGED <<order, usedOrders, level, prevEntry, nextEntry, usedLevels, best, priceMap>>
    BY <1>1 DEF MatchPartly, Filled, Return, orderVars, levelVars, indexVars
  <2>2. LevelsInOrder'
    BY <2>1, StillInOrder
  <2>3. ~Misplaces
    BY <2>1 DEF Misplaces
  <2>4. QED
    BY <2>2, <2>3
<1>2. ASSUME MatchFully PROVE LevelsInOrder' /\ ~Misplaces
  <2>1. pc = "match" /\ Passive \in usedOrders /\ RemoveOrder(Passive) /\ pc' = pc
    BY <1>2 DEF MatchFully, CanRemove
  <2>2. LevelsInOrder'
    BY <2>1, RemoveArranged DEF LevelsInOrder, CallSound, Placed
  <2>3. QED
    BY <2>1, <2>2 DEF Misplaces
<1>3. QED
  BY <1>1, <1>2

LEMMA RestKeepsOrder ==
  ASSUME IInv, CallSound, LevelsInOrder, RestAtLevel \/ RestOnEmptySide \/ RestOnSide
  PROVE  Misplaces <=> ~LevelsInOrder'
<1>1. ASSUME RestAtLevel PROVE Misplaces <=> ~LevelsInOrder'
  <2>1. pc = "match" /\ pc' = "idle" /\ leaves > 0 /\ priceMap[AggIndex] # nullptr
    BY <1>1 DEF RestAtLevel, Rests, Publish, Return
  <2>2. SidesSorted' /\ (level[priceMap[AggIndex]].price = agg.price <=> OrdersPlaced')
    BY <1>1, RestAtLevelArranged DEF LevelsInOrder, CallSound, Placed
  <2>3. QED
    BY <2>1, <2>2 DEF Misplaces, LevelsInOrder
<1>2. ASSUME RestOnEmptySide PROVE LevelsInOrder' /\ ~Misplaces
  BY <1>2, RestOnEmptySideArranged DEF LevelsInOrder, RestOnEmptySide, Rests, Misplaces
<1>3. ASSUME RestOnSide PROVE LevelsInOrder' /\ ~Misplaces
  BY <1>3, RestOnSideArranged DEF LevelsInOrder, Misplaces
<1>4. QED
  BY <1>1, <1>2, <1>3

LEMMA InsertKeepsOrder ==
  ASSUME IInv, CallSound, LevelsInOrder, WalkStep \/ InsertAtEnd \/ InsertBeforeTarget
  PROVE  Misplaces <=> ~LevelsInOrder'
<1>1. ASSUME WalkStep PROVE LevelsInOrder' /\ ~Misplaces
  BY <1>1, WalkStepSearches DEF LevelsInOrder, CallSound, Misplaces
<1>2. ASSUME InsertAtEnd PROVE LevelsInOrder' /\ ~Misplaces
  <2>1. pc = "walk" /\ \A l \in Linked(agg.side) : NewLessAggressive(l)
    BY <1>2, AtEndOfOrder DEF InsertAtEnd, AtEnd, LevelsInOrder, CallSound
  <2>2. QED
    BY <1>2, <2>1, InsertAtEndArranged DEF LevelsInOrder, CallSound, Misplaces
<1>3. ASSUME InsertBeforeTarget PROVE Misplaces /\ ~LevelsInOrder'
  <2>1. pc = "walk" /\ pc' = "idle"
    BY <1>3 DEF InsertBeforeTarget, AtTarget, PublishWalked, Publish, Return
  <2>2. QED
    BY <1>3, <2>1, InsertBeforeTargetMisplaces DEF LevelsInOrder, CallSound, Misplaces
<1>4. QED
  BY <1>1, <1>2, <1>3

\* An order leaves the levels of a book out of order exactly when its price opens a level that
\* is not the least aggressive of its side, or when it joins the level of another price; no
\* other step of add() or cancel() does, whatever the clients send.
THEOREM OnlyMisplacedLevels == Spec => OrderLost
<1>1. ASSUME IInv, CallSound, [Next]_vars, LevelsInOrder, pc' # "halted"
      PROVE  (Misplaces <=> ~LevelsInOrder') \/ UNCHANGED vars
  <2>1. ~Halt
    BY <1>1 DEF Halt
  <2>2. QED
    BY <1>1, <2>1, RequestKeepsOrder, MatchKeepsOrder, RestKeepsOrder, InsertKeepsOrder
       DEF Next, Running, MatchCrash, RestCrash, InsertCrash
<1>2. IInv /\ CallSound /\ [Next]_vars => [LevelsInOrder /\ pc' # "halted" => (Misplaces <=> ~LevelsInOrder')]_vars
  BY <1>1
<1>3. QED
  BY <1>2, SpecCallSound, PTL DEF Spec, OrderLost

-----------------------------------------------------------------------------
\* The book implements price-time priority.

\* An order that rests, as PriceTimeBook knows it.
Rec(o) == [moid |-> order[o].moid, client |-> order[o].client, oid |-> order[o].oid,
           side |-> order[o].side, price |-> order[o].price, qty |-> qty[o]]
LEMMA RestingIs == Resting = {Rec(o) : o \in usedOrders}
BY DEF Resting, Rec

LEMMA RecsDiffer ==
  ASSUME IInv, NEW o \in usedOrders, NEW p \in usedOrders, Rec(o) = Rec(p)
  PROVE  o = p
<1>1. order[o].moid = order[p].moid
  BY DEF Rec
<1>2. QED
  BY <1>1 DEF IInv, BookInv, RestingOrdersOpen

LEMMA RestingSame ==
  ASSUME UNCHANGED <<order, qty, usedOrders>>
  PROVE  Resting' = Resting
BY DEF Resting

LEMMA RestingLess ==
  ASSUME IInv, NEW o \in usedOrders, order' = order, usedOrders' = usedOrders \ {o},
         \A p \in usedOrders \ {o} : qty'[p] = qty[p]
  PROVE  Resting' = Resting \ {Rec(o)}
<1>1. Resting' = {Rec(p) : p \in usedOrders \ {o}}
  BY DEF Resting, Rec
<1>2. \A p \in usedOrders : Rec(p) = Rec(o) => p = o
  BY RecsDiffer
<1> HIDE DEF Rec
<1>3. {Rec(p) : p \in usedOrders \ {o}} = {Rec(p) : p \in usedOrders} \ {Rec(o)}
  BY <1>2
<1>4. QED
  BY <1>1, <1>3, RestingIs

\* The order under way, as PriceTimeBook knows it.
LEMMA TakerIs ==
  ASSUME IInv, pc = "match", CallPlaced
  PROVE  /\ Taker = [moid |-> agg.moid, client |-> agg.client, oid |-> agg.oid,
                     side |-> agg.side, price |-> agg.price, qty |-> leaves]
         /\ Taker # nullptr /\ Taker.qty = leaves /\ Taker.side = agg.side /\ Taker.price = agg.price
<1>1. agg \in Aggressors /\ walk = nullptr /\ leaves \in Nat
  BY DEF IInv, TypeOK, CallPlaced
<1>2. agg # nullptr
  BY <1>1, NullAssumption
<1>3. Taker = [moid |-> agg.moid, client |-> agg.client, oid |-> agg.oid,
               side |-> agg.side, price |-> agg.price, qty |-> leaves]
  BY <1>1, <1>2 DEF Taker
<1>4. Taker \in Aggressors
  BY <1>1, <1>3 DEF Aggressors
<1>5. QED
  BY <1>3, <1>4, NullAssumption

LEMMA NoTaker ==
  ASSUME agg = nullptr \/ walk # nullptr
  PROVE  Taker = nullptr
BY DEF Taker

\* Crossing and Ahead of PriceTimeBook, in the terms of the book.
LEMMA CrossingIs ==
  ASSUME IInv, pc = "match", CallPlaced, NEW o \in usedOrders
  PROVE  Promise!Crossing(Rec(o)) <=>
           order[o].side = Opposite(agg.side) /\ Crosses(agg.side, agg.price, order[o].price)
<1>1. /\ Taker.side = agg.side /\ Taker.price = agg.price
      /\ agg.side \in Sides /\ order[o].side \in Sides /\ agg.price \in Nat /\ order[o].price \in Nat
  BY TakerIs, RestingNumbers DEF IInv, TypeOK, Aggressors
<1>2. Rec(o).side = order[o].side /\ Rec(o).price = order[o].price
  BY DEF Rec
<1>3. QED
  BY <1>1, <1>2 DEF Promise!Crossing, Opposite, Crosses, LessAggressive, Sides

\* The first order of the best level of a side is better than every other order of the side.
LEMMA FirstIsBest ==
  ASSUME IInv, SidesSorted, Placed, pc # "walk", NEW s \in Sides, best[s] # nullptr
  PROVE  /\ best[s] \in LevelSlots /\ firstOrder[best[s]] \in usedOrders
         /\ order[firstOrder[best[s]]].side = s
         /\ order[firstOrder[best[s]]].price = level[best[s]].price
         /\ \A p \in usedOrders : order[p].side = s /\ p # firstOrder[best[s]] =>
              Better(s, firstOrder[best[s]], p)
<1> DEFINE b == best[s]
           o == firstOrder[b]
<1>1. b \in Linked(s) /\ Least(Linked(s), b, Rank(s)) /\ b \in usedLevels
  BY DEF SidesSorted, SideSorted, Least, Linked
<1>2. o \in usedOrders /\ LevelOf(o) = b /\ order[o].side = s /\ order[o].price = level[b].price
  BY <1>1, LevelsPlaced DEF Placed, Linked
<1>3. b \in LevelSlots /\ level[b].price \in Nat
  BY <1>1, LevelsPlaced DEF Placed
<1>4. ASSUME NEW p \in usedOrders, order[p].side = s, p # o
      PROVE  Better(s, o, p)
  <2>1. PICK m \in usedLevels : m = LevelOf(p)
    BY LevelsPlaced DEF Placed
  <2>2. level[m].side = s /\ level[m].price = order[p].price /\ m \in Linked(s)
    BY <1>4, <2>1 DEF Placed, OrdersPlaced, Linked
  <2>3. m \in LevelSlots /\ level[m].price \in Nat
    BY LevelsPlaced DEF Placed
  <2>4. PriceRank(s, order[o].price) <= PriceRank(s, order[p].price)
    BY <1>1, <1>2, <1>3, <2>2, <2>3 DEF Least, Rank
  <2>5. CASE order[o].price = order[p].price
    <3>1. SameLevel(o, p) /\ LevelOf(p) = b
      BY <1>2, <2>5 DEF SameLevel, LevelOf
    <3>2. ~Before(p, o)
      BY <1>1, <1>4, <3>1 DEF IInv, BookInv, LevelsIndexed
    <3>3. Before(o, p)
      BY <1>2, <1>4, <3>1, <3>2 DEF IInv, BookInv, FifoLists
    <3>4. order[o].moid < order[p].moid
      BY <1>2, <3>1, <3>3 DEF Placed, OlderFirst
    <3>5. QED
      BY <2>5, <3>4 DEF Better
  <2>6. CASE order[o].price # order[p].price
    <3>1. order[o].price \in Nat /\ order[p].price \in Nat
      BY <1>2, <1>3, <2>2, <2>3
    <3>2. LessAggressive(s, order[p].price, order[o].price)
      BY <2>4, <2>6, <3>1, RankTells DEF PriceRank, LessAggressive, Sides
    <3>3. QED
      BY <3>2 DEF Better
  <2>7. QED
    BY <2>5, <2>6
<1>5. QED
  BY <1>2, <1>3, <1>4

\* The order that match() is given is ahead of every other order of its side.
LEMMA PassiveAhead ==
  ASSUME IInv, SidesSorted, Placed, CallPlaced, pc = "match", BestOpposite # nullptr
  PROVE  /\ Passive \in usedOrders /\ order[Passive].side = Opposite(agg.side)
         /\ \A p \in usedOrders : order[p].side = Opposite(agg.side) /\ p # Passive =>
              Promise!Ahead(Rec(Passive), Rec(p))
<1> DEFINE o == Passive
           s == Opposite(agg.side)
<1>1. s \in Sides
  BY DEF Opposite, Sides
<1>2. /\ o \in usedOrders /\ order[o].side = s
      /\ \A p \in usedOrders : order[p].side = s /\ p # o => Better(s, o, p)
  BY <1>1, FirstIsBest DEF Passive, BestOpposite
<1> SUFFICES ASSUME NEW p \in usedOrders, order[p].side = s, p # o
             PROVE  Promise!Ahead(Rec(o), Rec(p))
  BY <1>2
<1>3. Better(s, o, p)
  BY <1>2
<1>4. /\ Rec(o).side = s /\ Rec(p).side = s /\ Rec(o).price = order[o].price
      /\ Rec(p).price = order[p].price /\ Rec(o).moid = order[o].moid /\ Rec(p).moid = order[p].moid
  BY <1>2 DEF Rec
<1>5. order[o].price \in Nat /\ order[p].price \in Nat
  BY <1>2, RestingNumbers DEF IInv
<1>6. QED
  BY <1>1, <1>3, <1>4, <1>5 DEF Better, LessAggressive, Promise!Ahead, Sides

\* match() of an order is the trade that PriceTimeBook asks for.
LEMMA MatchFills ==
  ASSUME IInv, SidesSorted, Placed, CallPlaced, pc = "match", CanMatch
  PROVE  /\ Passive \in usedOrders /\ Rec(Passive) \in Resting
         /\ Promise!Crossing(Rec(Passive))
         /\ \A r \in Resting \ {Rec(Passive)} : Promise!Crossing(r) => Promise!Ahead(Rec(Passive), r)
<1>1. /\ BestOpposite # nullptr /\ Crosses(agg.side, agg.price, order[Passive].price)
  BY DEF CanMatch
<1>2. /\ Passive \in usedOrders /\ order[Passive].side = Opposite(agg.side)
      /\ \A p \in usedOrders : order[p].side = Opposite(agg.side) /\ p # Passive =>
              Promise!Ahead(Rec(Passive), Rec(p))
  BY <1>1, PassiveAhead
<1>3. Promise!Crossing(Rec(Passive)) /\ Rec(Passive) \in Resting
  BY <1>1, <1>2, CrossingIs, RestingIs
<1>4. ASSUME NEW r \in Resting \ {Rec(Passive)}, Promise!Crossing(r)
      PROVE  Promise!Ahead(Rec(Passive), r)
  <2>1. PICK p \in usedOrders : r = Rec(p)
    BY RestingIs
  <2>2. p # Passive /\ order[p].side = Opposite(agg.side)
    BY <1>4, <2>1, CrossingIs
  <2>3. QED
    BY <1>2, <2>1, <2>2
<1>5. QED
  BY <1>2, <1>3, <1>4

LEMMA MatchPartlyFills ==
  ASSUME IInv, SidesSorted, Placed, CallPlaced, MatchPartly
  PROVE  Promise!Fill
<1>0. PICK o : o = Passive
  OBVIOUS
<1> DEFINE r == Rec(o)
           r2 == [r EXCEPT !.qty = @ - leaves]
<1>1. /\ pc = "match" /\ CanMatch /\ leaves < qty[o] /\ qty' = [qty EXCEPT ![o] = qty[o] - leaves]
      /\ leaves' = 0 /\ UNCHANGED <<order, usedOrders, nextMarketOrderId, pc, agg, walk>>
  BY <1>0 DEF MatchPartly
<1>2. /\ o \in usedOrders /\ r \in Resting /\ Promise!Crossing(r)
      /\ \A x \in Resting \ {r} : Promise!Crossing(x) => Promise!Ahead(r, x)
  BY <1>0, <1>1, MatchFills
<1>3. leaves \in Nat /\ leaves > 0 /\ qty[o] \in Nat /\ o \in OrderSlots /\ qty \in [OrderSlots -> Nat]
  BY <1>1, <1>2 DEF CanMatch, IInv, TypeOK
<1>4. Taker # nullptr /\ Taker.qty = leaves
      /\ Taker = [moid |-> agg.moid, client |-> agg.client, oid |-> agg.oid,
                  side |-> agg.side, price |-> agg.price, qty |-> leaves]
  BY <1>1, TakerIs
<1>5. Taker' = [Taker EXCEPT !.qty = @ - leaves]
  <2>1. Taker' = [moid |-> agg.moid, client |-> agg.client, oid |-> agg.oid,
                  side |-> agg.side, price |-> agg.price, qty |-> 0]
    <3>1. agg # nullptr /\ walk = nullptr
      BY <1>1, NullAssumption DEF IInv, TypeOK, CallPlaced
    <3>2. QED
      BY <1>1, <3>1 DEF Taker
  <2>2. leaves - leaves = 0
    BY <1>3
  <2>3. QED
    BY <1>4, <2>1, <2>2
<1>6. Resting' = (Resting \ {r}) \cup {r2}
  <2>1. \A p \in usedOrders \ {o} : Rec(p)' = Rec(p) /\ Rec(p) # r
    BY <1>1, <1>2, <1>3, RecsDiffer DEF Rec, IInv, TypeOK
  <2>2. Rec(o)' = r2
    BY <1>1, <1>3 DEF Rec
  <2>3. Resting' = {Rec(p)' : p \in usedOrders}
    BY <1>1 DEF Resting, Rec
  <2> HIDE DEF r, r2
  <2>4. {Rec(p)' : p \in usedOrders} = ({Rec(p) : p \in usedOrders} \ {r}) \cup {r2}
    <3>1. \A p \in usedOrders \ {o} : Rec(p) # r
      BY <2>1
    <3>2. {Rec(p)' : p \in usedOrders} = {Rec(p)' : p \in usedOrders \ {o}} \cup {r2}
      BY <1>2, <2>2
    <3>3. {Rec(p) : p \in usedOrders} = {Rec(p) : p \in usedOrders \ {o}} \cup {r}
      BY <1>2 DEF r
    <3>4. {Rec(p)' : p \in usedOrders \ {o}} = {Rec(p) : p \in usedOrders \ {o}}
      BY <2>1
    <3> DEFINE A == {Rec(p) : p \in usedOrders \ {o}}
    <3>5. r \notin A
      BY <3>1
    <3> HIDE DEF A
    <3>6. (A \cup {r}) \ {r} = A
      BY <3>5
    <3>7. QED
      BY <3>2, <3>3, <3>4, <3>6 DEF A
  <2>5. QED
    BY <2>3, <2>4, RestingIs
<1>7. r.qty = qty[o]
  BY DEF Rec
<1> HIDE DEF r
<1>8. (IF Taker.qty < r.qty THEN Taker.qty ELSE r.qty) = leaves /\ leaves # r.qty
  BY <1>1, <1>3, <1>4, <1>7
<1>9. QED
  BY <1>1, <1>2, <1>3, <1>4, <1>5, <1>6, <1>8 DEF Promise!Fill

LEMMA MatchFullyFills ==
  ASSUME IInv, SidesSorted, Placed, CallPlaced, MatchFully
  PROVE  Promise!Fill
<1> DEFINE o == Passive
           r == Rec(o)
<1>1. /\ pc = "match" /\ CanMatch /\ qty[o] <= leaves /\ qty' = [qty EXCEPT ![o] = 0]
      /\ leaves' = leaves - qty[o] /\ RemoveOrder(o)
      /\ UNCHANGED <<nextMarketOrderId, pc, agg, walk>>
  BY DEF MatchFully
<1>2. /\ o \in usedOrders /\ r \in Resting /\ Promise!Crossing(r)
      /\ \A x \in Resting \ {r} : Promise!Crossing(x) => Promise!Ahead(r, x)
  BY <1>1, MatchFills
<1>3. leaves \in Nat /\ leaves > 0 /\ qty[o] \in Nat /\ o \in OrderSlots /\ qty \in [OrderSlots -> Nat]
      /\ usedOrders \subseteq OrderSlots
  BY <1>1, <1>2 DEF CanMatch, IInv, TypeOK
<1>4. Taker # nullptr /\ Taker.qty = leaves
      /\ Taker = [moid |-> agg.moid, client |-> agg.client, oid |-> agg.oid,
                  side |-> agg.side, price |-> agg.price, qty |-> leaves]
  BY <1>1, TakerIs
<1>5. Taker' = [Taker EXCEPT !.qty = @ - qty[o]]
  <2>1. agg # nullptr /\ walk = nullptr
    BY <1>1, NullAssumption DEF IInv, TypeOK, CallPlaced
  <2>2. Taker' = [moid |-> agg.moid, client |-> agg.client, oid |-> agg.oid,
                  side |-> agg.side, price |-> agg.price, qty |-> leaves - qty[o]]
    BY <1>1, <2>1 DEF Taker
  <2>3. QED
    BY <1>4, <2>2
<1>6. Resting' = Resting \ {r}
  <2>1. order' = order /\ usedOrders' = usedOrders \ {o} /\ \A p \in usedOrders \ {o} : qty'[p] = qty[p]
    BY <1>1, <1>3 DEF RemoveOrder
  <2>2. QED
    BY <1>2, <2>1, RestingLess
<1>7. r.qty = qty[o]
  BY DEF Rec
<1> HIDE DEF r
<1>8. (IF Taker.qty < r.qty THEN Taker.qty ELSE r.qty) = r.qty
  BY <1>1, <1>3, <1>4, <1>7
<1>9. QED
  BY <1>1, <1>2, <1>3, <1>4, <1>5, <1>6, <1>7, <1>8 DEF Promise!Fill

\* What is left of an order rests only when nothing crosses it.
LEMMA RestsUncrossed ==
  ASSUME IInv, SidesSorted, Placed, CallPlaced, Rests
  PROVE  \A r \in Resting : ~Promise!Crossing(r)
<1> SUFFICES ASSUME NEW o \in usedOrders, Promise!Crossing(Rec(o)) PROVE FALSE
  BY RestingIs
<1>1. order[o].side = Opposite(agg.side) /\ Crosses(agg.side, agg.price, order[o].price)
  BY CrossingIs DEF Rests
<1>2. LevelOf(o) \in usedLevels /\ level[LevelOf(o)].side = order[o].side
      /\ level[LevelOf(o)].price = order[o].price
  BY LevelsPlaced DEF Placed, OrdersPlaced
<1>3. LessAggressive(agg.side, agg.price, order[o].price)
  BY <1>1, <1>2, NothingCrosses
<1>4. QED
  BY <1>1, <1>3 DEF Crosses

\* What is left of the order under way rests.
LEMMA RestRests ==
  ASSUME IInv, SidesSorted, Placed, CallPlaced, Rests, CanAllocateOrder, NEW l, AllocateOrder(l),
         NextPriority(l) \in Nat, agg' = nullptr \/ walk' # nullptr, UNCHANGED nextMarketOrderId
  PROVE  Promise!Rest
<1>0. PICK o \in OrderSlots : o = freeOrder
  BY DEF IInv, TypeOK
<1>1. /\ pc = "match" /\ leaves > 0 /\ leaves \in Nat /\ agg \in Aggressors
  BY DEF Rests, IInv, TypeOK
<1>2. /\ \A p \in usedOrders : order'[p] = order[p] /\ qty'[p] = qty[p]
      /\ usedOrders' = usedOrders \cup {o} /\ o \notin usedOrders /\ qty'[o] = leaves
  BY <1>0, <1>1, AllocatedOrder
<1>3. order'[o] = [client |-> agg.client, oid |-> agg.oid, moid |-> agg.moid,
                   side |-> agg.side, price |-> agg.price, prio |-> NextPriority(l)]
  BY <1>0 DEF AllocateOrder, IInv, TypeOK
<1>4. Rec(o)' = Taker
  <2>1. Taker = [moid |-> agg.moid, client |-> agg.client, oid |-> agg.oid,
                     side |-> agg.side, price |-> agg.price, qty |-> leaves]
    BY <1>1, TakerIs
  <2>2. QED
    BY <1>2, <1>3, <2>1 DEF Rec
<1>5. Resting' = Resting \cup {Taker}
  <2>1. Resting' = {Rec(p)' : p \in usedOrders} \cup {Taker}
    BY <1>2, <1>4 DEF Resting, Rec
  <2>2. \A p \in usedOrders : Rec(p)' = Rec(p)
    BY <1>2 DEF Rec
  <2>3. QED
    BY <2>1, <2>2, RestingIs
<1>6. Taker # nullptr /\ Taker.qty > 0
  BY <1>1, TakerIs
<1>7. Taker' = nullptr
  BY NoTaker DEF Taker
<1>8. QED
  BY <1>5, <1>6, <1>7, RestsUncrossed DEF Promise!Rest

LEMMA RestSteps ==
  ASSUME IInv, SidesSorted, Placed, CallPlaced, RestAtLevel \/ RestOnEmptySide \/ RestOnSide
  PROVE  Promise!Rest
<1>1. CASE RestAtLevel
  <2> DEFINE l == priceMap[AggIndex]
  <2>1. /\ Rests /\ CanAllocateOrder /\ AllocateOrder(l) /\ l # nullptr /\ AggIndex \in PriceIndices
        /\ agg' = nullptr /\ UNCHANGED nextMarketOrderId
    BY <1>1, IndicesInRange DEF RestAtLevel, Rests, CanRest, IInv, Publish, Return
  <2>2. NextPriority(l) \in Nat
    BY <2>1, TailIsYoungest, RestingNumbers DEF NextPriority, IInv
  <2>3. QED
    BY <2>1, <2>2, RestRests
<1>2. CASE RestOnEmptySide
  <2>1. /\ Rests /\ CanAllocateOrder /\ AllocateOrder(nullptr) /\ NextPriority(nullptr) \in Nat
        /\ agg' = nullptr /\ UNCHANGED nextMarketOrderId
    BY <1>2 DEF RestOnEmptySide, CanRest, NextPriority, Publish, Return
  <2>2. QED
    BY <2>1, RestRests
<1>3. CASE RestOnSide
  <2>1. /\ Rests /\ CanAllocateOrder /\ AllocateOrder(nullptr) /\ NextPriority(nullptr) \in Nat
        /\ UNCHANGED nextMarketOrderId
    BY <1>3 DEF RestOnSide, CanRest, NextPriority
  <2>2. walk' # nullptr
    <3>1. pc' = "walk"
      BY <1>3, RestOnSideArranged DEF Placed
    <3>2. IInv'
      BY <1>3, RestOnSideStep
    <3>3. QED
      BY <3>1, <3>2, NullAssumption DEF IInv, TypeOK
  <2>3. QED
    BY <2>1, <2>2, RestRests
<1>4. QED
  BY <1>1, <1>2, <1>3

LEMMA AcceptAccepts ==
  ASSUME IInv, CallPlaced, NEW c \in Clients, NEW id \in OrderIds,
         NEW s \in Sides, NEW p \in Prices, NEW q \in Quantities, Accept(c, id, s, p, q)
  PROVE  Promise!Accept
<1>1. /\ pc = "idle" /\ agg' = [client |-> c, oid |-> id, moid |-> nextMarketOrderId,
                                side |-> s, price |-> p, qty |-> q]
      /\ nextMarketOrderId' = nextMarketOrderId + 1 /\ nextMarketOrderId \in Nat
      /\ leaves' \in Nat /\ UNCHANGED <<order, qty, usedOrders, walk>>
  BY InitialLeavesNat DEF Accept, orderVars, IInv, TypeOK
<1>2. agg = nullptr /\ walk' = nullptr
  BY <1>1 DEF CallPlaced
<1>3. agg' \in Aggressors
  BY <1>1, ConstantsAssumption DEF Aggressors
<1>4. agg' # nullptr
  BY <1>3, NullAssumption
<1>5. Taker' = [moid |-> nextMarketOrderId, client |-> c, oid |-> id, side |-> s, price |-> p, qty |-> leaves']
  BY <1>1, <1>2, <1>4 DEF Taker
<1>6. Taker' \in Aggressors
  BY <1>1, <1>3, <1>5, ConstantsAssumption DEF Aggressors
<1>7. Taker' # nullptr /\ Taker'.moid = nextMarketOrderId /\ Taker'.qty \in Nat
  BY <1>1, <1>5, <1>6, NullAssumption
<1>8. nextMarketOrderId' - 1 = nextMarketOrderId /\ (nextMarketOrderId - 1) + 1 = nextMarketOrderId
  BY <1>1
<1>9. Taker = nullptr /\ Resting' = Resting
  BY <1>1, <1>2, NoTaker, RestingSame
<1>10. QED
  BY <1>7, <1>8, <1>9 DEF Promise!Accept

LEMMA CancelCancels ==
  ASSUME IInv, CallPlaced, NEW c \in Clients, NEW id \in OrderIds, Cancel(c, id)
  PROVE  Promise!Cancel
<1>0. PICK o \in usedOrders : o = cidOid[c][id]
  BY DEF Cancel, IInv, BookInv, ClientMapSound
<1>1. /\ pc = "idle" /\ order' = order /\ usedOrders' = usedOrders \ {o}
      /\ UNCHANGED <<qty, nextMarketOrderId, agg, walk>>
  BY <1>0 DEF Cancel, RemoveOrder, callVars
<1>2. Taker = nullptr /\ Taker' = nullptr
  BY <1>1 DEF CallPlaced, Taker
<1>3. Resting' = Resting \ {Rec(o)} /\ Rec(o) \in Resting
  BY <1>1, RestingLess, RestingIs
<1>4. QED
  BY <1>1, <1>2, <1>3 DEF Promise!Cancel

LEMMA FilledDone ==
  ASSUME IInv, CallPlaced, Filled
  PROVE  Promise!Done
<1>1. /\ pc = "match" /\ leaves = 0 /\ agg' = nullptr /\ UNCHANGED <<order, qty, usedOrders, nextMarketOrderId>>
  BY DEF Filled, Return, orderVars
<1>2. Taker # nullptr /\ Taker.qty = 0 /\ Taker' = nullptr
  BY <1>1, TakerIs DEF Taker
<1>3. QED
  BY <1>1, <1>2, RestingSame DEF Promise!Done

\* Every step of a book in order is a step of PriceTimeBook or none.
LEMMA NextKeepsPromise ==
  ASSUME IInv, CallSound, LevelsInOrder, [Next]_vars
  PROVE  [Promise!Next]_promised
<1> SUFFICES Promise!Next \/ UNCHANGED promised
  BY DEF promised
<1>0. SidesSorted /\ Placed /\ CallPlaced /\ SearchPlaced /\ OrdersPlaced
  BY DEF LevelsInOrder, CallSound, Placed
<1>1. ASSUME UNCHANGED <<order, qty, usedOrders, nextMarketOrderId, agg, walk, leaves>>
      PROVE  UNCHANGED promised
  BY <1>1, RestingSame DEF promised, Taker
<1>2. CASE UNCHANGED vars
  <2>1. UNCHANGED <<order, qty, usedOrders, nextMarketOrderId, agg, walk, leaves>>
    BY <1>2 DEF vars, orderVars, callVars
  <2>2. QED
    BY <1>1, <2>1
<1>3. ASSUME Halt PROVE UNCHANGED promised
  <2>1. UNCHANGED <<order, qty, usedOrders, nextMarketOrderId, agg, walk, leaves>>
    BY <1>3 DEF Halt, orderVars
  <2>2. QED
    BY <1>1, <2>1
<1>4. CASE Request
  <2>1. ASSUME NEW c \in Clients, NEW id \in OrderIds, CancelReject(c, id) PROVE UNCHANGED promised
    <3>1. UNCHANGED <<order, qty, usedOrders, nextMarketOrderId, agg, walk, leaves>>
      BY <2>1 DEF CancelReject, orderVars, callVars
    <3>2. QED
      BY <1>1, <3>1
  <2>2. QED
    BY <1>0, <1>3, <1>4, <2>1, AcceptAccepts, CancelCancels DEF Request, CancelCrash, Promise!Next
<1>5. CASE Running
  <2>1. ASSUME WalkStep PROVE UNCHANGED promised
    <3>1. pc = "walk" /\ pc' = "walk" /\ IInv'
      BY <1>0, <2>1, WalkStepSearches, WalkStepStep DEF WalkStep
    <3>2. walk # nullptr /\ walk' # nullptr
      BY <3>1, NullAssumption DEF IInv, TypeOK
    <3>3. Taker = nullptr /\ Taker' = nullptr
      BY <3>2 DEF Taker
    <3>4. UNCHANGED <<order, qty, usedOrders, nextMarketOrderId>>
      BY <2>1 DEF WalkStep, orderVars
    <3>5. QED
      BY <3>3, <3>4, RestingSame DEF promised
  <2>2. ASSUME InsertAtEnd \/ InsertBeforeTarget PROVE UNCHANGED promised
    <3>1. pc = "walk" /\ agg' = nullptr /\ UNCHANGED <<order, qty, usedOrders, nextMarketOrderId>>
      BY <2>2 DEF InsertAtEnd, AtEnd, InsertBeforeTarget, AtTarget, PublishWalked, Publish, Return, orderVars
    <3>2. walk # nullptr
      BY <3>1, NullAssumption DEF IInv, TypeOK
    <3>3. Taker = nullptr /\ Taker' = nullptr
      BY <3>1, <3>2 DEF Taker
    <3>4. QED
      BY <3>1, <3>3, RestingSame DEF promised
  <2>3. QED
    BY <1>0, <1>3, <1>5, <2>1, <2>2, MatchPartlyFills, MatchFullyFills, RestSteps, FilledDone
       DEF Running, MatchCrash, RestCrash, InsertCrash, Promise!Next
<1>6. QED
  BY <1>2, <1>4, <1>5 DEF Next

\* A book whose levels are in order matches, rests and cancels by price-time priority, whatever
\* the clients send, up to and with the step that leaves its levels out of order.
THEOREM PriorityKept == Spec => PriceTimePriority
<1>1. IInv /\ CallSound /\ [Next]_vars => [LevelsInOrder => [Promise!Next]_promised]_vars
  BY NextKeepsPromise
<1>2. QED
  BY <1>1, SpecCallSound, PTL DEF Spec, PriceTimePriority

-----------------------------------------------------------------------------
\* What toString() shows.

LEMMA LeastOf ==
  ASSUME NEW R, IsWellFoundedOn(R, Nat), NEW T, T \subseteq Nat, T # {}
  PROVE  \E x \in T : \A y \in T : ~ (<<y, x>> \in R)
  BY WFMin, Zenon

\* A set of numbers has a least one, and Min is it.
LEMMA MinIsLeast ==
  ASSUME NEW T \in SUBSET Nat, T # {}
  PROVE  Text!Min(T) \in T /\ \A y \in T : Text!Min(T) <= y
<1> DEFINE R == OpToRel(<, Nat)
<1>1. IsWellFoundedOn(R, Nat)
  BY NatLessThanWellFounded
<1>2. \A x, y \in Nat : y < x => <<y, x>> \in R
  BY DEF OpToRel
<1> HIDE DEF R
<1>3. PICK x \in T : \A y \in T : ~ (<<y, x>> \in R)
  BY <1>1, LeastOf
<1>4. \A y \in T : x <= y
  <2> SUFFICES ASSUME NEW y \in T PROVE ~ (y < x)
    BY T \subseteq Nat
  <2>1. QED
    BY <1>2, <1>3, T \subseteq Nat
<1>5. QED
  BY <1>4 DEF Text!Min

\* v[n] is what a loop visits after n steps, up to step k.
IsVisits(v, h, f, k) ==
  v = [n \in 0 .. k |-> IF n = 0 THEN h ELSE IF v[n - 1] = nullptr THEN nullptr ELSE f[v[n - 1]]]

LEMMA VisitsExist ==
  ASSUME NEW h, NEW f, NEW k \in Nat
  PROVE  \E v : IsVisits(v, h, f, k)
<1> DEFINE Lacking == {n \in Nat : ~ \E v : IsVisits(v, h, f, n)}
<1> SUFFICES ASSUME Lacking # {} PROVE FALSE
  OBVIOUS
<1> HIDE DEF Lacking
<1>1. PICK n \in Lacking : \A m \in Lacking : n <= m
  <2>1. Lacking \in SUBSET Nat
    BY DEF Lacking
  <2>2. QED
    BY <2>1, MinIsLeast
<1>2. n \in Nat /\ ~ \E v : IsVisits(v, h, f, n)
  BY DEF Lacking
<1>3. n # 0
  <2> DEFINE v == [i \in 0 .. 0 |-> h]
  <2>1. IsVisits(v, h, f, 0)
    BY DEF IsVisits
  <2>2. QED
    BY <1>2, <2>1
<1>4. PICK v : IsVisits(v, h, f, n - 1)
  <2>1. n - 1 \in Nat /\ n - 1 \notin Lacking
    BY <1>1, <1>2, <1>3
  <2>2. QED
    BY <2>1 DEF Lacking
<1> DEFINE Next1 == IF v[n - 1] = nullptr THEN nullptr ELSE f[v[n - 1]]
           w == [i \in 0 .. n |-> IF i = n THEN Next1 ELSE v[i]]
<1>5. \A i \in 0 .. n : w[i] = IF i = 0 THEN h ELSE IF w[i - 1] = nullptr THEN nullptr ELSE f[w[i - 1]]
  <2> SUFFICES ASSUME NEW i \in 0 .. n
               PROVE  w[i] = IF i = 0 THEN h ELSE IF w[i - 1] = nullptr THEN nullptr ELSE f[w[i - 1]]
    OBVIOUS
  <2>1. CASE i = n
    <3>1. i # 0 /\ n - 1 \in 0 .. n /\ n - 1 # n
      BY <1>2, <1>3, <2>1
    <3>2. w[i - 1] = v[n - 1] /\ w[i] = Next1
      BY <2>1, <3>1
    <3>3. QED
      BY <3>1, <3>2
  <2>2. CASE i # n
    <3>1. i \in 0 .. n - 1 /\ w[i] = v[i] /\ (i # 0 => w[i - 1] = v[i - 1])
      BY <1>2, <2>2
    <3>2. v[i] = IF i = 0 THEN h ELSE IF v[i - 1] = nullptr THEN nullptr ELSE f[v[i - 1]]
      BY <1>4, <3>1 DEF IsVisits
    <3>3. QED
      BY <3>1, <3>2
  <2>3. QED
    BY <2>1, <2>2
<1>6. IsVisits(w, h, f, n)
  <2>1. w = [i \in 0 .. n |-> w[i]]
    OBVIOUS
  <2> HIDE DEF w
  <2>2. QED
    BY <1>5, <2>1 DEF IsVisits
<1>7. QED
  BY <1>2, <1>6

\* A loop starts with what its head points to.
LEMMA LoopStarts ==
  ASSUME NEW h, NEW f, Cardinality(DOMAIN f) \in Nat
  PROVE  \E n \in Nat : /\ DOMAIN Text!Loop(h, f) = 1 .. n
                        /\ n = 0 <=> h = nullptr
                        /\ h # nullptr => Text!Loop(h, f)[1] = h
<1> DEFINE most == Cardinality(DOMAIN f)
           seen == CHOOSE at : at = [n \in 0 .. most |-> IF n = 0 THEN h
                                                         ELSE IF at[n - 1] = nullptr THEN nullptr
                                                         ELSE f[at[n - 1]]]
           Stops == {n \in 0 .. most : seen[n] = nullptr \/ (n > 0 /\ seen[n] = h)}
           n == IF Stops = {} THEN most + 1 ELSE Text!Min(Stops)
<1>1. Text!Loop(h, f) = [i \in 1 .. n |-> seen[i - 1]]
  BY Zenon DEF Text!Loop, Text!Cardinality, Cardinality
<1>2. IsVisits(seen, h, f, most)
  <2>1. \E v : IsVisits(v, h, f, most)
    BY VisitsExist
  <2>2. seen = CHOOSE at : IsVisits(at, h, f, most)
    BY DEF IsVisits
  <2> HIDE DEF seen
  <2>3. QED
    BY <2>1, <2>2, Zenon
<1> HIDE DEF seen
<1>3. seen[0] = h
  BY <1>2, 0 \in 0 .. most DEF IsVisits
<1>4. Stops \in SUBSET Nat /\ (0 \in Stops <=> h = nullptr)
  BY <1>3
<1>5. n \in Nat /\ (n = 0 <=> h = nullptr)
  <2> HIDE DEF Stops
  <2>1. Stops # {} => Text!Min(Stops) \in Stops /\ \A y \in Stops : Text!Min(Stops) <= y
    BY <1>4, MinIsLeast
  <2>2. Stops # {} => Text!Min(Stops) \in Nat
    BY <1>4, <2>1
  <2>3. h = nullptr => n = 0
    BY <1>4, <2>1, <2>2
  <2>4. n = 0 => h = nullptr
    BY <1>4, <2>1
  <2>5. QED
    BY <2>2, <2>3, <2>4
<1> HIDE DEF n
<1>6. QED
  BY <1>1, <1>3, <1>5

-----------------------------------------------------------------------------
\* Pointers that are stale still lead to objects, and ids are given once.

\* The orders that were ever handed out, and levels whose order list was ever set.
Handed == {o \in OrderSlots : order[o] \in OrderData}
Started(l) == l # nullptr => firstOrder[l] # nullptr
PointersLead ==
  /\ \A l \in LevelSlots : firstOrder[l] # nullptr => firstOrder[l] \in Handed
  /\ \A l \in LevelSlots : Started(nextEntry[l])
  /\ \A s \in Sides : Started(best[s])
  /\ pc = "walk" => Started(walk.level) /\ Started(walk.target)
IdsOnce ==
  /\ \A o \in Handed : /\ order[o].moid < nextMarketOrderId
                       /\ pc = "match" => order[o].moid # agg.moid
  /\ \A o, p \in Handed : o # p => order[o].moid # order[p].moid
Stale == pc # "halted" => PointersLead /\ IdsOnce

LEMMA UsedHanded == TypeOK => usedOrders \subseteq Handed
BY DEF TypeOK, Handed

\* A new order takes a slot.
LEMMA AllocateStale ==
  ASSUME IInv, PointersLead, IdsOnce, pc = "match", leaves > 0, CanAllocateOrder,
         NEW l, AllocateOrder(l), NextPriority(l) \in Nat,
         nextMarketOrderId' = nextMarketOrderId, pc' # "match"
  PROVE  IdsOnce' /\ Handed' = Handed \cup {freeOrder}
<1>1. /\ freeOrder \in OrderSlots /\ order'[freeOrder] \in OrderData
      /\ order'[freeOrder].moid = agg.moid /\ order'[freeOrder].moid < nextMarketOrderId
  BY AllocatedOrder DEF IInv, CallOpen, TypeOK, Aggressors
<1>2. \A o \in OrderSlots \ {freeOrder} : order'[o] = order[o]
  BY DEF AllocateOrder, IInv, TypeOK
<1>3. Handed' = Handed \cup {freeOrder}
  BY <1>1, <1>2 DEF Handed
<1>4. IdsOnce'
  BY <1>1, <1>2, <1>3 DEF IdsOnce, Handed
<1>5. QED
  BY <1>3, <1>4

\* Steps that take no slot of an order.
LEMMA IdsSame ==
  ASSUME IdsOnce, order' = order, nextMarketOrderId' = nextMarketOrderId,
         pc' = "match" => pc = "match" /\ agg' = agg
  PROVE  IdsOnce' /\ Handed' = Handed
BY DEF IdsOnce, Handed

\* An order that leaves the book.
LEMMA RemoveStale ==
  ASSUME IInv, PointersLead, NEW o \in usedOrders, RemoveOrder(o), CanRemove(o), pc' # "walk"
  PROVE  PointersLead'
<1>1. order' = order /\ Handed' = Handed
  BY DEF RemoveOrder, Handed
<1>2. /\ nextOrder[o] \in usedOrders /\ usedOrders \subseteq Handed /\ LevelOf(o) \in LevelSlots
      /\ order[o].side \in Sides
  BY UsedHanded, IndicesInRange, RestingNumbers
     DEF IInv, BookInv, FifoLists, TypeOK, CanRemove, LevelOf, LevelPtrs
<1>3. /\ firstOrder \in [LevelSlots -> OrderPtrs] /\ best \in [Sides -> LevelPtrs]
      /\ nextEntry \in [LevelSlots -> LevelPtrs] /\ nullptr \notin usedOrders
  <2>1. nullptr \notin OrderSlots
    BY ConstantsAssumption DEF OrderSlots
  <2>2. QED
    BY <2>1 DEF IInv, TypeOK
<1>4. CASE prevOrder[o] = o
  <2> DEFINE l == LevelOf(o)
  <2>1. /\ firstOrder' = firstOrder
        /\ IF nextEntry[l] = l
             THEN nextEntry' = nextEntry /\ best' = [best EXCEPT ![order[o].side] = nullptr]
             ELSE /\ nextEntry' = [nextEntry EXCEPT ![prevEntry[l]] = nextEntry[l], ![l] = nullptr]
                  /\ best' = IF l = best[order[o].side] THEN [best EXCEPT ![order[o].side] = nextEntry[l]]
                                                       ELSE best
    BY <1>4 DEF RemoveOrder, RemoveOrdersAtPrice
  <2>2. Started(nextEntry[l])
    BY <1>2 DEF PointersLead
  <2> HIDE DEF l
  <2>3. \A m \in LevelSlots : nextEntry'[m] \in {nextEntry[m], nextEntry[l], nullptr}
    BY <1>3, <2>1
  <2>4. \A s \in Sides : best'[s] \in {best[s], nextEntry[l], nullptr}
    BY <1>3, <2>1
  <2>5. QED
    BY <1>1, <2>1, <2>2, <2>3, <2>4 DEF PointersLead, Started
<1>5. CASE prevOrder[o] # o
  <2>1. nextEntry' = nextEntry /\ best' = best
        /\ \A l \in LevelSlots : /\ firstOrder'[l] \in {firstOrder[l], nextOrder[o]}
                                 /\ firstOrder[l] # nullptr => firstOrder'[l] # nullptr
    BY <1>2, <1>3, <1>5 DEF RemoveOrder, UnlinkOrder
  <2>2. \A l \in LevelPtrs : Started(l) => Started(l)'
    BY <2>1 DEF Started, LevelPtrs
  <2>3. QED
    BY <1>1, <1>2, <1>3, <2>1, <2>2 DEF PointersLead
<1>6. QED
  BY <1>4, <1>5

\* A new level for a new order.
LEMMA OpenStale ==
  ASSUME IInv, PointersLead, Handed' = Handed \cup {freeOrder}, AllocateLevel,
         NEW n \in LevelSlots, n = freeLevel,
         nextEntry' \in {[nextEntry EXCEPT ![n] = n], [nextEntry EXCEPT ![n] = nullptr]}
  PROVE  /\ \A l \in LevelSlots : firstOrder'[l] # nullptr => firstOrder'[l] \in Handed'
         /\ \A l \in LevelPtrs : Started(l) => Started(l)'
         /\ Started(n)'
         /\ \A l \in LevelSlots : Started(nextEntry[l])'
<1>1. /\ firstOrder' = [firstOrder EXCEPT ![n] = freeOrder] /\ freeOrder # nullptr
      /\ firstOrder \in [LevelSlots -> OrderPtrs] /\ nextEntry \in [LevelSlots -> LevelPtrs]
  BY ConstantsAssumption DEF AllocateLevel, IInv, TypeOK, OrderSlots
<1>2. /\ \A l \in LevelSlots : firstOrder'[l] # nullptr => firstOrder'[l] \in Handed'
      /\ \A l \in LevelPtrs : Started(l) => Started(l)'
      /\ Started(n)'
  <2>1. \A l \in LevelSlots : firstOrder'[l] = IF l = n THEN freeOrder ELSE firstOrder[l]
    BY <1>1
  <2>2. QED
    BY <1>1, <2>1 DEF PointersLead, Started, LevelPtrs
<1>3. \A l \in LevelSlots : nextEntry'[l] \in {nextEntry[l], n, nullptr}
  BY <1>1
<1>4. QED
  BY <1>1, <1>2, <1>3 DEF PointersLead, Started

\* Levels that are linked anew.
LEMMA LinkStale ==
  ASSUME IInv, PointersLead, order' = order, firstOrder' = firstOrder, pc = "walk", pc' = "idle",
         \A l \in LevelSlots : \/ nextEntry'[l] \in {walk.level, walk.target}
                               \/ \E m \in LevelSlots : nextEntry'[l] = nextEntry[m],
         \A s \in Sides : best'[s] \in {best[s], walk.level}
  PROVE  PointersLead'
<1>1. Handed' = Handed
  BY DEF Handed
<1>2. \A l : Started(l)' <=> (l # nullptr => firstOrder[l] # nullptr)
  BY DEF Started
<1>3. QED
  BY <1>1, <1>2 DEF PointersLead, Started

LEMMA NextStale == IInv /\ Stale /\ [Next]_vars => Stale'
<1> SUFFICES ASSUME IInv, PointersLead, IdsOnce, pc # "halted", [Next]_vars, pc' # "halted"
             PROVE  PointersLead' /\ IdsOnce'
  <2>1. IInv /\ pc = "halted" /\ [Next]_vars => pc' = "halted"
    BY DEF Next, Request, Running, Accept, Cancel, CancelReject, CancelCrash, Halt, MatchPartly,
           MatchFully, MatchCrash, Filled, RestAtLevel, RestOnEmptySide, RestOnSide, RestCrash,
           Rests, WalkStep, InsertAtEnd, AtEnd, InsertBeforeTarget, AtTarget, InsertCrash, vars,
           callVars
  <2>2. QED
    BY <2>1 DEF Stale
<1>1. ASSUME UNCHANGED <<order, firstOrder, nextEntry, best>>,
             nextMarketOrderId' = nextMarketOrderId,
             pc' = "match" => pc = "match" /\ agg' = agg,
             pc' = "walk" => pc = "walk" /\ walk' = walk
      PROVE  PointersLead' /\ IdsOnce'
  BY <1>1, IdsSame DEF PointersLead, Started
<1>2. CASE UNCHANGED vars
  BY <1>1, <1>2 DEF vars, orderVars, levelVars, indexVars, callVars
<1>3. ASSUME NEW o \in usedOrders, RemoveOrder(o), CanRemove(o), pc' = pc, agg' = agg, pc # "walk",
             nextMarketOrderId' = nextMarketOrderId
      PROVE  PointersLead' /\ IdsOnce'
  <2>1. order' = order
    BY <1>3 DEF RemoveOrder
  <2>2. QED
    BY <1>3, <2>1, RemoveStale, IdsSame
<1>4. ASSUME NEW c \in Clients, NEW id \in OrderIds, NEW s \in Sides, NEW p \in Prices,
             NEW q \in Quantities, Accept(c, id, s, p, q)
      PROVE  PointersLead' /\ IdsOnce'
  <2>1. /\ UNCHANGED <<order, firstOrder, nextEntry, best>> /\ pc' = "match"
        /\ agg'.moid = nextMarketOrderId /\ nextMarketOrderId' = nextMarketOrderId + 1
        /\ nextMarketOrderId \in Nat
    BY <1>4 DEF Accept, orderVars, levelVars, indexVars, IInv, TypeOK
  <2>2. Handed' = Handed /\ \A o \in Handed : order[o].moid \in Nat
    BY <2>1 DEF Handed, OrderData
  <2>3. IdsOnce'
    BY <2>1, <2>2 DEF IdsOnce
  <2>4. QED
    BY <2>1, <2>2, <2>3 DEF PointersLead, Started
<1>5. CASE Request
  <2>1. ASSUME NEW c \in Clients, NEW id \in OrderIds, CancelReject(c, id)
        PROVE  PointersLead' /\ IdsOnce'
    BY <1>1, <2>1 DEF CancelReject, orderVars, levelVars, indexVars, callVars
  <2>2. ASSUME NEW c \in Clients, NEW id \in OrderIds, Cancel(c, id)
        PROVE  PointersLead' /\ IdsOnce'
    <3>1. /\ cidOid[c][id] \in usedOrders /\ RemoveOrder(cidOid[c][id]) /\ CanRemove(cidOid[c][id])
          /\ pc' = pc /\ agg' = agg /\ pc = "idle" /\ nextMarketOrderId' = nextMarketOrderId
      BY <2>2 DEF Cancel, IInv, BookInv, ClientMapSound, callVars
    <3>2. QED
      BY <1>3, <3>1
  <2>3. QED
    BY <1>4, <1>5, <2>1, <2>2 DEF Request, CancelCrash, Halt
<1>6. CASE MatchPartly
  BY <1>1, <1>6 DEF MatchPartly, levelVars, indexVars
<1>7. CASE MatchFully
  BY <1>3, <1>7 DEF MatchFully, CanRemove
<1>8. CASE Filled
  BY <1>1, <1>8 DEF Filled, Return, orderVars, levelVars, indexVars
<1>9. CASE RestAtLevel
  <2> DEFINE l == priceMap[AggIndex]
  <2>1. /\ pc = "match" /\ leaves > 0 /\ CanAllocateOrder /\ AllocateOrder(l) /\ l # nullptr
        /\ AggIndex \in PriceIndices /\ nextMarketOrderId' = nextMarketOrderId /\ pc' = "idle"
        /\ UNCHANGED <<firstOrder, nextEntry, best>>
    BY <1>9, IndicesInRange DEF RestAtLevel, Rests, CanRest, IInv, levelVars, Publish, Return
  <2>2. NextPriority(l) \in Nat
    BY <2>1, TailIsYoungest, RestingNumbers DEF NextPriority, IInv
  <2>3. IdsOnce' /\ Handed' = Handed \cup {freeOrder}
    BY <2>1, <2>2, AllocateStale
  <2>4. QED
    BY <2>1, <2>3 DEF PointersLead, Started
<1>10. CASE RestOnEmptySide \/ RestOnSide
  <2> PICK n \in LevelSlots : n = freeLevel
    BY DEF IInv, TypeOK
  <2>1. /\ pc = "match" /\ leaves > 0 /\ CanAllocateOrder /\ AllocateOrder(nullptr) /\ AllocateLevel
        /\ nextMarketOrderId' = nextMarketOrderId /\ pc' # "match"
        /\ nextEntry' \in {[nextEntry EXCEPT ![n] = n], [nextEntry EXCEPT ![n] = nullptr]}
        /\ NextPriority(nullptr) \in Nat /\ agg.side \in Sides
    BY <1>10 DEF RestOnEmptySide, RestOnSide, Rests, CanRest, Publish, Return, NextPriority,
                 IInv, TypeOK, Aggressors
  <2>2. IdsOnce' /\ Handed' = Handed \cup {freeOrder}
    BY <2>1, AllocateStale
  <2>3. /\ \A l \in LevelSlots : firstOrder'[l] # nullptr => firstOrder'[l] \in Handed'
        /\ \A l \in LevelPtrs : Started(l) => Started(l)'
        /\ Started(n)'
        /\ \A l \in LevelSlots : Started(nextEntry[l])'
    BY <2>1, <2>2, OpenStale
  <2>4. best \in [Sides -> LevelPtrs]
    BY DEF IInv, TypeOK
  <2>5. CASE RestOnEmptySide
    <3>1. pc' = "idle" /\ best' = [best EXCEPT ![agg.side] = n]
      BY <2>5 DEF RestOnEmptySide, Publish, Return
    <3>2. \A s \in Sides : Started(best[s])'
      BY <2>3, <2>4, <3>1 DEF PointersLead, Started
    <3>3. QED
      BY <2>2, <2>3, <3>1, <3>2 DEF PointersLead
  <2>6. CASE RestOnSide
    <3>1. /\ best' = best /\ pc' = "walk" /\ walk'.level = n
          /\ walk'.target \in {best[agg.side], nextEntry'[best[agg.side]]}
          /\ best[agg.side] # nullptr
      BY <2>6 DEF RestOnSide, FirstTarget
    <3>2. \A s \in Sides : Started(best[s])'
      BY <2>3, <2>4, <3>1 DEF PointersLead, Started
    <3>3. best[agg.side] \in LevelSlots
      BY <2>1, <2>4, <3>1 DEF LevelPtrs
    <3>4. Started(walk.level)' /\ Started(walk.target)'
      BY <2>1, <2>3, <3>1, <3>2, <3>3 DEF Started
    <3>5. QED
      BY <2>2, <2>3, <3>1, <3>2, <3>4 DEF PointersLead
  <2>7. QED
    BY <1>10, <2>5, <2>6
<1>11. CASE WalkStep
  <2>1. /\ UNCHANGED <<order, firstOrder, nextEntry, best, nextMarketOrderId>> /\ pc = "walk"
        /\ pc' = "walk" /\ walk \in Walks
        /\ walk'.level = walk.level /\ walk'.target \in {walk.target, nextEntry[walk.target]}
    BY <1>11 DEF WalkStep, orderVars, levelVars, indexVars, IInv, TypeOK, Walks
  <2>2. walk.target \in LevelSlots
    BY <2>1 DEF Walks
  <2>3. QED
    BY <2>1, <2>2, IdsSame DEF PointersLead, Started
<1>12. CASE InsertAtEnd \/ InsertBeforeTarget
  <2>1. /\ order' = order /\ firstOrder' = firstOrder /\ nextMarketOrderId' = nextMarketOrderId
        /\ pc = "walk" /\ pc' = "idle"
    BY <1>12 DEF InsertAtEnd, InsertBeforeTarget, AtEnd, AtTarget, PublishWalked, Publish, Return,
                 orderVars
  <2>2. /\ walk \in Walks /\ nextEntry \in [LevelSlots -> LevelPtrs]
        /\ prevEntry \in [LevelSlots -> LevelPtrs] /\ best \in [Sides -> LevelPtrs]
        /\ walk.target \in LevelSlots /\ prevEntry[walk.target] \in LevelPtrs
    BY <2>1 DEF IInv, TypeOK, Walks
  <2>3. CASE InsertAtEnd
    <3>1. /\ prevEntry[walk.target] \in LevelSlots /\ best' = best
          /\ nextEntry' = [nextEntry EXCEPT ![walk.level] = nextEntry[prevEntry[walk.target]],
                                            ![prevEntry[walk.target]] = walk.level]
      BY <2>2, <2>3 DEF InsertAtEnd, CanInsert, LevelPtrs
    <3>2. \A l \in LevelSlots :
            nextEntry'[l] \in {nextEntry[prevEntry[walk.target]], walk.level, nextEntry[l]}
      BY <2>2, <3>1
    <3>3. PointersLead'
      BY <2>1, <3>1, <3>2, LinkStale
    <3>4. QED
      BY <2>1, <3>3, IdsSame
  <2>4. CASE InsertBeforeTarget
    <3> DEFINE n == walk.level
               t == walk.target
               linked == [nextEntry EXCEPT ![n] = t, ![prevEntry[t]] = n]
    <3>1. /\ best' \in {best, [best EXCEPT ![agg.side] = n]}
          /\ nextEntry' \in {linked, [linked EXCEPT ![t] = n]}
      BY <2>4 DEF InsertBeforeTarget
    <3>2. \A l \in LevelSlots : linked[l] \in {t, n, nextEntry[l]}
      BY <2>2
    <3>3. DOMAIN linked = LevelSlots
      BY <2>2
    <3> HIDE DEF linked
    <3>4. \A l \in LevelSlots : nextEntry'[l] \in {t, n, nextEntry[l]}
      BY <3>1, <3>2, <3>3
    <3>5. \A s \in Sides : best'[s] \in {best[s], n}
      BY <2>2, <3>1
    <3>6. PointersLead'
      BY <2>1, <3>4, <3>5, LinkStale
    <3>7. QED
      BY <2>1, <3>6, IdsSame
  <2>5. QED
    BY <1>12, <2>3, <2>4
<1>13. CASE Running
  BY <1>6, <1>7, <1>8, <1>9, <1>10, <1>11, <1>12, <1>13
     DEF Running, MatchCrash, RestCrash, InsertCrash, Halt
<1>14. QED
  BY <1>2, <1>5, <1>13 DEF Next

LEMMA InitStale == Init => Stale
BY ConstantsAssumption DEF Init, Stale, PointersLead, IdsOnce, Handed, Started, NoOrder, OrderData, OrderSlots

-----------------------------------------------------------------------------
\* What the client knows of the orders: what rests under each id.

View(b) ==
  [id \in OrderSlots |-> IF b.oidToOrder[id] = nullptr THEN nullptr ELSE b.order[b.oidToOrder[id]].qty]

\* The map of orders leads to the orders in use.
Objects(b) ==
  /\ {"order", "usedOrders", "freeOrder", "oidToOrder"} \subseteq DOMAIN b
  /\ DOMAIN b.order = OrderSlots
  /\ \A o \in OrderSlots : {"oid", "qty"} \subseteq DOMAIN b.order[o]
  /\ b.usedOrders \subseteq OrderSlots /\ b.freeOrder \in OrderSlots \ b.usedOrders
  /\ b.oidToOrder \in [OrderSlots -> OrderPtrs]
Mapped(b) ==
  \A id \in OrderSlots : LET o == b.oidToOrder[id] IN o # nullptr =>
    o \in b.usedOrders /\ b.order[o].oid = id /\ b.order[o].qty \in Nat
MapShape(b) == Objects(b) /\ Mapped(b)

\* What an update says of the order with an id.
Writes(u, id) == u.type = "CLEAR" \/ (u.type \in {"ADD", "MODIFY", "CANCEL"} /\ u.moid = id)
Written(u) == IF u.type \in {"ADD", "MODIFY"} THEN u.qty ELSE nullptr
Applied(b, c, u) ==
  MapShape(c) /\ \A id \in OrderSlots : View(c)[id] = IF Writes(u, id) THEN Written(u) ELSE View(b)[id]
Numbered(u) ==
  /\ u.type \in {"ADD", "MODIFY", "CANCEL"} => u.moid \in Nat
  /\ u.type \in {"ADD", "MODIFY"} => u.qty \in Nat

LEMMA NullNoOrder == nullptr \notin OrderSlots /\ nullptr \notin Nat
BY ConstantsAssumption DEF OrderSlots

LEMMA ClientSlots == Client!OrderSlots = OrderSlots /\ Client!OrderPool!Blocks = OrderSlots
BY DEF OrderSlots, Client!OrderSlots, Client!OrderPool!Blocks

\* The slot a pool hands out next.
LEMMA ClientFirstFree ==
  ASSUME NEW used, NEW o \in OrderSlots, used # OrderSlots, used \subseteq OrderSlots
  PROVE  Client!OrderPool!FirstFree(used, o) \in OrderSlots \ used
<1>1. Client!OrderPool!FirstFree(used, o) = OrderPool!FirstFree(used, o)
  BY DEF Client!OrderPool!FirstFree, OrderPool!FirstFree, Client!OrderPool!Blocks, OrderPool!Blocks,
         Client!OrderPool!Distance, OrderPool!Distance
<1>2. OrderPool!FirstFree(used, o) \in OrderSlots \ used
  BY OrderPoolFree
<1>3. QED
  BY <1>1, <1>2

\* Levels come and go without the orders.
SameOrders(b, c) ==
  /\ DOMAIN c = DOMAIN b /\ c.order = b.order /\ c.usedOrders = b.usedOrders
  /\ c.freeOrder = b.freeOrder /\ c.oidToOrder = b.oidToOrder

LEMMA LinkLevelSame ==
  ASSUME NEW b, Objects(b), NEW l, NEW s, NEW price, NEW t
  PROVE  SameOrders(b, Client!LinkLevel(b, l, s, price, t))
BY DEF Objects, SameOrders, Client!LinkLevel

LEMMA AddLevelSame ==
  ASSUME NEW b, Objects(b), NEW l, NEW s, NEW price
  PROVE  SameOrders(b, Client!AddOrdersAtPrice(b, l, s, price))
<1>1. SameOrders(b, [b EXCEPT !.best[s] = l])
  BY DEF Objects, SameOrders
<1>2. QED
  BY <1>1, LinkLevelSame DEF Client!AddOrdersAtPrice

LEMMA OpenLevelSame ==
  ASSUME NEW b, Objects(b), NEW o, NEW s, NEW price
  PROVE  SameOrders(b, Client!OpenLevel(b, o, s, price))
BY DEF Objects, SameOrders, Client!OpenLevel

LEMMA RemoveLevelSame ==
  ASSUME NEW b, Objects(b), NEW s, NEW price, NEW l
  PROVE  SameOrders(b, Client!RemoveOrdersAtPrice(b, s, price, l))
BY DEF Objects, SameOrders, Client!RemoveOrdersAtPrice

\* The client adds an order.
LEMMA AddApplies ==
  ASSUME NEW b, MapShape(b), NEW u, u.type = "ADD", Numbered(u), Client!CanAdd(b, u)
  PROVE  Applied(b, Client!AddOrder(b, u), u)
<1> DEFINE o == b.freeOrder
           c == Client!AddOrder(b, u)
           used == b.usedOrders \cup {o}
           free == Client!OrderPool!FirstFree(used, o)
           l == Client!LevelAt(b, u.price)
           b1 == Client!TakeOrder(b, u)
           alone == [b1 EXCEPT !.order[o].prev = o, !.order[o].next = o]
           first == b1.level[l].first
           last == b1.order[first].prev
           linked == [b1.order EXCEPT ![last].next = o, ![o].prev = last, ![o].next = first, ![first].prev = o]
<1>1. u.moid \in OrderSlots /\ u.qty \in Nat
  BY ConstantsAssumption DEF Client!CanAdd, Numbered, OrderSlots
<1>2. free \in OrderSlots \ used
  BY ClientFirstFree, ClientSlots DEF MapShape, Objects, Client!CanAdd
<1>3. /\ DOMAIN b1 = DOMAIN b /\ b1.usedOrders = used /\ b1.freeOrder = free
      /\ b1.oidToOrder = [b.oidToOrder EXCEPT ![u.moid] = o]
      /\ b1.order = [b.order EXCEPT ![o] = Client!NewOrder(u, nullptr, nullptr)]
  BY DEF MapShape, Objects, Client!TakeOrder
<1> DEFINE Fits(x) == /\ DOMAIN x = OrderSlots /\ \A p \in OrderSlots : {"oid", "qty"} \subseteq DOMAIN x[p]
                      /\ x[o].oid = u.moid /\ x[o].qty = u.qty
                      /\ \A p \in OrderSlots \ {o} : x[p].oid = b.order[p].oid /\ x[p].qty = b.order[p].qty
<1>4. o \in OrderSlots /\ Fits(b1.order) /\ Objects(b1)
  <2>1. DOMAIN b.order = OrderSlots /\ o \in OrderSlots
        /\ \A p \in OrderSlots : {"oid", "qty"} \subseteq DOMAIN b.order[p]
    BY DEF MapShape, Objects
  <2>2. Fits(b1.order)
    BY <1>3, <2>1 DEF Client!NewOrder
  <2>3. QED
    BY <1>1, <1>2, <1>3, <2>1, <2>2 DEF MapShape, Objects, OrderPtrs
<1>5. c \in {Client!AddOrdersAtPrice(Client!OpenLevel(alone, o, u.side, u.price), b.freeLevel, u.side, u.price),
             [b1 EXCEPT !.order = linked]}
  BY DEF Client!AddOrder, Client!Opened, Client!QueueOrder
<1> HIDE DEF b1, c, first, last, used, free
<1>6. ASSUME NEW x, Fits(x), NEW p, NEW v PROVE Fits([x EXCEPT ![p].next = v]) /\ Fits([x EXCEPT ![p].prev = v])
  BY <1>6
<1>7. Fits(linked) /\ Fits([b1.order EXCEPT ![o].prev = o, ![o].next = o])
  <2> HIDE DEF Fits
  <2> DEFINE x1 == [b1.order EXCEPT ![last].next = o]
             x2 == [x1 EXCEPT ![o].prev = last]
             x3 == [x2 EXCEPT ![o].next = first]
             y1 == [b1.order EXCEPT ![o].prev = o]
  <2>1. linked = [x3 EXCEPT ![first].prev = o]
        /\ [b1.order EXCEPT ![o].prev = o, ![o].next = o] = [y1 EXCEPT ![o].next = o]
    OBVIOUS
  <2>2. Fits(x1) /\ Fits(y1)
    BY <1>4, <1>6
  <2> HIDE DEF x1, y1
  <2>3. Fits(x2)
    BY <1>6, <2>2
  <2> HIDE DEF x2
  <2>4. Fits(x3)
    BY <1>6, <2>3
  <2> HIDE DEF x3, linked
  <2>5. QED
    BY <1>6, <2>1, <2>2, <2>4
<1> HIDE DEF linked
<1>8. /\ Objects(c) /\ Fits(c.order)
      /\ c.oidToOrder = [b.oidToOrder EXCEPT ![u.moid] = o] /\ c.usedOrders = used
  <2>1. ASSUME NEW x, Fits(x), NEW d, d = [b1 EXCEPT !.order = x]
        PROVE  Objects(d) /\ d.order = x /\ d.oidToOrder = b1.oidToOrder /\ d.usedOrders = b1.usedOrders
    BY <1>4, <2>1 DEF Objects
  <2>2. CASE c = [b1 EXCEPT !.order = linked]
    BY <1>3, <1>7, <2>1, <2>2
  <2>3. CASE c = Client!AddOrdersAtPrice(Client!OpenLevel(alone, o, u.side, u.price), b.freeLevel,
                                          u.side, u.price)
    <3> DEFINE x == [b1.order EXCEPT ![o].prev = o, ![o].next = o]
               d == Client!OpenLevel(alone, o, u.side, u.price)
    <3>1. alone = [b1 EXCEPT !.order = x]
      BY <1>4 DEF Objects
    <3> HIDE DEF x, alone
    <3>2. Objects(alone) /\ alone.order = x /\ alone.oidToOrder = b1.oidToOrder
          /\ alone.usedOrders = b1.usedOrders /\ Fits(x)
      <4>1. Fits(x)
        BY <1>7 DEF x
      <4> HIDE DEF Fits
      <4>2. QED
        BY <2>1, <3>1, <4>1
    <3>3. SameOrders(alone, d)
      BY <3>2, OpenLevelSame
    <3> HIDE DEF d
    <3>4. Objects(d) /\ d.order = x /\ d.oidToOrder = b1.oidToOrder /\ d.usedOrders = b1.usedOrders
      BY <3>2, <3>3 DEF SameOrders, Objects
    <3>5. SameOrders(d, Client!AddOrdersAtPrice(d, b.freeLevel, u.side, u.price))
      BY <3>4, AddLevelSame
    <3>6. SameOrders(d, c)
      BY <2>3, <3>5 DEF d
    <3>7. Objects(c) /\ c.order = x /\ c.oidToOrder = b1.oidToOrder /\ c.usedOrders = b1.usedOrders
      BY <3>4, <3>6 DEF SameOrders, Objects
    <3>8. QED
      BY <1>3, <3>2, <3>7
  <2>4. QED
    BY <1>5, <2>2, <2>3
<1>9. MapShape(c)
  <2> SUFFICES ASSUME NEW id \in OrderSlots, c.oidToOrder[id] # nullptr
               PROVE  /\ c.oidToOrder[id] \in c.usedOrders /\ c.order[c.oidToOrder[id]].oid = id
                      /\ c.order[c.oidToOrder[id]].qty \in Nat
    BY <1>8 DEF MapShape, Mapped
  <2>1. CASE id = u.moid
    BY <1>1, <1>8, <2>1 DEF used, MapShape, Objects
  <2>2. CASE id # u.moid
    <3>1. c.oidToOrder[id] = b.oidToOrder[id] /\ b.oidToOrder[id] \in b.usedOrders
          /\ b.oidToOrder[id] \in OrderSlots \ {o}
      BY <1>8, <2>2 DEF MapShape, Objects, Mapped
    <3>2. QED
      BY <1>8, <3>1 DEF MapShape, Mapped, used
  <2>3. QED
    BY <2>1, <2>2
<1>10. ASSUME NEW id \in OrderSlots
      PROVE  View(c)[id] = IF Writes(u, id) THEN Written(u) ELSE View(b)[id]
  <2>1. CASE id = u.moid
    <3>1. c.oidToOrder[id] = o /\ o # nullptr
      BY <1>1, <1>8, <2>1, NullNoOrder DEF MapShape, Objects
    <3>2. QED
      BY <1>8, <2>1, <3>1 DEF View, Writes, Written
  <2>2. CASE id # u.moid
    <3>1. c.oidToOrder[id] = b.oidToOrder[id]
          /\ (b.oidToOrder[id] # nullptr => b.oidToOrder[id] \in OrderSlots \ {o})
      BY <1>8, <2>2 DEF MapShape, Objects, Mapped
    <3>2. QED
      BY <1>8, <2>2, <3>1 DEF View, Writes, Written
  <2>3. QED
    BY <2>1, <2>2
<1>11. Applied(b, c, u)
  BY <1>9, <1>10 DEF Applied
<1>12. QED
  BY <1>11 DEF c

\* The client changes the quantity of an order.
LEMMA ModifyApplies ==
  ASSUME NEW b, MapShape(b), NEW u, u.type = "MODIFY", Numbered(u), Client!OrderOf(b, u.moid) # nullptr,
         NEW c, c = [b EXCEPT !.order[Client!OrderOf(b, u.moid)].qty = u.qty]
  PROVE  Applied(b, c, u) /\ u.moid \in OrderSlots /\ View(b)[u.moid] # nullptr
<1> DEFINE o == b.oidToOrder[u.moid]
<1>1. u.moid \in OrderSlots /\ u.qty \in Nat /\ Client!OrderOf(b, u.moid) = o
  BY ConstantsAssumption DEF Client!OrderOf, Numbered, OrderSlots
<1>2. o \in b.usedOrders /\ o \in OrderSlots /\ b.order[o].oid = u.moid /\ b.order[o].qty \in Nat /\ o # nullptr
  BY <1>1 DEF MapShape, Objects, Mapped
<1>3. c = [b EXCEPT !.order[o].qty = u.qty]
  BY <1>1
<1> HIDE DEF o
<1>4. /\ DOMAIN c = DOMAIN b /\ c.usedOrders = b.usedOrders /\ c.freeOrder = b.freeOrder
      /\ c.oidToOrder = b.oidToOrder /\ c.order = [b.order EXCEPT ![o].qty = u.qty]
  BY <1>3 DEF MapShape, Objects
<1>5. /\ DOMAIN c.order = OrderSlots
      /\ \A p \in OrderSlots : {"oid", "qty"} \subseteq DOMAIN c.order[p] /\ c.order[p].oid = b.order[p].oid
      /\ c.order[o].qty = u.qty
      /\ \A p \in OrderSlots \ {o} : c.order[p].qty = b.order[p].qty
  BY <1>2, <1>4 DEF MapShape, Objects
<1>6. MapShape(c)
  <2>1. Objects(c)
    BY <1>4, <1>5 DEF MapShape, Objects
  <2>2. Mapped(c)
    BY <1>1, <1>4, <1>5 DEF MapShape, Objects, Mapped
  <2>3. QED
    BY <2>1, <2>2 DEF MapShape
<1>7. ASSUME NEW id \in OrderSlots
      PROVE  View(c)[id] = IF Writes(u, id) THEN Written(u) ELSE View(b)[id]
  <2>1. CASE id = u.moid
    BY <1>2, <1>4, <1>5, <2>1 DEF o, View, Writes, Written
  <2>2. CASE id # u.moid
    <3>1. b.oidToOrder[id] # nullptr => b.oidToOrder[id] \in OrderSlots \ {o}
      BY <1>2, <2>2 DEF MapShape, Objects, Mapped
    <3>2. QED
      BY <1>4, <1>5, <2>2, <3>1 DEF View, Writes, Written
  <2>3. QED
    BY <2>1, <2>2
<1>8. View(b)[u.moid] # nullptr
  BY <1>1, <1>2, NullNoOrder DEF View, o
<1>9. QED
  BY <1>1, <1>6, <1>7, <1>8 DEF Applied

\* The client removes an order.
LEMMA CancelApplies ==
  ASSUME NEW b, MapShape(b), NEW u, u.type = "CANCEL", Numbered(u),
         Client!CanRemove(b, Client!OrderOf(b, u.moid)),
         NEW c, c = Client!RemoveOrder(b, Client!OrderOf(b, u.moid))
  PROVE  Applied(b, c, u) /\ u.moid \in OrderSlots /\ View(b)[u.moid] # nullptr
<1> DEFINE o == b.oidToOrder[u.moid]
           gone == Client!Forget(b, o)
           x == b.order[o]
           l == Client!LevelAt(b, x.price)
           orders == [[b.order EXCEPT ![x.prev].next = x.next, ![x.next].prev = x.prev]
                        EXCEPT ![o].prev = nullptr, ![o].next = nullptr]
           first == Client!FirstWithout(b, l, o)
           unlinked == [gone EXCEPT !.level[l].first = first, !.order = orders]
<1>0. Client!OrderOf(b, u.moid) # nullptr
  BY DEF Client!CanRemove
<1>1. u.moid \in OrderSlots /\ Client!OrderOf(b, u.moid) = o /\ o # nullptr
  BY <1>0, ConstantsAssumption DEF Client!OrderOf, Numbered, OrderSlots
<1>2. o \in b.usedOrders /\ o \in OrderSlots /\ b.order[o].oid = u.moid /\ b.order[o].qty \in Nat
  BY <1>1 DEF MapShape, Objects, Mapped
<1>3. c \in {Client!RemoveOrdersAtPrice(gone, x.side, x.price, l), unlinked}
  BY <1>1 DEF Client!RemoveOrder
<1>4. /\ Objects(gone) /\ DOMAIN gone = DOMAIN b /\ gone.order = b.order
      /\ gone.usedOrders = b.usedOrders \ {o}
      /\ gone.oidToOrder = [b.oidToOrder EXCEPT ![u.moid] = nullptr]
  BY <1>1, <1>2 DEF MapShape, Objects, Client!Forget, OrderPtrs
<1> DEFINE Same(y) == /\ DOMAIN y = OrderSlots
                      /\ \A p \in OrderSlots : /\ {"oid", "qty"} \subseteq DOMAIN y[p]
                                               /\ y[p].oid = b.order[p].oid /\ y[p].qty = b.order[p].qty
<1>5. Same(orders) /\ Same(b.order)
  <2>1. Same(b.order)
    BY DEF MapShape, Objects
  <2>2. ASSUME NEW y, Same(y), NEW p, NEW v PROVE Same([y EXCEPT ![p].next = v]) /\ Same([y EXCEPT ![p].prev = v])
    BY <2>2
  <2> DEFINE y1 == [b.order EXCEPT ![x.prev].next = x.next]
             y2 == [y1 EXCEPT ![x.next].prev = x.prev]
             y3 == [y2 EXCEPT ![o].prev = nullptr]
  <2>3. orders = [y3 EXCEPT ![o].next = nullptr]
    OBVIOUS
  <2> HIDE DEF Same
  <2>4. Same(y1)
    BY <2>1, <2>2
  <2> HIDE DEF y1
  <2>5. Same(y2)
    BY <2>2, <2>4
  <2> HIDE DEF y2
  <2>6. Same(y3)
    BY <2>2, <2>5
  <2> HIDE DEF y3, orders
  <2>7. QED
    BY <2>1, <2>2, <2>3, <2>6
<1> HIDE DEF gone, orders, first
<1>6. /\ Objects(c) /\ Same(c.order) /\ c.usedOrders = b.usedOrders \ {o}
      /\ c.oidToOrder = [b.oidToOrder EXCEPT ![u.moid] = nullptr]
  <2>1. CASE c = unlinked
    <3>1. /\ DOMAIN c = DOMAIN gone /\ c.order = orders /\ c.usedOrders = gone.usedOrders
          /\ c.freeOrder = gone.freeOrder /\ c.oidToOrder = gone.oidToOrder
      BY <1>4, <2>1 DEF Objects
    <3> HIDE DEF unlinked
    <3>2. QED
      BY <1>4, <1>5, <3>1 DEF Objects
  <2>2. CASE c = Client!RemoveOrdersAtPrice(gone, x.side, x.price, l)
    <3> HIDE DEF x, l
    <3>1. SameOrders(gone, Client!RemoveOrdersAtPrice(gone, x.side, x.price, l))
      BY <1>4, RemoveLevelSame
    <3>2. SameOrders(gone, c)
      BY <2>2, <3>1
    <3>3. QED
      BY <1>4, <1>5, <3>2 DEF SameOrders, Objects
  <2>3. QED
    BY <1>3, <2>1, <2>2
<1>7. ASSUME NEW id \in OrderSlots, id # u.moid, b.oidToOrder[id] # nullptr
      PROVE  /\ c.oidToOrder[id] = b.oidToOrder[id] /\ b.oidToOrder[id] \in OrderSlots
             /\ b.oidToOrder[id] \in c.usedOrders
  BY <1>2, <1>6, <1>7 DEF MapShape, Objects, Mapped
<1>8. c.oidToOrder[u.moid] = nullptr
  BY <1>1, <1>6 DEF MapShape, Objects
<1>9. \A id \in OrderSlots : id # u.moid => c.oidToOrder[id] = b.oidToOrder[id]
  BY <1>6 DEF MapShape, Objects
<1> HIDE DEF o
<1>10. Mapped(c)
  BY <1>6, <1>7, <1>8, <1>9 DEF MapShape, Mapped
<1>11. ASSUME NEW id \in OrderSlots
      PROVE  View(c)[id] = IF Writes(u, id) THEN Written(u) ELSE View(b)[id]
  BY <1>6, <1>7, <1>8, <1>9 DEF View, Writes, Written
<1>12. View(b)[u.moid] # nullptr
  BY <1>1, <1>2, NullNoOrder DEF View, o
<1>13. QED
  BY <1>1, <1>6, <1>10, <1>11, <1>12 DEF Applied, MapShape

\* The client forgets all its orders.
LEMMA ClearApplies ==
  ASSUME NEW b, MapShape(b), NEW u, u.type = "CLEAR", NEW c, c = Client!Clear(b)
  PROVE  Applied(b, c, u)
<1>1. /\ DOMAIN c = DOMAIN b /\ c.order = b.order /\ c.usedOrders \subseteq b.usedOrders
      /\ c.freeOrder = b.freeOrder /\ c.oidToOrder = [id \in OrderSlots |-> nullptr]
  BY ClientSlots DEF MapShape, Objects, Client!Clear
<1>2. Objects(c) /\ Mapped(c)
  BY <1>1 DEF MapShape, Objects, Mapped, OrderPtrs
<1>3. \A id \in OrderSlots : View(c)[id] = nullptr
  BY <1>1 DEF View
<1>4. QED
  BY <1>2, <1>3 DEF Applied, MapShape, Writes, Written

\* Whatever the client does with an update, unless it ends.
LEMMA UpdateApplies ==
  ASSUME MapShape(book), NEW u, Numbered(u), Client!OnMarketUpdate(u), ended' = "no"
  PROVE  /\ Applied(book, book', u)
         /\ u.type \in {"MODIFY", "CANCEL"} => u.moid \in OrderSlots /\ View(book)[u.moid] # nullptr
<1>1. CASE Client!OnAdd(u)
  BY <1>1, AddApplies DEF Client!OnAdd, Client!End
<1>2. CASE Client!OnModify(u)
  BY <1>2, ModifyApplies DEF Client!OnModify, Client!End
<1>3. CASE Client!OnCancel(u)
  BY <1>3, CancelApplies DEF Client!OnCancel, Client!End
<1>4. CASE Client!OnTrade(u)
  BY <1>4 DEF Client!OnTrade, Client!vars, Applied, Writes
<1>5. CASE Client!OnClear(u)
  BY <1>5, ClearApplies DEF Client!OnClear, Client!End
<1>6. QED
  BY <1>1, <1>2, <1>3, <1>4, <1>5 DEF Client!OnMarketUpdate

-----------------------------------------------------------------------------
\* What the updates on their way will have made of the client's orders.

\* What stands under an id of the client is x, as of set S.
IsShown(x, S, id) == IF x = nullptr THEN NoneOf(S, id) ELSE <<id, x>> \in S

\* Once the client of view v has applied f, x is under id.
Comes(v, f, id, x) ==
  \/ x = v[id] /\ \A i \in DOMAIN f : ~Writes(f[i], id)
  \/ \E i \in DOMAIN f : /\ Writes(f[i], id) /\ x = Written(f[i])
                         /\ \A j \in DOMAIN f : j > i => ~Writes(f[j], id)

\* The client of view v will end: it is told of an order it does not have.
Doomed(v, f) ==
  \E u : /\ AfterTrade(f, u) /\ u.type \in {"MODIFY", "CANCEL"}
         /\ ~(u.moid \in OrderSlots /\ v[u.moid] # nullptr)
Told(v, f) == \A id \in OrderSlots : \E x : Comes(v, f, id, x) /\ IsShown(x, Standing, id)
Updates(f) == (\E X : f \in Seq(X)) /\ \A i \in DOMAIN f : Numbered(f[i])
InFlight(v, f) == Updates(f) /\ (Doomed(v, f) \/ Told(v, f))
FeedInv == ended = "no" /\ pc # "halted" => MapShape(book) /\ InFlight(View(book), feed)

LEMMA AfterTradeUpdates ==
  ASSUME NEW f, NEW u, AfterTrade(f, u), Numbered(u)
  PROVE  Updates(f)
<1>1. CASE f = <<u>>
  <2>1. f \in Seq({u}) /\ DOMAIN f = {1} /\ f[1] = u
    BY <1>1
  <2>2. QED
    BY <2>1 DEF Updates
<1>2. ASSUME NEW t, t.type = "TRADE", f = <<t, u>> PROVE Updates(f)
  <2>1. f \in Seq({t, u}) /\ DOMAIN f = {1, 2} /\ f[1] = t /\ f[2] = u
    BY <1>2
  <2>2. Numbered(t)
    BY <1>2 DEF Numbered
  <2>3. QED
    BY <2>1, <2>2 DEF Updates
<1>3. QED
  BY <1>1, <1>2 DEF AfterTrade

\* The first of the updates is applied.
LEMMA HeadApplied ==
  ASSUME NEW v, NEW w, NEW f, Updates(f), f # <<>>, NEW id,
         w = IF Writes(Head(f), id) THEN Written(Head(f)) ELSE v[id],
         NEW y, y[id] = w, NEW x, Comes(v, f, id, x)
  PROVE  Comes(y, Tail(f), id, x)
<1> DEFINE t == Tail(f)
<1> PICK X : f \in Seq(X)
  BY DEF Updates
<1>1. /\ t \in Seq(X) /\ Len(f) \in Nat /\ Len(t) = Len(f) - 1 /\ Len(f) >= 1 /\ Head(f) = f[1]
      /\ DOMAIN f = 1 .. Len(f) /\ DOMAIN t = 1 .. Len(f) - 1
      /\ \A i \in 1 .. Len(f) - 1 : t[i] = f[i + 1]
  BY HeadTailProperties, EmptySeq, LenProperties
<1> HIDE DEF t
<1>2. CASE x = v[id] /\ \A i \in DOMAIN f : ~Writes(f[i], id)
  <2>1. x = y[id]
    BY <1>1, <1>2
  <2>2. \A i \in DOMAIN t : ~Writes(t[i], id)
    BY <1>1, <1>2
  <2>3. QED
    BY <2>1, <2>2 DEF Comes, t
<1>3. ASSUME NEW i \in DOMAIN f, Writes(f[i], id), x = Written(f[i]),
             \A j \in DOMAIN f : j > i => ~Writes(f[j], id)
      PROVE  Comes(y, t, id, x)
  <2>1. \A j \in DOMAIN t : j + 1 > i => ~Writes(t[j], id)
    BY <1>1, <1>3
  <2>2. CASE i = 1
    <3>1. x = y[id] /\ \A j \in DOMAIN t : ~Writes(t[j], id)
      BY <1>1, <1>3, <2>1, <2>2
    <3>2. QED
      BY <3>1 DEF Comes
  <2>3. CASE i # 1
    <3>1. i - 1 \in DOMAIN t /\ t[i - 1] = f[i]
      BY <1>1, <2>3
    <3>2. \A j \in DOMAIN t : j > i - 1 => ~Writes(t[j], id)
      BY <1>1, <2>1
    <3>3. QED
      BY <1>3, <3>1, <3>2 DEF Comes
  <2>4. QED
    BY <2>2, <2>3
<1>4. QED
  BY <1>2, <1>3 DEF Comes, t

LEMMA StandingSame == ASSUME UNCHANGED vars PROVE Standing' = Standing
BY DEF vars, orderVars, callVars, Standing, Resters

\* What is left of the updates after the first.
LEMMA TailUpdates ==
  ASSUME NEW f, Updates(f), f # <<>>
  PROVE  Updates(Tail(f)) /\ Numbered(Head(f))
<1> PICK X : f \in Seq(X)
  BY DEF Updates
<1>1. /\ Tail(f) \in Seq(X) /\ Len(f) \in Nat /\ Len(f) >= 1 /\ Head(f) = f[1]
      /\ DOMAIN f = 1 .. Len(f) /\ DOMAIN Tail(f) = 1 .. Len(f) - 1
      /\ \A i \in 1 .. Len(f) - 1 : Tail(f)[i] = f[i + 1]
  BY HeadTailProperties, EmptySeq, LenProperties
<1>2. \A i \in 1 .. Len(f) : Numbered(f[i])
  BY <1>1 DEF Updates
<1>3. QED
  BY <1>1, <1>2 DEF Updates

LEMMA DeliverInFlight ==
  ASSUME FeedInv, Deliver
  PROVE  FeedInv'
<1> SUFFICES ASSUME ended' = "no", pc' # "halted"
             PROVE  MapShape(book)' /\ InFlight(View(book), feed)'
  BY DEF FeedInv
<1> DEFINE u == Head(feed)
<1>1. /\ feed # <<>> /\ Client!OnMarketUpdate(u) /\ feed' = Tail(feed) /\ UNCHANGED vars
  BY DEF Deliver
<1>2. ended = "no" /\ pc # "halted" /\ Standing' = Standing
  BY <1>1, StandingSame DEF vars, callVars, Client!OnMarketUpdate
<1>3. MapShape(book) /\ InFlight(View(book), feed)
  BY <1>2 DEF FeedInv
<1>4. Updates(feed') /\ Numbered(u)
  BY <1>1, <1>3, TailUpdates DEF InFlight
<1>5. /\ MapShape(book') /\ \A id \in OrderSlots :
           View(book')[id] = IF Writes(u, id) THEN Written(u) ELSE View(book)[id]
      /\ u.type \in {"MODIFY", "CANCEL"} => u.moid \in OrderSlots /\ View(book)[u.moid] # nullptr
  BY <1>1, <1>3, <1>4, UpdateApplies DEF Applied
<1> DEFINE v == View(book)
           y == View(book')
<1>6. CASE Told(v, feed)
  <2> SUFFICES ASSUME NEW id \in OrderSlots
               PROVE  \E x : Comes(y, feed', id, x) /\ IsShown(x, Standing', id)
    BY <1>4, <1>5 DEF InFlight, Told
  <2>1. PICK x : Comes(v, feed, id, x) /\ IsShown(x, Standing, id)
    BY <1>6 DEF Told
  <2>2. y[id] = IF Writes(u, id) THEN Written(u) ELSE v[id]
    BY <1>5
  <2> HIDE DEF y, v
  <2>3. Comes(y, Tail(feed), id, x)
    BY <1>1, <1>3, <2>1, <2>2, HeadApplied DEF InFlight
  <2>4. QED
    BY <1>1, <1>2, <2>1, <2>3
<1>7. CASE Doomed(v, feed)
  <2>1. PICK w : /\ AfterTrade(feed, w) /\ w.type \in {"MODIFY", "CANCEL"}
                 /\ ~(w.moid \in OrderSlots /\ v[w.moid] # nullptr)
    BY <1>7 DEF Doomed
  <2>2. feed # <<w>>
    BY <1>5, <2>1
  <2>3. PICK t : t.type = "TRADE" /\ feed = <<t, w>>
    BY <2>1, <2>2 DEF AfterTrade
  <2>4. u = t /\ feed' = <<w>>
    BY <1>1, <2>3
  <2>5. w.moid \in OrderSlots => y[w.moid] = v[w.moid]
    BY <1>5, <2>3, <2>4 DEF Writes
  <2> HIDE DEF y, v
  <2>6. Doomed(y, feed')
    BY <2>1, <2>4, <2>5 DEF Doomed, AfterTrade
  <2>7. QED
    BY <1>4, <1>5, <2>6 DEF InFlight, y
<1>8. QED
  BY <1>3, <1>6, <1>7 DEF InFlight

\* What match() leaves of an order, be it one that left the book long ago.
LEMMA PartlySends ==
  ASSUME IInv, Stale, MatchPartly
  PROVE  \E u : SendsModify(u)
<1> DEFINE o == Passive
           u == Update("MODIFY", order[o].moid, order[o].side, order[o].price, qty[o] - leaves, order[o].prio)
<1>1. /\ pc = "match" /\ pc' = "match" /\ o = firstOrder[best[Opposite(agg.side)]]
      /\ best[Opposite(agg.side)] # nullptr /\ leaves < qty[o] /\ qty' = [qty EXCEPT ![o] = @ - leaves]
      /\ updates' = <<Trade(o, leaves), u>> /\ UNCHANGED <<order, usedOrders, walk>>
  BY DEF MatchPartly, CanMatch, Passive, BestOpposite, Send
<1>2. o \in Handed /\ o \in OrderSlots /\ order[o].moid \in Nat /\ leaves \in Nat /\ qty[o] \in Nat
  <2>1. Opposite(agg.side) \in Sides /\ best[Opposite(agg.side)] \in LevelSlots
    BY <1>1 DEF IInv, TypeOK, Aggressors, Sides, Opposite, LevelPtrs
  <2>2. o \in Handed
    BY <1>1, <2>1 DEF Stale, PointersLead, Started
  <2>3. QED
    BY <2>2 DEF Handed, OrderData, IInv, TypeOK
<1> HIDE DEF o
<1>3. AfterTrade(updates', u)
  BY <1>1 DEF AfterTrade, Trade, Update
<1>10. u.type = "MODIFY" /\ u.moid = order[o].moid /\ u.qty = qty[o] - leaves /\ u.qty \in Nat
  BY <1>1, <1>2 DEF Update
<1> HIDE DEF u
<1>4. Standing = {<<order[p].moid, qty[p]>> : p \in usedOrders}
      /\ Standing' = {<<order[p].moid, qty'[p]>> : p \in usedOrders}
  BY <1>1 DEF Standing, Resters
<1>5. \A p \in usedOrders \ {o} : qty'[p] = qty[p] /\ order[p].moid # order[o].moid
  BY <1>1, <1>2, UsedHanded DEF Stale, IdsOnce, IInv, TypeOK
<1>6. SameBut(Standing, Standing', order[o].moid)
  <2>1. ASSUME NEW x, x[1] # order[o].moid
        PROVE  x \in Standing <=> x \in Standing'
    <3>1. x \in Standing <=> \E p \in usedOrders \ {o} : x = <<order[p].moid, qty[p]>>
      BY <1>4, <2>1
    <3>2. x \in Standing' <=> \E p \in usedOrders \ {o} : x = <<order[p].moid, qty'[p]>>
      BY <1>4, <2>1
    <3>3. QED
      BY <1>5, <3>1, <3>2
  <2>2. QED
    BY <2>1 DEF SameBut
<1>7. CASE o \in usedOrders
  <2>1. qty'[o] = qty[o] - leaves
    BY <1>1, <1>2 DEF IInv, TypeOK
  <2>2. QED
    BY <1>2, <1>3, <1>4, <1>6, <1>7, <1>10, <2>1 DEF SendsModify
<1>8. CASE o \notin usedOrders
  <2>1. NoneOf(Standing, order[o].moid)
    BY <1>4, <1>5, <1>8 DEF NoneOf
  <2>2. QED
    BY <1>2, <1>3, <1>6, <1>10, <2>1 DEF SendsModify
<1>9. QED
  BY <1>7, <1>8

\* What is sent tells of what stands in the book after it.
LEMMA OneSaid ==
  ASSUME NEW v, NEW f, NEW u, AfterTrade(f, u), u.type # "CLEAR", NEW id
  PROVE  /\ Writes(u, id) => Comes(v, f, id, Written(u))
         /\ ~Writes(u, id) => Comes(v, f, id, v[id])
<1>1. CASE f = <<u>>
  BY <1>1 DEF Comes
<1>2. ASSUME NEW t, t.type = "TRADE", f = <<t, u>>
      PROVE  /\ Writes(u, id) => Comes(v, f, id, Written(u))
             /\ ~Writes(u, id) => Comes(v, f, id, v[id])
  <2>1. DOMAIN f = {1, 2} /\ f[1] = t /\ f[2] = u /\ ~Writes(t, id)
    BY <1>2 DEF Writes
  <2>2. QED
    BY <2>1 DEF Comes
<1>3. QED
  BY <1>1, <1>2 DEF AfterTrade

LEMMA ShownBut ==
  ASSUME NEW S, NEW T, NEW m, SameBut(S, T, m), NEW id, id # m, NEW x, IsShown(x, S, id)
  PROVE  IsShown(x, T, id)
<1>1. <<id, x>>[1] = id
  OBVIOUS
<1>2. QED
  BY <1>1 DEF SameBut, IsShown, NoneOf

LEMMA SentInFlight ==
  ASSUME NEW v, \A id \in OrderSlots : IsShown(v[id], Standing, id), Sends
  PROVE  Updates(updates') /\ (Doomed(v, updates') \/ Told(v, updates)')
<1>1. CASE SendsNothing
  <2>1. updates' = <<>> /\ DOMAIN updates' = {} /\ updates' \in Seq({})
    BY <1>1 DEF SendsNothing
  <2>2. \A id \in OrderSlots : Comes(v, updates', id, v[id]) /\ IsShown(v[id], Standing', id)
    BY <1>1, <2>1 DEF SendsNothing, Comes
  <2>3. QED
    BY <2>1, <2>2 DEF Updates, Told
<1>2. ASSUME NEW u, Numbered(u), AfterTrade(updates', u), u.type \in {"ADD", "MODIFY", "CANCEL"},
             SameBut(Standing, Standing', u.moid), IsShown(Written(u), Standing', u.moid)
      PROVE  Updates(updates') /\ Told(v, updates)'
  <2>1. Updates(updates')
    BY <1>2, AfterTradeUpdates
  <2>2. ASSUME NEW id \in OrderSlots
        PROVE  \E x : Comes(v, updates', id, x) /\ IsShown(x, Standing', id)
    <3>1. CASE u.moid = id
      <4>1. Writes(u, id) /\ u.type # "CLEAR"
        BY <1>2, <3>1 DEF Writes
      <4>2. Comes(v, updates', id, Written(u))
        BY <1>2, <4>1, OneSaid
      <4>3. QED
        BY <1>2, <3>1, <4>2
    <3>2. CASE u.moid # id
      <4>1. ~Writes(u, id) /\ u.type # "CLEAR"
        BY <1>2, <3>2 DEF Writes
      <4>2. Comes(v, updates', id, v[id])
        BY <1>2, <4>1, OneSaid
      <4>3. IsShown(v[id], Standing', id)
        BY <1>2, <3>2, ShownBut
      <4>4. QED
        BY <4>2, <4>3
    <3>3. QED
      BY <3>1, <3>2
  <2>3. QED
    BY <2>1, <2>2 DEF Told
<1>3. ASSUME NEW u, SendsAdd(u) PROVE Updates(updates') /\ Told(v, updates)'
  <2>1. u.type = "ADD" /\ u.moid \in Nat /\ u.qty \in Nat /\ AfterTrade(updates', u)
    BY <1>3 DEF SendsAdd, AddUpdates, AfterTrade
  <2>2. Numbered(u) /\ IsShown(Written(u), Standing', u.moid)
    BY <1>3, <2>1, NullNoOrder DEF SendsAdd, Numbered, IsShown, Written
  <2>3. QED
    BY <1>2, <1>3, <2>1, <2>2 DEF SendsAdd
<1>4. ASSUME NEW u, SendsCancel(u) PROVE Updates(updates') /\ Told(v, updates)'
  <2>1. Numbered(u) /\ IsShown(Written(u), Standing', u.moid)
    BY <1>4 DEF SendsCancel, Numbered, IsShown, Written
  <2>2. QED
    BY <1>2, <1>4, <2>1 DEF SendsCancel
<1>5. ASSUME NEW u, SendsModify(u)
      PROVE  Updates(updates') /\ (Doomed(v, updates') \/ Told(v, updates)')
  <2>1. Numbered(u)
    BY <1>5 DEF SendsModify, Numbered
  <2>2. CASE <<u.moid, u.qty>> \in Standing'
    <3>1. IsShown(Written(u), Standing', u.moid)
      BY <1>5, <2>2, NullNoOrder DEF SendsModify, IsShown, Written
    <3>2. QED
      BY <1>2, <1>5, <2>1, <3>1 DEF SendsModify
  <2>3. CASE NoneOf(Standing, u.moid)
    <3>1. ~(u.moid \in OrderSlots /\ v[u.moid] # nullptr)
      <4> SUFFICES ASSUME u.moid \in OrderSlots, v[u.moid] # nullptr PROVE FALSE
        OBVIOUS
      <4>1. <<u.moid, v[u.moid]>> \in Standing
        BY DEF IsShown
      <4>2. <<u.moid, v[u.moid]>>[1] = u.moid
        OBVIOUS
      <4>3. QED
        BY <2>3, <4>1, <4>2 DEF NoneOf
    <3>2. Doomed(v, updates')
      BY <1>5, <3>1 DEF SendsModify, Doomed
    <3>3. QED
      BY <1>5, <2>1, <3>2, AfterTradeUpdates DEF SendsModify
  <2>4. QED
    BY <1>5, <2>2, <2>3 DEF SendsModify
<1>6. QED
  BY <1>1, <1>3, <1>4, <1>5 DEF Sends

LEMMA ExchangeInFlight ==
  ASSUME IInv, Stale, FeedInv, Exchange
  PROVE  FeedInv'
<1> SUFFICES ASSUME ended' = "no", pc' # "halted"
             PROVE  MapShape(book)' /\ InFlight(View(book), feed)'
  BY DEF FeedInv
<1>1. /\ feed = <<>> /\ Next /\ feed' = updates' /\ book' = book /\ ended' = ended
  BY DEF Exchange, clientVars
<1>2. pc # "halted" /\ ended = "no"
  BY <1>1 DEF Next, Request, Running, Accept, Cancel, CancelReject, CancelCrash, Halt, MatchPartly,
         MatchFully, MatchCrash, Filled, RestAtLevel, RestOnEmptySide, RestOnSide, RestCrash,
         Rests, WalkStep, InsertAtEnd, AtEnd, InsertBeforeTarget, AtTarget, InsertCrash
<1>3. Sends
  BY <1>1, StepTells, PartlySends DEF Sends
<1>4. MapShape(book) /\ InFlight(View(book), <<>>)
  BY <1>1, <1>2 DEF FeedInv
<1>5. \A id \in OrderSlots : IsShown(View(book)[id], Standing, id)
  <2>1. ~Doomed(View(book), <<>>)
    BY DEF Doomed, AfterTrade
  <2>2. Told(View(book), <<>>)
    BY <1>4, <2>1 DEF InFlight
  <2> HIDE DEF View
  <2>3. ASSUME NEW id \in OrderSlots PROVE IsShown(View(book)[id], Standing, id)
    <3>1. PICK x : Comes(View(book), <<>>, id, x) /\ IsShown(x, Standing, id)
      BY <2>2 DEF Told
    <3>2. x = View(book)[id]
      BY <3>1 DEF Comes
    <3>3. QED
      BY <3>1, <3>2
  <2>4. QED
    BY <2>3
<1> DEFINE v == View(book)
<1>6. Updates(updates') /\ (Doomed(v, updates') \/ \A id \in OrderSlots :
           \E x : Comes(v, updates', id, x) /\ IsShown(x, Standing', id))
  <2> HIDE DEF v
  <2>1. \A id \in OrderSlots : IsShown(v[id], Standing, id)
    BY <1>5 DEF v
  <2>2. ASSUME NEW w, w = v
        PROVE  Updates(updates') /\ (Doomed(w, updates') \/ \A id \in OrderSlots :
                  \E x : Comes(w, updates', id, x) /\ IsShown(x, Standing', id))
    BY <1>3, <2>1, <2>2, SentInFlight DEF Told
  <2>3. QED
    BY <2>2
<1>7. View(book') = v
  BY <1>1
<1>8. QED
  BY <1>1, <1>4, <1>6, <1>7 DEF InFlight, Told, MapShape

\* The client is given a snapshot.
LEMMA UsedFinite == IInv => IsFiniteSet(usedOrders) /\ Cardinality(usedOrders) \in Nat
<1> SUFFICES ASSUME IInv PROVE IsFiniteSet(usedOrders) /\ Cardinality(usedOrders) \in Nat
  OBVIOUS
<1>1. ME_MAX_ORDER_IDS - 1 \in Int
  BY ConstantsAssumption
<1>2. IsFiniteSet(OrderSlots)
  BY <1>1, FS_Interval DEF OrderSlots
<1>3. usedOrders \subseteq OrderSlots
  BY DEF IInv, TypeOK
<1>4. IsFiniteSet(usedOrders)
  BY <1>2, <1>3, FS_Subset
<1>5. QED
  BY <1>4, FS_CardinalityType

LEMMA SnapshotLists ==
  ASSUME IInv, NEW o \in [1 .. Cardinality(usedOrders) -> usedOrders],
         \A i, j \in DOMAIN o : i < j => order[o[i]].moid < order[o[j]].moid
  PROVE  \A p \in usedOrders : \E i \in DOMAIN o : o[i] = p
<1>1. usedOrders \subseteq OrderSlots /\ \A p \in usedOrders : order[p].moid \in Nat
  BY DEF IInv, TypeOK, OrderData
<1>2. IsFiniteSet(usedOrders)
  BY UsedFinite
<1> DEFINE n == Cardinality(usedOrders)
<1>3. n \in Nat
  BY <1>2, FS_CardinalityType
<1> HIDE DEF n
<1>4. IsFiniteSet(1 .. n) /\ Cardinality(1 .. n) = n
  BY <1>3, FS_Interval
<1>5. \A i, j \in 1 .. n : o[i] = o[j] => i = j
  <2> SUFFICES ASSUME NEW i \in 1 .. n, NEW j \in 1 .. n, o[i] = o[j], i < j PROVE FALSE
    BY <1>3
  <2>1. order[o[i]].moid < order[o[j]].moid /\ order[o[i]].moid \in Nat
    BY <1>1 DEF n
  <2>2. QED
    BY <2>1
<1>6. o \in Injection(1 .. n, usedOrders)
  BY <1>5 DEF Injection, IsInjective, n
<1>7. o \in Surjection(1 .. n, usedOrders)
  BY <1>2, <1>4, <1>6, FS_Injection DEF n
<1>8. QED
  BY <1>7 DEF Surjection, n

LEMMA RecoverInFlight ==
  ASSUME IInv, FeedInv, Recover
  PROVE  FeedInv'
<1> SUFFICES ASSUME ended' = "no", pc' # "halted"
             PROVE  MapShape(book)' /\ InFlight(View(book), feed)'
  BY DEF FeedInv
<1> DEFINE clear == Update("CLEAR", nullptr, nullptr, nullptr, nullptr, nullptr)
           N == Cardinality(usedOrders)
<1>1. pc = "idle" /\ UNCHANGED vars /\ UNCHANGED clientVars
  BY DEF Recover
<1>2. PICK o \in [1 .. N -> usedOrders] :
        /\ \A i, j \in DOMAIN o : i < j => order[o[i]].moid < order[o[j]].moid
        /\ feed' = <<clear>> \o [i \in DOMAIN o |-> InSnapshot(o[i])]
  BY DEF Recover, Snapshots
<1>3. \A p \in usedOrders : \E i \in 1 .. N : o[i] = p
  BY <1>2, SnapshotLists
<1>4. N \in Nat
  BY UsedFinite
<1> HIDE DEF N
<1> DEFINE s == [i \in DOMAIN o |-> InSnapshot(o[i])]
           X == {clear} \cup {InSnapshot(p) : p \in usedOrders}
<1>5. /\ feed' \in Seq(X) /\ DOMAIN feed' = 1 .. N + 1 /\ feed'[1] = clear
      /\ \A i \in 1 .. N : feed'[i + 1] = InSnapshot(o[i])
  <2>1. s \in [1 .. N -> X]
    OBVIOUS
  <2>2. s \in Seq(X) /\ Len(s) = N /\ <<clear>> \in Seq(X) /\ Len(<<clear>>) = 1
    BY <1>4, <2>1
  <2>3. \A i \in 1 .. N : s[i] = InSnapshot(o[i])
    OBVIOUS
  <2> HIDE DEF s, X, clear
  <2>4. feed' = <<clear>> \o s
    BY <1>2 DEF s, clear
  <2>5. QED
    BY <1>4, <2>2, <2>3, <2>4, ConcatProperties, LenProperties
<1> HIDE DEF X
<1>6. \A p \in usedOrders : /\ InSnapshot(p).type = "ADD" /\ InSnapshot(p).moid = order[p].moid
                            /\ InSnapshot(p).qty = qty[p]
                            /\ order[p].moid \in Nat /\ qty[p] \in Nat
  BY DEF InSnapshot, Update, IInv, TypeOK, OrderData
<1>7. clear.type = "CLEAR"
  BY DEF Update
<1> HIDE DEF clear
<1>8. Updates(feed')
  <2>1. ASSUME NEW i \in DOMAIN feed' PROVE Numbered(feed'[i])
    <3>1. CASE i = 1
      BY <1>5, <1>7, <3>1 DEF Numbered
    <3>2. CASE i # 1
      <4>1. i - 1 \in 1 .. N /\ i = (i - 1) + 1
        BY <1>4, <1>5, <3>2
      <4>2. feed'[i] = InSnapshot(o[i - 1]) /\ o[i - 1] \in usedOrders
        BY <1>5, <4>1
      <4>3. QED
        BY <1>6, <4>2 DEF Numbered
    <3>3. QED
      BY <3>1, <3>2
  <2>2. QED
    BY <1>5, <2>1 DEF Updates
<1>9. Standing = {<<order[p].moid, qty[p]>> : p \in usedOrders}
  BY <1>1 DEF Standing, Resters
<1>10. ASSUME NEW v, NEW id \in OrderSlots
       PROVE  \E x : Comes(v, feed', id, x) /\ IsShown(x, Standing, id)
  <2>1. CASE \E i \in 1 .. N : order[o[i]].moid = id
    <3>1. PICK i \in 1 .. N : order[o[i]].moid = id
      BY <2>1
    <3>2. Writes(feed'[i + 1], id) /\ Written(feed'[i + 1]) = qty[o[i]] /\ i + 1 \in DOMAIN feed'
      BY <1>4, <1>5, <1>6, <3>1 DEF Writes, Written
    <3>3. ASSUME NEW j \in DOMAIN feed', j > i + 1 PROVE ~Writes(feed'[j], id)
      <4>1. j - 1 \in 1 .. N /\ j = (j - 1) + 1 /\ i < j - 1
        BY <1>4, <1>5, <3>3
      <4>2. feed'[j] = InSnapshot(o[j - 1]) /\ o[j - 1] \in usedOrders
        BY <1>5, <4>1
      <4>3. id < order[o[j - 1]].moid /\ order[o[j - 1]].moid \in Nat /\ id \in Nat
        BY <1>2, <1>6, <3>1, <4>1, <4>2 DEF OrderSlots
      <4>4. QED
        BY <1>6, <4>2, <4>3 DEF Writes
    <3>4. Comes(v, feed', id, qty[o[i]])
      BY <3>2, <3>3 DEF Comes
    <3>5. IsShown(qty[o[i]], Standing, id)
      BY <1>6, <1>9, <3>1, NullNoOrder DEF IsShown
    <3>6. QED
      BY <3>4, <3>5
  <2>2. CASE \A i \in 1 .. N : order[o[i]].moid # id
    <3>1. IsShown(nullptr, Standing, id)
      <4>1. \A p \in usedOrders : order[p].moid # id
        BY <1>3, <2>2
      <4>2. QED
        BY <1>9, <4>1 DEF IsShown, NoneOf
    <3>2. Writes(feed'[1], id) /\ Written(feed'[1]) = nullptr /\ 1 \in DOMAIN feed'
      BY <1>4, <1>5, <1>7 DEF Writes, Written
    <3>3. ASSUME NEW j \in DOMAIN feed', j > 1 PROVE ~Writes(feed'[j], id)
      <4>1. j - 1 \in 1 .. N /\ j = (j - 1) + 1
        BY <1>4, <1>5, <3>3
      <4>2. feed'[j] = InSnapshot(o[j - 1]) /\ o[j - 1] \in usedOrders
        BY <1>5, <4>1
      <4>3. QED
        BY <1>6, <2>2, <4>1, <4>2 DEF Writes
    <3>4. Comes(v, feed', id, nullptr)
      BY <3>2, <3>3 DEF Comes
    <3>5. QED
      BY <3>1, <3>4
  <2>3. QED
    BY <2>1, <2>2
<1>11. Standing' = Standing /\ book' = book /\ ended = "no" /\ pc # "halted"
  BY <1>1, StandingSame DEF clientVars
<1>12. Told(View(book), feed)'
  BY <1>10, <1>11 DEF Told
<1>13. QED
  BY <1>8, <1>11, <1>12 DEF InFlight, FeedInv

LEMMA InitInFlight == MirrorInit => FeedInv
<1> SUFFICES ASSUME MirrorInit PROVE FeedInv
  OBVIOUS
<1>1. feed = <<>> /\ usedOrders = {} /\ Client!Init
  BY DEF MirrorInit, Init
<1>2. /\ DOMAIN book = {"order", "usedOrders", "freeOrder", "level", "usedLevels", "freeLevel", "best",
                        "priceMap", "oidToOrder"}
      /\ book.order = [o \in OrderSlots |-> Client!NoOrder] /\ book.usedOrders = {}
      /\ book.freeOrder = 0 /\ book.oidToOrder = [id \in OrderSlots |-> nullptr]
  BY <1>1, ClientSlots DEF Client!Init
<1>3. Objects(book) /\ Mapped(book)
  BY <1>2, ConstantsAssumption
     DEF Objects, Mapped, OrderSlots, OrderPtrs, Client!NoOrder, Client!NewOrder
<1>4. Updates(feed)
  BY <1>1 DEF Updates
<1>5. Told(View(book), feed)
  <2>1. Standing = {}
    BY <1>1 DEF Standing, Resters
  <2>2. ASSUME NEW id \in OrderSlots
        PROVE  Comes(View(book), feed, id, nullptr) /\ IsShown(nullptr, Standing, id)
    BY <1>1, <1>2, <2>1 DEF Comes, IsShown, NoneOf, View
  <2>3. QED
    BY <2>2 DEF Told
<1>6. QED
  BY <1>3, <1>4, <1>5 DEF FeedInv, InFlight, MapShape

LEMMA FeedShown == IInv /\ FeedInv => OrdersKnown
<1> SUFFICES ASSUME IInv, FeedInv, Caught, NEW id \in OrderSlots
             PROVE  LET o == book.oidToOrder[id]
                        rests == {p \in usedOrders : order[p].moid = id}
                    IN IF o = nullptr THEN rests = {} ELSE \E p \in rests : book.order[o].qty = qty[p]
  BY DEF OrdersKnown
<1>1. feed = <<>> /\ ended = "no" /\ pc \in {"idle", "match"}
  BY DEF Caught
<1>2. MapShape(book) /\ InFlight(View(book), <<>>)
  BY <1>1 DEF FeedInv
<1>3. Told(View(book), <<>>)
  BY <1>2 DEF InFlight, Doomed, AfterTrade
<1>4. PICK x : Comes(View(book), <<>>, id, x) /\ IsShown(x, Standing, id)
  BY <1>3, Zenon DEF Told
<1>5. x = View(book)[id]
  BY <1>4 DEF Comes
<1>6. Standing = {<<order[p].moid, qty[p]>> : p \in usedOrders}
  BY <1>1 DEF Standing, Resters
<1>7. CASE book.oidToOrder[id] = nullptr
  <2>1. NoneOf(Standing, id)
    BY <1>4, <1>5, <1>7 DEF View, IsShown
  <2>2. ASSUME NEW p \in usedOrders, order[p].moid = id PROVE FALSE
    <3>1. <<order[p].moid, qty[p]>> \in Standing /\ <<order[p].moid, qty[p]>>[1] = id
      BY <1>6, <2>2
    <3>2. QED
      BY <2>1, <3>1 DEF NoneOf
  <2>3. QED
    BY <1>7, <2>2
<1>8. CASE book.oidToOrder[id] # nullptr
  <2>1. x = book.order[book.oidToOrder[id]].qty /\ x # nullptr
    BY <1>2, <1>5, <1>8, NullNoOrder DEF View, MapShape, Mapped
  <2>2. <<id, x>> \in Standing
    BY <1>4, <2>1 DEF IsShown
  <2>3. PICK p \in usedOrders : <<id, x>> = <<order[p].moid, qty[p]>>
    BY <1>6, <2>2
  <2>4. id = order[p].moid /\ x = qty[p]
    BY <2>3
  <2>5. QED
    BY <1>8, <2>1, <2>4
<1>9. QED
  BY <1>7, <1>8

\* The client that has applied every update finds each order that rests, and no other, under
\* its market order id and with its quantity: also after any number of snapshots, and whatever
\* the lists of levels look like.
THEOREM ClientFindsOrders == MirrorSpec => []OrdersKnown
<1> DEFINE Inv == IInv /\ Stale /\ FeedInv
<1>1. MirrorInit => Inv
  BY InitIInv, InitStale, InitInFlight DEF MirrorInit
<1>2. Inv /\ [MirrorNext]_mirrorVars => Inv'
  <2> SUFFICES ASSUME IInv, Stale, FeedInv, [MirrorNext]_mirrorVars PROVE Inv'
    OBVIOUS
  <2>1. [Next]_vars
    BY DEF MirrorNext, Exchange, Deliver, Recover, mirrorVars
  <2>2. IInv' /\ Stale'
    BY <2>1, NextIInv, NextStale
  <2>3. CASE UNCHANGED mirrorVars
    <3>1. Standing' = Standing /\ pc' = pc /\ ended' = ended /\ book' = book /\ feed' = feed
      BY <2>3, StandingSame DEF mirrorVars, clientVars, vars, callVars
    <3>2. FeedInv'
      BY <3>1 DEF FeedInv, InFlight, Told
    <3>3. QED
      BY <2>2, <3>2
  <2>4. QED
    BY <2>2, <2>3, ExchangeInFlight, DeliverInFlight, RecoverInFlight DEF MirrorNext
<1>3. Inv => OrdersKnown
  BY FeedShown
<1>4. QED
  BY <1>1, <1>2, <1>3, PTL DEF MirrorSpec

-----------------------------------------------------------------------------
\* The client's book and the exchange's, structure by structure.

BookFields == {"order", "usedOrders", "freeOrder", "level", "usedLevels", "freeLevel", "best", "priceMap",
               "oidToOrder"}
OrderFields == {"oid", "side", "price", "qty", "prev", "next"}
LevelFields == {"side", "price", "first", "prev", "next"}

\* The objects hold what these functions say: d of what never changes, p and n of the neighbours.
OrdersAre(os, d, p, n) ==
  /\ DOMAIN os = OrderSlots
  /\ \A o \in OrderSlots :
       /\ OrderFields \subseteq DOMAIN os[o]
       /\ os[o].oid = d[o].moid /\ os[o].side = d[o].side /\ os[o].price = d[o].price
       /\ os[o].prev = p[o] /\ os[o].next = n[o]
QtyAre(os, used, q) == \A o \in used : os[o].qty = q[o]
LevelsAre(lv, d, f, p, n) ==
  /\ DOMAIN lv = LevelSlots
  /\ \A l \in LevelSlots :
       /\ LevelFields \subseteq DOMAIN lv[l]
       /\ lv[l].side = d[l].side /\ lv[l].price = d[l].price
       /\ lv[l].first = f[l] /\ lv[l].prev = p[l] /\ lv[l].next = n[l]
MapIs(m, used, d) ==
  /\ DOMAIN m = OrderSlots
  /\ \A id \in OrderSlots : m[id] # nullptr => m[id] \in used /\ d[m[id]].moid = id
  /\ \A o \in used : d[o].moid \in OrderSlots /\ m[d[o].moid] = o

\* Setting a field is setting a value of the function.
LEMMA SetOrderNext ==
  ASSUME NEW os, NEW d, NEW p, NEW n, OrdersAre(os, d, p, n), DOMAIN n = OrderSlots, NEW k, NEW v
  PROVE  /\ OrdersAre([os EXCEPT ![k].next = v], d, p, [n EXCEPT ![k] = v])
         /\ DOMAIN [n EXCEPT ![k] = v] = OrderSlots
         /\ \A u, q : u \subseteq OrderSlots /\ QtyAre(os, u, q) => QtyAre([os EXCEPT ![k].next = v], u, q)
BY DEF OrdersAre, OrderFields, QtyAre

LEMMA SetOrderPrev ==
  ASSUME NEW os, NEW d, NEW p, NEW n, OrdersAre(os, d, p, n), DOMAIN p = OrderSlots, NEW k, NEW v
  PROVE  /\ OrdersAre([os EXCEPT ![k].prev = v], d, [p EXCEPT ![k] = v], n)
         /\ DOMAIN [p EXCEPT ![k] = v] = OrderSlots
         /\ \A u, q : u \subseteq OrderSlots /\ QtyAre(os, u, q) => QtyAre([os EXCEPT ![k].prev = v], u, q)
BY DEF OrdersAre, OrderFields, QtyAre

LEMMA SetLevelNext ==
  ASSUME NEW lv, NEW d, NEW f, NEW p, NEW n, LevelsAre(lv, d, f, p, n), DOMAIN n = LevelSlots, NEW k, NEW v
  PROVE  /\ LevelsAre([lv EXCEPT ![k].next = v], d, f, p, [n EXCEPT ![k] = v])
         /\ DOMAIN [n EXCEPT ![k] = v] = LevelSlots
BY DEF LevelsAre, LevelFields

LEMMA SetLevelPrev ==
  ASSUME NEW lv, NEW d, NEW f, NEW p, NEW n, LevelsAre(lv, d, f, p, n), DOMAIN p = LevelSlots, NEW k, NEW v
  PROVE  /\ LevelsAre([lv EXCEPT ![k].prev = v], d, f, [p EXCEPT ![k] = v], n)
         /\ DOMAIN [p EXCEPT ![k] = v] = LevelSlots
BY DEF LevelsAre, LevelFields

LEMMA SetLevelFirst ==
  ASSUME NEW lv, NEW d, NEW f, NEW p, NEW n, LevelsAre(lv, d, f, p, n), DOMAIN f = LevelSlots, NEW k, NEW v
  PROVE  LevelsAre([lv EXCEPT ![k].first = v], d, [f EXCEPT ![k] = v], p, n)
BY DEF LevelsAre, LevelFields

\* The client's book is the exchange's, stale objects included, but for their quantities.
AsOrders(b) ==
  /\ b.usedOrders = usedOrders /\ b.freeOrder = freeOrder
  /\ OrdersAre(b.order, order, prevOrder, nextOrder) /\ QtyAre(b.order, usedOrders, qty)
AsLevels(b) ==
  /\ b.usedLevels = usedLevels /\ b.freeLevel = freeLevel /\ b.best = best /\ b.priceMap = priceMap
  /\ LevelsAre(b.level, level, firstOrder, prevEntry, nextEntry)
SameBook(b) ==
  BookFields \subseteq DOMAIN b /\ AsOrders(b) /\ AsLevels(b) /\ MapIs(b.oidToOrder, usedOrders, order)

LEMMA SameIndex ==
  /\ Client!LevelSlots = LevelSlots /\ \A p : Client!PriceToIndex(p) = PriceToIndex(p)
  /\ \A s, p, q : Client!LessAggressive(s, p, q) = LessAggressive(s, p, q)
  /\ \A used, i : Client!OrderPool!FirstFree(used, i) = OrderPool!FirstFree(used, i)
  /\ \A used, i : Client!LevelPool!FirstFree(used, i) = LevelPool!FirstFree(used, i)
<1>1. Client!LevelSlots = LevelSlots /\ \A p : Client!PriceToIndex(p) = PriceToIndex(p)
  BY DEF Client!LevelSlots, LevelSlots, Client!PriceToIndex, PriceToIndex
<1>2. \A s, p, q : Client!LessAggressive(s, p, q) = LessAggressive(s, p, q)
  BY DEF Client!LessAggressive, LessAggressive
<1>3. \A used, i : Client!OrderPool!FirstFree(used, i) = OrderPool!FirstFree(used, i)
  BY DEF Client!OrderPool!FirstFree, OrderPool!FirstFree, Client!OrderPool!Blocks, OrderPool!Blocks,
         Client!OrderPool!Distance, OrderPool!Distance
<1>4. \A used, i : Client!LevelPool!FirstFree(used, i) = LevelPool!FirstFree(used, i)
  BY DEF Client!LevelPool!FirstFree, LevelPool!FirstFree, Client!LevelPool!Blocks, LevelPool!Blocks,
         Client!LevelPool!Distance, LevelPool!Distance
<1>5. QED
  BY <1>1, <1>2, <1>3, <1>4

\* The types the structures have.
LEMMA BookTyped ==
  ASSUME IInv
  PROVE  /\ DOMAIN order = OrderSlots /\ DOMAIN prevOrder = OrderSlots /\ DOMAIN nextOrder = OrderSlots
         /\ DOMAIN level = LevelSlots /\ DOMAIN firstOrder = LevelSlots /\ DOMAIN prevEntry = LevelSlots
         /\ DOMAIN nextEntry = LevelSlots /\ DOMAIN best = Sides /\ usedOrders \subseteq OrderSlots
         /\ DOMAIN qty = OrderSlots /\ DOMAIN priceMap = LevelSlots
BY DEF IInv, TypeOK, PriceIndices, LevelSlots

\* A level leaves both books.
LEMMA RemoveLevelMirrored ==
  ASSUME IInv, NEW b, BookFields \subseteq DOMAIN b, AsLevels(b), NEW o \in usedOrders,
         RemoveOrdersAtPrice(order[o].side, PriceToIndex(order[o].price), LevelOf(o)),
         UNCHANGED <<level, firstOrder, freeLevel>>, LevelOf(o) # nullptr,
         NEW c, c = Client!RemoveOrdersAtPrice(b, order[o].side, order[o].price, LevelOf(o))
  PROVE  /\ AsLevels(c)' /\ DOMAIN c = DOMAIN b /\ c.order = b.order /\ c.usedOrders = b.usedOrders
         /\ c.freeOrder = b.freeOrder /\ c.oidToOrder = b.oidToOrder
<1> DEFINE s == order[o].side
           l == LevelOf(o)
           i == PriceToIndex(order[o].price)
           lv == b.level
           gone == [b EXCEPT !.priceMap[i] = nullptr, !.usedLevels = @ \ {l}]
           cut == [lv EXCEPT ![prevEntry[l]].next = nextEntry[l], ![nextEntry[l]].prev = prevEntry[l],
                             ![l].prev = nullptr, ![l].next = nullptr]
<1>1. l \in LevelSlots /\ s \in Sides
  BY IndicesInRange, RestingNumbers DEF IInv, TypeOK, LevelOf, LevelPtrs
<1>2. lv[l].next = nextEntry[l] /\ lv[l].prev = prevEntry[l] /\ b.best = best
  BY <1>1 DEF AsLevels, LevelsAre
<1> HIDE DEF l, s, i
<1>3. c = IF lv[l].next = l THEN [gone EXCEPT !.best[s] = nullptr]
          ELSE [gone EXCEPT !.best[s] = IF @ = l THEN lv[l].next ELSE @,
                            !.level = [[lv EXCEPT ![lv[l].prev].next = lv[l].next,
                                                  ![lv[l].next].prev = lv[l].prev]
                                        EXCEPT ![l].prev = nullptr, ![l].next = nullptr]]
  BY SameIndex DEF Client!RemoveOrdersAtPrice, s, l, i
<1>4. /\ DOMAIN gone = DOMAIN b /\ gone.best = best /\ gone.level = lv /\ gone.freeLevel = freeLevel'
      /\ gone.usedLevels = usedLevels' /\ gone.priceMap = priceMap' /\ gone.order = b.order
      /\ gone.usedOrders = b.usedOrders /\ gone.freeOrder = b.freeOrder /\ gone.oidToOrder = b.oidToOrder
  <2>1. /\ DOMAIN gone = DOMAIN b /\ gone.best = b.best /\ gone.level = lv /\ gone.freeLevel = b.freeLevel
        /\ gone.usedLevels = b.usedLevels \ {l} /\ gone.priceMap = [b.priceMap EXCEPT ![i] = nullptr]
        /\ gone.order = b.order /\ gone.usedOrders = b.usedOrders /\ gone.freeOrder = b.freeOrder
        /\ gone.oidToOrder = b.oidToOrder
    BY SMTT(30) DEF BookFields
  <2> HIDE DEF gone
  <2>2. usedLevels' = usedLevels \ {l} /\ priceMap' = [priceMap EXCEPT ![i] = nullptr]
    BY DEF RemoveOrdersAtPrice, l, i
  <2> QED
    BY <2>1, <2>2 DEF AsLevels
<1> HIDE DEF gone
<1>5. CASE nextEntry[l] = l
  <2>1. c = [gone EXCEPT !.best[s] = nullptr] /\ best' = [best EXCEPT ![s] = nullptr]
        /\ UNCHANGED <<prevEntry, nextEntry>>
    BY <1>2, <1>3, <1>5 DEF RemoveOrdersAtPrice, s, l
  <2>2. /\ DOMAIN c = DOMAIN b /\ c.best = best' /\ c.level = lv /\ c.freeLevel = freeLevel'
        /\ c.usedLevels = usedLevels' /\ c.priceMap = priceMap' /\ c.order = b.order
        /\ c.usedOrders = b.usedOrders /\ c.freeOrder = b.freeOrder /\ c.oidToOrder = b.oidToOrder
    BY <1>4, <2>1 DEF BookFields
  <2>3. QED
    BY <2>1, <2>2 DEF AsLevels, LevelsAre
<1>6. CASE nextEntry[l] # l
  <2>1. /\ c = [gone EXCEPT !.best[s] = IF @ = l THEN nextEntry[l] ELSE @, !.level = cut]
        /\ best' = IF l = best[s] THEN [best EXCEPT ![s] = nextEntry[l]] ELSE best
        /\ nextEntry' = [nextEntry EXCEPT ![prevEntry[l]] = nextEntry[l], ![l] = nullptr]
        /\ prevEntry' = [prevEntry EXCEPT ![nextEntry[l]] = prevEntry[l], ![l] = nullptr]
    BY <1>2, <1>3, <1>6 DEF RemoveOrdersAtPrice, s, l
  <2>2. LevelsAre(lv, level, firstOrder, prevEntry, nextEntry)
    BY DEF AsLevels
  <2> DEFINE n1 == [nextEntry EXCEPT ![prevEntry[l]] = nextEntry[l]]
             p1 == [prevEntry EXCEPT ![nextEntry[l]] = prevEntry[l]]
             lv1 == [lv EXCEPT ![prevEntry[l]].next = nextEntry[l]]
             lv2 == [lv1 EXCEPT ![nextEntry[l]].prev = prevEntry[l]]
             lv3 == [lv2 EXCEPT ![l].prev = nullptr]
             p2 == [p1 EXCEPT ![l] = nullptr]
  <2>3. cut = [lv3 EXCEPT ![l].next = nullptr]
    OBVIOUS
  <2> HIDE DEF cut
  <2>4. LevelsAre(lv1, level, firstOrder, prevEntry, n1) /\ DOMAIN n1 = LevelSlots /\ DOMAIN prevEntry = LevelSlots
    BY <2>2, SetLevelNext, BookTyped
  <2> HIDE DEF lv1, n1
  <2>5. LevelsAre(lv2, level, firstOrder, p1, n1) /\ DOMAIN p1 = LevelSlots
    BY <2>4, SetLevelPrev
  <2> HIDE DEF lv2, p1
  <2>6. LevelsAre(lv3, level, firstOrder, p2, n1)
    BY <2>5, SetLevelPrev
  <2> HIDE DEF lv3, p2
  <2>7. LevelsAre(cut, level, firstOrder, p2, [n1 EXCEPT ![l] = nullptr])
    BY <2>3, <2>4, <2>6, SetLevelNext
  <2>8. LevelsAre(cut, level', firstOrder', prevEntry', nextEntry')
    BY <2>1, <2>7 DEF p2, p1, n1
  <2>9. [best EXCEPT ![s] = IF @ = l THEN nextEntry[l] ELSE @] = best'
    BY <1>1, <2>1, BookTyped DEF IInv, TypeOK
  <2>10. /\ DOMAIN c = DOMAIN b /\ c.best = best' /\ c.level = cut /\ c.freeLevel = freeLevel'
         /\ c.usedLevels = usedLevels' /\ c.priceMap = priceMap' /\ c.order = b.order
         /\ c.usedOrders = b.usedOrders /\ c.freeOrder = b.freeOrder /\ c.oidToOrder = b.oidToOrder
    BY <1>4, <2>1, <2>9 DEF BookFields
  <2>11. QED
    BY <2>8, <2>10 DEF AsLevels
<1>7. QED
  BY <1>5, <1>6

\* An order leaves the map of orders and its pool.
LEMMA ForgetMirrored ==
  ASSUME IInv, NEW b, SameBook(b), NEW o \in usedOrders, UNCHANGED <<order, freeOrder>>,
         usedOrders' = usedOrders \ {o}, NEW c, c = Client!Forget(b, o)
  PROVE  /\ DOMAIN c = DOMAIN b /\ c.order = b.order /\ c.level = b.level /\ c.best = b.best
         /\ c.priceMap = b.priceMap /\ c.usedLevels = b.usedLevels /\ c.freeLevel = b.freeLevel
         /\ c.usedOrders = usedOrders' /\ c.freeOrder = freeOrder' /\ MapIs(c.oidToOrder, usedOrders, order)'
<1> DEFINE id == order[o].moid
           m == b.oidToOrder
<1>1. b.order[o].oid = id /\ b.usedOrders = usedOrders /\ b.freeOrder = freeOrder
  BY BookTyped DEF SameBook, AsOrders, OrdersAre
<1>2. c = [b EXCEPT !.oidToOrder[id] = nullptr, !.usedOrders = @ \ {o}]
  BY <1>1 DEF Client!Forget
<1> HIDE DEF id
<1>3. /\ DOMAIN c = DOMAIN b /\ c.order = b.order /\ c.level = b.level /\ c.best = b.best
      /\ c.priceMap = b.priceMap /\ c.usedLevels = b.usedLevels /\ c.freeLevel = b.freeLevel
      /\ c.usedOrders = usedOrders' /\ c.freeOrder = freeOrder'
      /\ c.oidToOrder = [m EXCEPT ![id] = nullptr]
  BY <1>1, <1>2 DEF SameBook, BookFields
<1>4. MapIs(m, usedOrders, order)
  BY DEF SameBook
<1> HIDE DEF m
<1>5. MapIs([m EXCEPT ![id] = nullptr], usedOrders', order)
  <2>1. \A p \in usedOrders' : p \in usedOrders /\ order[p].moid # id
    BY <1>4 DEF MapIs, id
  <2>2. o \notin usedOrders' /\ usedOrders' = usedOrders \ {o} /\ m[id] = o
    BY <1>4 DEF MapIs, id
  <2>3. \A k \in OrderSlots : k # id /\ m[k] # nullptr => m[k] # o
    BY <1>4 DEF MapIs, id
  <2> DEFINE m2 == [m EXCEPT ![id] = nullptr]
  <2>4. DOMAIN m2 = OrderSlots /\ m2[id] = nullptr /\ \A k \in OrderSlots : k # id => m2[k] = m[k]
    BY <1>4, id \in OrderSlots DEF MapIs, id
  <2> HIDE DEF m2
  <2>5. \A k \in OrderSlots : m2[k] # nullptr => m2[k] \in usedOrders' /\ order[m2[k]].moid = k
    BY <1>4, <2>2, <2>3, <2>4 DEF MapIs
  <2>6. \A p \in usedOrders' : order[p].moid \in OrderSlots /\ m2[order[p].moid] = p
    BY <1>4, <2>1, <2>4 DEF MapIs
  <2>7. MapIs(m2, usedOrders', order)
    BY <2>4, <2>5, <2>6 DEF MapIs
  <2>8. QED
    BY <2>7 DEF m2
<1>6. QED
  BY <1>3, <1>5

\* An order that is not alone leaves its list.
LEMMA UnlinkMirrored ==
  ASSUME IInv, NEW b, SameBook(b), NEW o \in usedOrders, prevOrder[o] # o, LevelOf(o) # nullptr,
         UnlinkOrder(o, LevelOf(o)), usedOrders' = usedOrders \ {o}, \A p \in usedOrders' : qty'[p] = qty[p],
         UNCHANGED <<order, freeOrder, level, freeLevel, prevEntry, nextEntry, usedLevels, best, priceMap>>,
         NEW c, c = Client!RemoveOrder(b, o)
  PROVE  SameBook(c)'
<1> DEFINE l == LevelOf(o)
           i == PriceToIndex(order[o].price)
           os == b.order
           g == Client!Forget(b, o)
           x == os[o]
           first == IF firstOrder[l] = o THEN nextOrder[o] ELSE firstOrder[l]
           cut == [os EXCEPT ![prevOrder[o]].next = nextOrder[o], ![nextOrder[o]].prev = prevOrder[o],
                             ![o].prev = nullptr, ![o].next = nullptr]
<1>1. l \in LevelSlots
  BY IndicesInRange DEF IInv, TypeOK, LevelOf, LevelPtrs
<1>2. /\ x.oid = order[o].moid /\ x.side = order[o].side /\ x.price = order[o].price
      /\ x.prev = prevOrder[o] /\ x.next = nextOrder[o] /\ b.level[l].first = firstOrder[l]
  BY <1>1, BookTyped DEF SameBook, AsOrders, OrdersAre, AsLevels, LevelsAre
<1>3. Client!LevelAt(b, x.price) = l
  BY <1>2, SameIndex DEF SameBook, AsLevels, Client!LevelAt, LevelOf
<1>4. /\ DOMAIN g = DOMAIN b /\ g.order = os /\ g.level = b.level /\ g.best = b.best
      /\ g.priceMap = b.priceMap /\ g.usedLevels = b.usedLevels /\ g.freeLevel = b.freeLevel
      /\ g.usedOrders = usedOrders' /\ g.freeOrder = freeOrder' /\ MapIs(g.oidToOrder, usedOrders, order)'
  <2>1. PICK d : d = g
    OBVIOUS
  <2>2. QED
    BY <2>1, ForgetMirrored
<1>5. c = [g EXCEPT !.level[l].first = first, !.order = cut]
  <2>1. Client!FirstWithout(b, l, o) = first
    BY <1>2 DEF Client!FirstWithout
  <2>2. c = [g EXCEPT !.level[l].first = Client!FirstWithout(b, l, o),
               !.order = [[os EXCEPT ![x.prev].next = x.next, ![x.next].prev = x.prev]
                           EXCEPT ![o].prev = nullptr, ![o].next = nullptr]]
    BY <1>2, <1>3 DEF Client!RemoveOrder
  <2>3. QED
    BY <1>2, <2>1, <2>2
<1> HIDE DEF g, l, first
<1>6. /\ DOMAIN c = DOMAIN b /\ c.order = cut /\ c.level = [b.level EXCEPT ![l].first = first] /\ c.best = b.best
      /\ c.priceMap = b.priceMap /\ c.usedLevels = b.usedLevels /\ c.freeLevel = b.freeLevel
      /\ c.usedOrders = usedOrders' /\ c.freeOrder = freeOrder' /\ MapIs(c.oidToOrder, usedOrders, order)'
  <2> HIDE DEF cut
  <2>1. g.order = os /\ BookFields \subseteq DOMAIN g
    BY <1>4 DEF SameBook
  <2>2. QED
    BY <1>4, <1>5, <2>1 DEF BookFields
<1>7. OrdersAre(c.order, order, prevOrder, nextOrder)' /\ QtyAre(c.order, usedOrders, qty)'
  <2> DEFINE n1 == [nextOrder EXCEPT ![prevOrder[o]] = nextOrder[o]]
             p1 == [prevOrder EXCEPT ![nextOrder[o]] = prevOrder[o]]
             os1 == [os EXCEPT ![prevOrder[o]].next = nextOrder[o]]
             os2 == [os1 EXCEPT ![nextOrder[o]].prev = prevOrder[o]]
             os3 == [os2 EXCEPT ![o].prev = nullptr]
             p2 == [p1 EXCEPT ![o] = nullptr]
             n2 == [n1 EXCEPT ![o] = nullptr]
             used == usedOrders'
  <2>1. cut = [os3 EXCEPT ![o].next = nullptr]
    OBVIOUS
  <2>2. n2 = nextOrder' /\ p2 = prevOrder'
    BY DEF UnlinkOrder
  <2>3. used \subseteq OrderSlots /\ QtyAre(os, used, qty) /\ OrdersAre(os, order, prevOrder, nextOrder)
    BY BookTyped DEF SameBook, AsOrders, QtyAre
  <2> HIDE DEF cut, os, used
  <2>4. /\ OrdersAre(os1, order, prevOrder, n1) /\ DOMAIN n1 = OrderSlots /\ DOMAIN prevOrder = OrderSlots
        /\ QtyAre(os1, used, qty)
    BY <2>3, SetOrderNext, BookTyped
  <2> HIDE DEF os1, n1
  <2>5. OrdersAre(os2, order, p1, n1) /\ DOMAIN p1 = OrderSlots /\ QtyAre(os2, used, qty)
    BY <2>3, <2>4, SetOrderPrev
  <2> HIDE DEF os2, p1
  <2>6. OrdersAre(os3, order, p2, n1) /\ QtyAre(os3, used, qty)
    BY <2>3, <2>5, SetOrderPrev
  <2> HIDE DEF os3, p2
  <2>7. OrdersAre(cut, order, p2, n2) /\ QtyAre(cut, used, qty)
    BY <2>1, <2>3, <2>4, <2>6, SetOrderNext
  <2>8. OrdersAre(cut, order', prevOrder', nextOrder')
    BY <2>2, <2>7
  <2>9. QtyAre(cut, used, qty')
    BY <2>7 DEF QtyAre, used
  <2>10. QED
    BY <1>6, <2>8, <2>9 DEF used, QtyAre, OrdersAre
<1> HIDE DEF cut
<1>8. LevelsAre(c.level, level, firstOrder, prevEntry, nextEntry)'
  <2>1. LevelsAre(b.level, level, firstOrder, prevEntry, nextEntry) /\ DOMAIN firstOrder = LevelSlots
    BY BookTyped DEF SameBook, AsLevels
  <2>2. LevelsAre(c.level, level, [firstOrder EXCEPT ![l] = first], prevEntry, nextEntry)
    <3> DEFINE lv == b.level
    <3>1. LevelsAre(lv, level, firstOrder, prevEntry, nextEntry) /\ c.level = [lv EXCEPT ![l].first = first]
      BY <1>6, <2>1
    <3> HIDE DEF lv
    <3>2. LevelsAre([lv EXCEPT ![l].first = first], level, [firstOrder EXCEPT ![l] = first], prevEntry, nextEntry)
      BY <2>1, <3>1, SetLevelFirst
    <3>3. QED
      BY <3>1, <3>2
  <2>3. firstOrder' = [firstOrder EXCEPT ![l] = first]
    <3>1. firstOrder = [k \in LevelSlots |-> firstOrder[k]]
      BY DEF IInv, TypeOK
    <3>2. QED
      BY <1>1, <3>1 DEF UnlinkOrder, first, l
  <2>4. QED
    BY <2>2, <2>3 DEF LevelsAre
<1>9. AsOrders(c)' /\ AsLevels(c)'
  <2>1. b.best = best /\ b.priceMap = priceMap /\ b.usedLevels = usedLevels /\ b.freeLevel = freeLevel
    BY DEF SameBook, AsLevels
  <2>2. QED
    BY <1>6, <1>7, <1>8, <2>1 DEF AsOrders, AsLevels
<1>10. QED
  BY <1>6, <1>9 DEF SameBook

\* An order leaves both books.
LEMMA RemoveMirrored ==
  ASSUME IInv, NEW b, SameBook(b), NEW o \in usedOrders, CanRemove(o), RemoveOrder(o),
         \A p \in usedOrders' : qty'[p] = qty[p], NEW c, c = Client!RemoveOrder(b, o)
  PROVE  SameBook(c)'
<1>1. CASE prevOrder[o] # o
  BY <1>1, UnlinkMirrored DEF RemoveOrder, CanRemove
<1>2. CASE prevOrder[o] = o
  <2>1. PICK g : g = Client!Forget(b, o)
    OBVIOUS
  <2>2. /\ DOMAIN g = DOMAIN b /\ g.order = b.order /\ g.level = b.level /\ g.best = b.best
        /\ g.priceMap = b.priceMap /\ g.usedLevels = b.usedLevels /\ g.freeLevel = b.freeLevel
        /\ g.usedOrders = usedOrders' /\ g.freeOrder = freeOrder' /\ MapIs(g.oidToOrder, usedOrders, order)'
    BY <2>1, ForgetMirrored DEF RemoveOrder
  <2>3. /\ b.order[o].prev = o /\ b.order[o].side = order[o].side /\ b.order[o].price = order[o].price
        /\ Client!LevelAt(b, b.order[o].price) = LevelOf(o)
    BY <1>2, BookTyped, SameIndex DEF SameBook, AsOrders, OrdersAre, AsLevels, Client!LevelAt, LevelOf
  <2>4. c = Client!RemoveOrdersAtPrice(g, order[o].side, order[o].price, LevelOf(o))
    BY <2>1, <2>3 DEF Client!RemoveOrder
  <2>5. AsLevels(g) /\ BookFields \subseteq DOMAIN g
    BY <2>2 DEF SameBook, AsLevels
  <2>6. /\ RemoveOrdersAtPrice(order[o].side, PriceToIndex(order[o].price), LevelOf(o))
        /\ UNCHANGED <<level, firstOrder, freeLevel, order, prevOrder, nextOrder>> /\ LevelOf(o) # nullptr
        /\ usedOrders' \subseteq usedOrders
    BY <1>2 DEF RemoveOrder, CanRemove
  <2>7. /\ AsLevels(c)' /\ DOMAIN c = DOMAIN g /\ c.order = g.order /\ c.usedOrders = g.usedOrders
        /\ c.freeOrder = g.freeOrder /\ c.oidToOrder = g.oidToOrder
    BY <2>4, <2>5, <2>6, RemoveLevelMirrored
  <2>8. QtyAre(c.order, usedOrders', qty') /\ OrdersAre(c.order, order', prevOrder', nextOrder')
    BY <2>2, <2>6, <2>7 DEF QtyAre, SameBook, AsOrders
  <2>9. AsOrders(c)'
    BY <2>2, <2>7, <2>8 DEF QtyAre, OrdersAre, AsOrders
  <2>10. QED
    BY <2>2, <2>7, <2>9 DEF SameBook
<1>3. QED
  BY <1>1, <1>2

\* Book c is book b after a slot for the new order was taken.
Taken(b, c) ==
  /\ DOMAIN c = DOMAIN b /\ c.level = b.level /\ c.best = b.best /\ c.priceMap = b.priceMap
  /\ c.usedLevels = b.usedLevels /\ c.freeLevel = b.freeLevel
  /\ c.usedOrders = usedOrders' /\ c.freeOrder = freeOrder' /\ MapIs(c.oidToOrder, usedOrders, order)'
  /\ QtyAre(c.order, usedOrders, qty)'
  /\ OrdersAre(c.order, order', [prevOrder EXCEPT ![freeOrder] = nullptr],
               [nextOrder EXCEPT ![freeOrder] = nullptr])

\* An order takes a slot.
LEMMA TakeMirrored ==
  ASSUME IInv, pc = "match", NEW b, SameBook(b), NEW x, AllocateOrder(x),
         NEW u, u.moid = agg.moid, u.side = agg.side, u.price = agg.price, u.qty = leaves, u.moid \in OrderSlots,
         NEW c, c = Client!TakeOrder(b, u)
  PROVE  Taken(b, c)
<1> DEFINE o == freeOrder
           os == b.order
           m == b.oidToOrder
           new == Client!NewOrder(u, nullptr, nullptr)
<1>1. /\ o \in OrderSlots \ usedOrders /\ usedOrders' = usedOrders \union {o}
      /\ \A p \in usedOrders : order[p].moid # u.moid
  <2>1. o \in OrderSlots \ usedOrders /\ usedOrders' = usedOrders \union {o}
    BY DEF IInv, PoolsReady, AllocateOrder
  <2>2. agg.moid \in Nat /\ \A p \in usedOrders : order[p].moid \in Nat /\ order[p].moid < agg.moid
    BY RestingNumbers DEF IInv, CallOpen, TypeOK, Aggressors
  <2>3. QED
    BY <2>1, <2>2
<1>2. b.freeOrder = o /\ b.usedOrders = usedOrders /\ OrdersAre(os, order, prevOrder, nextOrder)
      /\ QtyAre(os, usedOrders, qty) /\ MapIs(m, usedOrders, order) /\ BookFields \subseteq DOMAIN b
  BY DEF SameBook, AsOrders
<1>3. c = [b EXCEPT !.usedOrders = usedOrders', !.freeOrder = freeOrder', !.oidToOrder[u.moid] = o, !.order[o] = new]
  BY <1>1, <1>2, SameIndex DEF Client!TakeOrder, AllocateOrder
<1> HIDE DEF new
<1>4. /\ DOMAIN c = DOMAIN b /\ c.level = b.level /\ c.best = b.best /\ c.priceMap = b.priceMap
      /\ c.usedLevels = b.usedLevels /\ c.freeLevel = b.freeLevel
      /\ c.usedOrders = usedOrders' /\ c.freeOrder = freeOrder' /\ c.oidToOrder = [m EXCEPT ![u.moid] = o]
      /\ c.order = [os EXCEPT ![o] = new]
  BY <1>2, <1>3 DEF BookFields
<1> HIDE DEF o, os, m
<1>5. /\ new.oid = u.moid /\ new.side = u.side /\ new.price = u.price /\ new.qty = u.qty
      /\ new.prev = nullptr /\ new.next = nullptr /\ OrderFields \subseteq DOMAIN new
  BY DEF new, Client!NewOrder, OrderFields
<1>6. /\ order'[o].moid = u.moid /\ order'[o].side = u.side /\ order'[o].price = u.price
      /\ qty'[o] = u.qty /\ \A p \in OrderSlots \ {o} : order'[p] = order[p] /\ qty'[p] = qty[p]
  BY <1>1, BookTyped DEF AllocateOrder, o
<1>7. OrdersAre(c.order, order', [prevOrder EXCEPT ![o] = nullptr], [nextOrder EXCEPT ![o] = nullptr])
  BY <1>1, <1>2, <1>4, <1>5, <1>6, BookTyped DEF OrdersAre
<1>8. QtyAre(c.order, usedOrders', qty')
  BY <1>1, <1>2, <1>4, <1>5, <1>6, BookTyped DEF QtyAre, OrdersAre
<1>9. MapIs(c.oidToOrder, usedOrders', order')
  <2> DEFINE m2 == c.oidToOrder
  <2>1. DOMAIN m2 = OrderSlots /\ m2[u.moid] = o /\ \A k \in OrderSlots : k # u.moid => m2[k] = m[k]
    BY <1>2, <1>4 DEF MapIs
  <2> HIDE DEF m2
  <2>2. \A k \in OrderSlots : m2[k] # nullptr => m2[k] \in usedOrders' /\ order'[m2[k]].moid = k
    BY <1>1, <1>2, <1>6, <2>1, BookTyped DEF MapIs
  <2>3. \A p \in usedOrders' : order'[p].moid \in OrderSlots /\ m2[order'[p].moid] = p
    BY <1>1, <1>2, <1>6, <2>1, BookTyped DEF MapIs
  <2>4. QED
    BY <2>1, <2>2, <2>3 DEF MapIs, m2
<1>10. QED
  BY <1>4, <1>7, <1>8, <1>9 DEF o, QtyAre, MapIs, Taken

\* An order goes to the end of the list of a level.
LEMMA QueueMirrored ==
  ASSUME IInv, NEW b, SameBook(b), RestAtLevel,
         NEW u, u.moid = agg.moid, u.side = agg.side, u.price = agg.price, u.qty = leaves, u.moid \in OrderSlots,
         NEW c, c = Client!AddOrder(b, u)
  PROVE  SameBook(c)'
<1> DEFINE o == freeOrder
           l == priceMap[AggIndex]
           first == firstOrder[l]
           last == prevOrder[first]
<1>1. /\ l # nullptr /\ l \in LevelSlots /\ first \in usedOrders /\ last \in usedOrders
      /\ o \in OrderSlots \ usedOrders
  <2>1. AggIndex \in PriceIndices /\ l # nullptr
    BY IndicesInRange DEF RestAtLevel, Rests, IInv
  <2>2. l \in usedLevels /\ first \in usedOrders
    BY <2>1 DEF IInv, BookInv, LevelsIndexed
  <2>3. QED
    BY <2>1, <2>2 DEF IInv, BookInv, FifoLists, TypeOK, PoolsReady
<1>2. PICK t : t = Client!TakeOrder(b, u)
  OBVIOUS
<1>3. pc = "match" /\ AllocateOrder(l)
  BY DEF RestAtLevel, Rests
<1>4. /\ DOMAIN t = DOMAIN b /\ t.level = b.level /\ t.best = b.best /\ t.priceMap = b.priceMap
      /\ t.usedLevels = b.usedLevels /\ t.freeLevel = b.freeLevel
      /\ t.usedOrders = usedOrders' /\ t.freeOrder = freeOrder' /\ MapIs(t.oidToOrder, usedOrders, order)'
      /\ QtyAre(t.order, usedOrders, qty)'
      /\ OrdersAre(t.order, order', [prevOrder EXCEPT ![o] = nullptr], [nextOrder EXCEPT ![o] = nullptr])
  <2> HIDE DEF o
  <2>1. Taken(b, t)
    BY <1>2, <1>3, TakeMirrored
  <2> QED
    BY <2>1 DEF Taken, o
<1>5. /\ b.freeOrder = o /\ BookFields \subseteq DOMAIN b /\ Client!LevelAt(b, u.price) = l
      /\ b.level[l].first = first
  BY <1>1, SameIndex DEF SameBook, AsOrders, AsLevels, LevelsAre, Client!LevelAt, AggIndex
<1> HIDE DEF l
<1>6. t.order[first].prev = last
  BY <1>1, <1>4, BookTyped DEF OrdersAre
<1> HIDE DEF first, last
<1> DEFINE os == t.order
           put == [os EXCEPT ![last].next = o, ![o].prev = last, ![o].next = first, ![first].prev = o]
<1>7. c = [t EXCEPT !.order = put]
  <2>1. c = Client!QueueOrder(t, o, l)
    BY <1>1, <1>2, <1>5 DEF Client!AddOrder
  <2>2. t.level[l].first = first
    BY <1>4, <1>5
  <2>3. QED
    BY <1>6, <2>1, <2>2 DEF Client!QueueOrder
<1>8. OrdersAre(put, order', prevOrder', nextOrder') /\ QtyAre(put, usedOrders', qty')
  <2> DEFINE p0 == [prevOrder EXCEPT ![o] = nullptr]
             n0 == [nextOrder EXCEPT ![o] = nullptr]
             n1 == [n0 EXCEPT ![last] = o]
             os1 == [os EXCEPT ![last].next = o]
             p1 == [p0 EXCEPT ![o] = last]
             os2 == [os1 EXCEPT ![o].prev = last]
             n2 == [n1 EXCEPT ![o] = first]
             os3 == [os2 EXCEPT ![o].next = first]
             p2 == [p1 EXCEPT ![first] = o]
             used == usedOrders'
             q == qty'
             d == order'
  <2>1. put = [os3 EXCEPT ![first].prev = o]
    OBVIOUS
  <2>2. n2 = nextOrder' /\ p2 = prevOrder'
    <3>1. /\ nextOrder' = [nextOrder EXCEPT ![last] = o, ![o] = first]
          /\ prevOrder' = [prevOrder EXCEPT ![o] = last, ![first] = o]
      BY DEF RestAtLevel, l, first, last
    <3>2. o # first /\ o # last
      BY <1>1
    <3>3. QED
      BY <3>1, <3>2
  <2>3. used \subseteq OrderSlots /\ QtyAre(os, used, q) /\ OrdersAre(os, d, p0, n0)
        /\ DOMAIN n0 = OrderSlots /\ DOMAIN p0 = OrderSlots
    BY <1>1, <1>3, <1>4, BookTyped DEF AllocateOrder
  <2> HIDE DEF put, os, used, q, d, p0, n0
  <2>4. OrdersAre(os1, d, p0, n1) /\ DOMAIN n1 = OrderSlots /\ QtyAre(os1, used, q)
    BY <2>3, SetOrderNext
  <2> HIDE DEF os1, n1
  <2>5. OrdersAre(os2, d, p1, n1) /\ DOMAIN p1 = OrderSlots /\ QtyAre(os2, used, q)
    BY <2>3, <2>4, SetOrderPrev
  <2> HIDE DEF os2, p1
  <2>6. OrdersAre(os3, d, p1, n2) /\ QtyAre(os3, used, q)
    BY <2>3, <2>4, <2>5, SetOrderNext
  <2> HIDE DEF os3, n2
  <2>7. OrdersAre(put, d, p2, n2) /\ QtyAre(put, used, q)
    BY <2>1, <2>3, <2>5, <2>6, SetOrderPrev
  <2>8. QED
    BY <2>2, <2>7 DEF used, q, d
<1> HIDE DEF put
<1>9. /\ DOMAIN c = DOMAIN b /\ c.order = put /\ c.level = b.level /\ c.best = b.best /\ c.priceMap = b.priceMap
      /\ c.usedLevels = b.usedLevels /\ c.freeLevel = b.freeLevel
      /\ c.usedOrders = usedOrders' /\ c.freeOrder = freeOrder' /\ MapIs(c.oidToOrder, usedOrders, order)'
  <2>1. BookFields \subseteq DOMAIN t
    BY <1>4, <1>5
  <2>2. QED
    BY <1>4, <1>7, <2>1 DEF BookFields
<1>10. AsOrders(c)'
  BY <1>8, <1>9 DEF AsOrders, OrdersAre, QtyAre
<1>11. AsLevels(c)'
  <2>1. AsLevels(b) /\ UNCHANGED <<level, firstOrder, prevEntry, nextEntry, usedLevels, freeLevel, best, priceMap>>
    BY DEF SameBook, RestAtLevel, levelVars
  <2>2. QED
    BY <1>9, <2>1 DEF AsLevels
<1>12. QED
  BY <1>5, <1>9, <1>10, <1>11 DEF SameBook

\* Book a after level l was added to it, and what its fields are then.
WithLevel(a, l, new, used, free, i) ==
  [a EXCEPT !.level[l] = new, !.usedLevels = used, !.freeLevel = free, !.priceMap[i] = l]
HasLevel(c, a, l, new, used, free, i) ==
  /\ DOMAIN c = DOMAIN a /\ c.order = a.order /\ c.level = [a.level EXCEPT ![l] = new] /\ c.best = a.best
  /\ c.priceMap = [a.priceMap EXCEPT ![i] = l] /\ c.usedLevels = used /\ c.freeLevel = free
  /\ c.usedOrders = a.usedOrders /\ c.freeOrder = a.freeOrder /\ c.oidToOrder = a.oidToOrder
LEMMA WithLevelHas ==
  ASSUME NEW a, BookFields \subseteq DOMAIN a, NEW l, NEW new, NEW used, NEW free, NEW i
  PROVE  HasLevel(WithLevel(a, l, new, used, free, i), a, l, new, used, free, i)
BY DEF BookFields, WithLevel, HasLevel

\* An order takes a slot and a level of its own.
LEMMA OpenedMirrored ==
  ASSUME IInv, pc = "match", NEW b, SameBook(b), AllocateOrder(nullptr), LinkAlone(freeOrder), AllocateLevel,
         priceMap[AggIndex] = nullptr,
         NEW near, near = IF best[agg.side] = nullptr THEN freeLevel ELSE nullptr,
         prevEntry' = [prevEntry EXCEPT ![freeLevel] = near], nextEntry' = [nextEntry EXCEPT ![freeLevel] = near],
         NEW u, u.moid = agg.moid, u.side = agg.side, u.price = agg.price, u.qty = leaves, u.moid \in OrderSlots,
         NEW c, c = Client!Opened(b, u)
  PROVE  /\ BookFields \subseteq DOMAIN c /\ AsOrders(c)' /\ MapIs(c.oidToOrder, usedOrders, order)'
         /\ c.best = best /\ c.priceMap = priceMap' /\ c.usedLevels = usedLevels' /\ c.freeLevel = freeLevel'
         /\ LevelsAre(c.level, level, firstOrder, prevEntry, nextEntry)'
<1> DEFINE o == freeOrder
           l == freeLevel
<1>1. o \in OrderSlots /\ l \in LevelSlots
  BY DEF IInv, TypeOK
<1>2. PICK t : t = Client!TakeOrder(b, u)
  OBVIOUS
<1>3. /\ DOMAIN t = DOMAIN b /\ t.level = b.level /\ t.best = b.best /\ t.priceMap = b.priceMap
      /\ t.usedLevels = b.usedLevels /\ t.freeLevel = b.freeLevel
      /\ t.usedOrders = usedOrders' /\ t.freeOrder = freeOrder' /\ MapIs(t.oidToOrder, usedOrders, order)'
      /\ QtyAre(t.order, usedOrders, qty)'
      /\ OrdersAre(t.order, order', [prevOrder EXCEPT ![o] = nullptr], [nextOrder EXCEPT ![o] = nullptr])
  <2> HIDE DEF o
  <2>1. Taken(b, t)
    BY <1>2, TakeMirrored
  <2> QED
    BY <2>1 DEF Taken, o
<1>4. /\ b.freeOrder = o /\ BookFields \subseteq DOMAIN b /\ AsLevels(b)
  BY DEF SameBook, AsOrders
<1> DEFINE os == t.order
           os1 == [os EXCEPT ![o].prev = o]
           alone == [os1 EXCEPT ![o].next = o]
           a == [t EXCEPT !.order = alone]
<1>5. OrdersAre(alone, order', prevOrder', nextOrder') /\ QtyAre(alone, usedOrders', qty')
  <2> DEFINE p0 == [prevOrder EXCEPT ![o] = nullptr]
             n0 == [nextOrder EXCEPT ![o] = nullptr]
             p1 == [p0 EXCEPT ![o] = o]
             n1 == [n0 EXCEPT ![o] = o]
             used == usedOrders'
             q == qty'
             d == order'
  <2>1. n1 = nextOrder' /\ p1 = prevOrder'
    BY DEF LinkAlone
  <2>2. used \subseteq OrderSlots /\ QtyAre(os, used, q) /\ OrdersAre(os, d, p0, n0)
        /\ DOMAIN n0 = OrderSlots /\ DOMAIN p0 = OrderSlots
    BY <1>1, <1>3, BookTyped DEF AllocateOrder
  <2> HIDE DEF alone, os, used, q, d, p0, n0
  <2>3. OrdersAre(os1, d, p1, n0) /\ QtyAre(os1, used, q)
    BY <2>2, SetOrderPrev
  <2> HIDE DEF os1, p1
  <2>4. OrdersAre(alone, d, p1, n1) /\ QtyAre(alone, used, q)
    BY <2>2, <2>3, SetOrderNext DEF alone
  <2>5. QED
    BY <2>1, <2>4 DEF used, q, d
<1>6. Client!Opened(b, u) = Client!OpenLevel(a, o, u.side, u.price)
  <2>1. a = [t EXCEPT !.order[o].prev = o, !.order[o].next = o]
    BY <1>3, <1>4 DEF BookFields
  <2>2. QED
    BY <1>2, <1>4, <2>1 DEF Client!Opened
<1> DEFINE new == Client!NewLevel(u.side, u.price, o, near, near)
<1>7. /\ DOMAIN a = DOMAIN b /\ a.order = alone /\ a.level = b.level /\ a.best = best /\ a.priceMap = priceMap
      /\ a.usedLevels = usedLevels /\ a.freeLevel = l /\ a.usedOrders = usedOrders' /\ a.freeOrder = freeOrder'
      /\ a.oidToOrder = t.oidToOrder
  <2> HIDE DEF alone
  <2>1. QED
    BY <1>3, <1>4 DEF AsLevels, BookFields
<1> HIDE DEF alone, a
<1>8. c = [a EXCEPT !.level[l] = new, !.usedLevels = usedLevels', !.freeLevel = freeLevel', !.priceMap[AggIndex] = l]
  BY <1>6, <1>7, SameIndex DEF Client!OpenLevel, AllocateLevel, AggIndex
<1> HIDE DEF new
<1>9. /\ DOMAIN c = DOMAIN b /\ c.order = alone /\ c.level = [b.level EXCEPT ![l] = new] /\ c.best = best
      /\ c.priceMap = priceMap' /\ c.usedLevels = usedLevels' /\ c.freeLevel = freeLevel'
      /\ c.usedOrders = usedOrders' /\ c.freeOrder = freeOrder' /\ c.oidToOrder = t.oidToOrder
  <2>1. priceMap' = [priceMap EXCEPT ![AggIndex] = l]
    BY DEF AllocateLevel
  <2>2. BookFields \subseteq DOMAIN a
    BY <1>4, <1>7
  <2>3. c = WithLevel(a, l, new, usedLevels', freeLevel', AggIndex)
    BY <1>8 DEF WithLevel
  <2>4. HasLevel(c, a, l, new, usedLevels', freeLevel', AggIndex)
    BY <2>2, <2>3, WithLevelHas
  <2>5. QED
    BY <1>7, <2>1, <2>4 DEF HasLevel
<1>10. LevelsAre(c.level, level', firstOrder', prevEntry', nextEntry')
  <2>1. /\ new.side = agg.side /\ new.price = agg.price /\ new.first = o /\ new.prev = near /\ new.next = near
        /\ LevelFields \subseteq DOMAIN new
    BY DEF new, Client!NewLevel, LevelFields
  <2>2. /\ level' = [level EXCEPT ![l] = [side |-> agg.side, price |-> agg.price]]
        /\ firstOrder' = [firstOrder EXCEPT ![l] = o]
    BY DEF AllocateLevel
  <2>3. LevelsAre(b.level, level, firstOrder, prevEntry, nextEntry)
    BY <1>4 DEF AsLevels
  <2>4. QED
    BY <1>1, <1>9, <2>1, <2>2, <2>3, BookTyped DEF LevelsAre
<1>11. AsOrders(c)'
  BY <1>5, <1>9 DEF AsOrders, OrdersAre, QtyAre
<1>12. QED
  BY <1>3, <1>4, <1>9, <1>10, <1>11 DEF LevelsAre

-----------------------------------------------------------------------------
\* The place of a new level: the exchange looks for it step by step, the client at once.

LEMMA VisitsTyped ==
  ASSUME NEW S, NEW h \in S \union {nullptr}, NEW f, \A x \in S : f[x] \in S \union {nullptr}, NEW k \in Nat,
         NEW v, IsVisits(v, h, f, k)
  PROVE  \A n \in 0 .. k : v[n] \in S \union {nullptr}
<1> DEFINE Wrong == {n \in 0 .. k : v[n] \notin S \union {nullptr}}
<1> SUFFICES ASSUME Wrong # {} PROVE FALSE
  OBVIOUS
<1> HIDE DEF Wrong
<1>1. PICK n \in Wrong : \A m \in Wrong : n <= m
  <2>1. Wrong \in SUBSET Nat
    BY DEF Wrong
  <2>2. QED
    BY <2>1, MinIsLeast
<1>2. n \in 0 .. k /\ v[n] \notin S \union {nullptr}
  BY DEF Wrong
<1>3. v[n] = IF n = 0 THEN h ELSE IF v[n - 1] = nullptr THEN nullptr ELSE f[v[n - 1]]
  BY <1>2 DEF IsVisits
<1>4. n # 0
  BY <1>2, <1>3
<1>5. n - 1 \in 0 .. k /\ n - 1 \notin Wrong
  BY <1>1, <1>2, <1>4
<1>6. v[n - 1] \in S \union {nullptr}
  BY <1>5 DEF Wrong
<1>7. QED
  BY <1>2, <1>3, <1>4, <1>6

LEMMA PathIs ==
  ASSUME NEW f, NEW x
  PROVE  IsVisits(Client!Path(f, x), f[x], f, ME_MAX_PRICE_LEVELS - 1)
<1> DEFINE k == ME_MAX_PRICE_LEVELS - 1
           h == f[x]
           path == Client!Path(f, x)
<1>1. k \in Nat
  BY ConstantsAssumption
<1>2. path = CHOOSE v : IsVisits(v, h, f, k)
  BY DEF Client!Path, IsVisits, Client!LevelSlots
<1> HIDE DEF path, h, k
<1>3. \E v : IsVisits(v, h, f, k)
  BY <1>1, VisitsExist
<1>4. IsVisits(path, h, f, k)
  BY <1>2, <1>3, Zenon
<1>5. QED
  BY <1>4 DEF path, h, k

\* The levels after the best one, and where the search ends.
Ahead == Client!Path(nextEntry, best[agg.side])
Stops == {n \in LevelSlots : Ahead[n] \in {nullptr, best[agg.side]} \/ ~NewLessAggressive(Ahead[n])}
Searching ==
  IF NewLessAggressive(best[agg.side])
    THEN /\ Stops # {} => \E k \in LevelSlots : walk.target = Ahead[k] /\ \A n \in Stops : k <= n
         /\ walk.addAfter \/ ~NewLessAggressive(walk.target)
    ELSE walk.target = best[agg.side] /\ ~walk.addAfter

LEMMA PathLeads ==
  ASSUME NEW f \in [LevelSlots -> LevelPtrs], NEW x \in LevelSlots, NEW v, v = Client!Path(f, x)
  PROVE  /\ \A n \in LevelSlots : v[n] \in LevelPtrs
         /\ 0 \in LevelSlots /\ v[0] = f[x]
         /\ \A n \in LevelSlots \ {0} : n - 1 \in LevelSlots /\ (v[n - 1] # nullptr => v[n] = f[v[n - 1]])
<1> DEFINE k == ME_MAX_PRICE_LEVELS - 1
<1>1. IsVisits(v, f[x], f, k)
  BY PathIs
<1>2. f[x] \in LevelSlots \union {nullptr} /\ \A y \in LevelSlots : f[y] \in LevelSlots \union {nullptr}
  BY DEF LevelPtrs
<1>3. k \in Nat /\ LevelSlots = 0 .. k
  BY ConstantsAssumption DEF LevelSlots
<1> HIDE DEF k
<1>4. \A n \in 0 .. k : v[n] \in LevelSlots \union {nullptr}
  BY <1>1, <1>2, <1>3, VisitsTyped
<1>5. \A n \in 0 .. k : v[n] = IF n = 0 THEN f[x] ELSE IF v[n - 1] = nullptr THEN nullptr ELSE f[v[n - 1]]
  BY <1>1 DEF IsVisits
<1>6. QED
  BY <1>3, <1>4, <1>5 DEF LevelPtrs

LEMMA AheadIs ==
  ASSUME TypeOK, best[agg.side] \in LevelSlots
  PROVE  /\ \A n \in LevelSlots : Ahead[n] \in LevelPtrs
         /\ \A n \in LevelSlots \ {0} : n - 1 \in LevelSlots
              /\ (Ahead[n - 1] # nullptr => Ahead[n] = nextEntry[Ahead[n - 1]])
<1>1. PICK v : v = Ahead
  OBVIOUS
<1>2. PICK f : f = nextEntry
  OBVIOUS
<1>3. PICK x : x = best[agg.side]
  OBVIOUS
<1>4. f \in [LevelSlots -> LevelPtrs] /\ x \in LevelSlots /\ v = Client!Path(f, x)
  BY <1>1, <1>2, <1>3 DEF TypeOK, Ahead
<1>5. QED
  BY <1>1, <1>2, <1>4, PathLeads

\* Once the search is over, its target is the client's.
LEMMA TargetIs ==
  ASSUME TypeOK, pc = "walk", best[agg.side] \in LevelSlots, Searching, walk.addAfter => walk.target = best[agg.side],
         NEW b, b.best = best, LevelsAre(b.level, level, firstOrder, prevEntry, nextEntry),
         Client!Target(b, agg.side, agg.price) # nullptr
  PROVE  Client!Target(b, agg.side, agg.price) = walk.target
<1> DEFINE first == best[agg.side]
           at == Ahead
           less(x) == NewLessAggressive(x)
           cs == {n \in LevelSlots : at[n] \in {nullptr, first}
                    \/ ~LessAggressive(agg.side, agg.price, b.level[at[n]].price)}
<1>1. \A x \in LevelSlots : LessAggressive(agg.side, agg.price, b.level[x].price) <=> less(x)
  BY DEF LevelsAre, NewLessAggressive
<1>2. [l \in LevelSlots |-> b.level[l].next] = nextEntry
  <2>1. nextEntry = [l \in LevelSlots |-> nextEntry[l]]
    BY DEF TypeOK
  <2>2. QED
    BY <2>1 DEF LevelsAre
<1>3. cs = Stops
  BY <1>1, AheadIs DEF Stops, LevelPtrs
<1>4. Client!Target(b, agg.side, agg.price)
        = CASE ~LessAggressive(agg.side, agg.price, b.level[first].price) -> first
            [] cs = {} -> nullptr
            [] OTHER -> at[Client!Min(cs)]
  <2>1. Client!LevelSlots = LevelSlots /\ \A s, p, q : Client!LessAggressive(s, p, q) = LessAggressive(s, p, q)
    BY SameIndex
  <2>2. at = Client!Path([l \in LevelSlots |-> b.level[l].next], first)
    BY <1>2 DEF Ahead
  <2>3. QED
    BY <2>1, <2>2 DEF Client!Target
<1>5. CASE ~less(first)
  BY <1>1, <1>4, <1>5 DEF Searching
<1>6. CASE less(first)
  <2>1. Stops # {} /\ Client!Target(b, agg.side, agg.price) = at[Client!Min(Stops)]
    BY <1>1, <1>3, <1>4, <1>6
  <2>2. PICK k \in LevelSlots : walk.target = at[k] /\ \A n \in Stops : k <= n
    BY <1>6, <2>1 DEF Searching
  <2>3. k \in Stops
    BY <1>6, <2>2 DEF Searching, Stops
  <2>4. Stops \in SUBSET Nat
    BY DEF Stops, LevelSlots
  <2>5. Client!Min(Stops) \in Stops /\ \A n \in Stops : Client!Min(Stops) <= n
    <3>1. Client!Min(Stops) = Text!Min(Stops)
      BY DEF Text!Min, Client!Min
    <3>2. Text!Min(Stops) \in Stops /\ \A n \in Stops : Text!Min(Stops) <= n
      BY <2>1, <2>4, MinIsLeast
    <3>3. QED
      BY <3>1, <3>2
  <2>6. Client!Min(Stops) = k
    <3> DEFINE m == Client!Min(Stops)
    <3>1. m \in Nat /\ k \in Nat
      BY <2>3, <2>4, <2>5
    <3>2. m <= k /\ k <= m
      BY <2>2, <2>3, <2>5
    <3> HIDE DEF m
    <3>3. m = k
      BY <3>1, <3>2
    <3>4. QED
      BY <3>3 DEF m
  <2>7. QED
    BY <2>1, <2>2, <2>6
<1>7. QED
  BY <1>5, <1>6

\* The new level gets its place in both books.
LEMMA LinkMirrored ==
  ASSUME IInv, pc = "walk", NEW b, SameBook(b), InsertAtEnd \/ InsertBeforeTarget, Searching,
         best[agg.side] # nullptr, Client!Target(b, agg.side, agg.price) # nullptr,
         NEW c, c = Client!AddOrdersAtPrice(b, walk.level, agg.side, agg.price)
  PROVE  SameBook(c)'
<1> DEFINE l == walk.level
           t == walk.target
           s == agg.side
           first == best[s]
           last == prevEntry[t]
           lv == b.level
           linked == [lv EXCEPT ![l].prev = last, ![l].next = t, ![last].next = l, ![t].prev = l]
           after == [lv EXCEPT ![l].prev = last, ![nextEntry[last]].prev = l, ![l].next = nextEntry[last],
                               ![last].next = l]
           nx == [nextEntry EXCEPT ![l] = t, ![last] = l]
<1>1. s \in Sides /\ first \in LevelSlots /\ t \in LevelSlots /\ l \in LevelSlots /\ last \in LevelSlots
  BY DEF IInv, TypeOK, LevelPtrs, Aggressors, Walks, InsertAtEnd, InsertBeforeTarget, CanInsert
<1>2. BookFields \subseteq DOMAIN b /\ b.best = best /\ LevelsAre(lv, level, firstOrder, prevEntry, nextEntry)
  BY DEF SameBook, AsLevels
<1>3. lv[t].prev = last /\ lv[last].next = nextEntry[last] /\ lv[first].price = level[first].price
  BY <1>1, <1>2 DEF LevelsAre
<1>4. Client!Worse(b, s, agg.price) <=> NewLessAggressive(first)
  BY <1>2, <1>3, SameIndex DEF Client!Worse, NewLessAggressive
<1>5. Client!Target(b, s, agg.price) = t
  <2>1. walk.addAfter => walk.target = first
    BY DEF InsertAtEnd, AtEnd, InsertBeforeTarget, AtTarget
  <2>2. QED
    BY <1>1, <1>2, <2>1, TargetIs DEF IInv
<1>6. c = IF NewLessAggressive(first) /\ t = first THEN [b EXCEPT !.level = after]
          ELSE IF NewLessAggressive(first)
                 THEN [b EXCEPT !.best[s] = l,
                        !.level = IF linked[t].next = first THEN [linked EXCEPT ![t].next = l] ELSE linked]
                 ELSE [b EXCEPT !.level = linked]
  <2>1. c = Client!LinkLevel(b, l, s, agg.price, t)
    BY <1>2, <1>5 DEF Client!AddOrdersAtPrice
  <2>2. Client!AppendLevel(lv, l, last) = after
    BY <1>3 DEF Client!AppendLevel
  <2>3. QED
    BY <1>2, <1>3, <1>4, <2>1, <2>2 DEF Client!LinkLevel
<1>7. UNCHANGED <<orderVars, level, firstOrder, usedLevels, freeLevel, priceMap>>
  BY DEF InsertAtEnd, InsertBeforeTarget
<1>8. \A p, n : DOMAIN p = LevelSlots /\ DOMAIN n = LevelSlots /\ LevelsAre(lv, level, firstOrder, p, n) =>
        /\ LevelsAre(linked, level, firstOrder, [p EXCEPT ![l] = last, ![t] = l], [n EXCEPT ![l] = t, ![last] = l])
        /\ LevelsAre(after, level, firstOrder, [p EXCEPT ![l] = last, ![nextEntry[last]] = l],
                     [n EXCEPT ![l] = nextEntry[last], ![last] = l])
  <2> SUFFICES ASSUME NEW p, NEW n, DOMAIN p = LevelSlots, DOMAIN n = LevelSlots,
                      LevelsAre(lv, level, firstOrder, p, n)
               PROVE  /\ LevelsAre(linked, level, firstOrder, [p EXCEPT ![l] = last, ![t] = l],
                                   [n EXCEPT ![l] = t, ![last] = l])
                      /\ LevelsAre(after, level, firstOrder, [p EXCEPT ![l] = last, ![nextEntry[last]] = l],
                                   [n EXCEPT ![l] = nextEntry[last], ![last] = l])
    OBVIOUS
  <2> DEFINE lv1 == [lv EXCEPT ![l].prev = last]
             p1 == [p EXCEPT ![l] = last]
             x == nextEntry[last]
  <2>1. LevelsAre(lv1, level, firstOrder, p1, n) /\ DOMAIN p1 = LevelSlots
    BY SetLevelPrev
  <2> HIDE DEF lv1, p1, l, t, last, x
  <2>2. LevelsAre(linked, level, firstOrder, [p1 EXCEPT ![t] = l], [n EXCEPT ![l] = t, ![last] = l])
    <3> DEFINE lv2 == [lv1 EXCEPT ![l].next = t]
               n2 == [n EXCEPT ![l] = t]
               lv3 == [lv2 EXCEPT ![last].next = l]
               n3 == [n2 EXCEPT ![last] = l]
    <3>1. linked = [lv3 EXCEPT ![t].prev = l]
      BY DEF lv1
    <3> HIDE DEF linked
    <3>2. LevelsAre(lv2, level, firstOrder, p1, n2) /\ DOMAIN n2 = LevelSlots
      BY <2>1, SetLevelNext
    <3> HIDE DEF lv2, n2
    <3>3. LevelsAre(lv3, level, firstOrder, p1, n3)
      BY <3>2, SetLevelNext
    <3> HIDE DEF lv3, n3
    <3>4. LevelsAre(linked, level, firstOrder, [p1 EXCEPT ![t] = l], n3)
      BY <2>1, <3>1, <3>3, SetLevelPrev
    <3>5. QED
      BY <3>4 DEF n3, n2
  <2>3. LevelsAre(after, level, firstOrder, [p1 EXCEPT ![x] = l], [n EXCEPT ![l] = x, ![last] = l])
    <3> DEFINE lv2 == [lv1 EXCEPT ![x].prev = l]
               p2 == [p1 EXCEPT ![x] = l]
               lv3 == [lv2 EXCEPT ![l].next = x]
               n2 == [n EXCEPT ![l] = x]
    <3>1. after = [lv3 EXCEPT ![last].next = l]
      BY DEF lv1, x
    <3> HIDE DEF after
    <3>2. LevelsAre(lv2, level, firstOrder, p2, n)
      BY <2>1, SetLevelPrev
    <3> HIDE DEF lv2, p2
    <3>3. LevelsAre(lv3, level, firstOrder, p2, n2) /\ DOMAIN n2 = LevelSlots
      BY <3>2, SetLevelNext
    <3> HIDE DEF lv3, n2
    <3>4. LevelsAre(after, level, firstOrder, p2, [n2 EXCEPT ![last] = l])
      BY <3>1, <3>3, SetLevelNext
    <3>5. QED
      BY <3>4 DEF n2, p2
  <2>4. QED
    BY <2>2, <2>3 DEF p1, x
<1>9. DOMAIN prevEntry = LevelSlots /\ DOMAIN nextEntry = LevelSlots
  BY BookTyped
<1>10. DOMAIN c = DOMAIN b /\ c.best = best' /\ LevelsAre(c.level, level, firstOrder, prevEntry', nextEntry')
       /\ c.order = b.order /\ c.usedOrders = b.usedOrders /\ c.freeOrder = b.freeOrder /\ c.oidToOrder = b.oidToOrder
       /\ c.usedLevels = b.usedLevels /\ c.freeLevel = b.freeLevel /\ c.priceMap = b.priceMap
  <2> DEFINE LinkedAre == LevelsAre(linked, level, firstOrder, [prevEntry EXCEPT ![l] = last, ![t] = l], nx)
             AfterAre == LevelsAre(after, level, firstOrder, [prevEntry EXCEPT ![l] = last, ![nextEntry[last]] = l],
                                   [nextEntry EXCEPT ![l] = nextEntry[last], ![last] = l])
  <2>1. LinkedAre /\ AfterAre
    BY <1>2, <1>8, <1>9
  <2>2. CASE InsertAtEnd
    <3>1. NewLessAggressive(first) /\ t = first
      BY <2>2 DEF InsertAtEnd, AtEnd, Searching
    <3>2. /\ prevEntry' = [prevEntry EXCEPT ![l] = last, ![nextEntry[last]] = l]
          /\ nextEntry' = [nextEntry EXCEPT ![l] = nextEntry[last], ![last] = l]
          /\ best' = best
      BY <2>2 DEF InsertAtEnd
    <3>3. LevelsAre(after, level, firstOrder, prevEntry', nextEntry')
      BY <2>1, <3>2
    <3> HIDE DEF after, linked, LinkedAre, AfterAre, first, t
    <3>4. c = [b EXCEPT !.level = after]
      BY <1>6, <3>1
    <3>5. QED
      BY <1>2, <3>2, <3>3, <3>4 DEF BookFields
  <2>3. CASE InsertBeforeTarget
    <3>1. ~(NewLessAggressive(first) /\ t = first)
      BY <2>3 DEF InsertBeforeTarget, AtTarget, Searching
    <3>2. prevEntry' = [prevEntry EXCEPT ![l] = last, ![t] = l]
      BY <2>3 DEF InsertBeforeTarget
    <3>3. CASE ~NewLessAggressive(first)
      <4>1. nextEntry' = nx /\ best' = best
        BY <2>3, <3>3 DEF InsertBeforeTarget, BecomesBest, NewLessAggressive
      <4>2. LevelsAre(linked, level, firstOrder, prevEntry', nextEntry')
        BY <2>1, <3>2, <4>1
      <4> HIDE DEF after, linked, LinkedAre, AfterAre, first, t, nx
      <4>3. c = [b EXCEPT !.level = linked]
        BY <1>6, <3>3
      <4>4. QED
        BY <1>2, <4>1, <4>2, <4>3 DEF BookFields
    <3>4. CASE NewLessAggressive(first)
      <4>1. /\ nextEntry' = IF nx[t] = first THEN [nx EXCEPT ![t] = l] ELSE nx
            /\ best' = [best EXCEPT ![s] = l]
        BY <2>3, <3>4 DEF InsertBeforeTarget, BecomesBest, NewLessAggressive
      <4>2. LevelsAre(linked, level, firstOrder, prevEntry', nx) /\ DOMAIN nx = LevelSlots
        BY <1>9, <2>1, <3>2
      <4> HIDE DEF after, linked, LinkedAre, AfterAre, first, t, nx, l
      <4> DEFINE ends == IF linked[t].next = first THEN [linked EXCEPT ![t].next = l] ELSE linked
      <4>3. c = [b EXCEPT !.best[s] = l, !.level = ends]
        BY <1>6, <3>1, <3>4
      <4>4. linked[t].next = nx[t]
        BY <1>1, <4>2 DEF LevelsAre
      <4>5. LevelsAre([linked EXCEPT ![t].next = l], level, firstOrder, prevEntry', [nx EXCEPT ![t] = l])
        BY <4>2, SetLevelNext
      <4>6. LevelsAre(ends, level, firstOrder, prevEntry', nextEntry')
        BY <4>1, <4>2, <4>4, <4>5
      <4> HIDE DEF ends
      <4>7. QED
        BY <1>2, <4>1, <4>3, <4>6 DEF BookFields
    <3>5. QED
      BY <3>3, <3>4
  <2>4. QED
    BY <2>2, <2>3
<1> HIDE DEF l, t, s, first, last, lv, linked, after, nx
<1>11. AsOrders(c)' /\ MapIs(c.oidToOrder, usedOrders, order)'
  BY <1>7, <1>10 DEF SameBook, AsOrders, orderVars, OrdersAre, QtyAre, MapIs
<1>12. AsLevels(c)'
  BY <1>7, <1>10 DEF SameBook, AsLevels, LevelsAre
<1>13. QED
  BY <1>2, <1>10, <1>11, <1>12 DEF SameBook

-----------------------------------------------------------------------------
\* The client's book after the update on its way, and while a new level gets its place.

\* The book that update u makes of b, if the client's process survives it.
Yields(b, u, c) ==
  \/ u.type = "ADD" /\ Client!CanAdd(b, u) /\ c = Client!AddOrder(b, u)
  \/ LET o == Client!OrderOf(b, u.moid)
     IN u.type = "MODIFY" /\ o # nullptr /\ c = [b EXCEPT !.order[o].qty = u.qty]
  \/ LET o == Client!OrderOf(b, u.moid)
     IN u.type = "CANCEL" /\ Client!CanRemove(b, o) /\ c = Client!RemoveOrder(b, o)
NextSame(b, u) == \A c : Yields(b, u, c) => SameBook(c)
Reaches(b, f) ==
  \/ f = <<>> /\ SameBook(b)
  \/ \E u : AfterTrade(f, u) /\ u.type # "TRADE" /\ u.type # "CLEAR" /\ NextSame(b, u)

\* The update of the order whose level is still without a place.
Arriving == Update("ADD", agg.moid, agg.side, agg.price, qty[walk.order], order[walk.order].prio)
Placing(b, u) ==
  /\ Client!LevelAt(b, u.price) = nullptr /\ b.best[u.side] # nullptr /\ walk.level = b.freeLevel
  /\ best[agg.side] # nullptr /\ Searching /\ SameBook(Client!Opened(b, u))

MirrorInv ==
  /\ recoveries \in Nat
  /\ recoveries = 0 /\ ended = "no" =>
       /\ pc \in {"idle", "match"} => Reaches(book, feed)
       /\ pc = "walk" => feed = <<>> /\ (Client!CanAdd(book, Arriving) => Placing(book, Arriving))

\* Nothing was sent.
LEMMA QuietMirrors ==
  ASSUME NEW b, SameBook(b), UNCHANGED <<orderVars, levelVars, indexVars>>, updates' = <<>>
  PROVE  Reaches(b, updates)'
<1>1. SameBook(b)'
  BY DEF SameBook, AsOrders, AsLevels, OrdersAre, QtyAre, LevelsAre, MapIs, orderVars, levelVars, indexVars
<1>2. QED
  BY <1>1 DEF Reaches

\* The client finds the order of a cancel.
LEMMA RemoveMirrors ==
  ASSUME IInv, NEW b, SameBook(b), NEW o \in usedOrders, CanRemove(o), RemoveOrder(o),
         \A p \in usedOrders' : qty'[p] = qty[p],
         NEW u, u.type = "CANCEL", u.moid = order[o].moid, AfterTrade(updates', u)
  PROVE  Reaches(b, updates)'
<1>1. ConstantsAssumption /\ b.oidToOrder[u.moid] = o /\ u.moid \in OrderSlots
  BY ConstantsAssumption DEF SameBook, MapIs
<1>2. Client!OrderOf(b, u.moid) = o
  BY <1>1 DEF Client!OrderOf, OrderSlots, ConstantsAssumption
<1>3. ASSUME NEW c, Yields(b, u, c) PROVE SameBook(c)'
  <2>1. c = Client!RemoveOrder(b, o)
    BY <1>2, <1>3 DEF Yields
  <2>2. QED
    BY <2>1, RemoveMirrored
<1>4. NextSame(b, u)'
  BY <1>3 DEF NextSame, Yields
<1>5. QED
  BY <1>4 DEF Reaches

LEMMA CancelMirrors ==
  ASSUME IInv, NEW b, SameBook(b), NEW client \in Clients, NEW id \in OrderIds, Cancel(client, id)
  PROVE  Reaches(b, updates)'
<1> DEFINE o == cidOid[client][id]
<1>1. o \in usedOrders
  BY DEF Cancel, IInv, BookInv, ClientMapSound
<1>2. PICK u : u = Update("CANCEL", order[o].moid, order[o].side, order[o].price, 0, order[o].prio)
  OBVIOUS
<1>3. u.type = "CANCEL" /\ u.moid = order[o].moid /\ AfterTrade(updates', u)
  BY <1>2 DEF Update, Cancel, Send, AfterTrade
<1>4. CanRemove(o) /\ RemoveOrder(o) /\ qty' = qty
  BY DEF Cancel
<1> HIDE DEF o
<1>5. QED
  BY <1>1, <1>3, <1>4, RemoveMirrors

LEMMA MatchFullyMirrors ==
  ASSUME IInv, NEW b, SameBook(b), MatchFully
  PROVE  Reaches(b, updates)'
<1> DEFINE o == Passive
<1>1. CanRemove(o) /\ RemoveOrder(o) /\ qty' = [qty EXCEPT ![o] = 0]
  BY DEF MatchFully
<1>2. o \in usedOrders /\ usedOrders' = usedOrders \ {o}
  BY <1>1 DEF CanRemove, RemoveOrder
<1>3. \A p \in usedOrders' : qty'[p] = qty[p]
  BY <1>1, <1>2, BookTyped
<1>4. PICK u : u = Update("CANCEL", order[o].moid, order[o].side, order[o].price, qty[o], nullptr)
  OBVIOUS
<1>5. u.type = "CANCEL" /\ u.moid = order[o].moid
  BY <1>4 DEF Update
<1>6. AfterTrade(updates', u)
  <2>1. updates' = <<Trade(o, qty[o]), u>> /\ Trade(o, qty[o]).type = "TRADE"
    BY <1>4 DEF MatchFully, Send, Trade, Update
  <2>2. QED
    BY <2>1 DEF AfterTrade
<1> HIDE DEF o
<1>7. QED
  BY <1>1, <1>2, <1>3, <1>5, <1>6, RemoveMirrors

\* An order that is reduced, or that left the book before.
LEMMA MatchPartlyMirrors ==
  ASSUME IInv, Stale, NEW b, SameBook(b), MatchPartly
  PROVE  Reaches(b, updates)'
<1> DEFINE o == Passive
<1>1. qty' = [qty EXCEPT ![o] = qty[o] - leaves] /\ pc = "match" /\ CanMatch
  BY DEF MatchPartly
<1>2. PICK u : u = Update("MODIFY", order[o].moid, order[o].side, order[o].price, qty[o] - leaves, order[o].prio)
  OBVIOUS
<1>3. u.type = "MODIFY" /\ u.moid = order[o].moid /\ u.qty = qty[o] - leaves
  BY <1>2 DEF Update
<1>4. AfterTrade(updates', u)
  <2>1. updates' = <<Trade(o, leaves), u>> /\ Trade(o, leaves).type = "TRADE"
    BY <1>2 DEF MatchPartly, Send, Trade, Update
  <2>2. QED
    BY <2>1 DEF AfterTrade
<1>5. o \in Handed
  <2>1. o = firstOrder[best[Opposite(agg.side)]] /\ best[Opposite(agg.side)] # nullptr
    BY <1>1 DEF CanMatch, Passive, BestOpposite
  <2>2. Opposite(agg.side) \in Sides /\ best[Opposite(agg.side)] \in LevelSlots
    BY <1>1, <2>1 DEF IInv, TypeOK, Aggressors, Sides, Opposite, LevelPtrs
  <2>3. QED
    BY <1>1, <2>1, <2>2 DEF Stale, PointersLead, Started
<1>6. ASSUME NEW c, Yields(b, u, c) PROVE SameBook(c)'
  <2> DEFINE p == Client!OrderOf(b, u.moid)
  <2>1. p # nullptr /\ c = [b EXCEPT !.order[p].qty = u.qty]
    BY <1>3, <1>6 DEF Yields
  <2>2. p = o /\ o \in usedOrders
    <3>1. u.moid \in OrderSlots /\ p = b.oidToOrder[u.moid]
      <4>1. u.moid \in Nat
        BY <1>3, <1>5 DEF Handed, OrderData
      <4>2. QED
        BY <2>1, <4>1, ConstantsAssumption DEF Client!OrderOf, OrderSlots
    <3> HIDE DEF p
    <3>2. p \in usedOrders /\ order[p].moid = order[o].moid
      BY <1>3, <2>1, <3>1 DEF SameBook, MapIs
    <3>3. p \in Handed
      BY <3>2, UsedHanded DEF IInv
    <3>4. QED
      BY <1>1, <1>5, <3>2, <3>3 DEF Stale, IdsOnce
  <2> HIDE DEF p
  <2>3. /\ UNCHANGED <<order, prevOrder, nextOrder, usedOrders, freeOrder, level, firstOrder, prevEntry, nextEntry,
                      usedLevels, freeLevel, best, priceMap>>
    BY DEF MatchPartly, levelVars, indexVars
  <2>4. QED
    BY <1>1, <1>3, <2>1, <2>2, <2>3, BookTyped
       DEF SameBook, BookFields, AsOrders, AsLevels, OrdersAre, OrderFields, QtyAre, LevelsAre, MapIs
<1>7. NextSame(b, u)'
  BY <1>6 DEF NextSame, Yields
<1>8. QED
  BY <1>3, <1>4, <1>7 DEF Reaches

\* The update of a new order.
NewAdd(u, prio) == u = Update("ADD", agg.moid, agg.side, agg.price, leaves, prio)

LEMMA NewAddIs ==
  ASSUME TypeOK, pc = "match", NEW u, NEW prio, NewAdd(u, prio)
  PROVE  /\ u.type = "ADD" /\ u.moid = agg.moid /\ u.side = agg.side /\ u.price = agg.price /\ u.qty = leaves
         /\ \A b : Client!CanAdd(b, u) => u.moid \in OrderSlots
<1>1. u.type = "ADD" /\ u.moid = agg.moid /\ u.side = agg.side /\ u.price = agg.price /\ u.qty = leaves
  BY DEF NewAdd, Update
<1>2. agg.moid \in Nat
  BY DEF TypeOK, Aggressors
<1>3. ASSUME NEW b, Client!CanAdd(b, u) PROVE u.moid \in OrderSlots
  <2>1. u.moid < ME_MAX_ORDER_IDS
    BY <1>3 DEF Client!CanAdd
  <2>2. QED
    BY <1>1, <1>2, <2>1, ConstantsAssumption DEF OrderSlots
<1>4. QED
  BY <1>1, <1>3

LEMMA RestAtLevelMirrors ==
  ASSUME IInv, NEW b, SameBook(b), RestAtLevel
  PROVE  Reaches(b, updates)'
<1>1. PICK u : NewAdd(u, NextPriority(priceMap[AggIndex]))
  BY DEF NewAdd
<1>2. pc = "match" /\ updates' = <<u>>
  BY <1>1 DEF RestAtLevel, Rests, Publish, Send, NewAdd
<1>3. ASSUME NEW c, Yields(b, u, c) PROVE SameBook(c)'
  <2>1. /\ u.moid = agg.moid /\ u.side = agg.side /\ u.price = agg.price /\ u.qty = leaves /\ u.moid \in OrderSlots
        /\ c = Client!AddOrder(b, u)
    BY <1>1, <1>2, <1>3, NewAddIs DEF Yields, IInv
  <2>2. QED
    BY <2>1, QueueMirrored
<1>4. NextSame(b, u)'
  BY <1>3 DEF NextSame, Yields
<1>5. u.type = "ADD" /\ AfterTrade(updates', u)
  BY <1>1, <1>2, NewAddIs DEF AfterTrade, IInv
<1>6. QED
  BY <1>4, <1>5 DEF Reaches

LEMMA RestOnEmptySideMirrors ==
  ASSUME IInv, NEW b, SameBook(b), RestOnEmptySide
  PROVE  Reaches(b, updates)'
<1>1. PICK u : NewAdd(u, 1)
  BY DEF NewAdd
<1>2. pc = "match" /\ updates' = <<u>> /\ agg.side \in Sides
  BY <1>1 DEF RestOnEmptySide, Rests, Publish, Send, NewAdd, IInv, TypeOK, Aggressors
<1>3. ASSUME NEW c, Yields(b, u, c) PROVE SameBook(c)'
  <2>1. /\ u.moid = agg.moid /\ u.side = agg.side /\ u.price = agg.price /\ u.qty = leaves /\ u.moid \in OrderSlots
        /\ c = Client!AddOrder(b, u)
    BY <1>1, <1>2, <1>3, NewAddIs DEF Yields, IInv
  <2>2. PICK near : near = freeLevel
    OBVIOUS
  <2>3. PICK d : d = Client!Opened(b, u)
    OBVIOUS
  <2>4. /\ AllocateOrder(nullptr) /\ LinkAlone(freeOrder) /\ AllocateLevel
        /\ priceMap[AggIndex] = nullptr /\ best[agg.side] = nullptr
        /\ prevEntry' = [prevEntry EXCEPT ![freeLevel] = near] /\ nextEntry' = [nextEntry EXCEPT ![freeLevel] = near]
        /\ best' = [best EXCEPT ![agg.side] = freeLevel]
    BY <2>2 DEF RestOnEmptySide
  <2>5. /\ BookFields \subseteq DOMAIN d /\ AsOrders(d)' /\ MapIs(d.oidToOrder, usedOrders, order)'
        /\ d.best = best /\ d.priceMap = priceMap' /\ d.usedLevels = usedLevels' /\ d.freeLevel = freeLevel'
        /\ LevelsAre(d.level, level, firstOrder, prevEntry, nextEntry)'
    BY <1>2, <2>1, <2>2, <2>3, <2>4, OpenedMirrored
  <2>6. c = [d EXCEPT !.best[agg.side] = freeLevel]
    <3>1. Client!LevelAt(b, u.price) = nullptr /\ b.freeLevel = freeLevel
      BY <2>1, <2>4, SameIndex DEF SameBook, AsLevels, Client!LevelAt, AggIndex
    <3>2. QED
      BY <2>1, <2>3, <2>4, <2>5, <3>1 DEF Client!AddOrder, Client!AddOrdersAtPrice
  <2>7. /\ DOMAIN c = DOMAIN d /\ c.best = best' /\ c.order = d.order /\ c.usedOrders = d.usedOrders
        /\ c.freeOrder = d.freeOrder /\ c.oidToOrder = d.oidToOrder /\ c.priceMap = d.priceMap
        /\ c.usedLevels = d.usedLevels /\ c.freeLevel = d.freeLevel /\ c.level = d.level
    BY <2>4, <2>5, <2>6 DEF BookFields
  <2>8. AsOrders(c)' /\ AsLevels(c)'
    BY <2>5, <2>7 DEF AsOrders, AsLevels, QtyAre
  <2>9. QED
    BY <2>5, <2>7, <2>8 DEF SameBook
<1>4. NextSame(b, u)'
  BY <1>3 DEF NextSame, Yields
<1>5. u.type = "ADD" /\ AfterTrade(updates', u)
  BY <1>1, <1>2, NewAddIs DEF AfterTrade, IInv
<1>6. QED
  BY <1>4, <1>5 DEF Reaches

\* The search begins at the best level or after it.
LEMMA SearchBegins ==
  ASSUME IInv, IInv', RestOnSide, pc' = "walk"
  PROVE  Searching'
<1>1. /\ best' = best /\ agg' = agg /\ best[agg.side] \in LevelSlots
      /\ walk'.target = FirstTarget
      /\ walk'.addAfter = LessAggressive(agg.side, agg.price, level'[FirstTarget].price)
  <2>1. best[agg.side] \in LevelSlots
    BY DEF RestOnSide, Rests, IInv, TypeOK, LevelPtrs, Aggressors
  <2>2. FirstTarget # nullptr
    BY DEF RestOnSide
  <2> DEFINE t == FirstTarget
  <2>3. walk' = [order |-> freeOrder, level |-> freeLevel, target |-> t,
                 addAfter |-> LessAggressive(agg.side, agg.price, level'[t].price)]
    BY <2>2 DEF RestOnSide
  <2> HIDE DEF t
  <2>4. walk'.target = t /\ walk'.addAfter = LessAggressive(agg.side, agg.price, level'[t].price)
    BY <2>3
  <2>5. QED
    BY <2>1, <2>4 DEF t, RestOnSide
<1> DEFINE first == best[agg.side]
           less(x) == LessAggressive(agg.side, agg.price, level'[x].price)
<1>2. \A x : NewLessAggressive(x)' <=> less(x)
  BY <1>1 DEF NewLessAggressive
<1>3. CASE ~less(first)
  <2>1. walk'.target = first /\ ~walk'.addAfter
    BY <1>1, <1>3 DEF FirstTarget
  <2>2. QED
    BY <1>1, <1>2, <1>3, <2>1 DEF Searching
<1>4. CASE less(first)
  <2>1. walk'.target = nextEntry'[first]
    BY <1>1, <1>4 DEF FirstTarget
  <2>2. 0 \in LevelSlots /\ Ahead'[0] = nextEntry'[first]
    <3>1. PICK v : v = Ahead'
      OBVIOUS
    <3>2. PICK f : f = nextEntry'
      OBVIOUS
    <3>3. PICK x : x = best[agg.side]
      OBVIOUS
    <3>4. f \in [LevelSlots -> LevelPtrs] /\ x \in LevelSlots /\ v = Client!Path(f, x)
      BY <1>1, <3>1, <3>2, <3>3 DEF IInv, TypeOK, Ahead
    <3>5. 0 \in LevelSlots /\ v[0] = f[x]
      BY <3>4, PathLeads
    <3>6. QED
      BY <3>1, <3>2, <3>3, <3>5
  <2>3. \A n \in Stops' : 0 <= n
    BY DEF Stops, LevelSlots
  <2>4. walk'.addAfter \/ ~less(walk'.target)
    BY <1>1
  <2>5. QED
    BY <1>1, <1>2, <1>4, <2>1, <2>2, <2>3, <2>4 DEF Searching
<1>5. QED
  BY <1>3, <1>4

LEMMA SameBookStays ==
  ASSUME NEW b, SameBook(b), UNCHANGED <<orderVars, levelVars, best, priceMap>>
  PROVE  SameBook(b)'
<1>1. AsOrders(b)' /\ MapIs(b.oidToOrder, usedOrders, order)'
  BY DEF SameBook, AsOrders, OrdersAre, QtyAre, MapIs, orderVars
<1>2. AsLevels(b)'
  BY DEF SameBook, AsLevels, LevelsAre, levelVars
<1>3. QED
  BY <1>1, <1>2 DEF SameBook

\* A new order and its level are in both books, but the level has no place yet.
LEMMA RestOnSideMirrors ==
  ASSUME IInv, IInv', NEW b, SameBook(b), RestOnSide, pc' = "walk"
  PROVE  updates' = <<>> /\ (Client!CanAdd(b, Arriving) => Placing(b, Arriving))'
<1>1. /\ pc = "match" /\ priceMap[AggIndex] = nullptr /\ best[agg.side] # nullptr
      /\ AllocateOrder(nullptr) /\ LinkAlone(freeOrder) /\ AllocateLevel /\ updates' = <<>>
      /\ prevEntry' = [prevEntry EXCEPT ![freeLevel] = nullptr] /\ nextEntry' = [nextEntry EXCEPT ![freeLevel] = nullptr]
      /\ best' = best /\ agg' = agg
  BY DEF RestOnSide, Rests, Send
<1>2. walk'.order = freeOrder /\ walk'.level = freeLevel
  <2> DEFINE t == FirstTarget
             a == LessAggressive(agg.side, agg.price, level'[t].price)
  <2>1. walk' = [order |-> freeOrder, level |-> freeLevel, target |-> t, addAfter |-> a]
    BY DEF RestOnSide
  <2> HIDE DEF t, a
  <2>2. QED
    BY <2>1
<1>3. PICK u : u = Arriving'
  OBVIOUS
<1>4. NewAdd(u, order'[freeOrder].prio)
  <2>1. qty'[freeOrder] = leaves
    BY <1>1, BookTyped DEF AllocateOrder, IInv, PoolsReady
  <2>2. QED
    BY <1>1, <1>2, <1>3, <2>1 DEF Arriving, NewAdd
<1>5. ASSUME Client!CanAdd(b, u) PROVE Placing(b, u)'
  <2>1. u.moid = agg.moid /\ u.side = agg.side /\ u.price = agg.price /\ u.qty = leaves /\ u.moid \in OrderSlots
    BY <1>1, <1>4, <1>5, NewAddIs DEF IInv
  <2>2. PICK d : d = Client!Opened(b, u)
    OBVIOUS
  <2>3. PICK near : near = nullptr
    OBVIOUS
  <2>4. /\ BookFields \subseteq DOMAIN d /\ AsOrders(d)' /\ MapIs(d.oidToOrder, usedOrders, order)'
        /\ d.best = best /\ d.priceMap = priceMap' /\ d.usedLevels = usedLevels' /\ d.freeLevel = freeLevel'
        /\ LevelsAre(d.level, level, firstOrder, prevEntry, nextEntry)'
    BY <1>1, <2>1, <2>2, <2>3, OpenedMirrored
  <2>5. SameBook(d)'
    BY <1>1, <2>4 DEF SameBook, AsLevels
  <2>6. Client!LevelAt(b, u.price) = nullptr /\ b.freeLevel = freeLevel /\ b.best = best
    BY <1>1, <2>1, SameIndex DEF SameBook, AsLevels, Client!LevelAt, AggIndex
  <2>7. Searching'
    BY SearchBegins
  <2>8. QED
    BY <1>1, <1>2, <2>1, <2>2, <2>5, <2>6, <2>7 DEF Placing
<1>6. QED
  BY <1>1, <1>3, <1>5

LEMMA NullNoLevel == nullptr \notin LevelSlots
BY ConstantsAssumption DEF LevelSlots

\* The search goes on.
LEMMA WalkStepMirrors ==
  ASSUME IInv, NEW b, Client!CanAdd(b, Arriving) => Placing(b, Arriving), WalkStep, pc' = "walk"
  PROVE  updates' = <<>> /\ (Client!CanAdd(b, Arriving) => Placing(b, Arriving))'
<1>1. /\ pc = "walk" /\ walk.addAfter /\ walk.target # best[agg.side] /\ updates' = <<>> /\ agg' = agg
      /\ UNCHANGED <<orderVars, levelVars, best, priceMap>> /\ walk \in Walks
      /\ walk' = IF NewLessAggressive(walk.target) THEN [walk EXCEPT !.target = nextEntry[walk.target]]
                                                   ELSE [walk EXCEPT !.addAfter = FALSE]
  BY DEF WalkStep, Send, indexVars, IInv, TypeOK
<1>2. /\ walk'.order = walk.order /\ walk'.level = walk.level
      /\ NewLessAggressive(walk.target) => walk'.target = nextEntry[walk.target] /\ walk'.addAfter = walk.addAfter
      /\ ~NewLessAggressive(walk.target) => walk'.target = walk.target /\ walk'.addAfter = FALSE
  BY <1>1 DEF Walks
<1>3. PICK u : u = Arriving /\ u = Arriving'
  BY <1>1, <1>2 DEF Arriving, orderVars
<1>4. ASSUME Placing(b, u) PROVE Placing(b, u)'
  <2>1. Searching'
    <3>1. Searching /\ best[agg.side] \in LevelSlots /\ best' = best
      BY <1>1, <1>4 DEF Placing, IInv, TypeOK, LevelPtrs, Aggressors
    <3>2. (\A x : NewLessAggressive(x)' <=> NewLessAggressive(x)) /\ Ahead' = Ahead /\ Stops' = Stops
      BY <1>1 DEF NewLessAggressive, levelVars, Ahead, Stops
    <3>3. NewLessAggressive(best[agg.side])
      BY <1>1, <3>1 DEF Searching
    <3>4. ASSUME Stops # {} PROVE \E k \in LevelSlots : walk'.target = Ahead[k] /\ \A n \in Stops : k <= n
      <4>1. PICK k \in LevelSlots : walk.target = Ahead[k] /\ \A n \in Stops : k <= n
        BY <3>1, <3>3, <3>4 DEF Searching
      <4>2. CASE ~NewLessAggressive(walk.target)
        BY <1>2, <4>1, <4>2
      <4>3. CASE NewLessAggressive(walk.target)
        <5>1. k \notin Stops /\ Stops \subseteq LevelSlots
          BY <1>1, <4>1, <4>3, NullNoLevel DEF Stops, Walks
        <5>2. PICK n \in Stops : TRUE
          BY <3>4
        <5>3. k + 1 \in LevelSlots \ {0} /\ \A m \in Stops : k + 1 <= m
          <6>1. k \in Nat /\ n \in 0 .. ME_MAX_PRICE_LEVELS - 1 /\ \A m \in Stops : m \in Nat
            BY <5>1 DEF LevelSlots
          <6>2. \A m \in Stops : k + 1 <= m
            <7> SUFFICES ASSUME NEW m \in Stops PROVE k + 1 <= m
              OBVIOUS
            <7>1. k <= m /\ k # m
              BY <4>1, <5>1
            <7>2. QED
              BY <6>1, <7>1
          <6>3. k + 1 <= n
            BY <6>2
          <6>4. QED
            BY <6>1, <6>2, <6>3, ConstantsAssumption DEF LevelSlots
        <5>4. Ahead[k + 1] = nextEntry[Ahead[k]]
          <6>1. (k + 1) - 1 = k /\ Ahead[k] # nullptr
            BY <1>1, <4>1, NullNoLevel DEF LevelSlots, Walks
          <6>2. Ahead[(k + 1) - 1] # nullptr => Ahead[k + 1] = nextEntry[Ahead[(k + 1) - 1]]
            BY <3>1, <5>3, AheadIs DEF IInv
          <6>3. QED
            BY <6>1, <6>2
        <5>5. QED
          BY <1>2, <4>1, <4>3, <5>3, <5>4
      <4>4. QED
        BY <4>2, <4>3
    <3>5. walk'.addAfter \/ ~NewLessAggressive(walk'.target)
      BY <1>1, <1>2
    <3>6. QED
      BY <1>1, <3>1, <3>2, <3>3, <3>4, <3>5 DEF Searching
  <2>2. PICK d : d = Client!Opened(b, u)
    OBVIOUS
  <2>3. SameBook(d)'
    BY <1>1, <1>4, <2>2, SameBookStays DEF Placing
  <2>4. QED
    BY <1>1, <1>2, <1>4, <2>1, <2>2, <2>3 DEF Placing
<1>5. QED
  BY <1>1, <1>3, <1>4

\* The level has its place, and the client hears of the order.
LEMMA InsertMirrors ==
  ASSUME IInv, NEW b, Client!CanAdd(b, Arriving) => Placing(b, Arriving), pc = "walk",
         InsertAtEnd \/ InsertBeforeTarget
  PROVE  Reaches(b, updates)'
<1>1. PICK u : u = Arriving
  OBVIOUS
<1>2. updates' = <<u>> /\ u.type = "ADD" /\ u.side = agg.side /\ u.price = agg.price
  BY <1>1 DEF InsertAtEnd, InsertBeforeTarget, PublishWalked, Publish, Send, Arriving, Update
<1>3. ASSUME NEW c, Yields(b, u, c) PROVE SameBook(c)'
  <2>1. Client!CanAdd(b, u) /\ c = Client!AddOrder(b, u)
    BY <1>2, <1>3 DEF Yields
  <2>2. Placing(b, u)
    BY <1>1, <2>1
  <2>3. PICK d : d = Client!Opened(b, u)
    OBVIOUS
  <2>4. SameBook(d) /\ Searching /\ best[agg.side] # nullptr
    BY <2>2, <2>3 DEF Placing
  <2>5. c = Client!AddOrdersAtPrice(d, walk.level, agg.side, agg.price)
    BY <1>2, <2>1, <2>2, <2>3 DEF Placing, Client!AddOrder
  <2>6. Client!Target(d, agg.side, agg.price) # nullptr
    BY <1>2, <2>1, <2>2, <2>3 DEF Placing, Client!CanAdd, Client!CanLink
  <2>7. QED
    BY <2>4, <2>5, <2>6, LinkMirrored
<1>4. NextSame(b, u)'
  BY <1>3 DEF NextSame, Yields
<1>5. QED
  BY <1>2, <1>4 DEF Reaches, AfterTrade

LEMMA ExchangeMirrors ==
  ASSUME IInv, IInv', Stale, MirrorInv, Exchange
  PROVE  MirrorInv'
<1>1. feed = <<>> /\ Next /\ feed' = updates' /\ book' = book /\ ended' = ended /\ recoveries' = recoveries
  BY DEF Exchange, clientVars
<1> SUFFICES ASSUME recoveries = 0, ended = "no"
             PROVE  /\ pc' \in {"idle", "match"} => Reaches(book, updates)'
                    /\ pc' = "walk" => updates' = <<>> /\ (Client!CanAdd(book, Arriving) => Placing(book, Arriving))'
  BY <1>1 DEF MirrorInv, Reaches
<1>2. PICK b : b = book /\ b = book'
  BY <1>1
<1>3. pc \in {"idle", "match"} => SameBook(b)
  BY <1>1, <1>2 DEF MirrorInv, Reaches, AfterTrade
<1>4. pc = "walk" => (Client!CanAdd(b, Arriving) => Placing(b, Arriving))
  BY <1>2 DEF MirrorInv
<1> DEFINE Goal == /\ pc' \in {"idle", "match"} => Reaches(b, updates)'
                   /\ pc' = "walk" => updates' = <<>> /\ (Client!CanAdd(b, Arriving) => Placing(b, Arriving))'
<1>5. ASSUME NEW c \in Clients, NEW id \in OrderIds, Cancel(c, id) PROVE Goal
  <2>1. pc = "idle" /\ pc' = pc
    BY <1>5 DEF Cancel, callVars
  <2>2. QED
    BY <1>3, <1>5, <2>1, CancelMirrors
<1>6. ASSUME MatchFully PROVE Goal
  <2>1. pc = "match" /\ pc' = pc
    BY <1>6 DEF MatchFully
  <2>2. QED
    BY <1>3, <1>6, <2>1, MatchFullyMirrors
<1>7. ASSUME MatchPartly PROVE Goal
  <2>1. pc = "match" /\ pc' = pc
    BY <1>7 DEF MatchPartly
  <2>2. QED
    BY <1>3, <1>7, <2>1, MatchPartlyMirrors
<1>8. ASSUME RestAtLevel \/ RestOnEmptySide PROVE Goal
  <2>1. pc = "match" /\ pc' = "idle"
    BY <1>8 DEF RestAtLevel, RestOnEmptySide, Rests, Publish, Return
  <2>2. QED
    BY <1>3, <1>8, <2>1, RestAtLevelMirrors, RestOnEmptySideMirrors
<1>9. ASSUME RestOnSide PROVE Goal
  <2>1. pc = "match" /\ pc' \in {"walk", "halted"}
    BY <1>9 DEF RestOnSide, Rests
  <2>2. QED
    BY <1>3, <1>9, <2>1, RestOnSideMirrors
<1>10. ASSUME WalkStep PROVE Goal
  <2>1. pc = "walk" /\ pc' \in {"walk", "halted"}
    BY <1>10 DEF WalkStep
  <2>2. QED
    BY <1>4, <1>10, <2>1, WalkStepMirrors
<1>11. ASSUME InsertAtEnd \/ InsertBeforeTarget PROVE Goal
  <2>1. pc = "walk" /\ pc' = "idle"
    BY <1>11 DEF InsertAtEnd, InsertBeforeTarget, AtEnd, AtTarget, PublishWalked, Publish, Return
  <2>2. QED
    BY <1>4, <1>11, <2>1, InsertMirrors
<1>12. ASSUME Halt PROVE Goal
  BY <1>12 DEF Halt
<1>13. ASSUME pc \in {"idle", "match"}, pc' \in {"idle", "match"}, updates' = <<>>,
              UNCHANGED <<orderVars, levelVars, indexVars>>
       PROVE  Goal
  BY <1>3, <1>13, QuietMirrors
<1>14. Goal
  <2>1. CASE \E c \in Clients, id \in OrderIds, s \in Sides, p \in Prices, q \in Quantities : Accept(c, id, s, p, q)
    BY <1>13, <2>1 DEF Accept, Send
  <2>2. CASE \E c \in Clients, id \in OrderIds : CancelReject(c, id)
    BY <1>13, <2>2 DEF CancelReject, Send, callVars
  <2>3. CASE \E c \in Clients, id \in OrderIds : CancelCrash(c, id)
    BY <1>12, <2>3 DEF CancelCrash
  <2>4. CASE Filled
    BY <1>13, <2>4 DEF Filled, Return, Send
  <2>5. CASE MatchCrash \/ RestCrash \/ InsertCrash
    BY <1>12, <2>5 DEF MatchCrash, RestCrash, InsertCrash
  <2> HIDE DEF Goal
  <2>6. QED
    BY <1>1, <1>5, <1>6, <1>7, <1>8, <1>9, <1>10, <1>11, <2>1, <2>2, <2>3, <2>4, <2>5
       DEF Next, Request, Running
<1>15. QED
  BY <1>2, <1>14

\* An update reaches the client.
LEMMA DeliverMirrors ==
  ASSUME MirrorInv, Deliver
  PROVE  MirrorInv'
<1> DEFINE h == Head(feed)
<1>1. /\ feed # <<>> /\ Client!OnMarketUpdate(h) /\ feed' = Tail(feed) /\ UNCHANGED vars /\ recoveries' = recoveries
  BY DEF Deliver
<1> SUFFICES ASSUME recoveries = 0, ended' = "no"
             PROVE  (pc \in {"idle", "match"} => Reaches(book, feed)') /\ pc # "walk"
  BY <1>1 DEF MirrorInv, vars, callVars
<1>2. ended = "no" /\ pc # "walk"
  BY <1>1 DEF Client!OnMarketUpdate, MirrorInv
<1> SUFFICES ASSUME pc \in {"idle", "match"} PROVE Reaches(book, feed)'
  BY <1>2
<1>3. PICK b : b = book
  OBVIOUS
<1>4. PICK u : AfterTrade(feed, u) /\ u.type # "TRADE" /\ u.type # "CLEAR" /\ NextSame(b, u)
  BY <1>1, <1>2, <1>3 DEF MirrorInv, Reaches
<1>5. PICK c : c = book'
  OBVIOUS
<1>6. ASSUME NEW x, SameBook(x) PROVE SameBook(x)'
  <2>1. UNCHANGED <<orderVars, levelVars, best, priceMap>>
    BY <1>1 DEF vars, indexVars
  <2>2. QED
    BY <1>6, <2>1, SameBookStays
<1>7. CASE feed = <<u>>
  <2>1. h = u /\ feed' = <<>>
    BY <1>1, <1>7
  <2> HIDE DEF h
  <2>2. Yields(b, u, c)
    <3>1. Client!OnAdd(u) => u.type = "ADD" /\ Client!CanAdd(b, u) /\ c = Client!AddOrder(b, u)
      BY <1>3, <1>5 DEF Client!OnAdd, Client!End
    <3>2. Client!OnModify(u) => LET o == Client!OrderOf(b, u.moid)
                                IN u.type = "MODIFY" /\ o # nullptr /\ c = [b EXCEPT !.order[o].qty = u.qty]
      BY <1>3, <1>5 DEF Client!OnModify, Client!End
    <3>3. Client!OnCancel(u) => LET o == Client!OrderOf(b, u.moid)
                                IN u.type = "CANCEL" /\ Client!CanRemove(b, o) /\ c = Client!RemoveOrder(b, o)
      BY <1>3, <1>5 DEF Client!OnCancel, Client!End
    <3>4. ~Client!OnTrade(u) /\ ~Client!OnClear(u)
      BY <1>4 DEF Client!OnTrade, Client!OnClear
    <3>5. QED
      BY <1>1, <2>1, <3>1, <3>2, <3>3, <3>4 DEF Client!OnMarketUpdate, Yields
  <2>3. SameBook(c)'
    BY <1>4, <1>6, <2>2 DEF NextSame
  <2>4. QED
    BY <1>5, <2>1, <2>3 DEF Reaches, SameBook
<1>8. CASE feed # <<u>>
  <2>1. PICK t : t.type = "TRADE" /\ feed = <<t, u>>
    BY <1>4, <1>8 DEF AfterTrade
  <2>2. h = t /\ feed' = <<u>>
    BY <1>1, <2>1
  <2> HIDE DEF h
  <2>3. book' = b
    <3>1. Client!OnTrade(t)
      BY <1>1, <2>1, <2>2
         DEF Client!OnMarketUpdate, Client!OnAdd, Client!OnModify, Client!OnCancel, Client!OnClear
    <3>2. QED
      BY <1>3, <3>1 DEF Client!OnTrade, Client!vars
  <2>4. NextSame(b, u)'
    BY <1>4, <1>6 DEF NextSame, Yields
  <2>5. AfterTrade(feed', u)
    BY <2>2 DEF AfterTrade
  <2>6. QED
    BY <1>4, <2>3, <2>4, <2>5 DEF Reaches, NextSame, Yields
<1>9. QED
  BY <1>7, <1>8

LEMMA MirrorStays ==
  ASSUME MirrorInv, UNCHANGED mirrorVars
  PROVE  MirrorInv'
<1>1. /\ UNCHANGED <<orderVars, levelVars, best, priceMap, feed, book, ended, recoveries>>
      /\ pc' = pc /\ agg' = agg /\ walk' = walk
  BY DEF mirrorVars, clientVars, vars, indexVars, callVars
<1>2. PICK b : b = book /\ b = book'
  BY <1>1
<1>3. PICK f : f = feed /\ f = feed'
  BY <1>1
<1>4. PICK u : u = Arriving /\ u = Arriving'
  BY <1>1 DEF Arriving, orderVars
<1>5. ASSUME NEW c, SameBook(c) PROVE SameBook(c)'
  BY <1>1, <1>5, SameBookStays
<1>6. ASSUME Reaches(b, f) PROVE Reaches(b, f)'
  <2>1. ASSUME NEW w, NextSame(b, w) PROVE NextSame(b, w)'
    BY <1>5, <2>1 DEF NextSame, Yields
  <2>2. QED
    BY <1>5, <1>6, <2>1 DEF Reaches
<1>7. ASSUME Placing(b, u) PROVE Placing(b, u)'
  <2>1. Searching' <=> Searching
    BY <1>1 DEF Searching, Stops, Ahead, NewLessAggressive, levelVars
  <2>2. PICK d : d = Client!Opened(b, u)
    OBVIOUS
  <2>3. SameBook(d)'
    BY <1>5, <1>7, <2>2 DEF Placing
  <2>4. QED
    BY <1>1, <1>7, <2>1, <2>2, <2>3 DEF Placing
<1>8. recoveries = 0 /\ ended = "no" /\ pc \in {"idle", "match"} => Reaches(book, feed)'
  BY <1>2, <1>3, <1>6 DEF MirrorInv
<1>9. recoveries = 0 /\ ended = "no" /\ pc = "walk" =>
        feed = <<>> /\ (Client!CanAdd(book, Arriving) => Placing(book, Arriving))'
  BY <1>2, <1>4, <1>7 DEF MirrorInv
<1>10. QED
  BY <1>1, <1>8, <1>9 DEF MirrorInv

LEMMA InitMirrors == MirrorInit => MirrorInv
<1> SUFFICES ASSUME MirrorInit PROVE MirrorInv
  OBVIOUS
<1>1. feed = <<>> /\ recoveries = 0 /\ pc = "idle" /\ Init /\ Client!Init
  BY DEF MirrorInit, Init
<1>2. book = [order |-> [o \in OrderSlots |-> Client!NoOrder], usedOrders |-> {}, freeOrder |-> 0,
              level |-> [l \in LevelSlots |-> Client!NoLevel], usedLevels |-> {}, freeLevel |-> 0,
              best |-> [s \in Sides |-> nullptr], priceMap |-> [i \in LevelSlots |-> nullptr],
              oidToOrder |-> [id \in OrderSlots |-> nullptr]]
  BY <1>1, ClientSlots, SameIndex DEF Client!Init, Client!Sides, Sides
<1>3. BookFields \subseteq DOMAIN book
  BY <1>2 DEF BookFields
<1>4. AsOrders(book)
  BY <1>1, <1>2 DEF Init, AsOrders, OrdersAre, OrderFields, QtyAre, Client!NoOrder, Client!NewOrder, NoOrder
<1>5. AsLevels(book)
  BY <1>1, <1>2 DEF Init, AsLevels, LevelsAre, LevelFields, Client!NoLevel, Client!NewLevel, NoLevel,
                    PriceIndices, LevelSlots
<1>6. MapIs(book.oidToOrder, usedOrders, order)
  BY <1>1, <1>2 DEF Init, MapIs
<1>7. QED
  BY <1>1, <1>3, <1>4, <1>5, <1>6 DEF MirrorInv, Reaches, SameBook

LEMMA BooksShown == IInv /\ MirrorInv => Mirrors
<1> SUFFICES ASSUME IInv, MirrorInv, Caught, recoveries = 0
             PROVE  /\ book.usedOrders = usedOrders /\ book.usedLevels = usedLevels
                    /\ \A o \in usedOrders : LET x == book.order[o] IN
                         /\ x.oid = order[o].moid /\ x.side = order[o].side /\ x.price = order[o].price
                         /\ x.qty = qty[o] /\ x.prev = prevOrder[o] /\ x.next = nextOrder[o]
                    /\ \A l \in usedLevels : LET x == book.level[l] IN
                         x.first = firstOrder[l] /\ x.prev = prevEntry[l] /\ x.next = nextEntry[l]
                    /\ book.best = best /\ book.priceMap = priceMap
  BY DEF Mirrors
<1>1. SameBook(book)
  BY DEF Caught, MirrorInv, Reaches, AfterTrade
<1>2. usedOrders \subseteq OrderSlots /\ usedLevels \subseteq LevelSlots
  BY DEF IInv, TypeOK
<1>3. QED
  BY <1>1, <1>2 DEF SameBook, AsOrders, AsLevels, OrdersAre, QtyAre, LevelsAre

MirrorIInv == IInv /\ Stale /\ MirrorInv

LEMMA MirrorKept == MirrorSpec => []MirrorIInv
<1>1. MirrorInit => MirrorIInv
  BY InitIInv, InitStale, InitMirrors DEF MirrorInit, MirrorIInv
<1>2. MirrorIInv /\ [MirrorNext]_mirrorVars => MirrorIInv'
  <2> SUFFICES ASSUME IInv, Stale, MirrorInv, [MirrorNext]_mirrorVars PROVE IInv' /\ Stale' /\ MirrorInv'
    BY DEF MirrorIInv
  <2>1. [Next]_vars
    BY DEF MirrorNext, Exchange, Deliver, Recover, mirrorVars
  <2>2. IInv' /\ Stale'
    BY <2>1, NextIInv, NextStale
  <2>3. CASE Exchange
    BY <2>2, <2>3, ExchangeMirrors
  <2>4. CASE Deliver
    BY <2>2, <2>4, DeliverMirrors
  <2>5. CASE Recover
    <3>1. recoveries' \in Nat /\ recoveries' # 0
      BY <2>5 DEF Recover, MirrorInv
    <3>2. QED
      BY <2>2, <3>1 DEF MirrorInv
  <2>6. CASE UNCHANGED mirrorVars
    BY <2>2, <2>6, MirrorStays
  <2>7. QED
    BY <2>3, <2>4, <2>5, <2>6 DEF MirrorNext
<1>3. QED
  BY <1>1, <1>2, PTL DEF MirrorSpec

\* The client that has applied every update the exchange sent, and never had to recover, holds the
\* same book: the orders and their lists, the levels and their lists, also where levels are in wrong
\* places or stale pointers lead to objects that were given back.
THEOREM ClientMirrors == MirrorSpec => []Mirrors
<1>1. MirrorIInv => Mirrors
  BY BooksShown DEF MirrorIInv
<1>2. QED
  BY <1>1, MirrorKept, PTL

-----------------------------------------------------------------------------
\* What a loop of toString() lists.

\* A set of numbers that has 0, and with each number the next, has them all.
LEMMA SetInduction ==
  ASSUME NEW T \in SUBSET Nat, 0 \in T, \A n \in T : n + 1 \in T
  PROVE  \A n \in Nat : n \in T
<1> SUFFICES ASSUME Nat \ T # {} PROVE FALSE
  OBVIOUS
<1> DEFINE U == Nat \ T
<1>1. U \in SUBSET Nat /\ U # {}
  OBVIOUS
<1>2. \A n \in U : n \in Nat /\ n # 0
  OBVIOUS
<1> HIDE DEF U
<1>3. PICK n \in U : \A m \in U : n <= m
  BY <1>1, MinIsLeast
<1>4. n \in Nat /\ n # 0 /\ n - 1 \notin U
  BY <1>2, <1>3
<1> QED
  <2>1. n - 1 \in T
    BY <1>4 DEF U
  <2>2. n \in T
    BY <1>4, <2>1
  <2> QED
    BY <2>2 DEF U

\* What a loop visits, and where it stops.
Ends(v, h, m) == {i \in 0 .. m : v[i] = nullptr \/ (i > 0 /\ v[i] = h)}
Visited(v, h, m) == IF Ends(v, h, m) = {} THEN m + 1 ELSE Text!Min(Ends(v, h, m))

LEMMA LoopIs ==
  ASSUME NEW h, NEW f, Cardinality(DOMAIN f) \in Nat
  PROVE  \E v : /\ IsVisits(v, h, f, Cardinality(DOMAIN f))
                /\ Text!Loop(h, f) = [i \in 1 .. Visited(v, h, Cardinality(DOMAIN f)) |-> v[i - 1]]
<1> DEFINE most == Cardinality(DOMAIN f)
           seen == CHOOSE at : at = [n \in 0 .. most |-> IF n = 0 THEN h
                                                         ELSE IF at[n - 1] = nullptr THEN nullptr
                                                         ELSE f[at[n - 1]]]
           Halts == {n \in 0 .. most : seen[n] = nullptr \/ (n > 0 /\ seen[n] = h)}
           n == IF Halts = {} THEN most + 1 ELSE Text!Min(Halts)
<1>1. Text!Loop(h, f) = [i \in 1 .. n |-> seen[i - 1]]
  BY Zenon DEF Text!Loop, Text!Cardinality, Cardinality
<1>2. seen = CHOOSE at : IsVisits(at, h, f, most)
  BY DEF IsVisits
<1> HIDE DEF seen
<1>3. IsVisits(seen, h, f, most)
  BY <1>2, VisitsExist, Zenon
<1>4. n = Visited(seen, h, most)
  BY DEF Visited, Ends
<1> HIDE DEF n
<1> QED
  BY <1>1, <1>3, <1>4

\* In a ring whose members have ranks a loop that starts with the least goes round once.
ListsRing(L, k, S, b, nx, rk) ==
  /\ L \in [1 .. k -> S] /\ L[1] = b /\ nx[L[k]] = b
  /\ \A i \in 1 .. k - 1 : L[i + 1] = nx[L[i]]
  /\ \A i, j \in 1 .. k : i < j => rk[L[i]] < rk[L[j]]
  /\ \A x \in S : \E i \in 1 .. k : L[i] = x

LEMMA LoopListsRing ==
  ASSUME NEW S, NEW nx, NEW pv, NEW rk, Sorted(S, nx, pv, rk), NEW b, Least(S, b, rk),
         S \subseteq DOMAIN nx, IsFiniteSet(DOMAIN nx), nullptr \notin S
  PROVE  \E k \in Nat \ {0} : ListsRing(Text!Loop(b, nx), k, S, b, nx, rk)
<1> DEFINE most == Cardinality(DOMAIN nx)
<1>1. most \in Nat
  BY FS_CardinalityType
<1> HIDE DEF most
<1>2. PICK v : IsVisits(v, b, nx, most) /\ Text!Loop(b, nx) = [i \in 1 .. Visited(v, b, most) |-> v[i - 1]]
  BY <1>1, LoopIs DEF most
<1> DEFINE Halts == Ends(v, b, most)
           n == Visited(v, b, most)
<1>3. /\ Halts = {i \in 0 .. most : v[i] = nullptr \/ (i > 0 /\ v[i] = b)}
      /\ n = IF Halts = {} THEN most + 1 ELSE Text!Min(Halts)
      /\ Text!Loop(b, nx) = [i \in 1 .. n |-> v[i - 1]] /\ IsVisits(v, b, nx, most)
  BY <1>2 DEF Ends, Visited
<1> HIDE DEF Halts, n
<1>4. b \in S /\ (\A x \in S : rk[b] <= rk[x] /\ rk[x] \in Int /\ nx[x] \in S /\ x # nullptr)
  BY DEF Least, Sorted
<1>5. v[0] = b
  BY <1>1, <1>3 DEF IsVisits
<1>6. \A i \in 0 .. most - 1 : v[i] \in S => v[i + 1] = nx[v[i]] /\ v[i + 1] \in S
  <2> SUFFICES ASSUME NEW i \in 0 .. most - 1, v[i] \in S PROVE v[i + 1] = nx[v[i]]
    BY <1>4
  <2>1. i + 1 \in 0 .. most /\ i + 1 # 0 /\ (i + 1) - 1 = i
    BY <1>1
  <2> QED
    BY <1>3, <1>4, <2>1 DEF IsVisits
<1>7. \A i \in 0 .. most : v[i] \in S
  <2> DEFINE T == {i \in Nat : i <= most => v[i] \in S}
  <2>1. 0 \in T
    BY <1>4, <1>5
  <2>2. \A i \in T : i + 1 \in T
    BY <1>1, <1>6
  <2> HIDE DEF T
  <2>3. \A i \in Nat : i \in T
    BY <2>1, <2>2, SetInduction DEF T
  <2> QED
    BY <2>3 DEF T
\* From a member to the next the rank grows, unless it is the least one again.
<1>8. \A x \in S : nx[x] # b => rk[x] < rk[nx[x]]
  <2> SUFFICES ASSUME NEW x \in S, nx[x] # b PROVE rk[x] < rk[nx[x]]
    OBVIOUS
  <2>1. pv[b] \in S /\ nx[pv[b]] = b /\ rk[x] <= rk[pv[b]]
    BY <1>4, LastIsGreatest DEF Sorted
  <2>2. x # pv[b] /\ rk[x] # rk[pv[b]]
    BY <2>1 DEF Sorted
  <2>3. rk[x] < rk[pv[b]]
    BY <1>4, <2>1, <2>2
  <2> QED
    BY <2>1, <2>3 DEF Sorted
<1>9. ASSUME NEW m \in 0 .. most, \A i \in 1 .. m : v[i] # b
      PROVE  \A i, j \in 0 .. m : i < j => rk[v[i]] < rk[v[j]]
  <2> DEFINE T == {j \in Nat : j <= m => \A i \in 0 .. m : i < j => rk[v[i]] < rk[v[j]]}
  <2>1. 0 \in T
    BY <1>1
  <2>2. ASSUME NEW j \in T, j + 1 <= m PROVE \A i \in 0 .. m : i < j + 1 => rk[v[i]] < rk[v[j + 1]]
    <3>1. j \in 0 .. most - 1 /\ j \in 0 .. m /\ j + 1 \in 1 .. m /\ j \in Nat /\ j + 1 \in 0 .. most
      BY <1>1, <2>2
    <3>2. v[j] \in S /\ v[j + 1] \in S /\ v[j + 1] = nx[v[j]] /\ v[j + 1] # b
      <4>1. v[j] \in S /\ v[j + 1] \in S
        BY <1>1, <1>7, <3>1
      <4>2. v[j + 1] = nx[v[j]]
        BY <1>6, <3>1, <4>1
      <4>3. v[j + 1] # b
        BY <1>9, <3>1
      <4> QED
        BY <4>1, <4>2, <4>3
    <3>3. rk[v[j]] < rk[v[j + 1]]
      BY <1>8, <3>2
    <3>4. \A i \in 0 .. m : i < j => rk[v[i]] < rk[v[j]]
      BY <2>2, <3>1
    <3> SUFFICES ASSUME NEW i \in 0 .. m, i < j + 1 PROVE rk[v[i]] < rk[v[j + 1]]
      OBVIOUS
    <3>5. v[i] \in S /\ (i < j \/ i = j)
      BY <1>1, <1>7, <3>1
    <3>6. rk[v[i]] \in Int /\ rk[v[j]] \in Int /\ rk[v[j + 1]] \in Int
      BY <1>4, <3>2, <3>5
    <3> QED
      BY <3>3, <3>4, <3>5, <3>6
  <2>3. \A j \in T : j + 1 \in T
    BY <2>2
  <2> HIDE DEF T
  <2>4. \A j \in Nat : j \in T
    BY <2>1, <2>3, SetInduction DEF T
  <2> QED
    BY <2>4 DEF T
<1>10. Halts # {}
  <2> SUFFICES ASSUME Halts = {} PROVE FALSE
    OBVIOUS
  <2>0. \A i \in 1 .. most : v[i] # b
    <3> SUFFICES ASSUME NEW i \in 1 .. most, v[i] = b PROVE FALSE
      OBVIOUS
    <3>1. i \in 0 .. most /\ i > 0
      BY <1>1
    <3>2. i \in Halts
      BY <1>3, <3>1
    <3> QED
      BY <3>2
  <2>1. most \in 0 .. most
    BY <1>1
  <2>2. \A i, j \in 0 .. most : i < j => rk[v[i]] < rk[v[j]]
    BY <1>9, <2>0, <2>1
  <2>3. \A i, j \in 0 .. most : i # j => v[i] # v[j]
    <3> SUFFICES ASSUME NEW i \in 0 .. most, NEW j \in 0 .. most, i < j, v[i] = v[j] PROVE FALSE
      BY <1>1
    <3>1. rk[v[i]] < rk[v[j]] /\ rk[v[i]] \in Int
      BY <1>4, <1>7, <2>2
    <3> QED
      BY <3>1
  <2> DEFINE f == [i \in 0 .. most |-> v[i]]
  <2>4. f \in [0 .. most -> DOMAIN nx]
    BY <1>7
  <2>5. IsFiniteSet(0 .. most) /\ Cardinality(0 .. most) = most + 1
    BY <1>1, FS_Interval
  <2>6. Cardinality(DOMAIN nx) < Cardinality(0 .. most)
    BY <1>1, <2>5 DEF most
  <2> HIDE DEF f
  <2>7. \E i, j \in 0 .. most : i # j /\ f[i] = f[j]
    BY <2>4, <2>5, <2>6, FS_PigeonHole
  <2> QED
    BY <2>3, <2>7 DEF f
<1>11. Halts \in SUBSET Nat
  BY <1>3
<1>12. n \in Halts /\ \A i \in Halts : n <= i
  BY <1>3, <1>10, <1>11, MinIsLeast
<1>13. /\ n \in 1 .. most /\ v[n] = b /\ \A i \in 1 .. n - 1 : v[i] # b
  <2>1. v[0] # nullptr /\ \A i \in 0 .. most : v[i] # nullptr
    BY <1>4, <1>5, <1>7
  <2>2. Halts = {i \in 1 .. most : v[i] = b}
    BY <1>1, <1>3, <2>1
  <2> QED
    BY <1>1, <1>12, <2>2
<1> DEFINE L == Text!Loop(b, nx)
<1>14. \A i \in 1 .. n : L[i] = v[i - 1] /\ i - 1 \in 0 .. most /\ L[i] \in S
  BY <1>1, <1>3, <1>7, <1>13
<1>15. L \in [1 .. n -> S]
  <2>1. L = [i \in 1 .. n |-> v[i - 1]]
    BY <1>3
  <2> QED
    BY <1>14, <2>1
<1> HIDE DEF L
<1>16. \A i \in 1 .. n - 1 : L[i + 1] = nx[L[i]]
  <2> SUFFICES ASSUME NEW i \in 1 .. n - 1 PROVE L[i + 1] = nx[L[i]]
    OBVIOUS
  <2>1. i \in 1 .. n /\ i + 1 \in 1 .. n /\ (i + 1) - 1 = i /\ i - 1 \in 0 .. most - 1 /\ (i - 1) + 1 = i
    BY <1>1, <1>13
  <2> QED
    BY <1>6, <1>14, <2>1
<1>17. nx[L[n]] = b
  <2>1. n \in 1 .. n /\ n - 1 \in 0 .. most - 1 /\ (n - 1) + 1 = n
    BY <1>1, <1>13
  <2> QED
    BY <1>6, <1>13, <1>14, <2>1
<1>18. \A i, j \in 1 .. n : i < j => rk[L[i]] < rk[L[j]]
  <2>1. n - 1 \in 0 .. most
    BY <1>1, <1>13
  <2>2. \A i, j \in 0 .. n - 1 : i < j => rk[v[i]] < rk[v[j]]
    BY <1>9, <1>13, <2>1
  <2> SUFFICES ASSUME NEW i \in 1 .. n, NEW j \in 1 .. n, i < j PROVE rk[L[i]] < rk[L[j]]
    OBVIOUS
  <2>3. i - 1 \in 0 .. n - 1 /\ j - 1 \in 0 .. n - 1 /\ i - 1 < j - 1
    BY <1>13
  <2> QED
    BY <1>14, <2>2, <2>3
<1>19. ASSUME NEW x \in S PROVE \E i \in 1 .. n : L[i] = x
  <2> DEFINE T == {m \in Nat : m <= n - 1 => (\E i \in 0 .. m : v[i] = x) \/ rk[v[m]] < rk[x]}
  <2>1. ASSUME NEW m \in 0 .. n - 1, rk[v[m]] <= rk[x] PROVE v[m] = x \/ rk[v[m]] < rk[x]
    <3>1. v[m] \in S
      BY <1>1, <1>7, <1>13
    <3>2. rk[v[m]] \in Int /\ rk[x] \in Int
      BY <1>4, <3>1
    <3>3. v[m] # x => rk[v[m]] # rk[x]
      BY <3>1 DEF Sorted
    <3> QED
      BY <2>1, <3>2, <3>3
  <2>2. 0 \in T
    <3>1. 0 \in 0 .. n - 1 /\ rk[v[0]] <= rk[x]
      BY <1>4, <1>5, <1>13
    <3>2. v[0] = x \/ rk[v[0]] < rk[x]
      BY <2>1, <3>1
    <3> QED
      BY <3>2
  <2>3. ASSUME NEW m \in T, m + 1 <= n - 1
        PROVE  (\E i \in 0 .. m + 1 : v[i] = x) \/ rk[v[m + 1]] < rk[x]
    <3>1. m \in Nat /\ m \in 0 .. n - 1 /\ m + 1 \in 0 .. n - 1 /\ m \in 0 .. most - 1 /\ m \in 0 .. most
      BY <1>1, <1>13, <2>3
    <3>2. CASE \E i \in 0 .. m : v[i] = x
      BY <3>1, <3>2
    <3>3. CASE rk[v[m]] < rk[x]
      <4>1. v[m] \in S /\ v[m + 1] = nx[v[m]]
        BY <1>6, <1>7, <3>1
      <4>2. rk[v[m + 1]] <= rk[x]
        BY <3>3, <4>1 DEF Sorted
      <4> QED
        BY <2>1, <3>1, <4>2
    <3> QED
      BY <2>3, <3>1, <3>2, <3>3
  <2>4. \A m \in T : m + 1 \in T
    BY <2>3
  <2> HIDE DEF T
  <2>5. \A m \in Nat : m \in T
    BY <2>2, <2>4, SetInduction DEF T
  <2>6. n - 1 \in T /\ n - 1 \in Nat
    BY <1>13, <2>5
  <2>7. ~(rk[v[n - 1]] < rk[x])
    <3>1. v[n - 1] \in S /\ nx[v[n - 1]] = b
      <4>1. n \in 1 .. n /\ L[n] = v[n - 1] /\ L[n] \in S
        BY <1>13, <1>14
      <4> QED
        BY <1>17, <4>1
    <3>2. rk[b] <= rk[v[n - 1]] /\ rk[b] \in Int /\ rk[v[n - 1]] \in Int
      BY <1>4, <3>1
    <3>3. rk[v[n - 1]] < rk[x] => rk[v[n - 1]] < rk[b]
      BY <3>1 DEF Sorted
    <3> QED
      BY <3>2, <3>3
  <2>8. PICK i \in 0 .. n - 1 : v[i] = x
    BY <2>6, <2>7 DEF T
  <2>9. i + 1 \in 1 .. n /\ (i + 1) - 1 = i
    BY <1>13
  <2> QED
    BY <1>14, <2>8, <2>9
<1>20. L[1] = b /\ n \in Nat \ {0}
  BY <1>5, <1>13, <1>14
<1>21. ListsRing(L, n, S, b, nx, rk)
  BY <1>15, <1>16, <1>17, <1>18, <1>19, <1>20 DEF ListsRing
<1> QED
  BY <1>20, <1>21 DEF L

\* toString() of the two classes has the same loops.
LEMMA LoopsSame == ASSUME NEW h, NEW f PROVE Client!Text!Loop(h, f) = Text!Loop(h, f)
BY Zenon DEF Client!Text!Loop, Text!Loop, Client!Text!Min, Text!Min, Client!Text!Cardinality,
             Text!Cardinality, Cardinality

\* The orders in the list of a level, and their ranks there.
OrdersAt(l) == {o \in usedOrders : LevelOf(o) = l}
Arrival == [o \in OrderSlots |-> order[o].prio]

LEMMA OrdersInRing ==
  ASSUME IInv, NEW l \in usedLevels
  PROVE  /\ OrdersAt(l) = {o \in usedOrders : PriceToIndex(order[o].price) = PriceToIndex(level[l].price)}
         /\ Sorted(OrdersAt(l), nextOrder, prevOrder, Arrival) /\ Least(OrdersAt(l), firstOrder[l], Arrival)
<1> DEFINE S == OrdersAt(l)
<1>1. l # nullptr /\ PriceToIndex(level[l].price) \in PriceIndices
  BY IndicesInRange, ConstantsAssumption DEF IInv, TypeOK, LevelSlots
<1>2. \A o \in usedOrders : PriceToIndex(order[o].price) \in PriceIndices /\ order[o].prio \in Nat /\ o \in OrderSlots
  BY IndicesInRange, RestingNumbers DEF IInv, TypeOK
<1>3. \A o \in usedOrders : LevelOf(o) = l <=> PriceToIndex(order[o].price) = PriceToIndex(level[l].price)
  BY <1>1, <1>2 DEF IInv, BookInv, LevelsIndexed, LevelOf
<1>4. \A o, p \in S : o \in usedOrders /\ p \in usedOrders /\ SameLevel(o, p) /\ Arrival[o] \in Int
                       /\ (Arrival[o] < Arrival[p] <=> Before(o, p))
  BY <1>2, <1>3 DEF OrdersAt, SameLevel, Before, Arrival
<1>5. \A o \in S : /\ nextOrder[o] \in S /\ prevOrder[o] \in S
                   /\ prevOrder[nextOrder[o]] = o /\ nextOrder[prevOrder[o]] = o
  <2> SUFFICES ASSUME NEW o \in S
               PROVE  /\ nextOrder[o] \in S /\ prevOrder[o] \in S
                      /\ prevOrder[nextOrder[o]] = o /\ nextOrder[prevOrder[o]] = o
    OBVIOUS
  <2>1. /\ nextOrder[o] \in usedOrders /\ SameLevel(o, nextOrder[o])
        /\ prevOrder[o] \in usedOrders /\ SameLevel(prevOrder[o], nextOrder[prevOrder[o]])
        /\ prevOrder[nextOrder[o]] = o /\ nextOrder[prevOrder[o]] = o
    BY <1>4 DEF IInv, BookInv, FifoLists
  <2> QED
    BY <1>3, <2>1 DEF OrdersAt, SameLevel
<1>6. \A o, p \in S : o # p => Before(o, p) \/ Before(p, o)
  BY <1>4 DEF IInv, BookInv, FifoLists
<1>7. \A o, p \in S : Before(o, p) =>
        /\ Before(o, nextOrder[o]) /\ ~Before(p, nextOrder[o])
        /\ Before(prevOrder[p], p) /\ ~Before(prevOrder[p], o)
  BY <1>4 DEF IInv, BookInv, FifoLists
<1>8. firstOrder[l] \in S /\ \A o \in S : ~Before(o, firstOrder[l])
  BY <1>1, <1>3 DEF IInv, BookInv, LevelsIndexed, OrdersAt
<1>9. S = {o \in usedOrders : PriceToIndex(order[o].price) = PriceToIndex(level[l].price)}
  BY <1>3 DEF OrdersAt
<1> HIDE DEF S
<1>10. Sorted(S, nextOrder, prevOrder, Arrival)
  <2>1. \A x, y \in S : x # y => Arrival[x] # Arrival[y]
    BY <1>4, <1>6
  <2>2. \A x, y \in S : Arrival[x] < Arrival[y] =>
          /\ Arrival[x] < Arrival[nextOrder[x]] /\ Arrival[nextOrder[x]] <= Arrival[y]
          /\ Arrival[prevOrder[y]] < Arrival[y] /\ Arrival[x] <= Arrival[prevOrder[y]]
    BY <1>4, <1>5, <1>7
  <2> QED
    BY <1>4, <1>5, <2>1, <2>2 DEF Sorted
<1>11. Least(S, firstOrder[l], Arrival)
  BY <1>4, <1>8 DEF Least
<1> QED
  BY <1>9, <1>10, <1>11 DEF S

\* What toString() of either class lists of a level.
LEMMA LevelListed ==
  ASSUME IInv, NEW l \in usedLevels, NEW nx, DOMAIN nx = OrderSlots, \A o \in OrderSlots : nx[o] = nextOrder[o]
  PROVE  \E k \in Nat \ {0} : ListsRing(Text!Loop(firstOrder[l], nx), k, OrdersAt(l), firstOrder[l], nx, Arrival)
<1> DEFINE S == OrdersAt(l)
<1>1. S \subseteq OrderSlots /\ nullptr \notin S
  BY NullNoOrder DEF OrdersAt, IInv, TypeOK
<1>2. Sorted(S, nextOrder, prevOrder, Arrival) /\ Least(S, firstOrder[l], Arrival)
  BY OrdersInRing
<1> HIDE DEF S
<1>3. Sorted(S, nx, prevOrder, Arrival)
  BY <1>1, <1>2, SortedSame
<1>4. IsFiniteSet(DOMAIN nx)
  BY ConstantsAssumption, FS_Interval DEF OrderSlots
<1>5. \E k \in Nat \ {0} : ListsRing(Text!Loop(firstOrder[l], nx), k, S, firstOrder[l], nx, Arrival)
  BY <1>1, <1>2, <1>3, <1>4, LoopListsRing
<1> QED
  BY <1>5 DEF S

LEMMA OrdersListed == IInv /\ MirrorInv => ListsByArrival
<1> SUFFICES ASSUME IInv, MirrorInv, Caught, recoveries = 0, NEW l \in book.usedLevels
             PROVE  LET listed == Client!Text!Line(l).orders
                    IN /\ Range(listed) = {o \in book.usedOrders : Client!LevelAt(book, book.order[o].price) = l}
                       /\ \A i, j \in DOMAIN listed : i < j => Before(listed[i], listed[j])
  BY DEF ListsByArrival
<1> DEFINE nx == [o \in Client!OrderSlots |-> book.order[o].next]
           listed == Client!Text!Line(l).orders
<1>1. SameBook(book)
  BY DEF Caught, MirrorInv, Reaches, AfterTrade
<1>2. /\ book.usedOrders = usedOrders /\ book.usedLevels = usedLevels /\ book.priceMap = priceMap
      /\ \A o \in OrderSlots : book.order[o].price = order[o].price /\ book.order[o].next = nextOrder[o]
      /\ \A k \in LevelSlots : book.level[k].first = firstOrder[k]
  BY <1>1 DEF SameBook, AsOrders, AsLevels, OrdersAre, LevelsAre
<1>3. l \in usedLevels /\ l \in LevelSlots /\ usedOrders \subseteq OrderSlots
  BY <1>2 DEF IInv, TypeOK
<1>4. DOMAIN nx = OrderSlots /\ \A o \in OrderSlots : nx[o] = nextOrder[o]
  BY <1>2, ClientSlots
<1>5. listed = Client!Text!Loop(firstOrder[l], nx)
  <2>1. [k \in Client!LevelSlots |-> book.level[k].first][l] = firstOrder[l]
    BY <1>2, <1>3, SameIndex
  <2> QED
    BY <2>1 DEF Client!Text!Line
<1> HIDE DEF nx, listed
<1>6. listed = Text!Loop(firstOrder[l], nx)
  BY <1>5, LoopsSame
<1>7. PICK k \in Nat \ {0} : ListsRing(listed, k, OrdersAt(l), firstOrder[l], nx, Arrival)
  BY <1>3, <1>4, <1>6, LevelListed
<1>8. OrdersAt(l) = {o \in book.usedOrders : Client!LevelAt(book, book.order[o].price) = l}
  BY <1>2, <1>3, SameIndex DEF OrdersAt, LevelOf, Client!LevelAt
<1>9. Range(listed) = OrdersAt(l)
  BY <1>7 DEF ListsRing, Range
<1>10. \A i, j \in DOMAIN listed : i < j => Before(listed[i], listed[j])
  <2> SUFFICES ASSUME NEW i \in DOMAIN listed, NEW j \in DOMAIN listed, i < j PROVE Before(listed[i], listed[j])
    OBVIOUS
  <2>1. i \in 1 .. k /\ j \in 1 .. k
    BY <1>7 DEF ListsRing
  <2>2. Arrival[listed[i]] < Arrival[listed[j]] /\ listed[i] \in OrdersAt(l) /\ listed[j] \in OrdersAt(l)
    BY <1>7, <2>1 DEF ListsRing
  <2> QED
    BY <1>3, <2>2 DEF Arrival, Before, OrdersAt
<1> QED
  BY <1>8, <1>9, <1>10 DEF listed

\* Whatever happened to the list of levels, what the client's toString() lists of a level in use
\* are the orders of its index, each once, in the order of their arrival.
THEOREM ClientListsByArrival == MirrorSpec => []ListsByArrival
<1>1. MirrorIInv => ListsByArrival
  BY OrdersListed DEF MirrorIInv
<1>2. QED
  BY <1>1, MirrorKept, PTL

-----------------------------------------------------------------------------
\* Sums over finite sets.

Some(s) == CHOOSE y \in s : TRUE
Adds(g, w, S) == \A s \in SUBSET S : g[s] = IF s = {} THEN 0 ELSE w[Some(s)] + g[s \ {Some(s)}]

LEMMA SomeOf == ASSUME NEW s, s # {} PROVE Some(s) \in s
BY DEF Some

\* The subsets of a finite set by their size.
LEMMA SubsetSizes ==
  ASSUME NEW S, IsFiniteSet(S), NEW s \in SUBSET S
  PROVE  /\ Cardinality(s) \in Nat /\ IsFiniteSet(s) /\ (Cardinality(s) = 0 <=> s = {})
         /\ \A x \in s : s \ {x} \in SUBSET S /\ Cardinality(s \ {x}) = Cardinality(s) - 1
<1>1. IsFiniteSet(s)
  BY FS_Subset
<1>2. Cardinality(s) \in Nat /\ (Cardinality(s) = 0 <=> s = {})
  BY <1>1, FS_CardinalityType, FS_EmptySet
<1>3. ASSUME NEW x \in s PROVE Cardinality(s \ {x}) = Cardinality(s) - 1
  BY <1>1, FS_RemoveElement
<1> QED
  BY <1>1, <1>2, <1>3

IsSum(g, w, S) ==
  g = [s \in SUBSET S |-> IF s = {} THEN 0 ELSE LET x == CHOOSE y \in s : TRUE IN w[x] + g[s \ {x}]]

LEMMA SumSolves == ASSUME NEW w, NEW S, IsFiniteSet(S) PROVE \E g : IsSum(g, w, S)
<1> DEFINE Step(g, s) == IF s = {} THEN 0 ELSE w[Some(s)] + g[s \ {Some(s)}]
           UpTo(g, n) == \A s \in SUBSET S : Cardinality(s) <= n => g[s] = Step(g, s)
           T == {n \in Nat : \E g : UpTo(g, n)}
<1>1. 0 \in T
  <2> DEFINE g == [s \in SUBSET S |-> 0]
  <2>1. UpTo(g, 0)
    BY SubsetSizes
  <2> QED
    BY <2>1
<1>2. ASSUME NEW n \in T PROVE n + 1 \in T
  <2>1. PICK g : UpTo(g, n)
    BY <1>2
  <2> DEFINE h == [s \in SUBSET S |-> Step(g, s)]
  <2>2. ASSUME NEW s \in SUBSET S, Cardinality(s) <= n + 1, s # {}
        PROVE  h[s \ {Some(s)}] = g[s \ {Some(s)}]
    <3>1. s \ {Some(s)} \in SUBSET S /\ Cardinality(s \ {Some(s)}) = Cardinality(s) - 1 /\ Cardinality(s) \in Nat
      BY <2>2, SubsetSizes, SomeOf
    <3>2. Cardinality(s \ {Some(s)}) <= n
      BY <2>2, <3>1
    <3> QED
      BY <2>1, <3>1, <3>2
  <2>3. UpTo(h, n + 1)
    BY <2>2
  <2> HIDE DEF h, UpTo
  <2>4. n + 1 \in Nat /\ \E f : UpTo(f, n + 1)
    BY <2>3
  <2> QED
    BY <2>4
<1>0. T \in SUBSET Nat
  OBVIOUS
<1> HIDE DEF T
<1>3. Cardinality(S) \in Nat /\ Cardinality(S) \in T
  BY <1>0, <1>1, <1>2, SetInduction, FS_CardinalityType
<1>4. PICK g : UpTo(g, Cardinality(S))
  BY <1>3 DEF T
<1> DEFINE h == [s \in SUBSET S |-> Step(g, s)]
<1>5. \A s \in SUBSET S : h[s] = g[s]
  <2> SUFFICES ASSUME NEW s \in SUBSET S PROVE g[s] = Step(g, s)
    OBVIOUS
  <2>1. Cardinality(s) <= Cardinality(S)
    BY FS_Subset
  <2> QED
    BY <1>4, <2>1
<1>6. h = [s \in SUBSET S |-> Step(h, s)]
  <2>1. \A s \in SUBSET S : Step(h, s) = Step(g, s)
    BY <1>5
  <2> QED
    BY <2>1
<1> HIDE DEF h
<1>7. IsSum(h, w, S)
  BY <1>6 DEF IsSum, Some
<1> QED
  BY <1>7

\* A sum is that of any member and of the others.
LEMMA SumTakes ==
  ASSUME NEW g, NEW w, NEW S, IsFiniteSet(S), Adds(g, w, S), \A x \in S : w[x] \in Nat
  PROVE  \A s \in SUBSET S : g[s] \in Nat /\ \A x \in s : g[s] = w[x] + g[s \ {x}]
<1> DEFINE Fine(s) == g[s] \in Nat /\ \A x \in s : g[s] = w[x] + g[s \ {x}]
           T == {n \in Nat : \A s \in SUBSET S : Cardinality(s) <= n => Fine(s)}
<1>1. 0 \in T
  <2> SUFFICES ASSUME NEW s \in SUBSET S, Cardinality(s) <= 0 PROVE Fine(s)
    OBVIOUS
  <2>1. s = {} /\ {} \in SUBSET S
    BY SubsetSizes
  <2>2. \A f, u : Adds(f, u, S) => f[{}] = 0
    BY <2>1 DEF Adds
  <2> QED
    BY <2>1, <2>2
<1>2. ASSUME NEW n \in T PROVE n + 1 \in T
  <2> SUFFICES ASSUME NEW s \in SUBSET S, Cardinality(s) <= n + 1 PROVE Fine(s)
    OBVIOUS
  <2>1. CASE s = {}
    BY <2>1 DEF Adds
  <2>2. CASE s # {}
    <3> DEFINE y == Some(s)
    <3>1. y \in s /\ g[s] = w[y] + g[s \ {y}]
      BY <2>2, SomeOf DEF Adds
    <3> HIDE DEF y
    <3>2. \A x \in s : s \ {x} \in SUBSET S /\ Fine(s \ {x})
      <4> SUFFICES ASSUME NEW x \in s PROVE s \ {x} \in SUBSET S /\ Fine(s \ {x})
        OBVIOUS
      <4>1. s \ {x} \in SUBSET S /\ Cardinality(s \ {x}) = Cardinality(s) - 1 /\ Cardinality(s) \in Nat
        BY SubsetSizes
      <4>2. Cardinality(s \ {x}) <= n
        BY <4>1
      <4> QED
        BY <1>2, <4>1, <4>2
    <3>3. g[s \ {y}] \in Nat /\ w[y] \in Nat
      BY <3>1, <3>2
    <3>4. g[s] \in Nat
      BY <3>1, <3>3
    <3>5. ASSUME NEW x \in s PROVE g[s] = w[x] + g[s \ {x}]
      <4>1. CASE x = y
        BY <3>1, <4>1
      <4>2. CASE x # y
        <5>1. x \in s \ {y} /\ y \in s \ {x} /\ (s \ {y}) \ {x} = (s \ {x}) \ {y}
          BY <3>1, <4>2
        <5> DEFINE r == (s \ {x}) \ {y}
        <5>2. g[s \ {y}] = w[x] + g[r] /\ g[s \ {x}] = w[y] + g[r]
          <6>1. Fine(s \ {x}) /\ Fine(s \ {y})
            BY <3>1, <3>2
          <6> QED
            BY <5>1, <6>1
        <5>3. r \in SUBSET S /\ Cardinality(r) <= n
          <6>1. Cardinality(s \ {x}) = Cardinality(s) - 1 /\ Cardinality(s) \in Nat /\ s \ {x} \in SUBSET S
            BY SubsetSizes
          <6>2. \A z \in s \ {x} : Cardinality((s \ {x}) \ {z}) = Cardinality(s \ {x}) - 1
            BY <6>1, SubsetSizes
          <6>3. Cardinality(r) = Cardinality(s \ {x}) - 1
            BY <5>1, <6>2
          <6> QED
            BY <6>1, <6>3
        <5>4. g[r] \in Nat
          BY <1>2, <5>3
        <5> HIDE DEF r
        <5>5. w[x] \in Nat /\ w[y] \in Nat
          BY <3>1
        <5> QED
          BY <3>1, <5>2, <5>4, <5>5
      <4> QED
        BY <4>1, <4>2
    <3> QED
      BY <3>4, <3>5
  <2> QED
    BY <2>1, <2>2
<1>0. T \in SUBSET Nat
  OBVIOUS
<1> HIDE DEF T
<1>3. Cardinality(S) \in Nat /\ Cardinality(S) \in T
  BY <1>0, <1>1, <1>2, SetInduction, FS_CardinalityType
<1> SUFFICES ASSUME NEW s \in SUBSET S PROVE Fine(s)
  OBVIOUS
<1>4. Cardinality(s) <= Cardinality(S)
  BY FS_Subset
<1> QED
  BY <1>3, <1>4 DEF T

\* Equal summands, equal sums.
LEMMA SumsAgree ==
  ASSUME NEW g, NEW h, NEW w, NEW v, NEW S, IsFiniteSet(S), Adds(g, w, S), Adds(h, v, S),
         \A x \in S : w[x] = v[x]
  PROVE  g[S] = h[S]
<1> DEFINE T == {n \in Nat : \A s \in SUBSET S : Cardinality(s) <= n => g[s] = h[s]}
<1>1. 0 \in T
  <2> SUFFICES ASSUME NEW s \in SUBSET S, Cardinality(s) <= 0 PROVE g[s] = h[s]
    OBVIOUS
  <2>1. s = {} /\ {} \in SUBSET S
    BY SubsetSizes
  <2>2. \A f, u : Adds(f, u, S) => f[{}] = 0
    BY <2>1 DEF Adds
  <2> QED
    BY <2>1, <2>2
<1>2. ASSUME NEW n \in T PROVE n + 1 \in T
  <2> SUFFICES ASSUME NEW s \in SUBSET S, Cardinality(s) <= n + 1 PROVE g[s] = h[s]
    OBVIOUS
  <2>1. CASE s = {}
    BY <2>1 DEF Adds
  <2>2. CASE s # {}
    <3> DEFINE y == Some(s)
    <3>1. y \in s /\ g[s] = w[y] + g[s \ {y}] /\ h[s] = v[y] + h[s \ {y}] /\ w[y] = v[y]
      BY <2>2, SomeOf DEF Adds
    <3> HIDE DEF y
    <3>2. s \ {y} \in SUBSET S /\ Cardinality(s \ {y}) = Cardinality(s) - 1 /\ Cardinality(s) \in Nat
      BY <3>1, SubsetSizes
    <3>3. Cardinality(s \ {y}) <= n
      BY <3>2
    <3>4. g[s \ {y}] = h[s \ {y}]
      BY <1>2, <3>2, <3>3
    <3> QED
      BY <3>1, <3>4
  <2> QED
    BY <2>1, <2>2
<1>0. T \in SUBSET Nat
  OBVIOUS
<1> HIDE DEF T
<1>3. Cardinality(S) \in Nat /\ Cardinality(S) \in T /\ S \in SUBSET S
  BY <1>0, <1>1, <1>2, SetInduction, FS_CardinalityType
<1> QED
  BY <1>3 DEF T

\* The sum along a list is that of what it lists.
Takes(g, w, S) == \A s \in SUBSET S : g[s] \in Nat /\ \A x \in s : g[s] = w[x] + g[s \ {x}]
LEMMA AddsTakes ==
  \A g, w, S : IsFiniteSet(S) /\ Adds(g, w, S) /\ (\A x \in S : w[x] \in Nat) => Takes(g, w, S)
BY SumTakes DEF Takes
LEMMA SumListed ==
  ASSUME NEW k \in Nat, NEW S, NEW L \in [1 .. k -> S], \A x \in S : \E i \in 1 .. k : L[i] = x,
         \A i, j \in 1 .. k : i # j => L[i] # L[j], IsFiniteSet(S),
         NEW g, NEW h, NEW w, NEW v, Adds(g, v, 1 .. k), Adds(h, w, S), \A x \in S : w[x] \in Nat,
         \A i \in 1 .. k : v[i] = w[L[i]]
  PROVE  g[1 .. k] = h[S]
<1> DEFINE Im(m) == {L[i] : i \in 1 .. m}
           I(m) == 1 .. m
           T == {m \in Nat : m <= k => g[I(m)] = h[Im(m)]}
<1>1. IsFiniteSet(I(k)) /\ \A i \in I(k) : v[i] \in Nat
  <2>1. 1 \in Int /\ k \in Int
    OBVIOUS
  <2>2. IsFiniteSet(1 .. k)
    BY <2>1, FS_Interval
  <2> QED
    BY <2>2
<1>2. Im(0) = {} /\ I(0) = {} /\ Im(k) = S
  OBVIOUS
<1>3. ASSUME NEW m \in Nat, m + 1 <= k
      PROVE  /\ m + 1 \in I(m + 1) /\ I(m + 1) \in SUBSET I(k) /\ I(m + 1) \ {m + 1} = I(m)
             /\ L[m + 1] \in Im(m + 1) /\ Im(m + 1) \in SUBSET S /\ Im(m + 1) \ {L[m + 1]} = Im(m)
             /\ v[m + 1] = w[L[m + 1]]
  <2>1. m + 1 \in 1 .. k /\ m + 1 \in 1 .. m + 1 /\ 1 .. m + 1 \subseteq 1 .. k /\ (1 .. m + 1) \ {m + 1} = 1 .. m
    BY <1>3
  <2>2. \A i \in 1 .. m : i \in 1 .. m + 1 /\ i # m + 1 /\ L[i] # L[m + 1]
    BY <2>1
  <2>3. \A i \in 1 .. m + 1 : i \in 1 .. m \/ i = m + 1
    BY <2>1
  <2>4. Im(m + 1) \ {L[m + 1]} = Im(m)
    BY <2>2, <2>3
  <2> QED
    BY <2>1, <2>4
<1>4. Adds(g, v, I(k)) /\ Adds(h, w, S)
  OBVIOUS
<1> HIDE DEF I, Im, T
<1>5. Takes(g, v, I(k))
  BY <1>1, <1>4, AddsTakes
<1>6. Takes(h, w, S)
  BY <1>4, AddsTakes
<1>7. 0 \in T
  <2>1. g[{}] = 0 /\ h[{}] = 0
    BY <1>4 DEF Adds
  <2> QED
    BY <1>2, <2>1 DEF T
<1>8. ASSUME NEW m \in T PROVE m + 1 \in T
  <2> SUFFICES ASSUME m + 1 <= k PROVE g[I(m + 1)] = h[Im(m + 1)]
    BY DEF T
  <2>1. m \in Nat /\ g[I(m)] = h[Im(m)]
    BY DEF T
  <2>2. g[I(m + 1)] = v[m + 1] + g[I(m)]
    <3>1. m + 1 \in I(m + 1) /\ I(m + 1) \in SUBSET I(k) /\ I(m + 1) \ {m + 1} = I(m)
      BY <1>3, <2>1
    <3>2. \A x \in I(m + 1) : g[I(m + 1)] = v[x] + g[I(m + 1) \ {x}]
      BY <1>5, <3>1 DEF Takes
    <3> QED
      BY <3>1, <3>2
  <2>3. h[Im(m + 1)] = w[L[m + 1]] + h[Im(m)]
    <3>1. L[m + 1] \in Im(m + 1) /\ Im(m + 1) \in SUBSET S /\ Im(m + 1) \ {L[m + 1]} = Im(m)
      BY <1>3, <2>1
    <3>2. \A x \in Im(m + 1) : h[Im(m + 1)] = w[x] + h[Im(m + 1) \ {x}]
      BY <1>6, <3>1 DEF Takes
    <3> QED
      BY <3>1, <3>2
  <2> QED
    BY <1>3, <2>1, <2>2, <2>3
<1>9. T \in SUBSET Nat
  BY DEF T
<1>10. k \in T
  BY <1>7, <1>8, <1>9, SetInduction
<1> QED
  BY <1>2, <1>10 DEF T, I

IsListSum(g, w, L) ==
  g = [s \in SUBSET DOMAIN L |-> IF s = {} THEN 0
                                 ELSE LET x == CHOOSE y \in s : TRUE IN w[L[x]] + g[s \ {x}]]
SumOf(w, S) == MapThenSumSet(LAMBDA o : w[o], S)
SumAlong(w, L) == Text!MapThenSumSet(LAMBDA i : w[L[i]], DOMAIN L)
Along(w, L) == [i \in DOMAIN L |-> w[L[i]]]

LEMMA IsSumAdds == ASSUME NEW g, NEW w, NEW S, IsSum(g, w, S) PROVE Adds(g, w, S)
<1>1. g = [s \in SUBSET S |-> IF s = {} THEN 0 ELSE w[Some(s)] + g[s \ {Some(s)}]]
  BY DEF IsSum, Some
<1> QED
  BY <1>1 DEF Adds

LEMMA ListSumIsSum == ASSUME NEW g, NEW w, NEW L PROVE IsListSum(g, w, L) <=> IsSum(g, Along(w, L), DOMAIN L)
<1>1. \A s \in SUBSET DOMAIN L : s # {} => Along(w, L)[Some(s)] = w[L[Some(s)]]
  BY SomeOf DEF Along
<1>2. IsListSum(g, w, L) <=> g = [s \in SUBSET DOMAIN L |-> IF s = {} THEN 0 ELSE w[L[Some(s)]] + g[s \ {Some(s)}]]
  BY DEF IsListSum, Some
<1>3. IsSum(g, Along(w, L), DOMAIN L)
        <=> g = [s \in SUBSET DOMAIN L |-> IF s = {} THEN 0 ELSE Along(w, L)[Some(s)] + g[s \ {Some(s)}]]
  BY DEF IsSum, Some
<1>4. [s \in SUBSET DOMAIN L |-> IF s = {} THEN 0 ELSE w[L[Some(s)]] + g[s \ {Some(s)}]]
        = [s \in SUBSET DOMAIN L |-> IF s = {} THEN 0 ELSE Along(w, L)[Some(s)] + g[s \ {Some(s)}]]
  BY <1>1
<1> QED
  BY <1>2, <1>3, <1>4, Zenon

\* What MapThenSumSet is.
LEMMA SumIs == ASSUME NEW w, NEW S, IsFiniteSet(S) PROVE \E g : Adds(g, w, S) /\ SumOf(w, S) = g[S]
<1> DEFINE h == CHOOSE g : IsSum(g, w, S)
<1>1. SumOf(w, S) = h[S]
  BY Zenon DEF MapThenSumSet, MapThenFoldSet, IsSum, SumOf
<1>2. IsSum(h, w, S)
  BY SumSolves, Zenon
<1> HIDE DEF h
<1> QED
  BY <1>1, <1>2, IsSumAdds

LEMMA ListSumIs ==
  ASSUME NEW w, NEW L, IsFiniteSet(DOMAIN L)
  PROVE  \E g : Adds(g, Along(w, L), DOMAIN L) /\ SumAlong(w, L) = g[DOMAIN L]
<1> DEFINE h == CHOOSE g : IsListSum(g, w, L)
<1>1. SumAlong(w, L) = h[DOMAIN L]
  BY Zenon DEF Text!MapThenSumSet, Text!MapThenFoldSet, IsListSum, SumAlong
<1>2. IsListSum(h, w, L)
  BY SumSolves, ListSumIsSum, Zenon
<1> HIDE DEF h
<1>3. IsSum(h, Along(w, L), DOMAIN L)
  BY <1>2, ListSumIsSum
<1> QED
  BY <1>1, <1>3, IsSumAdds

\* The quantity of the line of a level is that of its orders.
LEMMA ListedQty ==
  ASSUME NEW k \in Nat, NEW S, NEW L, NEW b, NEW nx, NEW rk, ListsRing(L, k, S, b, nx, rk),
         \A x \in S : rk[x] \in Int, NEW w, \A x \in S : w[x] \in Nat, IsFiniteSet(S)
  PROVE  SumAlong(w, L) = SumOf(w, S)
<1>1. DOMAIN L = 1 .. k /\ L \in [1 .. k -> S] /\ \A x \in S : \E i \in 1 .. k : L[i] = x
  BY DEF ListsRing
<1>2. \A i, j \in 1 .. k : i # j => L[i] # L[j]
  <2> SUFFICES ASSUME NEW i \in 1 .. k, NEW j \in 1 .. k, i < j, L[i] = L[j] PROVE FALSE
    OBVIOUS
  <2>1. rk[L[i]] < rk[L[j]] /\ rk[L[i]] \in Int
    BY <1>1 DEF ListsRing
  <2> QED
    BY <2>1
<1>3. IsFiniteSet(1 .. k)
  <2>1. 1 \in Int /\ k \in Int
    OBVIOUS
  <2> QED
    BY <2>1, FS_Interval
<1>4. PICK g : Adds(g, Along(w, L), 1 .. k) /\ SumAlong(w, L) = g[1 .. k]
  BY <1>1, <1>3, ListSumIs
<1>5. PICK h : Adds(h, w, S) /\ SumOf(w, S) = h[S]
  BY SumIs
<1>6. \A i \in 1 .. k : Along(w, L)[i] = w[L[i]]
  BY <1>1 DEF Along
<1>7. g[1 .. k] = h[S]
  BY <1>1, <1>2, <1>4, <1>5, <1>6, SumListed
<1> QED
  BY <1>4, <1>5, <1>7

\* Who is listed before and after whom.
LEMMA RingNeighbours ==
  ASSUME NEW S, NEW nx, NEW pv, NEW rk, Sorted(S, nx, pv, rk), NEW k \in Nat \ {0}, NEW L, NEW b,
         ListsRing(L, k, S, b, nx, rk), NEW i \in 1 .. k
  PROVE  (i % k) + 1 \in 1 .. k /\ L[(i % k) + 1] = nx[L[i]] /\ pv[L[(i % k) + 1]] = L[i] /\ L[i] \in S
<1>1. L[i] \in S /\ pv[nx[L[i]]] = L[i]
  BY DEF ListsRing, Sorted
<1>2. (i % k) + 1 \in 1 .. k /\ L[(i % k) + 1] = nx[L[i]]
  <2>1. CASE i = k
    <3>1. i % k = 0
      BY <2>1
    <3> QED
      BY <2>1, <3>1 DEF ListsRing
  <2>2. CASE i # k
    <3>1. i % k = i /\ i \in 1 .. k - 1 /\ i + 1 \in 1 .. k
      BY <2>2
    <3> QED
      BY <3>1 DEF ListsRing
  <2> QED
    BY <2>1, <2>2
<1> QED
  BY <1>1, <1>2

LEMMA LineIs ==
  ASSUME NEW l
  PROVE  LET orders == Text!Line(l).orders IN
         /\ orders = Text!Loop(firstOrder[l], nextOrder)
         /\ Text!Line(l).price = [k \in LevelSlots |-> level[k].price][l]
         /\ Text!Line(l).p = Text!Shown(Text!At([k \in LevelSlots |-> level[k].price], prevEntry[l]))
         /\ Text!Line(l).n = Text!Shown(Text!At([k \in LevelSlots |-> level[k].price], nextEntry[l]))
         /\ Text!Line(l).qty = Text!QtyShown(Text!MapThenSumSet(LAMBDA i : qty[orders[i]], DOMAIN orders))
         /\ Text!Line(l).details = [i \in DOMAIN orders |-> Text!Detail(orders[i])]
BY DEF Text!Line

-----------------------------------------------------------------------------
\* toString() of the arranged book.

RestAt(s, p) == {o \in usedOrders : order[o].side = s /\ order[o].price = p}

\* The levels toString() lists of a side.
LEMMA SlotsFinite == IsFiniteSet(OrderSlots) /\ IsFiniteSet(LevelSlots)
<1>1. 0 \in Int /\ ME_MAX_ORDER_IDS - 1 \in Int /\ ME_MAX_PRICE_LEVELS - 1 \in Int
  BY ConstantsAssumption
<1> QED
  BY <1>1, FS_Interval DEF OrderSlots, LevelSlots

LEMMA SideListed ==
  ASSUME IInv, SidesSorted, pc = "idle", NEW s \in Sides
  PROVE  \E k \in Nat : /\ DOMAIN Text!Levels(s) = 1 .. k
                        /\ IF k = 0 THEN Linked(s) = {}
                                    ELSE ListsRing(Text!Levels(s), k, Linked(s), best[s], nextEntry, Rank(s))
<1>1. SideSorted(s)
  BY DEF SidesSorted
<1>2. DOMAIN nextEntry = LevelSlots /\ IsFiniteSet(LevelSlots) /\ Linked(s) \subseteq LevelSlots
  BY SlotsFinite DEF IInv, TypeOK, Linked
<1>3. CASE best[s] = nullptr
  <2>1. Cardinality(DOMAIN nextEntry) \in Nat
    BY <1>2, FS_CardinalityType
  <2>2. PICK n \in Nat : DOMAIN Text!Loop(best[s], nextEntry) = 1 .. n /\ (n = 0 <=> best[s] = nullptr)
    BY <2>1, LoopStarts
  <2>3. Linked(s) = {}
    BY <1>1, <1>3 DEF SideSorted
  <2> QED
    BY <1>3, <2>2, <2>3 DEF Text!Levels
<1>4. CASE best[s] # nullptr
  <2>1. Sorted(Linked(s), nextEntry, prevEntry, Rank(s)) /\ Least(Linked(s), best[s], Rank(s))
    BY <1>1, <1>4 DEF SideSorted
  <2>2. nullptr \notin Linked(s)
    BY <1>2, NullNoLevel
  <2>3. PICK k \in Nat \ {0} : ListsRing(Text!Loop(best[s], nextEntry), k, Linked(s), best[s], nextEntry, Rank(s))
    BY <1>2, <2>1, <2>2, LoopListsRing
  <2>4. DOMAIN Text!Loop(best[s], nextEntry) = 1 .. k
    BY <2>3 DEF ListsRing
  <2> QED
    BY <2>3, <2>4 DEF Text!Levels
<1> QED
  BY <1>3, <1>4

\* The orders it lists of a level, and the rest of its line.
Printed(s, l) ==
  LET line == Text!Line(l)
      S == RestAt(s, level[l].price)
  IN /\ l \in LevelSlots /\ level[l].price \in Nat /\ prevEntry[l] \in Linked(s) /\ nextEntry[l] \in Linked(s)
     /\ line.price = level[l].price
     /\ line.p = Text!Shown(level[prevEntry[l]].price) /\ line.n = Text!Shown(level[nextEntry[l]].price)
     /\ line.qty = Text!QtyShown(SumOf(qty, S))
     /\ line.orders = Text!Loop(firstOrder[l], nextOrder)
     /\ line.details = [i \in DOMAIN line.orders |-> Text!Detail(line.orders[i])]
     /\ Sorted(S, nextOrder, prevOrder, Arrival)
     /\ \E k \in Nat \ {0} : ListsRing(line.orders, k, S, firstOrder[l], nextOrder, Arrival)

LEMMA LevelPrinted ==
  ASSUME IInv, SidesSorted, Placed, pc = "idle", NEW s \in Sides, NEW l \in Linked(s)
  PROVE  Printed(s, l)
<1> DEFINE line == Text!Line(l)
           S == RestAt(s, level[l].price)
<1>1. Placed /\ SideSorted(s) /\ OrdersPlaced
  BY DEF SidesSorted, Placed
<1>2. l \in usedLevels /\ l \in LevelSlots /\ level[l].side = s /\ level[l].price \in Nat
  BY <1>1, LevelsPlaced DEF Linked
<1>3. prevEntry[l] \in Linked(s) /\ nextEntry[l] \in Linked(s)
  BY <1>1 DEF SideSorted, Sorted
<1>4. \A k \in Linked(s) : k \in LevelSlots /\ k # nullptr
  BY NullNoLevel DEF Linked, IInv, TypeOK
<1>5. S = OrdersAt(l)
  <2>1. \A o \in usedOrders : LevelOf(o) = l => order[o].side = s /\ order[o].price = level[l].price
    BY <1>1, <1>2 DEF OrdersPlaced
  <2>2. \A o \in usedOrders : order[o].price = level[l].price => LevelOf(o) = l
    BY <1>1, <1>2, LevelsPlaced DEF LevelOf
  <2> QED
    BY <2>1, <2>2 DEF RestAt, OrdersAt
<1> HIDE DEF S
<1>6. line.orders = Text!Loop(firstOrder[l], nextOrder)
  BY LineIs
<1>7. Sorted(S, nextOrder, prevOrder, Arrival) /\ Least(S, firstOrder[l], Arrival)
  BY <1>2, <1>5, OrdersInRing
<1>8. PICK k \in Nat \ {0} : ListsRing(line.orders, k, S, firstOrder[l], nextOrder, Arrival)
  BY <1>2, <1>5, <1>6, LevelListed, BookTyped
<1>9. SumAlong(qty, line.orders) = SumOf(qty, S)
  <2>1. IsFiniteSet(S)
    <3>1. IsFiniteSet(OrderSlots) /\ S \in SUBSET OrderSlots
      BY <1>5, SlotsFinite DEF OrdersAt, IInv, TypeOK
    <3> QED
      BY <3>1, FS_Subset
  <2>2. \A o \in S : qty[o] \in Nat /\ Arrival[o] \in Int
    BY <1>5, <1>7 DEF OrdersAt, IInv, TypeOK, Sorted
  <2> HIDE DEF line
  <2> QED
    BY <1>8, <2>1, <2>2, ListedQty
<1>10. line.qty = Text!QtyShown(SumAlong(qty, line.orders))
  BY Zenon, LineIs DEF SumAlong
<1>11. /\ line.price = level[l].price
       /\ line.p = Text!Shown(level[prevEntry[l]].price) /\ line.n = Text!Shown(level[nextEntry[l]].price)
  BY <1>2, <1>3, <1>4, LineIs DEF Text!At
<1>12. line.details = [i \in DOMAIN line.orders |-> Text!Detail(line.orders[i])]
  BY LineIs
<1> HIDE DEF line
<1> QED
  BY <1>2, <1>3, <1>6, <1>7, <1>8, <1>9, <1>10, <1>11, <1>12 DEF line, S, Printed

LEMMA ListLen == ASSUME NEW k \in Nat, NEW f, DOMAIN f = 1 .. k, f = [i \in 1 .. k |-> f[i]] PROVE Len(f) = k
<1>1. f \in [1 .. k -> {f[i] : i \in 1 .. k}]
  OBVIOUS
<1>2. f \in Seq({f[i] : i \in 1 .. k})
  BY <1>1
<1> QED
  BY <1>2, LenProperties

LEMMA ArrangedPrints == IInv /\ CallSound => PrintsByPriority
<1> SUFFICES ASSUME IInv, SidesSorted, Placed, pc = "idle", NEW s \in Sides
             PROVE
    LET lines == Text!Lines(s)
        Rest(p) == {o \in usedOrders : order[o].side = s /\ order[o].price = p}
    IN /\ ~Text!Crash(s)
       /\ UNION {Range(lines[i].orders) : i \in DOMAIN lines} = {o \in usedOrders : order[o].side = s}
       /\ \A i, j \in DOMAIN lines : \A k \in DOMAIN lines[i].orders, m \in DOMAIN lines[j].orders :
            i < j \/ (i = j /\ k < m) => Better(s, lines[i].orders[k], lines[j].orders[m])
       /\ Neighbours(lines, LAMBDA x : Text!Shown(x.price))
       /\ \A i \in DOMAIN lines : /\ Neighbours(lines[i].details, LAMBDA x : x.oid)
                                  /\ lines[i].qty =
                                      Text!QtyShown(MapThenSumSet(LAMBDA o : qty[o], Rest(lines[i].price)))
  BY DEF PrintsByPriority, LevelsInOrder, CallSound, Placed
<1> DEFINE lines == Text!Lines(s)
           L == Text!Levels(s)
<1>1. PICK k \in Nat : /\ DOMAIN L = 1 .. k
                       /\ IF k = 0 THEN Linked(s) = {}
                                   ELSE ListsRing(L, k, Linked(s), best[s], nextEntry, Rank(s))
  BY SideListed
<1>2. lines = [i \in 1 .. k |-> Text!Line(L[i])] /\ DOMAIN lines = 1 .. k
  BY <1>1 DEF Text!Lines
<1>3. \A i \in 1 .. k : L[i] \in Linked(s) /\ lines[i] = Text!Line(L[i])
  BY <1>1, <1>2 DEF ListsRing
<1>4. \A l \in Linked(s) : \E i \in 1 .. k : L[i] = l
  BY <1>1 DEF ListsRing
<1> HIDE DEF lines, L
<1>5. Placed /\ SideSorted(s) /\ OrdersPlaced /\ OlderFirst
  BY DEF SidesSorted, Placed
\* What a line lists.
<1>5a. \A i \in 1 .. k : Printed(s, L[i])
  BY <1>3, LevelPrinted
<1>6. \A i \in 1 .. k :
         /\ lines[i].price = level[L[i]].price /\ lines[i].p = Text!Shown(level[prevEntry[L[i]]].price)
         /\ lines[i].n = Text!Shown(level[nextEntry[L[i]]].price)
  BY <1>3, <1>5a DEF Printed
<1>7. \A i \in 1 .. k :
         /\ lines[i].qty = Text!QtyShown(SumOf(qty, RestAt(s, lines[i].price)))
         /\ lines[i].details = [j \in DOMAIN lines[i].orders |-> Text!Detail(lines[i].orders[j])]
         /\ Sorted(RestAt(s, lines[i].price), nextOrder, prevOrder, Arrival)
  BY <1>3, <1>5a DEF Printed
<1>8. \A i \in 1 .. k : \E n \in Nat \ {0} :
        ListsRing(lines[i].orders, n, RestAt(s, lines[i].price), firstOrder[L[i]], nextOrder, Arrival)
  BY <1>3, <1>5a DEF Printed
<1>9. \A i \in 1 .. k : /\ Range(lines[i].orders) = RestAt(s, lines[i].price)
                        /\ \A j \in DOMAIN lines[i].orders : lines[i].orders[j] \in RestAt(s, lines[i].price)
  <2> SUFFICES ASSUME NEW i \in 1 .. k
               PROVE  /\ Range(lines[i].orders) = RestAt(s, lines[i].price)
                      /\ \A j \in DOMAIN lines[i].orders : lines[i].orders[j] \in RestAt(s, lines[i].price)
    OBVIOUS
  <2> DEFINE listed == lines[i].orders
             S == RestAt(s, lines[i].price)
  <2>1. PICK n \in Nat \ {0} : ListsRing(listed, n, S, firstOrder[L[i]], nextOrder, Arrival)
    BY <1>8
  <2> HIDE DEF listed, S
  <2>2. DOMAIN listed = 1 .. n /\ (\A j \in 1 .. n : listed[j] \in S) /\ \A x \in S : \E j \in 1 .. n : listed[j] = x
    BY <2>1 DEF ListsRing
  <2>3. Range(listed) = S /\ \A j \in DOMAIN listed : listed[j] \in S
    BY <2>2 DEF Range
  <2> QED
    BY <2>3 DEF listed, S
<1>10. ~Text!Crash(s)
  <2> SUFFICES ASSUME NEW i \in 1 .. k, Text!Crashes(L[i]) PROVE FALSE
    BY <1>1 DEF Text!Crash, Text!Range, L
  <2>1. prevEntry[L[i]] \in Linked(s) /\ nextEntry[L[i]] \in Linked(s) /\ nullptr \notin Linked(s)
    BY <1>3, <1>5a, NullNoLevel DEF Printed, Linked, IInv, TypeOK
  <2>2. PICK o \in Text!Range(Text!Loop(firstOrder[L[i]], nextOrder)) : nextOrder[o] = nullptr
    BY <2>1 DEF Text!Crashes
  <2>3. lines[i].orders = Text!Loop(firstOrder[L[i]], nextOrder)
    BY <1>3, <1>5a DEF Printed
  <2>4. o \in usedOrders
    BY <1>9, <2>2, <2>3 DEF Text!Range, RestAt
  <2> QED
    BY <2>2, <2>4, NullNoOrder DEF IInv, TypeOK, BookInv, FifoLists
<1>11. UNION {Range(lines[i].orders) : i \in DOMAIN lines} = {o \in usedOrders : order[o].side = s}
  <2>1. \A i \in DOMAIN lines : \A o \in Range(lines[i].orders) : o \in usedOrders /\ order[o].side = s
    BY <1>2, <1>9 DEF RestAt
  <2>2. ASSUME NEW o \in usedOrders, order[o].side = s PROVE \E i \in DOMAIN lines : o \in Range(lines[i].orders)
    <3>1. LevelOf(o) \in Linked(s) /\ level[LevelOf(o)].price = order[o].price
      BY <1>5, <2>2, LevelsPlaced DEF OrdersPlaced, Linked
    <3>2. PICK i \in 1 .. k : L[i] = LevelOf(o)
      BY <1>4, <3>1
    <3>3. lines[i].price = order[o].price
      BY <1>6, <3>1, <3>2
    <3> QED
      BY <1>2, <1>9, <2>2, <3>3 DEF RestAt
  <2> QED
    BY <2>1, <2>2
<1>12. ASSUME NEW i \in 1 .. k, NEW j \in 1 .. k, NEW a \in DOMAIN lines[i].orders, NEW b \in DOMAIN lines[j].orders,
              i < j \/ (i = j /\ a < b)
       PROVE  Better(s, lines[i].orders[a], lines[j].orders[b])
  <2> DEFINE o == lines[i].orders[a]
             p == lines[j].orders[b]
  <2>1. o \in RestAt(s, lines[i].price) /\ p \in RestAt(s, lines[j].price)
    BY <1>9
  <2>2. order[o].price = level[L[i]].price /\ order[p].price = level[L[j]].price
    BY <1>6, <2>1 DEF RestAt
  <2>3. CASE i < j
    <3>1. Rank(s)[L[i]] < Rank(s)[L[j]]
      BY <1>1, <2>3 DEF ListsRing
    <3>2. /\ level[L[i]].price \in Nat /\ level[L[j]].price \in Nat
          /\ Rank(s)[L[i]] = PriceRank(s, level[L[i]].price) /\ Rank(s)[L[j]] = PriceRank(s, level[L[j]].price)
      BY <1>5a DEF Rank, Printed
    <3>3. LessAggressive(s, level[L[j]].price, level[L[i]].price)
      BY <3>1, <3>2, RankTells
    <3> QED
      BY <2>2, <3>3 DEF Better
  <2>4. CASE i = j /\ a < b
    <3>1. PICK n \in Nat \ {0} :
            ListsRing(lines[i].orders, n, RestAt(s, lines[i].price), firstOrder[L[i]], nextOrder, Arrival)
      BY <1>8
    <3>2. Arrival[o] < Arrival[p]
      BY <2>4, <3>1 DEF ListsRing
    <3>3. o \in usedOrders /\ p \in usedOrders /\ order[o].price = order[p].price
      BY <2>1, <2>4 DEF RestAt
    <3>4. SameLevel(o, p) /\ Before(o, p)
      BY <3>2, <3>3 DEF SameLevel, Before, Arrival, IInv, TypeOK
    <3> QED
      BY <1>5, <3>3, <3>4 DEF OlderFirst, Better
  <2> QED
    BY <1>12, <2>3, <2>4
<1>13. Neighbours(lines, LAMBDA x : Text!Shown(x.price))
  <2>1. Len(lines) = k
    BY <1>2, ListLen
  <2> SUFFICES ASSUME NEW i \in 1 .. k
               PROVE  /\ lines[i].n = Text!Shown(lines[(i % k) + 1].price)
                      /\ lines[(i % k) + 1].p = Text!Shown(lines[i].price)
    BY <1>2, <2>1 DEF Neighbours
  <2>2. k \in Nat \ {0} /\ ListsRing(L, k, Linked(s), best[s], nextEntry, Rank(s)) /\ best[s] # nullptr
    BY <1>1, <1>3, <1>5 DEF SideSorted
  <2>3. Sorted(Linked(s), nextEntry, prevEntry, Rank(s))
    BY <1>5 DEF SideSorted
  <2>4. (i % k) + 1 \in 1 .. k /\ L[(i % k) + 1] = nextEntry[L[i]] /\ prevEntry[L[(i % k) + 1]] = L[i]
    BY <2>2, <2>3, RingNeighbours
  <2> DEFINE j == (i % k) + 1
  <2>5. j \in 1 .. k /\ L[j] = nextEntry[L[i]] /\ prevEntry[L[j]] = L[i]
    BY <2>4
  <2> HIDE DEF j
  <2>6. lines[i].n = Text!Shown(lines[j].price) /\ lines[j].p = Text!Shown(lines[i].price)
    BY <1>6, <2>5
  <2> QED
    BY <2>6 DEF j
<1>14. ASSUME NEW i \in 1 .. k PROVE Neighbours(lines[i].details, LAMBDA x : x.oid)
  <2>1. PICK n \in Nat \ {0} :
          ListsRing(lines[i].orders, n, RestAt(s, lines[i].price), firstOrder[L[i]], nextOrder, Arrival)
    BY <1>8
  <2> DEFINE listed == lines[i].orders
             shown == lines[i].details
  <2>2. DOMAIN listed = 1 .. n
    BY <2>1 DEF ListsRing
  <2> DEFINE S == RestAt(s, lines[i].price)
  <2>3. shown = [j \in 1 .. n |-> Text!Detail(listed[j])] /\ Sorted(S, nextOrder, prevOrder, Arrival)
    BY <1>7, <2>2
  <2>4. ListsRing(listed, n, S, firstOrder[L[i]], nextOrder, Arrival)
    BY <2>1
  <2> HIDE DEF listed, shown, S
  <2>5. Len(shown) = n /\ DOMAIN shown = 1 .. n
    BY <2>3, ListLen
  <2> SUFFICES ASSUME NEW j \in 1 .. n
               PROVE  shown[j].n = shown[(j % n) + 1].oid /\ shown[(j % n) + 1].p = shown[j].oid
    BY <2>5 DEF Neighbours, shown
  <2>6. \A m \in 1 .. n : /\ (m % n) + 1 \in 1 .. n /\ listed[(m % n) + 1] = nextOrder[listed[m]]
        /\ prevOrder[listed[(m % n) + 1]] = listed[m]
    <3>1. Sorted(S, nextOrder, prevOrder, Arrival)
      BY <2>3
    <3> QED
      BY <3>1, <2>4, RingNeighbours
  <2>7. listed[j] \in usedOrders /\ listed[(j % n) + 1] \in usedOrders
    BY <1>9, <2>2, <2>6 DEF RestAt, listed
  <2>8. \A o \in usedOrders : o # nullptr /\ [x \in OrderSlots |-> order[x].moid][o] = order[o].moid
    BY NullNoOrder DEF IInv, TypeOK
  <2>9. \A o \in usedOrders : nextOrder[o] \in usedOrders /\ prevOrder[o] \in usedOrders
    BY DEF IInv, BookInv, FifoLists
  <2>10. \A o \in usedOrders :
           /\ Text!Detail(o).oid = Text!Shown(order[o].moid)
           /\ Text!Detail(o).n = Text!Shown(order[nextOrder[o]].moid)
           /\ Text!Detail(o).p = Text!Shown(order[prevOrder[o]].moid)
    BY <2>8, <2>9 DEF Text!Detail, Text!At
  <2>11. shown[j] = Text!Detail(listed[j]) /\ shown[(j % n) + 1] = Text!Detail(listed[(j % n) + 1])
    BY <2>3, <2>6
  <2> QED
    BY <2>6, <2>7, <2>10, <2>11
<1>15. ASSUME NEW i \in 1 .. k
       PROVE  lines[i].qty = Text!QtyShown(MapThenSumSet(LAMBDA o : qty[o],
                                {o \in usedOrders : order[o].side = s /\ order[o].price = lines[i].price}))
  <2>1. lines[i].qty = Text!QtyShown(SumOf(qty, RestAt(s, lines[i].price)))
    BY <1>15, <1>7
  <2> QED
    BY <2>1 DEF SumOf, RestAt
<1> QED
  BY <1>2, <1>10, <1>11, <1>12, <1>13, <1>14, <1>15 DEF lines

\* Between two calls toString() of a book whose levels are in order prints all of it by price-time
\* priority, with what rests at each price and the right neighbours of levels and orders.
THEOREM ToStringByPriority == Spec => []PrintsByPriority
<1>1. IInv /\ CallSound => PrintsByPriority
  BY ArrangedPrints
<1>2. QED
  BY <1>1, SpecCallSound, PTL

-----------------------------------------------------------------------------
\* The asks a client shows.

\* The level order o has in the price map.
At(b, o) == Client!LevelAt(b, b.order[o].price)

\* The client's book is sound: the lists of orders stay within their level, and levels in use have
\* their index and an order.
Shape(b) ==
  /\ BookFields \subseteq DOMAIN b
  /\ DOMAIN b.order = OrderSlots /\ \A o \in OrderSlots : OrderFields \subseteq DOMAIN b.order[o]
  /\ DOMAIN b.level = LevelSlots /\ \A l \in LevelSlots : LevelFields \subseteq DOMAIN b.level[l]
  /\ DOMAIN b.best = Sides
  /\ b.usedOrders \subseteq OrderSlots /\ b.freeOrder \in OrderSlots \ b.usedOrders
  /\ b.usedLevels \subseteq LevelSlots /\ b.freeLevel \in LevelSlots \ b.usedLevels
  /\ \A o \in b.usedOrders : /\ b.order[o].next \in b.usedOrders /\ At(b, b.order[o].next) = At(b, o)
                             /\ b.order[o].prev \in b.usedOrders /\ At(b, b.order[o].prev) = At(b, o)
  /\ \A l \in b.usedLevels : /\ b.level[l].price \in Nat /\ b.level[l].first \in b.usedOrders
                             /\ At(b, b.level[l].first) = l
  /\ \A i \in LevelSlots : b.priceMap[i] # nullptr => b.priceMap[i] \in b.usedLevels

LEMMA SameBookShape == ASSUME IInv, NEW b, SameBook(b) PROVE Shape(b)
<1>1. /\ BookFields \subseteq DOMAIN b /\ b.usedOrders = usedOrders /\ b.freeOrder = freeOrder
      /\ b.usedLevels = usedLevels /\ b.freeLevel = freeLevel /\ b.best = best /\ b.priceMap = priceMap
      /\ OrdersAre(b.order, order, prevOrder, nextOrder)
      /\ LevelsAre(b.level, level, firstOrder, prevEntry, nextEntry)
  BY DEF SameBook, AsOrders, AsLevels
<1>2. DOMAIN b.order = OrderSlots /\ \A o \in OrderSlots : OrderFields \subseteq DOMAIN b.order[o]
  BY <1>1 DEF OrdersAre
<1>3. DOMAIN b.level = LevelSlots /\ \A l \in LevelSlots : LevelFields \subseteq DOMAIN b.level[l]
  BY <1>1 DEF LevelsAre
<1>4. /\ usedOrders \subseteq OrderSlots /\ freeOrder \in OrderSlots \ usedOrders
      /\ usedLevels \subseteq LevelSlots /\ freeLevel \in LevelSlots \ usedLevels /\ DOMAIN best = Sides
  BY DEF IInv, TypeOK, PoolsReady
<1>5. \A o \in OrderSlots : /\ b.order[o].next = nextOrder[o] /\ b.order[o].prev = prevOrder[o]
                            /\ b.order[o].price = order[o].price
                            /\ At(b, o) = priceMap[PriceToIndex(order[o].price)]
  BY <1>1, SameIndex DEF OrdersAre, At, Client!LevelAt
<1>6. ASSUME NEW o \in usedOrders
      PROVE  /\ nextOrder[o] \in usedOrders /\ At(b, nextOrder[o]) = At(b, o)
             /\ prevOrder[o] \in usedOrders /\ At(b, prevOrder[o]) = At(b, o)
  <2>1. /\ nextOrder[o] \in usedOrders /\ SameLevel(o, nextOrder[o])
        /\ prevOrder[o] \in usedOrders /\ SameLevel(prevOrder[o], o)
    BY DEF IInv, BookInv, FifoLists
  <2> QED
    BY <1>4, <1>5, <2>1 DEF SameLevel
<1>7. ASSUME NEW l \in usedLevels
      PROVE  /\ b.level[l].price \in Nat /\ b.level[l].first \in usedOrders /\ At(b, b.level[l].first) = l
  <2>1. l \in LevelSlots /\ level[l].price \in Nat /\ priceMap[PriceToIndex(level[l].price)] = l
        /\ PriceToIndex(level[l].price) \in PriceIndices /\ l # nullptr
    BY <1>4, IndicesInRange, NullNoLevel DEF IInv, TypeOK, LevelData, BookInv, LevelsIndexed
  <2>2. /\ firstOrder[l] \in usedOrders
        /\ PriceToIndex(order[firstOrder[l]].price) = PriceToIndex(level[l].price)
    BY <2>1 DEF IInv, BookInv, LevelsIndexed
  <2>3. b.level[l].price = level[l].price /\ b.level[l].first = firstOrder[l]
    BY <1>1, <2>1 DEF LevelsAre
  <2> QED
    BY <1>4, <1>5, <2>1, <2>2, <2>3
<1>8. \A i \in LevelSlots : priceMap[i] # nullptr => priceMap[i] \in usedLevels
  BY DEF IInv, BookInv, LevelsIndexed, LevelSlots, PriceIndices
<1> QED
  BY <1>1, <1>2, <1>3, <1>4, <1>5, <1>6, <1>7, <1>8 DEF Shape

-----------------------------------------------------------------------------
\* What updateBBO() sums up.

\* v[n] is the order after n steps along the list from o.
IsRing(v, b, o) ==
  v = [n \in OrderSlots |-> IF n = 0 THEN o ELSE IF v[n - 1] = nullptr THEN nullptr ELSE b.order[v[n - 1]].next]
RingOf(b, o) == CHOOSE v : IsRing(v, b, o)

\* The orders of R are linked among themselves.
Closed(b, R) == R \subseteq OrderSlots /\ \A p \in R : b.order[p].next \in R
Alike(b, c, R) == \A p \in R : c.order[p].next = b.order[p].next /\ c.order[p].qty = b.order[p].qty

LEMMA RingStays ==
  ASSUME NEW b, NEW R, Closed(b, R), NEW o \in R, NEW v, IsRing(v, b, o)
  PROVE  \A n \in OrderSlots : v[n] \in R
<1> DEFINE T == {n \in Nat : n \in OrderSlots => v[n] \in R}
<1>1. nullptr \notin R
  BY NullNoOrder DEF Closed
<1>2. \A n \in OrderSlots : v[n] = IF n = 0 THEN o ELSE IF v[n - 1] = nullptr THEN nullptr ELSE b.order[v[n - 1]].next
  BY DEF IsRing
<1>3. \A n \in Nat : n + 1 \in OrderSlots => n \in OrderSlots /\ n + 1 # 0 /\ (n + 1) - 1 = n
  BY ConstantsAssumption DEF OrderSlots
<1>4. 0 \in T
  BY <1>2
<1>5. ASSUME NEW n \in T PROVE n + 1 \in T
  <2> SUFFICES ASSUME n + 1 \in OrderSlots PROVE v[n + 1] \in R
    OBVIOUS
  <2>1. n \in OrderSlots /\ v[n] \in R /\ n + 1 # 0 /\ (n + 1) - 1 = n
    BY <1>3
  <2>2. v[n + 1] = b.order[v[n]].next
    BY <1>1, <1>2, <2>1
  <2> QED
    BY <2>1, <2>2 DEF Closed
<1>6. T \in SUBSET Nat /\ OrderSlots \subseteq Nat
  BY ConstantsAssumption DEF OrderSlots
<1> HIDE DEF T
<1>7. \A n \in Nat : n \in T
  BY <1>4, <1>5, <1>6, SetInduction
<1> QED
  BY <1>6, <1>7 DEF T

LEMMA RingExists ==
  ASSUME NEW b, NEW R, Closed(b, R), NEW o \in R
  PROVE  IsRing(RingOf(b, o), b, o)
<1> DEFINE f == [p \in R |-> b.order[p].next]
<1>1. ME_MAX_ORDER_IDS - 1 \in Nat /\ OrderSlots = 0 .. ME_MAX_ORDER_IDS - 1
  BY ConstantsAssumption DEF OrderSlots
<1>2. PICK v : IsVisits(v, o, f, ME_MAX_ORDER_IDS - 1)
  BY <1>1, VisitsExist
<1>3. \A n \in OrderSlots : v[n] = IF n = 0 THEN o ELSE IF v[n - 1] = nullptr THEN nullptr ELSE f[v[n - 1]]
  BY <1>1, <1>2 DEF IsVisits
<1> DEFINE T == {n \in Nat : n \in OrderSlots => v[n] \in R}
<1>4. nullptr \notin R /\ \A p \in R : f[p] = b.order[p].next /\ f[p] \in R
  BY NullNoOrder DEF Closed
<1> HIDE DEF f
<1>5. 0 \in T
  BY <1>3
<1>6. ASSUME NEW n \in T PROVE n + 1 \in T
  <2> SUFFICES ASSUME n + 1 \in OrderSlots PROVE v[n + 1] \in R
    OBVIOUS
  <2>1. n \in OrderSlots /\ v[n] \in R /\ n + 1 # 0 /\ (n + 1) - 1 = n
    BY <1>1
  <2> QED
    BY <1>3, <1>4, <2>1
<1>7. T \in SUBSET Nat
  OBVIOUS
<1> HIDE DEF T
<1>8. \A n \in Nat : n \in T
  BY <1>5, <1>6, <1>7, SetInduction
<1>9. \A n \in OrderSlots : v[n] \in R
  BY <1>1, <1>8 DEF T
<1>10. \A n \in OrderSlots : v[n] = IF n = 0 THEN o ELSE IF v[n - 1] = nullptr THEN nullptr ELSE b.order[v[n - 1]].next
  <2>1. \A n \in OrderSlots : n # 0 => n - 1 \in OrderSlots
    BY <1>1
  <2> QED
    BY <1>3, <1>4, <1>9, <2>1
<1>11. v = [n \in OrderSlots |-> v[n]]
  BY <1>1, <1>2 DEF IsVisits
<1>12. IsRing(v, b, o)
  BY <1>10, <1>11 DEF IsRing
<1> QED
  BY <1>12 DEF RingOf

LEMMA RingSame ==
  ASSUME NEW b, NEW c, NEW R, Closed(b, R), Alike(b, c, R), NEW o \in R
  PROVE  Client!Ring(c, o) = Client!Ring(b, o) /\ Client!Ring(b, o) \subseteq R
<1> DEFINE v == RingOf(b, o)
           w == RingOf(c, o)
<1>1. Closed(c, R) /\ nullptr \notin R /\ OrderSlots \subseteq Nat
  BY ConstantsAssumption, NullNoOrder DEF Closed, Alike, OrderSlots
<1>2. IsRing(v, b, o) /\ IsRing(w, c, o)
  BY <1>1, RingExists
<1>3. Client!Ring(b, o) = {v[n] : n \in OrderSlots} \ {nullptr} /\ Client!Ring(c, o) = {w[n] : n \in OrderSlots} \ {nullptr}
  BY ClientSlots, Zenon DEF Client!Ring, RingOf, IsRing
<1> HIDE DEF v, w
<1>4. \A n \in OrderSlots : v[n] \in R /\ w[n] \in R
  BY <1>1, <1>2, RingStays
<1>5. /\ \A n \in OrderSlots : v[n] = IF n = 0 THEN o ELSE IF v[n - 1] = nullptr THEN nullptr ELSE b.order[v[n - 1]].next
      /\ \A n \in OrderSlots : w[n] = IF n = 0 THEN o ELSE IF w[n - 1] = nullptr THEN nullptr ELSE c.order[w[n - 1]].next
  BY <1>2 DEF IsRing
<1> DEFINE T == {n \in Nat : n \in OrderSlots => w[n] = v[n]}
<1>6. 0 \in T
  BY <1>5
<1>7. ASSUME NEW n \in T PROVE n + 1 \in T
  <2> SUFFICES ASSUME n + 1 \in OrderSlots PROVE w[n + 1] = v[n + 1]
    OBVIOUS
  <2>1. n \in OrderSlots /\ n + 1 # 0 /\ (n + 1) - 1 = n
    BY ConstantsAssumption DEF OrderSlots
  <2>2. w[n] = v[n] /\ v[n] \in R /\ v[n] # nullptr
    BY <1>1, <1>4, <2>1
  <2>3. v[n + 1] = b.order[v[n]].next /\ w[n + 1] = c.order[v[n]].next
    BY <1>5, <2>1, <2>2
  <2> QED
    BY <2>2, <2>3 DEF Alike
<1>8. T \in SUBSET Nat
  OBVIOUS
<1> HIDE DEF T
<1>9. \A n \in OrderSlots : w[n] = v[n]
  <2>1. \A n \in Nat : n \in T
    BY <1>6, <1>7, <1>8, SetInduction
  <2> QED
    BY <1>1, <2>1 DEF T
<1> QED
  BY <1>3, <1>4, <1>9

QtySum(b, S) == Client!MapThenSumSet(LAMBDA o : b.order[o].qty, S)
IsQtySum(g, b, S) ==
  g = [s \in SUBSET S |-> IF s = {} THEN 0 ELSE LET x == CHOOSE y \in s : TRUE IN b.order[x].qty + g[s \ {x}]]
QtyOf(b, S) == [o \in S |-> b.order[o].qty]

LEMMA QtySumIsSum == ASSUME NEW g, NEW b, NEW S PROVE IsQtySum(g, b, S) <=> IsSum(g, QtyOf(b, S), S)
<1>1. \A s \in SUBSET S : s # {} => QtyOf(b, S)[Some(s)] = b.order[Some(s)].qty
  BY SomeOf DEF QtyOf
<1>2. IsQtySum(g, b, S) <=> g = [s \in SUBSET S |-> IF s = {} THEN 0 ELSE b.order[Some(s)].qty + g[s \ {Some(s)}]]
  BY DEF IsQtySum, Some
<1>3. IsSum(g, QtyOf(b, S), S)
        <=> g = [s \in SUBSET S |-> IF s = {} THEN 0 ELSE QtyOf(b, S)[Some(s)] + g[s \ {Some(s)}]]
  BY DEF IsSum, Some
<1>4. [s \in SUBSET S |-> IF s = {} THEN 0 ELSE b.order[Some(s)].qty + g[s \ {Some(s)}]]
        = [s \in SUBSET S |-> IF s = {} THEN 0 ELSE QtyOf(b, S)[Some(s)] + g[s \ {Some(s)}]]
  BY <1>1
<1> QED
  BY <1>2, <1>3, <1>4, Zenon

LEMMA QtySumIs ==
  ASSUME NEW b, NEW S, IsFiniteSet(S) PROVE \E g : Adds(g, QtyOf(b, S), S) /\ QtySum(b, S) = g[S]
<1> DEFINE h == CHOOSE g : IsQtySum(g, b, S)
<1>1. QtySum(b, S) = h[S]
  BY Zenon DEF Client!MapThenSumSet, Client!MapThenFoldSet, IsQtySum, QtySum
<1>2. IsQtySum(h, b, S)
  BY SumSolves, QtySumIsSum, Zenon
<1> HIDE DEF h
<1>3. IsSum(h, QtyOf(b, S), S)
  BY <1>2, QtySumIsSum
<1> QED
  BY <1>1, <1>3, IsSumAdds

LEMMA QtySumSame ==
  ASSUME NEW b, NEW c, NEW S, IsFiniteSet(S), \A p \in S : c.order[p].qty = b.order[p].qty
  PROVE  QtySum(c, S) = QtySum(b, S)
<1>1. PICK g : Adds(g, QtyOf(b, S), S) /\ QtySum(b, S) = g[S]
  BY QtySumIs
<1>2. PICK h : Adds(h, QtyOf(c, S), S) /\ QtySum(c, S) = h[S]
  BY QtySumIs
<1>3. \A x \in S : QtyOf(c, S)[x] = QtyOf(b, S)[x]
  BY DEF QtyOf
<1>4. h[S] = g[S]
  BY <1>1, <1>2, <1>3, SumsAgree
<1> QED
  BY <1>1, <1>2, <1>4

\* The orders at the best level of the asks, and what must not change for it to show the same.
Best(b) == b.best["SELL"]
AtBest(b) == {p \in b.usedOrders : At(b, p) = Best(b)}
Keeps(b, c) ==
  /\ Best(c) = Best(b) /\ c.level[Best(b)].price = b.level[Best(b)].price
  /\ c.level[Best(b)].first = b.level[Best(b)].first /\ Alike(b, c, AtBest(b))

LEMMA TopKept ==
  ASSUME NEW b, NEW c, Shape(b), Best(b) \in b.usedLevels, Keeps(b, c)
  PROVE  Client!Top(c, "SELL") = Client!Top(b, "SELL")
<1> DEFINE l == Best(b)
           R == AtBest(b)
           o == b.level[l].first
<1>1. l # nullptr /\ o \in R /\ Closed(b, R)
  BY NullNoLevel DEF Shape, Closed, AtBest
<1>2. Best(c) = l /\ c.level[l].price = b.level[l].price /\ c.level[l].first = o /\ Alike(b, c, R)
  BY DEF Keeps
<1> HIDE DEF o
<1>3. Client!Top(b, "SELL") = [price |-> b.level[l].price, qty |-> QtySum(b, Client!Ring(b, o))]
  BY <1>1, Zenon DEF Client!Top, Best, QtySum, o
<1>4. Client!Top(c, "SELL") = [price |-> c.level[l].price, qty |-> QtySum(c, Client!Ring(c, c.level[l].first))]
  <2>1. c.best["SELL"] = l /\ c.best["SELL"] # nullptr
    BY <1>1, <1>2 DEF Best
  <2> HIDE DEF l
  <2> QED
    BY <2>1, Zenon DEF Client!Top, QtySum
<1> HIDE DEF l, R
<1>5. Client!Ring(c, o) = Client!Ring(b, o) /\ Client!Ring(b, o) \subseteq R
  BY <1>1, <1>2, RingSame
<1> DEFINE S == Client!Ring(b, o)
<1>6. IsFiniteSet(S) /\ \A p \in S : c.order[p].qty = b.order[p].qty
  <2>1. S \subseteq OrderSlots
    BY <1>1, <1>5 DEF Closed
  <2> HIDE DEF S
  <2>2. IsFiniteSet(S)
    BY <2>1, SlotsFinite, FS_Subset
  <2> QED
    BY <1>2, <1>5, <2>2 DEF Alike, S
<1> HIDE DEF S
<1>7. QtySum(c, S) = QtySum(b, S)
  BY <1>6, QtySumSame
<1> QED
  BY <1>2, <1>3, <1>4, <1>5, <1>7 DEF S

\* AsksInPlace, of book b.
InPlace(b) ==
  /\ Best(b) \in b.usedLevels /\ b.level[Best(b)].side = "SELL"
  /\ \A o \in b.usedOrders : At(b, o) = Best(b) =>
       b.order[o].side = "SELL" /\ b.order[o].price = b.level[Best(b)].price

\* The update's order, if the book has it, has the update's side and price.
Carries(b, u) ==
  /\ u.type \in {"ADD", "MODIFY", "CANCEL", "TRADE"}
  /\ u.type = "ADD" => u.price \in Nat
  /\ u.type \in {"MODIFY", "CANCEL"} =>
       LET o == Client!OrderOf(b, u.moid)
       IN o # nullptr => o \in b.usedOrders /\ b.order[o].side = u.side /\ b.order[o].price = u.price

\* An order of another side or price is not at the best level.
LEMMA NotAtBest ==
  ASSUME NEW b, Shape(b), InPlace(b), NEW u, ~Client!Touched(b, "SELL", u), NEW o \in b.usedOrders,
         b.order[o].side = u.side, b.order[o].price = u.price
  PROVE  At(b, o) # Best(b)
<1> SUFFICES ASSUME At(b, o) = Best(b) PROVE FALSE
  OBVIOUS
<1>1. u.side = "SELL" /\ u.price = b.level[Best(b)].price /\ b.level[Best(b)].price \in Nat /\ Best(b) # nullptr
  BY NullNoLevel DEF InPlace, Shape
<1> QED
  BY <1>1 DEF Client!Touched, Best

\* Links of levels change, and those of orders outside of R.
LevelsKept(lv, lw) ==
  /\ DOMAIN lw = LevelSlots
  /\ \A l \in LevelSlots : LevelFields \subseteq DOMAIN lw[l] /\ lw[l].price = lv[l].price /\ lw[l].first = lv[l].first
OrdersKept(R, os, ot) ==
  /\ R \subseteq OrderSlots /\ DOMAIN ot = OrderSlots
  /\ \A p \in R : OrderFields \subseteq DOMAIN ot[p] /\ ot[p].next = os[p].next /\ ot[p].qty = os[p].qty

LEMMA LinksKept ==
  ASSUME NEW lv, NEW lw, LevelsKept(lv, lw), NEW k, NEW v
  PROVE  LevelsKept(lv, [lw EXCEPT ![k].next = v]) /\ LevelsKept(lv, [lw EXCEPT ![k].prev = v])
BY DEF LevelsKept, LevelFields

LEMMA OtherOrdersKept ==
  ASSUME NEW R, NEW os, NEW ot, OrdersKept(R, os, ot), NEW k, NEW v
  PROVE  /\ OrdersKept(R, os, [ot EXCEPT ![k].prev = v])
         /\ k \notin R => /\ OrdersKept(R, os, [ot EXCEPT ![k].next = v])
                         /\ OrdersKept(R, os, [ot EXCEPT ![k].qty = v])
                         /\ OrdersKept(R, os, [ot EXCEPT ![k] = v])
BY DEF OrdersKept, OrderFields

LEMMA KeptBefore ==
  ASSUME NEW b, Shape(b), InPlace(b)
  PROVE  /\ LevelsKept(b.level, b.level) /\ OrdersKept(AtBest(b), b.order, b.order)
         /\ Best(b) \in LevelSlots /\ Best(b) # nullptr /\ DOMAIN b.best = Sides
BY NullNoLevel DEF Shape, InPlace, AtBest, LevelsKept, OrdersKept

LEMMA KeptKeeps ==
  ASSUME NEW b, InPlace(b), Shape(b), NEW c, Best(c) = Best(b), LevelsKept(b.level, c.level),
         OrdersKept(AtBest(b), b.order, c.order)
  PROVE  Keeps(b, c)
BY DEF InPlace, Shape, LevelsKept, OrdersKept, Keeps, Alike

LEMMA ModifyKeepsBest ==
  ASSUME NEW b, Shape(b), InPlace(b), NEW u, Carries(b, u), u.type = "MODIFY", ~Client!Touched(b, "SELL", u),
         NEW o, o = Client!OrderOf(b, u.moid), o # nullptr, NEW c, c = [b EXCEPT !.order[o].qty = u.qty]
  PROVE  Keeps(b, c)
<1>1. o \in b.usedOrders /\ b.order[o].side = u.side /\ b.order[o].price = u.price
  BY DEF Carries
<1>2. At(b, o) # Best(b)
  BY <1>1, NotAtBest
<1>3. o \notin AtBest(b)
  BY <1>2 DEF AtBest
<1>4. c.order = [b.order EXCEPT ![o].qty = u.qty] /\ c.best = b.best /\ c.level = b.level
  BY DEF Shape, BookFields
<1>5. OrdersKept(AtBest(b), b.order, c.order)
  <2>1. OrdersKept(AtBest(b), b.order, b.order)
    BY KeptBefore
  <2>2. OrdersKept(AtBest(b), b.order, [b.order EXCEPT ![o].qty = u.qty])
    BY <1>3, <2>1, OtherOrdersKept
  <2> QED
    BY <1>4, <2>2
<1>6. Best(c) = Best(b)
  BY <1>4 DEF Best
<1> QED
  BY <1>4, <1>5, <1>6, KeptBefore, KeptKeeps

\* A level that is not the best one leaves its side.
LEMMA LevelLeaves ==
  ASSUME NEW b, Shape(b), InPlace(b), NEW f, f.order = b.order, f.best = b.best, f.level = b.level,
         BookFields \subseteq DOMAIN f, NEW s, NEW price, NEW l, l # Best(b),
         NEW c, c = Client!RemoveOrdersAtPrice(f, s, price, l), Best(c) # nullptr
  PROVE  Keeps(b, c)
<1> DEFINE lv == f.level
           gone == [f EXCEPT !.priceMap[Client!PriceToIndex(price)] = nullptr, !.usedLevels = @ \ {l}]
<1>1. c = IF lv[l].next = l
            THEN [gone EXCEPT !.best[s] = nullptr]
            ELSE [gone EXCEPT !.best[s] = IF @ = l THEN lv[l].next ELSE @,
                              !.level = [[lv EXCEPT ![lv[l].prev].next = lv[l].next,
                                                    ![lv[l].next].prev = lv[l].prev]
                                          EXCEPT ![l].prev = nullptr, ![l].next = nullptr]]
  BY DEF Client!RemoveOrdersAtPrice
<1>2. gone.order = b.order /\ gone.best = b.best /\ gone.level = b.level /\ BookFields \subseteq DOMAIN gone
  BY DEF BookFields
<1> HIDE DEF gone
<1>3. /\ LevelsKept(b.level, b.level) /\ OrdersKept(AtBest(b), b.order, b.order) /\ DOMAIN b.best = Sides
      /\ "SELL" \in Sides
  BY KeptBefore DEF Sides
<1>4. CASE lv[l].next = l
  <2>1. c.best = [b.best EXCEPT ![s] = nullptr] /\ c.level = b.level /\ c.order = b.order
    BY <1>1, <1>2, <1>4 DEF BookFields
  <2>2. Best(c) = Best(b)
    BY <1>3, <2>1 DEF Best
  <2> QED
    BY <1>3, <2>1, <2>2, KeptKeeps
<1>5. CASE lv[l].next # l
  <2> DEFINE nx == lv[l].next
             pv == lv[l].prev
             lv1 == [lv EXCEPT ![pv].next = nx]
             lv2 == [lv1 EXCEPT ![nx].prev = pv]
             lv3 == [lv2 EXCEPT ![l].prev = nullptr]
             lv4 == [lv3 EXCEPT ![l].next = nullptr]
             cut == [[lv EXCEPT ![lv[l].prev].next = lv[l].next, ![lv[l].next].prev = lv[l].prev]
                      EXCEPT ![l].prev = nullptr, ![l].next = nullptr]
  <2>1. cut = lv4
    OBVIOUS
  <2>2. c = [gone EXCEPT !.best[s] = IF @ = l THEN nx ELSE @, !.level = cut]
    BY <1>1, <1>5
  <2> HIDE DEF cut, nx
  <2>3. c.best = [b.best EXCEPT ![s] = IF @ = l THEN nx ELSE @] /\ c.level = cut /\ c.order = b.order
    BY <1>2, <2>2 DEF BookFields
  <2>4. Best(c) = Best(b)
    BY <1>3, <2>3 DEF Best
  <2>5. LevelsKept(b.level, lv1)
    BY <1>3, LinksKept
  <2> HIDE DEF lv1, pv
  <2>6. LevelsKept(b.level, lv2)
    BY <2>5, LinksKept
  <2> HIDE DEF lv2
  <2>7. LevelsKept(b.level, lv3)
    BY <2>6, LinksKept
  <2> HIDE DEF lv3
  <2>8. LevelsKept(b.level, lv4)
    BY <2>7, LinksKept
  <2> HIDE DEF lv4
  <2> QED
    BY <1>3, <2>1, <2>3, <2>4, <2>8, KeptKeeps
<1> QED
  BY <1>4, <1>5

LEMMA CancelKeepsBest ==
  ASSUME NEW b, Shape(b), InPlace(b), NEW u, Carries(b, u), u.type = "CANCEL", ~Client!Touched(b, "SELL", u),
         NEW o, o = Client!OrderOf(b, u.moid), Client!CanRemove(b, o), NEW c, c = Client!RemoveOrder(b, o),
         Best(c) # nullptr
  PROVE  Keeps(b, c)
<1> DEFINE pv == b.order[o].prev
           nx == b.order[o].next
           l == At(b, o)
           f == Client!Forget(b, o)
<1>1. o \in b.usedOrders /\ b.order[o].side = u.side /\ b.order[o].price = u.price
  BY DEF Carries, Client!CanRemove
<1>2. l # Best(b)
  BY <1>1, NotAtBest
<1>3. o \notin AtBest(b) /\ pv \notin AtBest(b)
  BY <1>1, <1>2 DEF AtBest, Shape
<1>4. f.order = b.order /\ f.best = b.best /\ f.level = b.level /\ BookFields \subseteq DOMAIN f
  BY DEF Shape, BookFields, Client!Forget
<1> DEFINE unlinked == [[b.order EXCEPT ![pv].next = nx, ![nx].prev = pv]
                         EXCEPT ![o].prev = nullptr, ![o].next = nullptr]
           os1 == [b.order EXCEPT ![pv].next = nx]
           os2 == [os1 EXCEPT ![nx].prev = pv]
           os3 == [os2 EXCEPT ![o].prev = nullptr]
           os4 == [os3 EXCEPT ![o].next = nullptr]
<1>5. c = IF pv = o THEN Client!RemoveOrdersAtPrice(f, b.order[o].side, b.order[o].price, l)
          ELSE [f EXCEPT !.level[l].first = Client!FirstWithout(b, l, o), !.order = unlinked]
  BY DEF Client!RemoveOrder, At
<1>6. unlinked = os4
  OBVIOUS
<1> HIDE DEF unlinked, l, f, pv, nx
<1>7. /\ LevelsKept(b.level, b.level) /\ OrdersKept(AtBest(b), b.order, b.order) /\ Best(b) \in LevelSlots
  BY KeptBefore
<1>8. CASE pv = o
  BY <1>2, <1>4, <1>5, <1>8, LevelLeaves
<1>9. CASE pv # o
  <2>1. OrdersKept(AtBest(b), b.order, os1)
    BY <1>3, <1>7, OtherOrdersKept
  <2> HIDE DEF os1
  <2>2. OrdersKept(AtBest(b), b.order, os2)
    BY <2>1, OtherOrdersKept
  <2> HIDE DEF os2
  <2>3. OrdersKept(AtBest(b), b.order, os3)
    BY <2>2, OtherOrdersKept
  <2> HIDE DEF os3
  <2>4. OrdersKept(AtBest(b), b.order, os4)
    BY <1>3, <2>3, OtherOrdersKept
  <2> HIDE DEF os4
  <2>5. /\ c.best = b.best /\ c.level = [b.level EXCEPT ![l].first = Client!FirstWithout(b, l, o)]
        /\ c.order = os4
    BY <1>4, <1>5, <1>6, <1>9 DEF BookFields
  <2>6. c.level[Best(b)] = b.level[Best(b)]
    BY <1>2, <1>7, <2>5 DEF LevelsKept
  <2> QED
    BY <2>4, <2>5, <2>6 DEF Keeps, Alike, OrdersKept, Best
<1> QED
  BY <1>8, <1>9

\* A slot that was free is taken.
LEMMA TakeKeeps ==
  ASSUME NEW b, Shape(b), InPlace(b), NEW u, NEW t, t = Client!TakeOrder(b, u)
  PROVE  /\ t.best = b.best /\ t.level = b.level /\ t.priceMap = b.priceMap /\ t.freeLevel = b.freeLevel
         /\ t.usedLevels = b.usedLevels /\ t.usedOrders = b.usedOrders \union {b.freeOrder}
         /\ BookFields \subseteq DOMAIN t
         /\ t.order = [b.order EXCEPT ![b.freeOrder] = Client!NewOrder(u, nullptr, nullptr)]
         /\ b.freeOrder \notin AtBest(b) /\ b.freeOrder \notin b.usedOrders
         /\ OrdersKept(AtBest(b), b.order, t.order)
<1>1. /\ t.best = b.best /\ t.level = b.level /\ t.priceMap = b.priceMap /\ t.freeLevel = b.freeLevel
      /\ t.usedLevels = b.usedLevels /\ t.usedOrders = b.usedOrders \union {b.freeOrder}
      /\ BookFields \subseteq DOMAIN t
      /\ t.order = [b.order EXCEPT ![b.freeOrder] = Client!NewOrder(u, nullptr, nullptr)]
  BY DEF Client!TakeOrder, Shape, BookFields
<1>2. b.freeOrder \notin b.usedOrders /\ b.freeOrder \notin AtBest(b)
  BY DEF Shape, AtBest
<1>3. OrdersKept(AtBest(b), b.order, t.order)
  <2>1. OrdersKept(AtBest(b), b.order, b.order)
    BY KeptBefore
  <2>2. OrdersKept(AtBest(b), b.order, [b.order EXCEPT ![b.freeOrder] = Client!NewOrder(u, nullptr, nullptr)])
    BY <1>2, <2>1, OtherOrdersKept
  <2> QED
    BY <1>1, <2>2
<1> QED
  BY <1>1, <1>2, <1>3

\* The order joins a level that is not the best one.
LEMMA QueueKeepsBest ==
  ASSUME NEW b, Shape(b), InPlace(b), NEW u, u.price \in Nat, NEW l, l = Client!LevelAt(b, u.price), l # nullptr,
         ~Client!Touched(b, "SELL", u),
         NEW c, c = Client!QueueOrder(Client!TakeOrder(b, u), b.freeOrder, l), InPlace(c)
  PROVE  Keeps(b, c)
<1> DEFINE t == Client!TakeOrder(b, u)
           o == b.freeOrder
           first == t.level[l].first
           last == t.order[first].prev
           os1 == [t.order EXCEPT ![last].next = o]
           os2 == [os1 EXCEPT ![o].prev = last]
           os3 == [os2 EXCEPT ![o].next = first]
           os4 == [os3 EXCEPT ![first].prev = o]
<1>1. /\ t.best = b.best /\ t.level = b.level /\ t.priceMap = b.priceMap /\ BookFields \subseteq DOMAIN t
      /\ t.usedOrders = b.usedOrders \union {o}
      /\ t.order = [b.order EXCEPT ![o] = Client!NewOrder(u, nullptr, nullptr)]
      /\ o \notin AtBest(b) /\ o \notin b.usedOrders /\ OrdersKept(AtBest(b), b.order, t.order)
  BY TakeKeeps
<1> HIDE DEF t
<1>2. c = [t EXCEPT !.order = [t.order EXCEPT ![last].next = o, ![o].prev = last, ![o].next = first,
                                              ![first].prev = o]]
  BY DEF Client!QueueOrder, t
<1>3. c = [t EXCEPT !.order = os4]
  BY <1>2
<1>4. c.order = os4 /\ c.best = b.best /\ c.level = b.level /\ c.priceMap = b.priceMap /\ c.usedOrders = t.usedOrders
  BY <1>1, <1>3 DEF BookFields
<1>5. Best(c) = Best(b) /\ DOMAIN b.order = OrderSlots /\ o \in OrderSlots
  BY <1>4 DEF Best, Shape
<1>6. l \in b.usedLevels
  <2>1. Client!PriceToIndex(u.price) \in LevelSlots
    BY ConstantsAssumption DEF Client!PriceToIndex, LevelSlots
  <2> QED
    BY <2>1 DEF Client!LevelAt, Shape
<1>7. first \in b.usedOrders /\ At(b, first) = l /\ first # o /\ last \in b.usedOrders /\ At(b, last) = l /\ last # o
  <2>1. first = b.level[l].first
    BY <1>1
  <2>2. first \in b.usedOrders /\ At(b, first) = l
    BY <1>6, <2>1 DEF Shape
  <2> HIDE DEF first
  <2>3. last = b.order[first].prev
    BY <1>1, <1>5, <2>2 DEF Shape
  <2>4. last \in b.usedOrders /\ At(b, last) = l
    BY <2>2, <2>3 DEF Shape
  <2> QED
    BY <1>1, <2>2, <2>4
<1> HIDE DEF first, last
<1>8. l # Best(b)
  <2> SUFFICES ASSUME l = Best(b) PROVE FALSE
    OBVIOUS
  <2>1. os4[o].price = u.price /\ os4[o].side = u.side
    <3>1. /\ t.order[o].price = u.price /\ t.order[o].side = u.side /\ OrderFields \subseteq DOMAIN t.order[o]
          /\ DOMAIN t.order = OrderSlots
      BY <1>1, <1>5 DEF Client!NewOrder, OrderFields
    <3>2. os1[o].price = u.price /\ os1[o].side = u.side /\ OrderFields \subseteq DOMAIN os1[o] /\ DOMAIN os1 = OrderSlots
      BY <1>5, <1>7, <3>1 DEF OrderFields
    <3> HIDE DEF os1, o
    <3>3. os2[o].price = u.price /\ os2[o].side = u.side /\ OrderFields \subseteq DOMAIN os2[o] /\ DOMAIN os2 = OrderSlots
      BY <1>5, <3>2 DEF OrderFields
    <3> HIDE DEF os2
    <3>4. os3[o].price = u.price /\ os3[o].side = u.side /\ OrderFields \subseteq DOMAIN os3[o] /\ DOMAIN os3 = OrderSlots
      BY <1>5, <3>3 DEF OrderFields
    <3> HIDE DEF os3
    <3> QED
      BY <1>5, <1>7, <3>4 DEF OrderFields
  <2>2. c.order[o].price = u.price /\ c.order[o].side = u.side /\ o \in c.usedOrders
    BY <1>1, <1>4, <2>1
  <2> HIDE DEF os4
  <2>3. At(c, o) = Best(c)
    BY <1>4, <1>5, <2>2 DEF At, Client!LevelAt
  <2>4. u.side = "SELL" /\ u.price = b.level[Best(b)].price /\ Best(b) # nullptr
    BY <1>4, <1>5, <2>2, <2>3, KeptBefore DEF InPlace
  <2> QED
    BY <2>4 DEF Client!Touched, Best
<1>9. last \notin AtBest(b)
  BY <1>7, <1>8 DEF AtBest
<1>10. OrdersKept(AtBest(b), b.order, os1)
  BY <1>1, <1>9, OtherOrdersKept
<1> HIDE DEF os1
<1>11. OrdersKept(AtBest(b), b.order, os2)
  BY <1>10, OtherOrdersKept
<1> HIDE DEF os2
<1>12. OrdersKept(AtBest(b), b.order, os3)
  BY <1>1, <1>11, OtherOrdersKept
<1> HIDE DEF os3
<1>13. OrdersKept(AtBest(b), b.order, os4)
  BY <1>12, OtherOrdersKept
<1> HIDE DEF os4
<1> QED
  BY <1>4, <1>5, <1>13, KeptBefore, KeptKeeps

\* A level that was free is taken for the order.
LEMMA OpenKeepsBest ==
  ASSUME NEW b, Shape(b), InPlace(b), NEW u, NEW d, d = Client!Opened(b, u)
  PROVE  /\ d.best = b.best /\ BookFields \subseteq DOMAIN d
         /\ Best(b) # b.freeLevel /\ LevelsKept([b.level EXCEPT ![b.freeLevel] = d.level[b.freeLevel]], d.level)
         /\ d.level[Best(b)].price = b.level[Best(b)].price /\ d.level[Best(b)].first = b.level[Best(b)].first
         /\ OrdersKept(AtBest(b), b.order, d.order)
<1>0. PICK t : t = Client!TakeOrder(b, u)
  OBVIOUS
<1>10. /\ t.best = b.best /\ t.level = b.level /\ t.priceMap = b.priceMap /\ t.freeLevel = b.freeLevel
       /\ BookFields \subseteq DOMAIN t
  BY <1>0 DEF Client!TakeOrder, Shape, BookFields
<1>11. b.freeOrder \notin AtBest(b) /\ OrdersKept(AtBest(b), b.order, t.order)
  BY <1>0, TakeKeeps
<1> DEFINE o == b.freeOrder
           l == b.freeLevel
           a == [t EXCEPT !.order[o].prev = o, !.order[o].next = o]
           near == IF b.best[u.side] = nullptr THEN l ELSE nullptr
           os1 == [t.order EXCEPT ![o].prev = o]
           os2 == [os1 EXCEPT ![o].next = o]
<1>1. /\ t.best = b.best /\ t.level = b.level /\ t.priceMap = b.priceMap /\ t.freeLevel = l
      /\ BookFields \subseteq DOMAIN t /\ o \notin AtBest(b) /\ OrdersKept(AtBest(b), b.order, t.order)
  BY <1>10, <1>11
<1>2. d = Client!OpenLevel(a, o, u.side, u.price)
  BY <1>0 DEF Client!Opened
<1>3. /\ a.order = os2 /\ a.best = b.best /\ a.level = b.level /\ a.freeLevel = l /\ BookFields \subseteq DOMAIN a
  BY <1>1 DEF BookFields
<1> HIDE DEF a
<1>4. /\ d.best = b.best /\ d.order = os2 /\ BookFields \subseteq DOMAIN d
      /\ d.level = [b.level EXCEPT ![l] = Client!NewLevel(u.side, u.price, o, near, near)]
  BY <1>2, <1>3 DEF Client!OpenLevel, BookFields
<1>5. OrdersKept(AtBest(b), b.order, os1)
  BY <1>1, OtherOrdersKept
<1> HIDE DEF os1
<1>6. OrdersKept(AtBest(b), b.order, os2)
  BY <1>1, <1>5, OtherOrdersKept
<1> HIDE DEF os2
<1>7. Best(b) # l /\ Best(b) \in LevelSlots /\ l \in LevelSlots
  BY DEF Shape, InPlace
<1>8. d.level[Best(b)] = b.level[Best(b)] /\ LevelsKept([b.level EXCEPT ![l] = d.level[l]], d.level)
  BY <1>4, <1>7 DEF Shape, LevelsKept, Client!NewLevel, LevelFields
<1> QED
  BY <1>4, <1>6, <1>7, <1>8

LEMMA LinkKeepsBest ==
  ASSUME NEW d, NEW lv, LevelsKept(lv, d.level), BookFields \subseteq DOMAIN d, NEW l, NEW s, NEW price, NEW t,
         NEW c, c = Client!LinkLevel(d, l, s, price, t), s = "SELL" => ~Client!Worse(d, s, price)
  PROVE  Best(c) = Best(d) /\ LevelsKept(lv, c.level) /\ c.order = d.order
<1> DEFINE last == d.level[t].prev
           top == d.best[s]
           lv1 == [d.level EXCEPT ![l].prev = last]
           lv2 == [lv1 EXCEPT ![l].next = t]
           lv3 == [lv2 EXCEPT ![last].next = l]
           lv4 == [lv3 EXCEPT ![t].prev = l]
           lv5 == [lv4 EXCEPT ![t].next = l]
           nx == d.level[last].next
           ap2 == [lv1 EXCEPT ![nx].prev = l]
           ap3 == [ap2 EXCEPT ![l].next = nx]
           ap4 == [ap3 EXCEPT ![last].next = l]
           linked == [d.level EXCEPT ![l].prev = last, ![l].next = t, ![last].next = l, ![t].prev = l]
<1>1. Client!AppendLevel(d.level, l, last) = ap4
  BY DEF Client!AppendLevel
<1>2. linked = lv4
  OBVIOUS
<1>3. c = IF Client!Worse(d, s, price) /\ t = top
            THEN [d EXCEPT !.level = Client!AppendLevel(d.level, l, last)]
            ELSE IF Client!Worse(d, s, price)
                   THEN [d EXCEPT !.best[s] = l,
                           !.level = IF linked[t].next = top THEN [linked EXCEPT ![t].next = l] ELSE linked]
                   ELSE [d EXCEPT !.level = linked]
  BY DEF Client!LinkLevel
<1> HIDE DEF linked, last, top, nx
<1>4. LevelsKept(lv, lv1)
  BY LinksKept
<1> HIDE DEF lv1
<1>5. LevelsKept(lv, lv2) /\ LevelsKept(lv, ap2)
  BY <1>4, LinksKept
<1> HIDE DEF lv2, ap2
<1>6. LevelsKept(lv, lv3) /\ LevelsKept(lv, ap3)
  BY <1>5, LinksKept
<1> HIDE DEF lv3, ap3
<1>7. LevelsKept(lv, lv4) /\ LevelsKept(lv, ap4)
  BY <1>6, LinksKept
<1> HIDE DEF lv4, ap4
<1>8. LevelsKept(lv, lv5)
  BY <1>7, LinksKept
<1> HIDE DEF lv5
<1>9. CASE Client!Worse(d, s, price) /\ t = top
  <2>1. c = [d EXCEPT !.level = ap4]
    BY <1>1, <1>3, <1>9
  <2>2. c.level = ap4 /\ c.best = d.best /\ c.order = d.order
    BY <2>1 DEF BookFields
  <2> QED
    BY <1>7, <2>2 DEF Best
<1>10. CASE Client!Worse(d, s, price) /\ t # top
  <2>1. c = [d EXCEPT !.best[s] = l, !.level = IF lv4[t].next = top THEN lv5 ELSE lv4]
    BY <1>2, <1>3, <1>10 DEF lv5
  <2>2. c.level \in {lv4, lv5} /\ c.best = [d.best EXCEPT ![s] = l] /\ c.order = d.order
    BY <2>1 DEF BookFields
  <2>3. s # "SELL"
    BY <1>10
  <2>4. Best(c) = Best(d)
    BY <2>2, <2>3 DEF Best
  <2> QED
    BY <1>7, <1>8, <2>2, <2>4
<1>11. CASE ~Client!Worse(d, s, price)
  <2>1. c = [d EXCEPT !.level = lv4]
    BY <1>2, <1>3, <1>11
  <2>2. c.level = lv4 /\ c.best = d.best /\ c.order = d.order
    BY <2>1 DEF BookFields
  <2> QED
    BY <1>7, <2>2 DEF Best
<1> QED
  BY <1>9, <1>10, <1>11

LEMMA AddKeepsBest ==
  ASSUME NEW b, Shape(b), InPlace(b), NEW u, Carries(b, u), u.type = "ADD", ~Client!Touched(b, "SELL", u),
         NEW c, c = Client!AddOrder(b, u), InPlace(c)
  PROVE  Keeps(b, c)
<1> DEFINE l == Client!LevelAt(b, u.price)
           d == Client!Opened(b, u)
           n == b.freeLevel
<1>1. u.price \in Nat
  BY DEF Carries
<1>2. CASE l # nullptr
  BY <1>1, <1>2, QueueKeepsBest DEF Client!AddOrder
<1>3. CASE l = nullptr
  <2>1. c = Client!AddOrdersAtPrice(d, n, u.side, u.price)
    BY <1>3 DEF Client!AddOrder
  <2>2. /\ d.best = b.best /\ BookFields \subseteq DOMAIN d /\ Best(b) # n
        /\ LevelsKept([b.level EXCEPT ![n] = d.level[n]], d.level)
        /\ d.level[Best(b)].price = b.level[Best(b)].price /\ d.level[Best(b)].first = b.level[Best(b)].first
        /\ OrdersKept(AtBest(b), b.order, d.order)
    BY OpenKeepsBest
  <2> HIDE DEF d, l
  <2>3. DOMAIN b.best = Sides /\ Best(b) \in LevelSlots /\ Best(b) # nullptr
    BY KeptBefore
  <2>4. CASE d.best[u.side] = nullptr
    <3>1. c = [d EXCEPT !.best[u.side] = n]
      BY <2>1, <2>4 DEF Client!AddOrdersAtPrice
    <3>2. c.best = [b.best EXCEPT ![u.side] = n] /\ c.level = d.level /\ c.order = d.order
      BY <2>2, <3>1 DEF BookFields
    <3>3. u.side # "SELL"
      BY <2>2, <2>3, <2>4 DEF Best
    <3>4. Best(c) = Best(b)
      BY <3>2, <3>3 DEF Best
    <3> QED
      BY <2>2, <3>2, <3>4 DEF Keeps, Alike, OrdersKept
  <2>5. CASE d.best[u.side] # nullptr
    <3>1. c = Client!LinkLevel(d, n, u.side, u.price, Client!Target(d, u.side, u.price))
      BY <2>1, <2>5 DEF Client!AddOrdersAtPrice
    <3>2. u.side = "SELL" => ~Client!Worse(d, u.side, u.price)
      <4> SUFFICES ASSUME u.side = "SELL", Client!Worse(d, u.side, u.price) PROVE FALSE
        OBVIOUS
      <4>1. Client!LessAggressive("SELL", u.price, b.level[Best(b)].price)
        BY <2>2 DEF Client!Worse, Best
      <4>2. u.price > b.level[Best(b)].price /\ b.level[Best(b)].price \in Nat
        BY <4>1 DEF Client!LessAggressive, Shape, InPlace
      <4>3. u.price >= b.level[Best(b)].price
        BY <1>1, <4>2
      <4> QED
        BY <2>3, <4>3 DEF Client!Touched, Best
    <3> DEFINE t == Client!Target(d, u.side, u.price)
               lv == [b.level EXCEPT ![n] = d.level[n]]
    <3>3. c = Client!LinkLevel(d, n, u.side, u.price, t)
      BY <3>1
    <3> HIDE DEF t
    <3>4. LevelsKept(lv, d.level)
      BY <2>2
    <3>5. lv[Best(b)] = b.level[Best(b)]
      BY <2>2, <2>3 DEF Shape
    <3> HIDE DEF lv, n
    <3>6. Best(c) = Best(d) /\ LevelsKept(lv, c.level) /\ c.order = d.order
      BY <2>2, <3>2, <3>3, <3>4, LinkKeepsBest
    <3>7. Best(d) = Best(b)
      BY <2>2 DEF Best
    <3> QED
      BY <2>2, <2>3, <3>5, <3>6, <3>7 DEF Keeps, Alike, OrdersKept, LevelsKept
  <2> QED
    BY <2>4, <2>5
<1> QED
  BY <1>2, <1>3

\* What is on its way to the client fits the book the client has.
AskInv ==
  recoveries = 0 /\ ended = "no" =>
    /\ Shape(book)
    /\ \A i \in DOMAIN feed : Carries(book, feed[i])
    /\ pc = "halted" => feed = <<>>

LEMMA AfterTradeCarries ==
  ASSUME NEW b, NEW f, NEW u, AfterTrade(f, u), Carries(b, u)
  PROVE  \A i \in DOMAIN f : Carries(b, f[i])
<1>1. CASE f = <<u>>
  BY <1>1
<1>2. CASE f # <<u>>
  <2>1. PICK t : t.type = "TRADE" /\ f = <<t, u>>
    BY <1>2 DEF AfterTrade
  <2>2. Carries(b, t)
    BY <2>1 DEF Carries
  <2>3. DOMAIN f = 1 .. 2 /\ f[1] = t /\ f[2] = u
    BY <2>1
  <2> QED
    BY <2>2, <2>3
<1> QED
  BY <1>1, <1>2

LEMMA OfOrderCarries ==
  ASSUME IInv, Stale, pc # "halted", NEW b, SameBook(b), NEW o \in Handed,
         NEW u, u.type \in {"MODIFY", "CANCEL"}, u.moid = order[o].moid, u.side = order[o].side,
         u.price = order[o].price
  PROVE  Carries(b, u)
<1> SUFFICES ASSUME NEW p, p = Client!OrderOf(b, u.moid), p # nullptr
             PROVE  p \in b.usedOrders /\ b.order[p].side = u.side /\ b.order[p].price = u.price
  BY DEF Carries
<1>1. u.moid \in OrderSlots /\ p = b.oidToOrder[u.moid]
  <2>1. u.moid \in Nat
    BY DEF Handed, OrderData
  <2> QED
    BY <2>1, ConstantsAssumption DEF Client!OrderOf, OrderSlots
<1>2. p \in usedOrders /\ order[p].moid = order[o].moid
  BY <1>1 DEF SameBook, MapIs
<1>3. p \in Handed
  BY <1>2, UsedHanded DEF IInv
<1>4. p = o
  BY <1>2, <1>3 DEF Stale, IdsOnce
<1> QED
  BY <1>2, <1>4 DEF SameBook, AsOrders, OrdersAre, Handed

LEMMA PassiveHanded ==
  ASSUME IInv, Stale, pc = "match", CanMatch PROVE Passive \in Handed
<1>1. Passive = firstOrder[best[Opposite(agg.side)]] /\ best[Opposite(agg.side)] # nullptr
  BY DEF CanMatch, Passive, BestOpposite
<1>2. Opposite(agg.side) \in Sides /\ best[Opposite(agg.side)] \in LevelSlots
  BY <1>1 DEF IInv, TypeOK, Aggressors, Sides, Opposite, LevelPtrs
<1> QED
  BY <1>1, <1>2 DEF Stale, PointersLead, Started

\* What the exchange sends fits the client's book.
LEMMA SentCarries ==
  ASSUME IInv, Stale, Next, NEW b, pc \in {"idle", "match"} => SameBook(b)
  PROVE  (\A i \in DOMAIN updates' : Carries(b, updates'[i])) /\ (pc' = "halted" => updates' = <<>>)
<1> DEFINE Goal == (\A i \in DOMAIN updates' : Carries(b, updates'[i])) /\ (pc' = "halted" => updates' = <<>>)
<1>1. ASSUME updates' = <<>> PROVE Goal
  BY <1>1
<1>2. ASSUME NEW u, AfterTrade(updates', u), Carries(b, u), pc' # "halted" PROVE Goal
  BY <1>2, AfterTradeCarries
<1>3. ASSUME NEW c \in Clients, NEW id \in OrderIds, Cancel(c, id) PROVE Goal
  <2> DEFINE o == cidOid[c][id]
  <2>1. o \in usedOrders /\ pc = "idle" /\ pc' = "idle"
    BY <1>3 DEF Cancel, IInv, BookInv, ClientMapSound, callVars
  <2>2. PICK u : u = Update("CANCEL", order[o].moid, order[o].side, order[o].price, 0, order[o].prio)
    OBVIOUS
  <2>3. updates' = <<u>>
    BY <1>3, <2>2 DEF Cancel, Send
  <2>4. u.type = "CANCEL" /\ u.moid = order[o].moid /\ u.side = order[o].side /\ u.price = order[o].price
    BY <2>2 DEF Update
  <2>5. o \in Handed
    BY <2>1, UsedHanded DEF IInv
  <2> HIDE DEF o, Goal
  <2>6. Carries(b, u)
    BY <2>1, <2>4, <2>5, OfOrderCarries
  <2> QED
    BY <1>2, <2>1, <2>3, <2>6 DEF AfterTrade
<1>4. ASSUME MatchFully PROVE Goal
  <2> DEFINE o == Passive
  <2>1. pc = "match" /\ pc' = "match"
    BY <1>4 DEF MatchFully
  <2>2. PICK u : u = Update("CANCEL", order[o].moid, order[o].side, order[o].price, qty[o], nullptr)
    OBVIOUS
  <2>3. updates' = <<Trade(o, qty[o]), u>> /\ Trade(o, qty[o]).type = "TRADE"
    BY <1>4, <2>2 DEF MatchFully, Send, Trade, Update
  <2>4. u.type = "CANCEL" /\ u.moid = order[o].moid /\ u.side = order[o].side /\ u.price = order[o].price
    BY <2>2 DEF Update
  <2>5. o \in Handed
    BY <1>4, PassiveHanded DEF MatchFully
  <2> HIDE DEF o, Goal
  <2>6. Carries(b, u)
    BY <2>1, <2>4, <2>5, OfOrderCarries
  <2> QED
    BY <1>2, <2>1, <2>3, <2>6 DEF AfterTrade
<1>5. ASSUME MatchPartly PROVE Goal
  <2> DEFINE o == Passive
  <2>1. pc = "match" /\ pc' = "match"
    BY <1>5 DEF MatchPartly
  <2>2. PICK u : u = Update("MODIFY", order[o].moid, order[o].side, order[o].price, qty[o] - leaves, order[o].prio)
    OBVIOUS
  <2>3. updates' = <<Trade(o, leaves), u>> /\ Trade(o, leaves).type = "TRADE"
    BY <1>5, <2>2 DEF MatchPartly, Send, Trade, Update
  <2>4. u.type = "MODIFY" /\ u.moid = order[o].moid /\ u.side = order[o].side /\ u.price = order[o].price
    BY <2>2 DEF Update
  <2>5. o \in Handed
    BY <1>5, PassiveHanded DEF MatchPartly
  <2> HIDE DEF o, Goal
  <2>6. Carries(b, u)
    BY <2>1, <2>4, <2>5, OfOrderCarries
  <2> QED
    BY <1>2, <2>1, <2>3, <2>6 DEF AfterTrade
<1>6. ASSUME pc \in {"match", "walk"}, NEW o, NEW q, NEW prio, Publish(o, q, prio) PROVE Goal
  <2>1. PICK u : u = Update("ADD", agg.moid, agg.side, agg.price, q, prio)
    OBVIOUS
  <2>2. updates' = <<u>> /\ pc' = "idle"
    BY <1>6, <2>1 DEF Publish, Send, Return
  <2>3. u.type = "ADD" /\ u.price \in Nat
    BY <1>6, <2>1, ConstantsAssumption DEF Update, IInv, TypeOK, Aggressors
  <2>4. Carries(b, u)
    BY <2>3 DEF Carries
  <2> HIDE DEF Goal
  <2> QED
    BY <1>2, <2>2, <2>4 DEF AfterTrade
<1> SUFFICES Goal
  OBVIOUS
<1> HIDE DEF Goal
<1>7. CASE \E c \in Clients, id \in OrderIds, s \in Sides, p \in Prices, q \in Quantities : Accept(c, id, s, p, q)
  BY <1>1, <1>7 DEF Accept, Send
<1>8. CASE \E c \in Clients, id \in OrderIds : CancelReject(c, id) \/ CancelCrash(c, id)
  BY <1>1, <1>8 DEF CancelReject, CancelCrash, Halt, Send
<1>9. CASE Filled \/ MatchCrash \/ RestCrash \/ InsertCrash
  BY <1>1, <1>9 DEF Filled, MatchCrash, RestCrash, InsertCrash, Halt, Send
<1>10. CASE RestOnSide \/ WalkStep
  BY <1>1, <1>10 DEF RestOnSide, WalkStep, Send
<1>11. CASE RestAtLevel \/ RestOnEmptySide
  <2>1. pc = "match" /\ \E o, q, prio : Publish(o, q, prio)
    BY <1>11 DEF RestAtLevel, RestOnEmptySide, Rests
  <2> QED
    BY <1>6, <2>1
<1>12. CASE InsertAtEnd \/ InsertBeforeTarget
  <2>1. pc = "walk" /\ \E o, q, prio : Publish(o, q, prio)
    BY <1>12 DEF InsertAtEnd, InsertBeforeTarget, AtEnd, AtTarget, PublishWalked
  <2> QED
    BY <1>6, <2>1
<1> QED
  BY <1>3, <1>4, <1>5, <1>7, <1>8, <1>9, <1>10, <1>11, <1>12 DEF Next, Request, Running

LEMMA BookShape == IInv /\ SameBook(book) => Shape(book)
BY SameBookShape

LEMMA BookShapeNext == IInv' /\ SameBook(book)' => Shape(book)'
BY BookShape, PTL

\* What a step of the exchange sends.
LEMMA ExchangeAsks ==
  ASSUME IInv, Stale, MirrorInv, AskInv, Exchange PROVE AskInv'
<1>1. feed = <<>> /\ Next /\ feed' = updates' /\ book' = book /\ ended' = ended /\ recoveries' = recoveries
  BY DEF Exchange, clientVars
<1> SUFFICES ASSUME recoveries = 0, ended = "no"
             PROVE  Shape(book)' /\ (\A i \in DOMAIN feed : Carries(book, feed[i]))' /\ (pc' = "halted" => feed' = <<>>)
  BY <1>1 DEF AskInv
<1>2. PICK b : b = book /\ b = book'
  BY <1>1
<1>3. pc \in {"idle", "match"} => SameBook(b)
  BY <1>1, <1>2 DEF MirrorInv, Reaches, AfterTrade
<1>4. Shape(b)
  BY <1>2 DEF AskInv
<1>5. (\A i \in DOMAIN updates' : Carries(b, updates'[i])) /\ (pc' = "halted" => updates' = <<>>)
  BY <1>1, <1>3, SentCarries
<1> QED
  BY <1>1, <1>2, <1>4, <1>5

\* The client gets the update it waits for, or a trade before it.
LEMMA Delivered ==
  ASSUME IInv, MirrorInv, AskInv, Deliver, recoveries' = 0, ended' = "no"
  PROVE  /\ pc \in {"idle", "match"} /\ ended = "no" /\ Client!OnMarketUpdate(Head(feed)) /\ UNCHANGED vars
         /\ Shape(book) /\ Carries(book, Head(feed))
         /\ \/ feed' = <<>>
            \/ book' = book /\ bbo' = bbo /\ \E u : feed' = <<u>> /\ Carries(book, u)
<1>1. /\ feed # <<>> /\ Client!OnMarketUpdate(Head(feed)) /\ feed' = Tail(feed) /\ UNCHANGED vars
      /\ recoveries = 0 /\ ended = "no"
  BY DEF Deliver, Client!OnMarketUpdate
<1>2. Shape(book) /\ (\A i \in DOMAIN feed : Carries(book, feed[i])) /\ pc \in {"idle", "match"}
  BY <1>1 DEF AskInv, MirrorInv, IInv, TypeOK
<1>3. PICK u : AfterTrade(feed, u)
  BY <1>1, <1>2 DEF MirrorInv, Reaches
<1>4. CASE feed = <<u>>
  <2>1. Head(feed) = u /\ feed' = <<>> /\ 1 \in DOMAIN feed /\ feed[1] = u
    BY <1>1, <1>4
  <2> QED
    BY <1>1, <1>2, <2>1
<1>5. CASE feed # <<u>>
  <2>1. PICK t : t.type = "TRADE" /\ feed = <<t, u>>
    BY <1>3, <1>5 DEF AfterTrade
  <2>2. Head(feed) = t /\ feed' = <<u>> /\ DOMAIN feed = 1 .. 2 /\ feed[1] = t /\ feed[2] = u
    BY <1>1, <2>1
  <2>3. book' = book /\ bbo' = bbo
    <3>1. Client!OnTrade(t)
      BY <1>1, <2>1, <2>2
         DEF Client!OnMarketUpdate, Client!OnAdd, Client!OnModify, Client!OnCancel, Client!OnClear
    <3> QED
      BY <3>1 DEF Client!OnTrade, Client!vars
  <2>4. Carries(book, t) /\ Carries(book, u)
    BY <1>2, <2>2
  <2> QED
    BY <1>1, <1>2, <2>2, <2>3, <2>4
<1> QED
  BY <1>4, <1>5

LEMMA DeliverAsks ==
  ASSUME IInv, IInv', MirrorInv, MirrorInv', AskInv, Deliver PROVE AskInv'
<1> SUFFICES ASSUME recoveries' = 0, ended' = "no"
             PROVE  Shape(book)' /\ (\A i \in DOMAIN feed : Carries(book, feed[i]))' /\ (pc' = "halted" => feed' = <<>>)
  BY DEF AskInv
<1>1. pc' \in {"idle", "match"} /\ Shape(book)
  BY Delivered DEF vars, callVars
<1>2. CASE feed' = <<>>
  <2>1. SameBook(book)'
    BY <1>1, <1>2 DEF MirrorInv, Reaches, AfterTrade
  <2>2. Shape(book)'
    BY <2>1, BookShapeNext
  <2> QED
    BY <1>2, <2>2
<1>3. CASE feed' # <<>>
  <2>1. PICK b : b = book /\ b = book'
    BY <1>3, Delivered
  <2>2. PICK u : feed' = <<u>> /\ Carries(b, u)
    BY <1>3, <2>1, Delivered
  <2>3. \A i \in DOMAIN feed' : Carries(b, feed'[i])
    BY <2>2
  <2>4. Shape(b)
    BY <1>1, <2>1
  <2> QED
    BY <1>1, <2>1, <2>3, <2>4
<1> QED
  BY <1>2, <1>3

LEMMA InitAsks == MirrorInit => AskInv
<1> SUFFICES ASSUME MirrorInit PROVE AskInv
  OBVIOUS
<1>1. feed = <<>> /\ recoveries = 0 /\ pc = "idle" /\ ended = "no" /\ IInv /\ MirrorInv
  BY InitIInv, InitMirrors DEF MirrorInit, Init, Client!Init
<1>2. SameBook(book)
  BY <1>1 DEF MirrorInv, Reaches, AfterTrade
<1> QED
  BY <1>1, <1>2, BookShape DEF AskInv

LEMMA AsksKept == MirrorSpec => [](MirrorIInv /\ AskInv)
<1>1. MirrorInit => AskInv
  BY InitAsks
<1>2. MirrorIInv /\ MirrorIInv' /\ AskInv /\ [MirrorNext]_mirrorVars => AskInv'
  <2> SUFFICES ASSUME IInv, Stale, MirrorInv, IInv', MirrorInv', AskInv, [MirrorNext]_mirrorVars PROVE AskInv'
    BY DEF MirrorIInv
  <2>1. CASE Exchange
    BY <2>1, ExchangeAsks
  <2>2. CASE Deliver
    BY <2>2, DeliverAsks
  <2>3. CASE Recover
    <3>1. recoveries' # 0
      BY <2>3 DEF Recover, MirrorInv
    <3> QED
      BY <3>1 DEF AskInv
  <2>4. CASE UNCHANGED mirrorVars
    <3>1. /\ feed' = feed /\ recoveries' = recoveries /\ ended' = ended /\ pc' = pc
      BY <2>4 DEF mirrorVars, clientVars, vars, callVars
    <3>2. PICK b : b = book /\ b = book'
      BY <2>4 DEF mirrorVars, clientVars
    <3> QED
      BY <3>1, <3>2 DEF AskInv
  <2> QED
    BY <2>1, <2>2, <2>3, <2>4 DEF MirrorNext
<1> QED
  BY <1>1, <1>2, MirrorKept, PTL DEF MirrorSpec

\* An update that does not touch the asks leaves those of the best level as they are.
LEMMA UpdateKeepsBest ==
  ASSUME NEW u, Shape(book), Carries(book, u), InPlace(book), InPlace(book'), Best(book') # nullptr,
         Client!OnMarketUpdate(u), ended' = "no", ~Client!Touched(book, "SELL", u)
  PROVE  bbo'["SELL"] = bbo["SELL"] /\ (book' = book \/ Keeps(book, book'))
<1>1. PICK b : b = book
  OBVIOUS
<1>2. PICK c : c = book'
  OBVIOUS
<1>3. Client!UpdateBBO(u) => bbo'["SELL"] = bbo["SELL"]
  BY DEF Client!UpdateBBO, Client!Sides
<1>4. CASE Client!OnAdd(u)
  <2>1. u.type = "ADD" /\ c = Client!AddOrder(b, u) /\ Client!UpdateBBO(u)
    BY <1>1, <1>2, <1>4 DEF Client!OnAdd, Client!End
  <2>2. Keeps(b, c)
    BY <1>1, <1>2, <2>1, AddKeepsBest
  <2> QED
    BY <1>1, <1>2, <1>3, <2>1, <2>2
<1>5. CASE Client!OnModify(u)
  <2> DEFINE o == Client!OrderOf(b, u.moid)
  <2>1. u.type = "MODIFY" /\ o # nullptr /\ c = [b EXCEPT !.order[o].qty = u.qty] /\ Client!UpdateBBO(u)
    BY <1>1, <1>2, <1>5 DEF Client!OnModify, Client!End
  <2>2. Keeps(b, c)
    BY <1>1, <1>2, <2>1, ModifyKeepsBest
  <2> QED
    BY <1>1, <1>2, <1>3, <2>1, <2>2
<1>6. CASE Client!OnCancel(u)
  <2> DEFINE o == Client!OrderOf(b, u.moid)
  <2>1. u.type = "CANCEL" /\ Client!CanRemove(b, o) /\ c = Client!RemoveOrder(b, o) /\ Client!UpdateBBO(u)
    BY <1>1, <1>2, <1>6 DEF Client!OnCancel, Client!End
  <2>2. Keeps(b, c)
    BY <1>1, <1>2, <2>1, CancelKeepsBest
  <2> QED
    BY <1>1, <1>2, <1>3, <2>1, <2>2
<1>7. CASE Client!OnTrade(u)
  BY <1>7 DEF Client!OnTrade, Client!vars
<1>8. ~Client!OnClear(u)
  BY DEF Carries, Client!OnClear
<1> QED
  BY <1>4, <1>5, <1>6, <1>7, <1>8 DEF Client!OnMarketUpdate

\* One step of the exchange, of an update or of a recovery.
LEMMA AsksStep ==
  ASSUME IInv, MirrorInv, AskInv, AskInv', [MirrorNext]_mirrorVars,
         recoveries' = 0, ended' = "no", AskShown, AsksInPlace, AsksInPlace'
  PROVE  AskShown'
<1>1. CASE book' = book /\ bbo' = bbo
  BY <1>1 DEF AskShown
<1>2. CASE Deliver
  <2>1. PICK u : u = Head(feed)
    OBVIOUS
  <2>2. Shape(book) /\ Carries(book, u) /\ Client!OnMarketUpdate(u) /\ Shape(book)'
    BY <1>2, <2>1, Delivered DEF AskInv
  <2>3. PICK b : b = book
    OBVIOUS
  <2>4. PICK c : c = book'
    OBVIOUS
  <2>5. InPlace(b)
    BY <2>3 DEF AsksInPlace, InPlace, Best, At
  <2>6. InPlace(c) /\ Shape(c)
    BY <2>2, <2>4 DEF AsksInPlace, InPlace, Best, At
  <2>7. Best(c) # nullptr
    BY <2>6, NullNoLevel DEF InPlace, Shape
  <2>8. CASE Client!Touched(book, "SELL", u)
    <3>1. Client!UpdateBBO(u) => bbo'["SELL"] = Client!Top(book', "SELL")
      BY <2>8 DEF Client!UpdateBBO, Client!Sides
    <3>2. Client!UpdateBBO(u) \/ (book' = book /\ bbo' = bbo)
      BY <2>2 DEF Client!OnMarketUpdate, Client!OnAdd, Client!OnModify, Client!OnCancel, Client!OnTrade,
                  Client!OnClear, Client!End, Client!vars
    <3> QED
      BY <1>1, <3>1, <3>2 DEF AskShown
  <2>9. CASE ~Client!Touched(book, "SELL", u)
    <3>1. bbo'["SELL"] = bbo["SELL"] /\ (c = b \/ Keeps(b, c))
      BY <2>2, <2>3, <2>4, <2>5, <2>6, <2>7, <2>9, UpdateKeepsBest
    <3>2. Client!Top(c, "SELL") = Client!Top(b, "SELL")
      BY <2>2, <2>3, <2>5, <3>1, TopKept DEF InPlace
    <3> QED
      BY <2>3, <2>4, <3>1, <3>2 DEF AskShown
  <2> QED
    BY <2>8, <2>9
<1>3. CASE ~Deliver
  BY <1>1, <1>3 DEF MirrorNext, Exchange, Recover, clientVars, mirrorVars
<1> QED
  BY <1>2, <1>3

\* Until it has to recover, a client that shows the asks of its best level goes on to show them
\* while that level is in place: an update that updateBBO() takes for one of another level changes
\* no order the level lists, however the lists of levels are damaged.
THEOREM ClientAsksStay == MirrorSpec => AsksStayShown
<1>1. MirrorIInv /\ AskInv /\ (AskInv)' /\ [MirrorNext]_mirrorVars =>
        [recoveries' = 0 /\ ended' = "no" /\ AskShown /\ AsksInPlace /\ AsksInPlace' => AskShown']_mirrorVars
  BY AsksStep DEF MirrorIInv
<1> QED
  BY <1>1, AsksKept, PTL DEF MirrorSpec, AsksStayShown
=============================================================================

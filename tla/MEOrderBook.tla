----------------------------- MODULE MEOrderBook -----------------------------
(***************************************************************************)
(* Exchange::MEOrderBook (ch06/exchange/matcher/me_order_book.h and .cpp): *)
(* the limit order book of one ticker.  The matching engine thread calls   *)
(* add() and cancel(); nobody else touches a book, so a call is a sequence *)
(* of steps nothing interleaves with.  The steps are the iterations of the *)
(* two loops, matching and the search for the place of a new price level.  *)
(*                                                                         *)
(* Orders and levels live in memory pools: a pointer is the number of a    *)
(* slot, or nullptr.  A slot that is returned to its pool keeps its        *)
(* contents until it is handed out again, and the model follows a stale    *)
(* pointer to them as the program does.  Dereferencing nullptr, an         *)
(* ASSERT that fails and an exception that leaves a noexcept function all  *)
(* end the process: pc is then "halted".                                   *)
(***************************************************************************)
EXTENDS Integers, FiniteSets, Sequences

CONSTANTS
  Clients,              \* client ids, all below ME_MAX_NUM_CLIENTS
  OrderIds,             \* the order ids clients choose
  Prices,               \* the prices clients choose
  Quantities,           \* the quantities clients choose
  ME_MAX_PRICE_LEVELS,  \* size of the price map and of the pool of levels
  ME_MAX_ORDER_IDS,     \* size of a client's order map and of the pool of orders
  QtyModulus,           \* 2^32, the number of values of a Qty
  MaxMarketOrderId,     \* bound of the model on next_market_order_id_
  nullptr

ASSUME ConstantsAssumption ==
  /\ OrderIds \subseteq Nat
  /\ Prices \subseteq Nat
  /\ Quantities \subseteq Nat
  /\ ME_MAX_PRICE_LEVELS \in Nat \ {0}
  /\ ME_MAX_ORDER_IDS \in Nat \ {0}
  /\ QtyModulus \in Nat \ {0}
  /\ MaxMarketOrderId \in Nat
  /\ nullptr \notin Int

Sides == {"BUY", "SELL"}
Opposite(s) == IF s = "BUY" THEN "SELL" ELSE "BUY"

OrderSlots   == 0 .. ME_MAX_ORDER_IDS - 1
LevelSlots   == 0 .. ME_MAX_PRICE_LEVELS - 1
PriceIndices == 0 .. ME_MAX_PRICE_LEVELS - 1
ValidIds     == {id \in OrderIds : id < ME_MAX_ORDER_IDS}

OrderPool == INSTANCE MemPoolIndex WITH NumElems <- ME_MAX_ORDER_IDS
LevelPool == INSTANCE MemPoolIndex WITH NumElems <- ME_MAX_PRICE_LEVELS

VARIABLES
  order,        \* MEOrder, the fields that never change: client_id_ ... priority_
  qty,          \* MEOrder::qty_
  prevOrder,    \* MEOrder::prev_order_
  nextOrder,    \* MEOrder::next_order_
  usedOrders,   \* order_pool_: the slots in use
  freeOrder,    \* order_pool_: next_free_index_
  level,        \* MEOrdersAtPrice: side_ and price_
  firstOrder,   \* MEOrdersAtPrice::first_me_order_
  prevEntry,    \* MEOrdersAtPrice::prev_entry_
  nextEntry,    \* MEOrdersAtPrice::next_entry_
  usedLevels,   \* orders_at_price_pool_: the slots in use
  freeLevel,    \* orders_at_price_pool_: next_free_index_
  best,         \* bids_by_price_ and asks_by_price_
  priceMap,     \* price_orders_at_price_
  cidOid,       \* cid_oid_to_order_
  nextMarketOrderId,
  pc,           \* "idle", "match" (checkForMatch), "walk" (addOrdersAtPrice) or "halted"
  agg,          \* the arguments of the add() under way
  leaves,       \* its leaves_qty
  walk,         \* the locals of addOrdersAtPrice: the new order and level, target, add_after
  responses,    \* the client responses the last step sent
  updates       \* the market updates the last step sent

orderVars == <<order, qty, prevOrder, nextOrder, usedOrders, freeOrder>>
levelVars == <<level, firstOrder, prevEntry, nextEntry, usedLevels, freeLevel>>
indexVars == <<best, priceMap, cidOid>>
callVars  == <<pc, agg, leaves, walk>>
outVars   == <<responses, updates>>
vars      == <<orderVars, levelVars, indexVars, nextMarketOrderId, callVars, outVars>>

-----------------------------------------------------------------------------
\* Prices.

\* A Price is unsigned: the index is one of the price map.
PriceToIndex(price) == price % ME_MAX_PRICE_LEVELS

\* A price of side s that is less aggressive than q.
LessAggressive(s, p, q) == IF s = "SELL" THEN p > q ELSE p < q

\* An aggressor of side s at price p matches a passive order at price q.
Crosses(s, p, q) == ~LessAggressive(s, p, q)

\* The quantity checkForMatch() starts from.  add() passes the quantity where
\* the market order id is expected and the market order id where the quantity is.
InitialLeaves(marketOrderId, q) == marketOrderId % QtyModulus

\* The market order id that the fills of the aggressor report.
AggressorFillId(marketOrderId, q) == q

-----------------------------------------------------------------------------
\* What the book sends.

Response(type, client, id, moid, side, price, exec, left) ==
  [type |-> type, client |-> client, id |-> id, moid |-> moid, side |-> side,
   price |-> price, exec |-> exec, leaves |-> left]

Update(type, moid, side, price, q, prio) ==
  [type |-> type, moid |-> moid, side |-> side, price |-> price, qty |-> q, prio |-> prio]

Send(rs, us) == responses' = rs /\ updates' = us

\* The process ends; what the step would have changed is gone with it.
Halt ==
  /\ pc' = "halted"
  /\ Send(<<>>, <<>>)
  /\ UNCHANGED <<orderVars, levelVars, indexVars, nextMarketOrderId, agg, leaves, walk>>

\* add() returns.
Return ==
  /\ pc' = "idle"
  /\ agg' = nullptr
  /\ leaves' = 0
  /\ walk' = nullptr

-----------------------------------------------------------------------------
\* removeOrder() and removeOrdersAtPrice().

LevelOf(o) == priceMap[PriceToIndex(order[o].price)]

\* Nothing on the way of removeOrder(o) ends the process.
CanRemove(o) ==
  /\ LevelOf(o) # nullptr
  /\ prevOrder[o] # nullptr /\ nextOrder[o] # nullptr
  /\ o \in usedOrders
  /\ prevOrder[o] = o =>
       /\ LevelOf(o) \in usedLevels
       /\ nextEntry[LevelOf(o)] # LevelOf(o) =>
            prevEntry[LevelOf(o)] # nullptr /\ nextEntry[LevelOf(o)] # nullptr

\* Mutant of RemoveOrdersAtPrice: the best level of the side stays the best one.
RemoveOrdersAtPriceKeepsBest(side, i, l) ==
  /\ IF nextEntry[l] = l
       THEN best' = [best EXCEPT ![side] = nullptr] /\ UNCHANGED <<prevEntry, nextEntry>>
       ELSE /\ nextEntry' = [nextEntry EXCEPT ![prevEntry[l]] = nextEntry[l], ![l] = nullptr]
            /\ prevEntry' = [prevEntry EXCEPT ![nextEntry[l]] = prevEntry[l], ![l] = nullptr]
            /\ UNCHANGED best
  /\ priceMap' = [priceMap EXCEPT ![i] = nullptr]
  /\ usedLevels' = usedLevels \ {l}

\* removeOrdersAtPrice(side, price), where level l is found under index i.
RemoveOrdersAtPrice(side, i, l) ==
  /\ IF nextEntry[l] = l
       THEN /\ best' = [best EXCEPT ![side] = nullptr]
            /\ UNCHANGED <<prevEntry, nextEntry>>
       ELSE /\ nextEntry' = [nextEntry EXCEPT ![prevEntry[l]] = nextEntry[l], ![l] = nullptr]
            /\ prevEntry' = [prevEntry EXCEPT ![nextEntry[l]] = prevEntry[l], ![l] = nullptr]
            /\ best' = IF l = best[side] THEN [best EXCEPT ![side] = nextEntry[l]] ELSE best
  /\ priceMap' = [priceMap EXCEPT ![i] = nullptr]
  /\ usedLevels' = usedLevels \ {l}

\* Mutants of UnlinkOrder: the order after o still points back to it, and the
\* level still starts with it.
UnlinkOrderOneWay(o, l) ==
  /\ nextOrder' = [nextOrder EXCEPT ![prevOrder[o]] = nextOrder[o], ![o] = nullptr]
  /\ prevOrder' = [prevOrder EXCEPT ![o] = nullptr]
  /\ firstOrder' = IF firstOrder[l] = o THEN [firstOrder EXCEPT ![l] = nextOrder[o]]
                                        ELSE firstOrder

UnlinkOrderKeepsFirst(o, l) ==
  /\ nextOrder' = [nextOrder EXCEPT ![prevOrder[o]] = nextOrder[o], ![o] = nullptr]
  /\ prevOrder' = [prevOrder EXCEPT ![nextOrder[o]] = prevOrder[o], ![o] = nullptr]
  /\ UNCHANGED firstOrder

\* The order leaves the list of its level.
UnlinkOrder(o, l) ==
  /\ nextOrder' = [nextOrder EXCEPT ![prevOrder[o]] = nextOrder[o], ![o] = nullptr]
  /\ prevOrder' = [prevOrder EXCEPT ![nextOrder[o]] = prevOrder[o], ![o] = nullptr]
  /\ firstOrder' = IF firstOrder[l] = o THEN [firstOrder EXCEPT ![l] = nextOrder[o]]
                                        ELSE firstOrder

\* The client's order map forgets the order, and its mutant.
KeepEntry(o) == UNCHANGED cidOid
ClearEntry(o) == cidOid' = [cidOid EXCEPT ![order[o].client][order[o].oid] = nullptr]

\* removeOrder(order).
RemoveOrder(o) ==
  /\ IF prevOrder[o] = o
       THEN /\ RemoveOrdersAtPrice(order[o].side, PriceToIndex(order[o].price), LevelOf(o))
            /\ UNCHANGED <<prevOrder, nextOrder, firstOrder>>
       ELSE /\ UnlinkOrder(o, LevelOf(o))
            /\ UNCHANGED <<prevEntry, nextEntry, usedLevels, best, priceMap>>
  /\ ClearEntry(o)
  /\ usedOrders' = usedOrders \ {o}
  /\ UNCHANGED <<order, freeOrder, level, freeLevel>>

-----------------------------------------------------------------------------
\* add(): the order is accepted and checkForMatch() starts.
Accept(client, id, side, price, q) ==
  /\ pc = "idle"
  /\ nextMarketOrderId <= MaxMarketOrderId
  /\ nextMarketOrderId' = nextMarketOrderId + 1
  /\ agg' = [client |-> client, oid |-> id, moid |-> nextMarketOrderId,
             side |-> side, price |-> price, qty |-> q]
  /\ leaves' = InitialLeaves(nextMarketOrderId, q)
  /\ pc' = "match"
  /\ Send(<<Response("ACCEPTED", client, id, nextMarketOrderId, side, price, 0, q)>>, <<>>)
  /\ UNCHANGED <<orderVars, levelVars, indexVars, walk>>

\* The first order of the best level of the other side.
BestOpposite == best[Opposite(agg.side)]

\* Mutant of Passive: the youngest order of the level.
PassiveYoungest == prevOrder[firstOrder[BestOpposite]]
Passive == firstOrder[BestOpposite]

\* The loop condition of checkForMatch().
CanMatch ==
  /\ leaves > 0
  /\ BestOpposite # nullptr
  /\ Crosses(agg.side, agg.price, order[Passive].price)

\* Mutant of Fills: the passive order's fill is made up before its quantity is reduced.
FillsEarly(o, f) ==
  <<Response("FILLED", agg.client, agg.oid, AggressorFillId(agg.moid, agg.qty),
             agg.side, order[o].price, f, leaves - f),
    Response("FILLED", order[o].client, order[o].oid, order[o].moid,
             order[o].side, order[o].price, f, qty[o])>>

\* The two fills and the trade that match() reports.
Fills(o, f) ==
  <<Response("FILLED", agg.client, agg.oid, AggressorFillId(agg.moid, agg.qty),
             agg.side, order[o].price, f, leaves - f),
    Response("FILLED", order[o].client, order[o].oid, order[o].moid,
             order[o].side, order[o].price, f, qty[o] - f)>>
Trade(o, f) == Update("TRADE", nullptr, agg.side, order[o].price, f, nullptr)

\* match(): the passive order keeps a part of its quantity.
MatchPartly ==
  /\ pc = "match"
  /\ CanMatch
  /\ LET o == Passive IN
     /\ leaves < qty[o]
     /\ qty' = [qty EXCEPT ![o] = @ - leaves]
     /\ Send(Fills(o, leaves),
             <<Trade(o, leaves),
               Update("MODIFY", order[o].moid, order[o].side, order[o].price,
                      qty[o] - leaves, order[o].prio)>>)
  /\ leaves' = 0
  /\ UNCHANGED <<order, prevOrder, nextOrder, usedOrders, freeOrder, levelVars, indexVars,
                 nextMarketOrderId, pc, agg, walk>>

\* match(): the passive order is filled and leaves the book.
MatchFully ==
  /\ pc = "match"
  /\ CanMatch
  /\ LET o == Passive IN
     /\ qty[o] <= leaves
     /\ CanRemove(o)
     /\ leaves' = leaves - qty[o]
     /\ qty' = [qty EXCEPT ![o] = 0]
     /\ RemoveOrder(o)
     /\ Send(Fills(o, qty[o]),
             <<Trade(o, qty[o]),
               Update("CANCEL", order[o].moid, order[o].side, order[o].price, qty[o], nullptr)>>)
  /\ UNCHANGED <<nextMarketOrderId, pc, agg, walk>>

MatchCrash ==
  /\ pc = "match"
  /\ CanMatch
  /\ qty[Passive] <= leaves /\ ~CanRemove(Passive)
  /\ Halt

\* Nothing is left of the aggressor: add() returns.
Filled ==
  /\ pc = "match"
  /\ leaves = 0
  /\ Return
  /\ Send(<<>>, <<>>)
  /\ UNCHANGED <<orderVars, levelVars, indexVars, nextMarketOrderId>>

-----------------------------------------------------------------------------
\* add(): what is left of the aggressor rests in the book.

AggIndex == PriceToIndex(agg.price)

Rests == pc = "match" /\ leaves > 0 /\ ~CanMatch

\* Mutant of NextPriority: the priority of the last order again.
NextPrioritySame(l) == IF l = nullptr THEN 1 ELSE order[prevOrder[firstOrder[l]]].prio

\* getNextPriority(): one more than the priority of the last order of the level.
NextPriority(l) == IF l = nullptr THEN 1 ELSE order[prevOrder[firstOrder[l]]].prio + 1

\* order_pool_.allocate(): slot freeOrder holds the order, unless it was the last.
CanAllocateOrder == usedOrders \cup {freeOrder} # OrderSlots
AllocateOrder(l) ==
  /\ order' = [order EXCEPT ![freeOrder] =
                 [client |-> agg.client, oid |-> agg.oid, moid |-> agg.moid,
                  side |-> agg.side, price |-> agg.price, prio |-> NextPriority(l)]]
  /\ qty' = [qty EXCEPT ![freeOrder] = leaves]
  /\ usedOrders' = usedOrders \cup {freeOrder}
  /\ freeOrder' = OrderPool!FirstFree(usedOrders \cup {freeOrder}, freeOrder)

\* orders_at_price_pool_.allocate() and its entry in the price map.
CanAllocateLevel == usedLevels \cup {freeLevel} # LevelSlots
AllocateLevel ==
  /\ level' = [level EXCEPT ![freeLevel] = [side |-> agg.side, price |-> agg.price]]
  /\ firstOrder' = [firstOrder EXCEPT ![freeLevel] = freeOrder]
  /\ usedLevels' = usedLevels \cup {freeLevel}
  /\ freeLevel' = LevelPool!FirstFree(usedLevels \cup {freeLevel}, freeLevel)
  /\ priceMap' = [priceMap EXCEPT ![AggIndex] = freeLevel]

\* Mutant of Publish: the order is not entered in the client's order map.
PublishWithoutEntry(o, q, prio) ==
  /\ UNCHANGED cidOid
  /\ Send(<<>>, <<Update("ADD", agg.moid, agg.side, agg.price, q, prio)>>)
  /\ Return

\* The end of addOrder() and add(): order o, of the given quantity and priority,
\* is entered in the client's order map and published.
Publish(o, q, prio) ==
  /\ cidOid' = [cidOid EXCEPT ![agg.client][agg.oid] = o]
  /\ Send(<<>>, <<Update("ADD", agg.moid, agg.side, agg.price, q, prio)>>)
  /\ Return

\* Nothing on the way to the end of add(), or to the loop of addOrdersAtPrice(),
\* ends the process: not the client's order map and not a pool.
CanRest ==
  /\ CanAllocateOrder
  /\ priceMap[AggIndex] = nullptr => CanAllocateLevel
  /\ (priceMap[AggIndex] # nullptr \/ best[agg.side] = nullptr) => agg.oid \in ValidIds

\* The level exists: the order goes to the end of its list.
RestAtLevel ==
  /\ Rests /\ CanRest
  /\ LET l == priceMap[AggIndex]
         first == firstOrder[l]
         o == freeOrder
     IN /\ l # nullptr
        /\ AllocateOrder(l)
        /\ nextOrder' = [nextOrder EXCEPT ![prevOrder[first]] = o, ![o] = first]
        /\ prevOrder' = [prevOrder EXCEPT ![o] = prevOrder[first], ![first] = o]
        /\ Publish(o, leaves, NextPriority(l))
  /\ UNCHANGED <<levelVars, best, priceMap, nextMarketOrderId>>

\* The new order is the only one of its new level.
LinkAlone(o) ==
  /\ nextOrder' = [nextOrder EXCEPT ![o] = o]
  /\ prevOrder' = [prevOrder EXCEPT ![o] = o]

\* The side is empty: the new level is the only one of its side.
RestOnEmptySide ==
  /\ Rests /\ CanRest
  /\ priceMap[AggIndex] = nullptr /\ best[agg.side] = nullptr
  /\ AllocateOrder(nullptr)
  /\ LinkAlone(freeOrder)
  /\ AllocateLevel
  /\ best' = [best EXCEPT ![agg.side] = freeLevel]
  /\ prevEntry' = [prevEntry EXCEPT ![freeLevel] = freeLevel]
  /\ nextEntry' = [nextEntry EXCEPT ![freeLevel] = freeLevel]
  /\ Publish(freeOrder, leaves, 1)
  /\ UNCHANGED nextMarketOrderId

\* addOrdersAtPrice() up to its loop: the search starts at the best level, or
\* at the one after it when the new level is less aggressive than the best.
FirstTarget ==
  LET b == best[agg.side]
  IN IF LessAggressive(agg.side, agg.price, level'[b].price) THEN nextEntry'[b] ELSE b

RestOnSide ==
  /\ Rests /\ CanRest
  /\ priceMap[AggIndex] = nullptr /\ best[agg.side] # nullptr
  /\ AllocateOrder(nullptr)
  /\ LinkAlone(freeOrder)
  /\ AllocateLevel
  /\ prevEntry' = [prevEntry EXCEPT ![freeLevel] = nullptr]
  /\ nextEntry' = [nextEntry EXCEPT ![freeLevel] = nullptr]
  /\ IF FirstTarget = nullptr
       THEN pc' = "halted" /\ walk' = nullptr
       ELSE /\ pc' = "walk"
            /\ walk' = [order |-> freeOrder, level |-> freeLevel, target |-> FirstTarget,
                        addAfter |-> LessAggressive(agg.side, agg.price, level'[FirstTarget].price)]
  /\ Send(<<>>, <<>>)
  /\ UNCHANGED <<best, cidOid, nextMarketOrderId, agg, leaves>>

RestCrash ==
  /\ Rests /\ ~CanRest
  /\ Halt

-----------------------------------------------------------------------------
\* addOrdersAtPrice(): the search for the place of the new level.

\* new_orders_at_price is less aggressive than level l.
NewLessAggressive(l) == LessAggressive(agg.side, agg.price, level[l].price)

\* Mutant of WalkStep: an iteration does not advance the target.
WalkStepStuck ==
  /\ pc = "walk"
  /\ walk.addAfter /\ walk.target # best[agg.side]
  /\ walk' = [walk EXCEPT !.addAfter = NewLessAggressive(walk.target)]
  /\ Send(<<>>, <<>>)
  /\ UNCHANGED <<orderVars, levelVars, indexVars, nextMarketOrderId, pc, agg, leaves>>

\* An iteration of the loop.
WalkStep ==
  /\ pc = "walk"
  /\ walk.addAfter /\ walk.target # best[agg.side]
  /\ IF ~NewLessAggressive(walk.target)
       THEN walk' = [walk EXCEPT !.addAfter = FALSE] /\ UNCHANGED pc
       ELSE /\ walk' = [walk EXCEPT !.target = nextEntry[walk.target]]
            /\ pc' = IF nextEntry[walk.target] = nullptr THEN "halted" ELSE "walk"
  /\ Send(<<>>, <<>>)
  /\ UNCHANGED <<orderVars, levelVars, indexVars, nextMarketOrderId, agg, leaves>>

\* The search went round: the new level goes after the last one.
AtEnd == pc = "walk" /\ walk.addAfter /\ walk.target = best[agg.side]

\* The search stopped: the new level goes before the target.
AtTarget == pc = "walk" /\ ~walk.addAfter

\* addOrder() and add() end once the level is linked.
PublishWalked == Publish(walk.order, qty[walk.order], order[walk.order].prio)

\* The entries the new level is linked to exist, and so does the place of the
\* order in the client's map.
CanInsert ==
  /\ agg.oid \in ValidIds
  /\ prevEntry[walk.target] # nullptr
  /\ AtEnd => nextEntry[prevEntry[walk.target]] # nullptr

InsertAtEnd ==
  /\ AtEnd /\ CanInsert
  /\ LET n == walk.level
         last == prevEntry[walk.target]
     IN /\ prevEntry' = [prevEntry EXCEPT ![n] = last, ![nextEntry[last]] = n]
        /\ nextEntry' = [nextEntry EXCEPT ![n] = nextEntry[last], ![last] = n]
  /\ PublishWalked
  /\ UNCHANGED <<orderVars, level, firstOrder, usedLevels, freeLevel, best, priceMap,
                 nextMarketOrderId>>

\* The code then makes the new level the best one when it is less aggressive
\* than the best one.
BecomesBest(s, p, bestPrice) == LessAggressive(s, p, bestPrice)

InsertBeforeTarget ==
  /\ AtTarget /\ CanInsert
  /\ LET n == walk.level
         t == walk.target
         b == best[agg.side]
         linked == [nextEntry EXCEPT ![n] = t, ![prevEntry[t]] = n]
     IN /\ prevEntry' = [prevEntry EXCEPT ![n] = prevEntry[t], ![t] = n]
        /\ IF BecomesBest(agg.side, agg.price, level[b].price)
             THEN /\ best' = [best EXCEPT ![agg.side] = n]
                  /\ nextEntry' = IF linked[t] = b THEN [linked EXCEPT ![t] = n] ELSE linked
             ELSE nextEntry' = linked /\ UNCHANGED best
  /\ PublishWalked
  /\ UNCHANGED <<orderVars, level, firstOrder, usedLevels, freeLevel, priceMap,
                 nextMarketOrderId>>

InsertCrash ==
  /\ AtEnd \/ AtTarget
  /\ ~CanInsert
  /\ Halt

-----------------------------------------------------------------------------
\* cancel() of an order the client's map holds.
Cancel(client, id) ==
  /\ pc = "idle"
  /\ id \in ValidIds
  /\ LET o == cidOid[client][id] IN
     /\ o # nullptr
     /\ CanRemove(o)
     /\ RemoveOrder(o)
     /\ Send(<<Response("CANCELED", client, id, order[o].moid, order[o].side, order[o].price,
                        nullptr, qty[o])>>,
             <<Update("CANCEL", order[o].moid, order[o].side, order[o].price, 0, order[o].prio)>>)
  /\ UNCHANGED <<qty, nextMarketOrderId, callVars>>

\* cancel() of an order the client's map does not hold.
CancelReject(client, id) ==
  /\ pc = "idle"
  /\ id \in ValidIds
  /\ cidOid[client][id] = nullptr
  /\ Send(<<Response("CANCEL_REJECTED", client, id, nullptr, nullptr, nullptr, nullptr, nullptr)>>,
          <<>>)
  /\ UNCHANGED <<orderVars, levelVars, indexVars, nextMarketOrderId, callVars>>

CancelCrash(client, id) ==
  /\ pc = "idle"
  /\ id \in ValidIds => cidOid[client][id] # nullptr /\ ~CanRemove(cidOid[client][id])
  /\ Halt

-----------------------------------------------------------------------------
\* What the pools hold before a slot is first handed out.
NoOrder == [client |-> nullptr, oid |-> nullptr, moid |-> nullptr, side |-> nullptr,
            price |-> nullptr, prio |-> nullptr]
NoLevel == [side |-> nullptr, price |-> nullptr]

\* The two maps are never initialised: a book is an object of 2 GiB made by new, for
\* which the allocator asks the kernel for pages, and those are zero, all nullptr.
Init ==
  /\ order = [o \in OrderSlots |-> NoOrder]
  /\ qty = [o \in OrderSlots |-> 0]
  /\ prevOrder = [o \in OrderSlots |-> nullptr]
  /\ nextOrder = [o \in OrderSlots |-> nullptr]
  /\ usedOrders = {}
  /\ freeOrder = 0
  /\ level = [l \in LevelSlots |-> NoLevel]
  /\ firstOrder = [l \in LevelSlots |-> nullptr]
  /\ prevEntry = [l \in LevelSlots |-> nullptr]
  /\ nextEntry = [l \in LevelSlots |-> nullptr]
  /\ usedLevels = {}
  /\ freeLevel = 0
  /\ best = [s \in Sides |-> nullptr]
  /\ priceMap = [i \in PriceIndices |-> nullptr]
  /\ cidOid = [c \in Clients |-> [id \in ValidIds |-> nullptr]]
  /\ nextMarketOrderId = 1
  /\ pc = "idle"
  /\ agg = nullptr
  /\ leaves = 0
  /\ walk = nullptr
  /\ responses = <<>>
  /\ updates = <<>>

\* The steps of an add() under way.
Running ==
  \/ MatchPartly \/ MatchFully \/ MatchCrash \/ Filled
  \/ RestAtLevel \/ RestOnEmptySide \/ RestOnSide \/ RestCrash
  \/ WalkStep \/ InsertAtEnd \/ InsertBeforeTarget \/ InsertCrash

\* The requests of the clients, as the matching engine hands them on.
Request ==
  \/ \E c \in Clients, id \in OrderIds, s \in Sides, p \in Prices, q \in Quantities :
       Accept(c, id, s, p, q)
  \/ \E c \in Clients, id \in OrderIds :
       Cancel(c, id) \/ CancelReject(c, id) \/ CancelCrash(c, id)

Next == Request \/ Running

Spec == Init /\ [][Next]_vars

\* The matching engine thread runs a call to its end.
FairSpec == Spec /\ WF_vars(Running)
-----------------------------------------------------------------------------
\* Properties that hold whatever the clients send.

OrderData == [client : Clients, oid : OrderIds, moid : Nat, side : Sides, price : Nat, prio : Nat]
Aggressors == [client : Clients, oid : OrderIds, moid : Nat, side : Sides, price : Nat, qty : Nat]
Walks == [order : OrderSlots, level : LevelSlots, target : LevelSlots, addAfter : BOOLEAN]
LevelData == [side : Sides, price : Nat]
OrderPtrs == OrderSlots \cup {nullptr}
LevelPtrs == LevelSlots \cup {nullptr}

\* Every variable keeps to the values its C++ declaration allows, and the calls
\* of add() hold the locals they need.
TypeOK ==
  /\ order \in [OrderSlots -> OrderData \cup {NoOrder}]
  /\ qty \in [OrderSlots -> Nat]
  /\ prevOrder \in [OrderSlots -> OrderPtrs] /\ nextOrder \in [OrderSlots -> OrderPtrs]
  /\ usedOrders \subseteq OrderSlots /\ freeOrder \in OrderSlots
  /\ \A o \in usedOrders : order[o] \in OrderData
  /\ firstOrder \in [LevelSlots -> OrderPtrs]
  /\ prevEntry \in [LevelSlots -> LevelPtrs] /\ nextEntry \in [LevelSlots -> LevelPtrs]
  /\ level \in [LevelSlots -> LevelData \cup {NoLevel}]
  /\ usedLevels \subseteq LevelSlots /\ freeLevel \in LevelSlots
  /\ \A l \in usedLevels : level[l] \in LevelData
  /\ best \in [Sides -> LevelPtrs]
  /\ priceMap \in [PriceIndices -> LevelPtrs]
  /\ cidOid \in [Clients -> [ValidIds -> OrderPtrs]]
  /\ nextMarketOrderId \in Nat
  /\ pc \in {"idle", "match", "walk", "halted"}
  /\ leaves \in Nat
  /\ pc \in {"match", "walk"} => agg \in Aggressors
  /\ pc = "walk" => walk \in Walks

SameLevel(o, p) == PriceToIndex(order[o].price) = PriceToIndex(order[p].price)
Before(o, p) == order[o].prio < order[p].prio

\* "Internally maintains a list of MEOrder objects arranged in FIFO order"
\* (me_order.h:53): the orders under one price index form one ring, in which an
\* order is followed by the next younger one, whatever was cancelled or filled
\* in between, even when the list of price levels is damaged.
FifoLists ==
  /\ \A o \in usedOrders :
       /\ nextOrder[o] \in usedOrders /\ SameLevel(o, nextOrder[o])
       /\ prevOrder[o] \in usedOrders
       /\ prevOrder[nextOrder[o]] = o /\ nextOrder[prevOrder[o]] = o
  /\ \A o, p \in usedOrders : SameLevel(o, p) /\ o # p => Before(o, p) \/ Before(p, o)
  /\ \A o, p \in usedOrders : SameLevel(o, p) /\ Before(o, p) =>
       /\ Before(o, nextOrder[o]) /\ ~Before(p, nextOrder[o])
       /\ Before(prevOrder[p], p) /\ ~Before(prevOrder[p], o)

\* The price map and the pool of levels agree, every resting order is in the list
\* of a level in use, and a level in use starts with its oldest order, never with
\* an order that left the book.
LevelsIndexed ==
  /\ \A l \in usedLevels : priceMap[PriceToIndex(level[l].price)] = l
  /\ \A i \in PriceIndices : LET l == priceMap[i] IN l # nullptr =>
       /\ l \in usedLevels /\ PriceToIndex(level[l].price) = i
       /\ firstOrder[l] \in usedOrders /\ PriceToIndex(order[firstOrder[l]].price) = i
  /\ \A o \in usedOrders :
       /\ LevelOf(o) # nullptr
       /\ ~Before(o, firstOrder[LevelOf(o)])

\* A client's order map never holds an order that left the book or an order of
\* somebody else: cancel() reaches only live orders of the client that asks.
ClientMapSound ==
  \A c \in Clients, id \in ValidIds : LET o == cidOid[c][id] IN o # nullptr =>
     o \in usedOrders /\ order[o].client = c /\ order[o].oid = id

\* Resting orders are open and carry market order ids of their own.
RestingOrdersOpen ==
  \A o \in usedOrders :
    /\ qty[o] > 0
    /\ order[o].moid < nextMarketOrderId
    /\ \A p \in usedOrders \ {o} : order[p].moid # order[o].moid
=============================================================================

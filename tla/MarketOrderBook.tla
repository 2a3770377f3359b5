--------------------------- MODULE MarketOrderBook ---------------------------
(***************************************************************************)
(* Trading::MarketOrderBook (ch06/trading/strategy/market_order_book.h and *)
(* .cpp): the book a client rebuilds from the market updates of a ticker.  *)
(* onMarketUpdate() is called by one thread: an update is one step.  Its   *)
(* switch declares `order' twice and does not compile; the model gives     *)
(* each case a scope of its own.                                           *)
(*                                                                         *)
(* Pointers are slots of the two memory pools, as in MEOrderBook: a slot   *)
(* that was given back keeps its contents, and a stale pointer leads       *)
(* there.  The whole book is one record, and the functions of the class    *)
(* are operators from books to books.  The calls of the trading engine,    *)
(* which does not exist yet, are left out.                                 *)
(***************************************************************************)
EXTENDS Integers, FiniteSets, FiniteSetsExt

CONSTANTS ME_MAX_PRICE_LEVELS, ME_MAX_ORDER_IDS, QtyModulus, nullptr

Sides == {"BUY", "SELL"}
OrderSlots == 0 .. ME_MAX_ORDER_IDS - 1
LevelSlots == 0 .. ME_MAX_PRICE_LEVELS - 1
OrderPool == INSTANCE MemPoolIndex WITH NumElems <- ME_MAX_ORDER_IDS
LevelPool == INSTANCE MemPoolIndex WITH NumElems <- ME_MAX_PRICE_LEVELS

VARIABLES
  book,   \* the containers, the pools and the objects they hold
  bbo,    \* bbo_: price and quantity of a side, nullptr for the INVALID values
  ended   \* why the process ended: "no", "crash", or "ASSERT", the one a CLEAR meets

vars == <<book, bbo, ended>>

\* toString(), which the destructor calls.
Text == INSTANCE BookText WITH
          best <- book.best,
          price <- [l \in LevelSlots |-> book.level[l].price],
          first <- [l \in LevelSlots |-> book.level[l].first],
          prevEntry <- [l \in LevelSlots |-> book.level[l].prev],
          nextEntry <- [l \in LevelSlots |-> book.level[l].next],
          oid <- [o \in OrderSlots |-> book.order[o].oid],
          prevOrder <- [o \in OrderSlots |-> book.order[o].prev],
          nextOrder <- [o \in OrderSlots |-> book.order[o].next],
          qty <- [o \in OrderSlots |-> book.order[o].qty]

-----------------------------------------------------------------------------
\* The constructors of the objects in the pools, and the objects before.
NewOrder(u, prev, next) ==
  [oid |-> u.moid, side |-> u.side, price |-> u.price, qty |-> u.qty, prev |-> prev, next |-> next]
NewLevel(s, price, first, prev, next) ==
  [side |-> s, price |-> price, first |-> first, prev |-> prev, next |-> next]
NoOrder == NewOrder([moid |-> nullptr, side |-> nullptr, price |-> nullptr, qty |-> 0], nullptr, nullptr)
NoLevel == NewLevel(nullptr, nullptr, nullptr, nullptr, nullptr)

PriceToIndex(price) == price % ME_MAX_PRICE_LEVELS
LessAggressive(s, p, q) == IF s = "SELL" THEN p > q ELSE p < q
LevelAt(b, price) == b.priceMap[PriceToIndex(price)]

\* The levels that follow level l where `next' has their next_entry_, nullptr once one has none.
Path(next, l) ==
  LET at[n \in LevelSlots] ==
        IF n = 0 THEN next[l] ELSE IF at[n - 1] = nullptr THEN nullptr ELSE next[at[n - 1]]
  IN at

\* addOrdersAtPrice(), the loop: the level the new one is linked to, where the search
\* starts after the best level and goes on while the new one is less aggressive.
\* nullptr when the search meets it, and when the search never ends.
Target(b, s, price) ==
  LET first == b.best[s]
      at == Path([l \in LevelSlots |-> b.level[l].next], first)
      Stops == {n \in LevelSlots :
                  at[n] \in {nullptr, first} \/ ~LessAggressive(s, price, b.level[at[n]].price)}
  IN CASE ~LessAggressive(s, price, b.level[first].price) -> first
       [] Stops = {} -> nullptr
       [] OTHER -> at[Min(Stops)]

\* Level l goes after the last one of the list, and its mutant: the last one is linked first, and
\* the new one takes its successor from there.
AppendLevelLinkedFirst(lv, l, last) ==
  [lv EXCEPT ![l].prev = last, ![lv[last].next].prev = l, ![last].next = l, ![l].next = l]
AppendLevel(lv, l, last) ==
  [lv EXCEPT ![l].prev = last, ![lv[last].next].prev = l, ![l].next = lv[last].next, ![last].next = l]

\* A level of side s and this price is less aggressive than the best one.
Worse(b, s, price) == LessAggressive(s, price, b.level[b.best[s]].price)

\* addOrdersAtPrice(), the end: level l goes after the last level, or before the target
\* t; it becomes the best one when it is less aggressive than the best one.
LinkLevel(b, l, s, price, t) ==
  LET lv == b.level
      last == lv[t].prev
      linked == [lv EXCEPT ![l].prev = last, ![l].next = t, ![last].next = l, ![t].prev = l]
  IN IF Worse(b, s, price) /\ t = b.best[s]
       THEN [b EXCEPT !.level = AppendLevel(lv, l, last)]
       ELSE IF Worse(b, s, price)
              THEN [b EXCEPT !.best[s] = l,
                      !.level = IF linked[t].next = b.best[s] THEN [linked EXCEPT ![t].next = l]
                                                              ELSE linked]
              ELSE [b EXCEPT !.level = linked]

\* Nothing on the way ends the process: no pointer of the target's is nullptr.
CanLink(b, s, price, t) ==
  /\ t # nullptr /\ b.level[t].prev # nullptr
  /\ Worse(b, s, price) /\ t = b.best[s] => b.level[b.level[t].prev].next # nullptr

\* orders_at_price_pool_.allocate(): a level for order o, which addOrdersAtPrice() enters in the
\* price map, and links to itself when its side is empty.
OpenLevel(b, o, s, price) ==
  LET l == b.freeLevel
      used == b.usedLevels \union {l}
      near == IF b.best[s] = nullptr THEN l ELSE nullptr
  IN [b EXCEPT !.level[l] = NewLevel(s, price, o, near, near), !.usedLevels = used,
               !.freeLevel = LevelPool!FirstFree(used, l), !.priceMap[PriceToIndex(price)] = l]

\* addOrdersAtPrice(): the level l that was opened gets its place.
AddOrdersAtPrice(b, l, s, price) ==
  IF b.best[s] = nullptr THEN [b EXCEPT !.best[s] = l]
                         ELSE LinkLevel(b, l, s, price, Target(b, s, price))

\* order_pool_.allocate() and the map of orders: a slot for the order.
TakeOrder(b, u) ==
  LET o == b.freeOrder
      used == b.usedOrders \union {o}
  IN [b EXCEPT !.usedOrders = used, !.freeOrder = OrderPool!FirstFree(used, o),
               !.oidToOrder[u.moid] = o, !.order[o] = NewOrder(u, nullptr, nullptr)]

\* addOrder(): order o goes to the end of the list of level l.
QueueOrder(b, o, l) ==
  LET first == b.level[l].first
      last == b.order[first].prev
  IN [b EXCEPT !.order = [b.order EXCEPT ![last].next = o, ![o].prev = last, ![o].next = first,
                                         ![first].prev = o]]

\* addOrder(): the order is alone in a new level.
Opened(b, u) ==
  LET o == b.freeOrder
  IN OpenLevel([TakeOrder(b, u) EXCEPT !.order[o].prev = o, !.order[o].next = o], o, u.side, u.price)

\* An order is taken from the pool and added.
AddOrder(b, u) ==
  LET l == LevelAt(b, u.price)
  IN IF l = nullptr THEN AddOrdersAtPrice(Opened(b, u), b.freeLevel, u.side, u.price)
                    ELSE QueueOrder(TakeOrder(b, u), b.freeOrder, l)

\* Nothing on the way ends the process: not the map of orders, a pool or a nullptr.
CanAdd(b, u) ==
  /\ u.moid < ME_MAX_ORDER_IDS
  /\ b.usedOrders \union {b.freeOrder} # OrderSlots
  /\ IF LevelAt(b, u.price) # nullptr
       THEN TakeOrder(b, u).order[b.level[LevelAt(b, u.price)].first].prev # nullptr
       ELSE /\ b.usedLevels \union {b.freeLevel} # LevelSlots
            /\ b.best[u.side] # nullptr =>
                 LET b1 == Opened(b, u)
                 IN CanLink(b1, u.side, u.price, Target(b1, u.side, u.price))

\* removeOrdersAtPrice(): level l leaves its side, the price map and the pool.
RemoveOrdersAtPrice(b, s, price, l) ==
  LET lv == b.level
      gone == [b EXCEPT !.priceMap[PriceToIndex(price)] = nullptr, !.usedLevels = @ \ {l}]
  IN IF lv[l].next = l
       THEN [gone EXCEPT !.best[s] = nullptr]
       ELSE [gone EXCEPT !.best[s] = IF @ = l THEN lv[l].next ELSE @,
                         !.level = [[lv EXCEPT ![lv[l].prev].next = lv[l].next,
                                               ![lv[l].next].prev = lv[l].prev]
                                    EXCEPT ![l].prev = nullptr, ![l].next = nullptr]]

\* The map of orders and the pool lose order o.
Forget(b, o) == [b EXCEPT !.oidToOrder[b.order[o].oid] = nullptr, !.usedOrders = @ \ {o}]

\* Mutant of FirstWithout: it stays as it was.
FirstKept(b, l, o) == b.level[l].first

\* The first order of level l once o has left its list.
FirstWithout(b, l, o) == IF b.level[l].first = o THEN b.order[o].next ELSE b.level[l].first

\* removeOrder(): the order leaves its level, the map of orders and the pool.
RemoveOrder(b, o) ==
  LET x == b.order[o]
      l == LevelAt(b, x.price)
  IN IF x.prev = o
       THEN RemoveOrdersAtPrice(Forget(b, o), x.side, x.price, l)
       ELSE [Forget(b, o) EXCEPT
               !.level[l].first = FirstWithout(b, l, o),
               !.order = [[b.order EXCEPT ![x.prev].next = x.next, ![x.next].prev = x.prev]
                           EXCEPT ![o].prev = nullptr, ![o].next = nullptr]]

\* The entry of the map of orders, for an id it has a place for.
OrderOf(b, id) == IF id < ME_MAX_ORDER_IDS THEN b.oidToOrder[id] ELSE nullptr

CanRemove(b, o) ==
  /\ o # nullptr
  /\ LET x == b.order[o]
         l == LevelAt(b, x.price)
     IN /\ x.prev # nullptr /\ x.next # nullptr /\ l # nullptr
        /\ x.prev = o => /\ l \in b.usedLevels
                         /\ b.level[l].prev # nullptr /\ b.level[l].next # nullptr

\* CLEAR: the orders go back to their pool, and so does the best level of each side.  The
\* loops over the other levels never advance, and the price map is left as it is.
Clear(b) ==
  [b EXCEPT !.usedOrders = @ \ {o \in OrderSlots : \E id \in OrderSlots : b.oidToOrder[id] = o},
            !.oidToOrder = [id \in OrderSlots |-> nullptr],
            !.usedLevels = @ \ {b.best[s] : s \in Sides},
            !.best = [s \in Sides |-> nullptr]]

\* Nothing is given back to the pool of levels that is not in use.  The loop of a side gives back
\* the second level of its list, if there is one, until that is no longer in use; the best one
\* may have been given back before, or be that of the other side too.
CanClear(b) ==
  /\ \A s \in Sides : b.best[s] # nullptr =>
       b.level[b.best[s]].next = b.best[s] /\ b.best[s] \in b.usedLevels
  /\ b.best["BUY"] # nullptr => b.best["BUY"] # b.best["SELL"]

-----------------------------------------------------------------------------
\* The orders a walk along next_order_ from order o meets.
Ring(b, o) ==
  LET at[n \in OrderSlots] ==
        IF n = 0 THEN o ELSE IF at[n - 1] = nullptr THEN nullptr ELSE b.order[at[n - 1]].next
  IN {at[n] : n \in OrderSlots} \ {nullptr}

NoBBO == [price |-> nullptr, qty |-> nullptr]

\* What updateBBO() shows of a side.
Top(b, s) ==
  IF b.best[s] = nullptr THEN NoBBO
  ELSE [price |-> b.level[b.best[s]].price,
        qty |-> MapThenSumSet(LAMBDA o : b.order[o].qty, Ring(b, b.level[b.best[s]].first))]

\* Mutant of Touched: an update at the best price does not count.
TouchedBeyond(b, s, u) ==
  b.best[s] # nullptr /\ u.side = s /\ u.price > b.level[b.best[s]].price

\* bid_updated and ask_updated, of the book before the update.
Touched(b, s, u) ==
  b.best[s] # nullptr /\ u.side = s /\ u.price >= b.level[b.best[s]].price

UpdateBBO(u) ==
  bbo' = [s \in Sides |-> IF Touched(book, s, u) THEN Top(book', s) ELSE bbo[s]]

End(reason) == ended' = reason /\ UNCHANGED <<book, bbo>>

-----------------------------------------------------------------------------
OnAdd(u) ==
  /\ u.type = "ADD"
  /\ IF CanAdd(book, u) THEN book' = AddOrder(book, u) /\ UpdateBBO(u) /\ UNCHANGED ended
                        ELSE End("crash")

\* Mutant of OnModify: the quantity is what is taken off.
OnModifyBy(u) ==
  LET o == OrderOf(book, u.moid) IN
  /\ u.type = "MODIFY"
  /\ IF o # nullptr THEN book' = [book EXCEPT !.order[o].qty = @ - u.qty] /\ UpdateBBO(u)
                         /\ UNCHANGED ended
                    ELSE End("crash")

OnModify(u) ==
  LET o == OrderOf(book, u.moid) IN
  /\ u.type = "MODIFY"
  /\ IF o # nullptr THEN book' = [book EXCEPT !.order[o].qty = u.qty] /\ UpdateBBO(u)
                         /\ UNCHANGED ended
                    ELSE End("crash")

OnCancel(u) ==
  LET o == OrderOf(book, u.moid) IN
  /\ u.type = "CANCEL"
  /\ IF CanRemove(book, o) THEN book' = RemoveOrder(book, o) /\ UpdateBBO(u) /\ UNCHANGED ended
                           ELSE End("crash")

OnTrade(u) == u.type = "TRADE" /\ UNCHANGED vars

OnClear(u) ==
  /\ u.type = "CLEAR"
  /\ IF CanClear(book) THEN book' = Clear(book) /\ UpdateBBO(u) /\ UNCHANGED ended
                       ELSE End("ASSERT")

OnMarketUpdate(u) ==
  /\ ended = "no"
  /\ OnAdd(u) \/ OnModify(u) \/ OnCancel(u) \/ OnTrade(u) \/ OnClear(u)

Init ==
  /\ book = [order |-> [o \in OrderSlots |-> NoOrder], usedOrders |-> {}, freeOrder |-> 0,
             level |-> [l \in LevelSlots |-> NoLevel], usedLevels |-> {}, freeLevel |-> 0,
             best |-> [s \in Sides |-> nullptr],
             priceMap |-> [i \in LevelSlots |-> nullptr],
             oidToOrder |-> [id \in OrderSlots |-> nullptr]]
  /\ bbo = [s \in Sides |-> NoBBO]
  /\ ended = "no"
=============================================================================

------------------------- MODULE MEOrderBookPriority -------------------------
(***************************************************************************)
(* The order book against price-time priority (PriceTimeBook), and what    *)
(* the order of its list of price levels has to do with it.                *)
(*                                                                         *)
(* addOrdersAtPrice() keeps that list in order only when a new level is    *)
(* the least aggressive one of its side.  LevelsInOrder says that a book   *)
(* is in order; the properties say what a step from such a book does,      *)
(* whatever the clients send, and which steps leave it out of order.       *)
(***************************************************************************)
EXTENDS MEOrderBook, SequencesExt

\* nullptr points to no object.
ASSUME NullAssumption == nullptr \notin Aggressors \cup Walks

-----------------------------------------------------------------------------
\* The order of the levels.

\* The levels of side s, without the one that addOrdersAtPrice() is placing, and how they
\* rank: the most aggressive first.
Linked(s) == {l \in usedLevels : level[l].side = s /\ (pc = "walk" => l # walk.level)}
PriceRank(s, p) == IF s = "SELL" THEN p ELSE 0 - p
Rank(s) == [l \in LevelSlots |-> PriceRank(s, level[l].price)]

\* The members of S, each of its own rank, form one ring under nx and pv, in which each is
\* followed by the next greater one.
Sorted(S, nx, pv, rk) ==
  /\ \A x \in S : rk[x] \in Int
  /\ \A x \in S : nx[x] \in S /\ pv[x] \in S /\ pv[nx[x]] = x /\ nx[pv[x]] = x
  /\ \A x, y \in S : x # y => rk[x] # rk[y]
  /\ \A x, y \in S : rk[x] < rk[y] => /\ rk[x] < rk[nx[x]] /\ rk[nx[x]] <= rk[y]
                                      /\ rk[pv[y]] < rk[y] /\ rk[x] <= rk[pv[y]]

\* Member b ranks before all others.
Least(S, b, rk) == b \in S /\ \A x \in S : rk[b] <= rk[x]

SideSorted(s) ==
  /\ Sorted(Linked(s), nextEntry, prevEntry, Rank(s))
  /\ IF best[s] = nullptr THEN Linked(s) = {} ELSE Least(Linked(s), best[s], Rank(s))
SidesSorted == \A s \in Sides : SideSorted(s)

\* Every order is in the list of a level of its side and its price.
OrdersPlaced ==
  \A o \in usedOrders : level[LevelOf(o)].side = order[o].side /\ level[LevelOf(o)].price = order[o].price

LevelsInOrder == SidesSorted /\ OrdersPlaced

\* The list of levels of each side is "arranged from the most aggressive to least
\* aggressive price" (me_order.h:60), from the best level of the side on.
ArrangedByPrice == pc = "idle" => SidesSorted

\* Only two steps of a process that goes on leave a book out of order, and each of them does:
\* a new level goes into a list whose levels are not all more aggressive than it, or an order
\* joins the level of another price.
Misplaces ==
  /\ pc' = "idle"
  /\ \/ pc = "walk" /\ \E l \in Linked(agg.side) : ~NewLessAggressive(l)
     \/ /\ pc = "match" /\ leaves > 0 /\ priceMap[AggIndex] # nullptr
        /\ level[priceMap[AggIndex]].price # agg.price
OrderLost == [][LevelsInOrder /\ pc' # "halted" => (Misplaces <=> ~LevelsInOrder')]_vars

\* The search for the place of a new level is in a circle of levels that does not lead to
\* the best one and has none that ends it.
Circling ==
  /\ pc = "walk" /\ walk.addAfter
  /\ \E S \in SUBSET LevelSlots :
       /\ walk.target \in S
       /\ \A l \in S : l # best[agg.side] /\ NewLessAggressive(l) /\ nextEntry[l] \in S

\* A call of add() returns or ends the process, unless its search runs in a circle, which
\* takes a book that is out of order.
CallEnds ==
  pc \in {"match", "walk"} ~> (pc \in {"idle", "halted"} \/ (Circling /\ ~LevelsInOrder))

-----------------------------------------------------------------------------
\* Condition on arrivals: a client does not give a new order the id of one of its
\* orders that rests.
FreshArrivals ==
  pc = "idle" /\ pc' = "match" =>
    \A o \in usedOrders : ~(order[o].client = agg'.client /\ order[o].oid = agg'.oid)

-----------------------------------------------------------------------------

\* toString(), which the destructor of the book calls.
Text == INSTANCE BookText WITH
          price <- [l \in LevelSlots |-> level[l].price], first <- firstOrder,
          oid <- [o \in OrderSlots |-> order[o].moid]

\* The orders of a side by price-time priority.
Better(s, o, p) ==
  \/ LessAggressive(s, order[p].price, order[o].price)
  \/ order[o].price = order[p].price /\ order[o].moid < order[p].moid

\* Between two calls, toString() of a book in order does not crash and lists every order that
\* rests once, in the order in which it will be matched, with what rests at each price; the
\* neighbours it shows of a level and of an order are those listed before and after it.
Neighbours(shown, text(_)) ==
  \A i \in DOMAIN shown :
    /\ shown[i].n = text(shown[(i % Len(shown)) + 1])
    /\ shown[(i % Len(shown)) + 1].p = text(shown[i])
PrintsByPriority ==
  pc = "idle" /\ LevelsInOrder => \A s \in Sides :
    LET lines == Text!Lines(s)
        Rest(p) == {o \in usedOrders : order[o].side = s /\ order[o].price = p}
    IN /\ ~Text!Crash(s)
       /\ UNION {Range(lines[i].orders) : i \in DOMAIN lines} = {o \in usedOrders : order[o].side = s}
       /\ \A i, j \in DOMAIN lines : \A k \in DOMAIN lines[i].orders, m \in DOMAIN lines[j].orders :
            i < j \/ (i = j /\ k < m) => Better(s, lines[i].orders[k], lines[j].orders[m])
       /\ Neighbours(lines, LAMBDA x : Text!Shown(x.price))
       /\ \A i \in DOMAIN lines : /\ Neighbours(lines[i].details, LAMBDA x : x.oid)
                                  /\ lines[i].qty =
                                      Text!QtyShown(MapThenSumSet(LAMBDA o : qty[o], Rest(lines[i].price)))

\* The order that match() is given rests in the book.  It need not: once levels are in
\* wrong places, the best one may be a level that was given back to its pool, and its first
\* order one that was filled or cancelled long ago.
PassiveRests == pc = "match" /\ CanMatch => Passive \in usedOrders

\* The log of the matching engine tells the book.  A step that adds an order, changes what
\* is left of it or removes it logs the market update that says so, with what rests now;
\* if it rested before, the response to its owner is logged too, with the same quantity;
\* and no update speaks of another order, be it half way into the book, unless match() is
\* given one that has left it.
Resters == {o \in usedOrders : pc = "walk" => o # walk.order}
Standing == {<<order[o].moid, qty[o]>> : o \in Resters}
Tells(before, after, us, rs) ==
  LET told == {Text!UpdateText(us[i]) : i \in DOMAIN us}
      owners == {Text!ResponseText(rs[i]) : i \in DOMAIN rs}
      gone == before \ after
      come == after \ before
      Left(id) == {n[2] : n \in {x \in come : x[1] = id}}
  IN /\ \A n \in come : \E u \in told :
          /\ u.oid = Text!Shown(n[1]) /\ u.qty = Text!QtyShown(n[2])
          /\ u.type = (IF \E w \in gone : w[1] = n[1] THEN "MODIFY" ELSE "ADD")
     /\ \A w \in gone :
          /\ Left(w[1]) = {} => \E u \in told : u.oid = Text!Shown(w[1]) /\ u.type = "CANCEL"
          /\ \E r \in owners :
               /\ r.moid = Text!Shown(w[1])
               /\ \/ r.type = "CANCELED" /\ Left(w[1]) = {} /\ r.leaves_qty = Text!QtyShown(w[2])
                  \/ /\ r.type = "FILLED"
                     /\ r.leaves_qty = Text!QtyShown(IF Left(w[1]) = {} THEN 0
                                                     ELSE CHOOSE q \in Left(w[1]) : TRUE)
     /\ \A u \in told : \/ u.type = "TRADE"
                        \/ \E x \in gone \cup come : u.oid = Text!Shown(x[1])
LogTells == PassiveRests /\ pc' # "halted" => Tells(Standing, Standing', updates', responses')
LogTellsBook == [][LogTells]_vars

\* "issue a cancel-rejection if order does not exist" (me_order_book.cpp:96) and
\* only then: while the book takes a request or matches an order, the client's map
\* finds every order that rests.  True as long as clients do not reuse the id of a
\* resting order.
CancelFindsOrder ==
  pc \in {"idle", "match"} =>
    \A o \in usedOrders : cidOid[order[o].client][order[o].oid] = o

-----------------------------------------------------------------------------
Resting ==
  {[moid |-> order[o].moid, client |-> order[o].client, oid |-> order[o].oid,
    side |-> order[o].side, price |-> order[o].price, qty |-> qty[o]] : o \in usedOrders}

Taker ==
  IF agg = nullptr \/ walk # nullptr THEN nullptr
  ELSE [moid |-> agg.moid, client |-> agg.client, oid |-> agg.oid,
        side |-> agg.side, price |-> agg.price, qty |-> leaves]

Promise == INSTANCE PriceTimeBook
             WITH resting <- Resting, taker <- Taker, lastId <- nextMarketOrderId - 1,
                  nobody <- nullptr

promised == <<Resting, Taker, nextMarketOrderId - 1>>

\* Every step from a book whose levels are in order is one that price-time priority allows,
\* the step that leaves them out of order among them: match() takes the best price and of
\* that the oldest order, and only what nothing crosses rests.
PriceTimePriority == [][LevelsInOrder => [Promise!Next]_promised]_vars
=============================================================================

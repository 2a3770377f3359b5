----------------------------- MODULE BookMirror -----------------------------
(***************************************************************************)
(* The book of the exchange and the book of a client that applies its      *)
(* updates in order (MEOrderBook and MarketOrderBook).  Two classes keep   *)
(* the same lists with the same code, and the client's is to be a mirror   *)
(* of the exchange's, after every update.  A client that lost updates      *)
(* instead gets a snapshot: a CLEAR and the resting orders, in the order   *)
(* of their market order ids (snapshot_synthesizer.cpp:88-105).            *)
(***************************************************************************)
EXTENDS MEOrderBook, SequencesExt

CONSTANT MaxRecoveries   \* bound of the model on the recoveries of the client

VARIABLES
  book, bbo, ended,  \* the client's book, as in MarketOrderBook
  feed,              \* the updates on their way to it
  recoveries         \* how often it had to recover

Client == INSTANCE MarketOrderBook
clientVars == <<book, bbo, ended>>
mirrorVars == <<vars, clientVars, feed, recoveries>>

\* What a snapshot holds of order o, and the snapshots there may be of the exchange's book: one,
\* with the orders that rest in the order of their market order ids.
InSnapshot(o) ==
  Update("ADD", order[o].moid, order[o].side, order[o].price, qty[o], order[o].prio)
Snapshots ==
  {[i \in DOMAIN o |-> InSnapshot(o[i])] :
     o \in {p \in [1 .. Cardinality(usedOrders) -> usedOrders] :
             \A i, j \in DOMAIN p : i < j => order[p[i]].moid < order[p[j]].moid}}

MirrorInit == Init /\ Client!Init /\ feed = <<>> /\ recoveries = 0

Exchange ==
  feed = <<>> /\ Next /\ feed' = updates' /\ UNCHANGED <<clientVars, recoveries>>

Deliver ==
  /\ feed # <<>> /\ Client!OnMarketUpdate(Head(feed)) /\ feed' = Tail(feed)
  /\ UNCHANGED <<vars, recoveries>>

Recover ==
  /\ recoveries < MaxRecoveries /\ feed = <<>> /\ pc = "idle" /\ ended = "no"
  /\ \E s \in Snapshots :
       feed' = <<Update("CLEAR", nullptr, nullptr, nullptr, nullptr, nullptr)>> \o s
  /\ recoveries' = recoveries + 1
  /\ UNCHANGED <<vars, clientVars>>

MirrorNext == Exchange \/ Deliver \/ Recover
MirrorSpec == MirrorInit /\ [][MirrorNext]_mirrorVars
-----------------------------------------------------------------------------
\* The client has applied all the exchange sent, and no add() is half way.
Caught == feed = <<>> /\ ended = "no" /\ pc \in {"idle", "match"}

\* The client's book is the exchange's, object by object: the orders and their lists, the
\* levels and their lists, wrong places of levels included, the best levels and the map.
Mirrors ==
  Caught /\ recoveries = 0 =>
    /\ book.usedOrders = usedOrders /\ book.usedLevels = usedLevels
    /\ \A o \in usedOrders : LET x == book.order[o] IN
         /\ x.oid = order[o].moid /\ x.side = order[o].side /\ x.price = order[o].price
         /\ x.qty = qty[o] /\ x.prev = prevOrder[o] /\ x.next = nextOrder[o]
    /\ \A l \in usedLevels : LET x == book.level[l] IN
         x.first = firstOrder[l] /\ x.prev = prevEntry[l] /\ x.next = nextEntry[l]
    /\ book.best = best /\ book.priceMap = priceMap

\* The best level of the asks is one in use, of asks at its price and of nothing else.  It
\* need not be: best[] may be left with a level that was given back, and two prices, or an
\* ask and a bid, may have the same index of the price map.
AsksInPlace ==
  LET l == book.best["SELL"]
  IN /\ l \in book.usedLevels /\ book.level[l].side = "SELL"
     /\ \A o \in book.usedOrders : Client!LevelAt(book, book.order[o].price) = l =>
          book.order[o].side = "SELL" /\ book.order[o].price = book.level[l].price

\* Until the client has to recover, the asks it shows, once they are those of its best level,
\* stay so as long as that level is in place.  updateBBO() compares with the best level of
\* before the update, and a lower ask does not become the best; so it is not so of the
\* bids, nor before the second update of a side.
AskShown == bbo["SELL"] = Client!Top(book, "SELL")
AsksStayShown ==
  [][recoveries' = 0 /\ ended' = "no" /\ AskShown /\ AsksInPlace /\ AsksInPlace' => AskShown']_mirrorVars

\* After a snapshot the client still finds every order the exchange has, and no other,
\* under its market order id and with its quantity.
OrdersKnown ==
  Caught => \A id \in OrderSlots :
    LET o == book.oidToOrder[id]
        rests == {p \in usedOrders : order[p].moid = id}
    IN IF o = nullptr THEN rests = {} ELSE \E p \in rests : book.order[o].qty = qty[p]

\* However the list of levels is damaged, until the client has to recover the loop of
\* toString() over the orders of a level ends, and lists those that have the index of the
\* level, each once and the oldest first.  The loop over the levels may miss some or meet one
\* twice.
ListsByArrival ==
  Caught /\ recoveries = 0 => \A l \in book.usedLevels :
    LET listed == Client!Text!Line(l).orders
    IN /\ Range(listed) = {o \in book.usedOrders : Client!LevelAt(book, book.order[o].price) = l}
       /\ \A i, j \in DOMAIN listed : i < j => Before(listed[i], listed[j])
=============================================================================

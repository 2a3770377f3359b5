--------------------------- MODULE MarketUpdates ---------------------------
(***************************************************************************)
(* The market updates of the exchange (ch06/exchange/market_data/          *)
(* market_update.h) and what they do to a book of orders.  An order is its *)
(* ticker and market order id; a book gives each order its quantity, 0 for *)
(* an order that does not rest in it.                                      *)
(***************************************************************************)
EXTENDS Integers, Sequences

CONSTANTS
  Tickers,   \* ticker ids, numbers
  OrderIds,  \* market order ids, numbers
  Qtys,      \* quantities
  Sides      \* the sides of an order

ASSUME UpdatesAssumption ==
  /\ Tickers \subseteq Nat /\ OrderIds \subseteq Nat /\ Qtys \subseteq Nat \ {0}

Orders == Tickers \X OrderIds
Books == [Orders -> Qtys \union {0}]
EmptyBook == [o \in Orders |-> 0]

Updates == [type : {"ADD", "MODIFY"}, order : Orders, side : Sides, qty : Qtys]
             \union [type : {"CANCEL"}, order : Orders, side : Sides] \union [type : {"TRADE"}]

\* What an update means for a book.  One of an order that has left it means nothing.
Effect(b, u) ==
  CASE u.type = "ADD" \/ (u.type = "MODIFY" /\ b[u.order] # 0) -> [b EXCEPT ![u.order] = u.qty]
    [] u.type = "CANCEL" -> [b EXCEPT ![u.order] = 0]
    [] OTHER             -> b

\* The matching engine can send update u after the updates l.  An order is added under an
\* id above the earlier ones of its ticker.  It is cancelled, or modified after a fill, on
\* the side it was added on, and need not rest in its book any more: where price levels
\* are misplaced, match() is given orders that were removed (module MEOrderBook).
MaySend(l, u) ==
  LET added == {i \in DOMAIN l : l[i].type = "ADD"}
      ofOrder == {i \in DOMAIN l : l[i].type \in {"ADD", "MODIFY"} /\ l[i].order = u.order}
  IN  /\ u.type = "ADD" => \A i \in added : l[i].order[1] = u.order[1] => l[i].order[2] < u.order[2]
      /\ u.type \in {"MODIFY", "CANCEL"} => \E i \in added : l[i].order = u.order /\ l[i].side = u.side
      /\ u.type = "MODIFY" => \A i \in ofOrder : u.qty < l[i].qty

\* The book after the first n updates of log.
BookAfter(log, n) ==
  LET book[i \in 0 .. n] == IF i = 0 THEN EmptyBook ELSE Effect(book[i - 1], log[i])
  IN  book[n]
=============================================================================

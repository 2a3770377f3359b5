------------------------------ MODULE BookText ------------------------------
(***************************************************************************)
(* toString() of an order book (MEOrderBook and, word for word the same,   *)
(* MarketOrderBook): the asks and then the bids from the best level on,    *)
(* with the neighbours and the orders of each level.  The check of the     *)
(* prices that it can be asked for is left out: it compares the first ask  *)
(* with the least price there is and the first bid with the greatest, so   *)
(* it finds fault with every book that has an order (ExchangeProcess says  *)
(* what comes of that).                                                    *)
(***************************************************************************)
EXTENDS MessageText, Sequences, FiniteSetsExt, Functions

VARIABLES best, price, first, prevEntry, nextEntry,  \* of the levels
          oid, prevOrder, nextOrder, qty             \* of the orders

\* f of what p points to.
At(f, p) == IF p = nullptr THEN nullptr ELSE f[p]

\* What a loop visits that starts at head and follows next until that is nullptr or head
\* again.  One that never ends is cut when it has visited more than there is.
Loop(head, next) ==
  LET most == Cardinality(DOMAIN next)
      at[n \in 0 .. most] == IF n = 0 THEN head
                             ELSE IF at[n - 1] = nullptr THEN nullptr ELSE next[at[n - 1]]
      Stops == {n \in 0 .. most : at[n] = nullptr \/ (n > 0 /\ at[n] = head)}
  IN [i \in 1 .. (IF Stops = {} THEN most + 1 ELSE Min(Stops)) |-> at[i - 1]]

\* printer: the text of an order.
Detail(o) == [oid |-> Shown(oid[o]), q |-> QtyShown(qty[o]),
              p |-> Shown(At(oid, prevOrder[o])), n |-> Shown(At(oid, nextOrder[o]))]

\* printer: the line of a level.
Line(l) ==
  LET orders == Loop(first[l], nextOrder)
  IN [price |-> price[l], p |-> Shown(At(price, prevEntry[l])), n |-> Shown(At(price, nextEntry[l])),
      qty |-> QtyShown(MapThenSumSet(LAMBDA i : qty[orders[i]], DOMAIN orders)),
      orders |-> orders, details |-> [i \in DOMAIN orders |-> Detail(orders[i])]]

\* printer follows a nullptr: the neighbours of the level and the orders are not checked.
Crashes(l) == \/ nullptr \in {prevEntry[l], nextEntry[l]}
              \/ \E o \in Range(Loop(first[l], nextOrder)) : nextOrder[o] = nullptr

Levels(s) == Loop(best[s], nextEntry)
Lines(s) == [i \in DOMAIN Levels(s) |-> Line(Levels(s)[i])]
Crash(s) == \E l \in Range(Levels(s)) : Crashes(l)
=============================================================================

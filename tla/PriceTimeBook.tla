---------------------------- MODULE PriceTimeBook ----------------------------
(***************************************************************************)
(* What a limit order book promises: price-time priority.  An incoming     *)
(* order is matched against the resting orders of the other side, the best *)
(* price first and the oldest order first at one price, for as long as one *)
(* of them crosses it; only what is left then rests; a cancelled order     *)
(* leaves the book and is never matched again.  Market order ids grow with *)
(* the time of arrival.                                                    *)
(***************************************************************************)
EXTENDS Integers

CONSTANT nobody

VARIABLES
  resting,  \* set of records [moid, client, oid, side, price, qty]
  taker,    \* the incoming order and what is left of it, or nobody
  lastId    \* the market order id of the latest order

Init == resting = {} /\ taker = nobody /\ lastId = 0

\* Order o would trade with the taker.
Crossing(o) ==
  /\ o.side # taker.side
  /\ IF taker.side = "BUY" THEN o.price <= taker.price ELSE o.price >= taker.price

\* Order o has priority over p: a better price or, at the same price, age.
Ahead(o, p) ==
  \/ o.side = p.side /\ (IF o.side = "BUY" THEN o.price > p.price ELSE o.price < p.price)
  \/ o.side = p.side /\ o.price = p.price /\ o.moid < p.moid

\* An order arrives.
Accept ==
  /\ taker = nobody
  /\ lastId' = lastId + 1
  /\ taker' # nobody /\ taker'.moid = lastId' /\ taker'.qty \in Nat
  /\ UNCHANGED resting

\* The taker trades with the crossing order that has priority over all others.
Fill ==
  /\ taker # nobody /\ taker.qty > 0
  /\ \E o \in resting :
       /\ Crossing(o)
       /\ \A p \in resting \ {o} : Crossing(p) => Ahead(o, p)
       /\ LET f == IF taker.qty < o.qty THEN taker.qty ELSE o.qty IN
          /\ taker' = [taker EXCEPT !.qty = @ - f]
          /\ resting' = (resting \ {o}) \cup
                          (IF f = o.qty THEN {} ELSE {[o EXCEPT !.qty = @ - f]})
  /\ UNCHANGED lastId

\* Nothing of the taker is left.
Done ==
  /\ taker # nobody /\ taker.qty = 0
  /\ taker' = nobody
  /\ UNCHANGED <<resting, lastId>>

\* Nothing crosses what is left of the taker: it rests.
Rest ==
  /\ taker # nobody /\ taker.qty > 0
  /\ \A o \in resting : ~Crossing(o)
  /\ resting' = resting \cup {taker}
  /\ taker' = nobody
  /\ UNCHANGED lastId

Cancel ==
  /\ taker = nobody
  /\ \E o \in resting : resting' = resting \ {o}
  /\ UNCHANGED <<taker, lastId>>

Next == Accept \/ Fill \/ Done \/ Rest \/ Cancel

Spec == Init /\ [][Next]_<<resting, taker, lastId>>
=============================================================================

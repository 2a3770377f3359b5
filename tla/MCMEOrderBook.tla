---------------------------- MODULE MCMEOrderBook ----------------------------
(***************************************************************************)
(* Model checking of MEOrderBook with small sets of clients, order ids,    *)
(* prices and slots.                                                       *)
(***************************************************************************)
EXTENDS MEOrderBookPriority

CONSTANTS c1, c2
=============================================================================

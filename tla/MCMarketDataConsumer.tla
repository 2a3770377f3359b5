------------------------ MODULE MCMarketDataConsumer ------------------------
(***************************************************************************)
(* Model checking of MarketDataConsumer with a few updates and snapshots.  *)
(***************************************************************************)
EXTENDS MarketDataConsumer
=============================================================================

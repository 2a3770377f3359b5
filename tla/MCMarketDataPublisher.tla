----------------------- MODULE MCMarketDataPublisher -----------------------
(***************************************************************************)
(* Model checking of MarketDataPublisher with small rings and books.       *)
(***************************************************************************)
EXTENDS MarketDataPublisher
=============================================================================

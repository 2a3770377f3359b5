------------------------------ MODULE UpdateLog ------------------------------
(***************************************************************************)
(* The updates an exchange sends, in their order (MatchingEngine::         *)
(* sendMarketUpdate(), ch06/exchange/matcher/matching_engine.h): what the  *)
(* publisher is given and the consumer is meant to get.                    *)
(***************************************************************************)
EXTENDS MarketUpdates

CONSTANT
  MaxUpdates  \* the exchange sends no more updates than this

ASSUME MaxUpdatesAssumption == MaxUpdates \in Nat

VARIABLE
  log         \* the updates sent

\* The exchange sends update u.
SendUpdate(u) ==
  /\ Len(log) < MaxUpdates
  /\ MaySend(log, u)
  /\ log' = Append(log, u)
=============================================================================

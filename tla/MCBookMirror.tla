---------------------------- MODULE MCBookMirror ----------------------------
(***************************************************************************)
(* Model checking of BookMirror.                                           *)
(***************************************************************************)
EXTENDS BookMirror, MEOrderBookPriority

CONSTANT c1

\* The client numbers its orders from 1 on.
FreshIds == pc = "idle" /\ pc' = "match" => agg'.oid = agg'.moid
=============================================================================

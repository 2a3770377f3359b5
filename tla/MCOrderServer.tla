---------------------------- MODULE MCOrderServer ----------------------------
(***************************************************************************)
(* Model checking of OrderServer with a few clients and connections.       *)
(***************************************************************************)
EXTENDS OrderServer

CONSTANTS c1, c2, s1, s2
=============================================================================

------------------------------ MODULE MCMemPool ------------------------------
(***************************************************************************)
(* Model checking of MemPool: every order of allocations and deallocations *)
(* over a pool of five blocks.                                             *)
(***************************************************************************)
EXTENDS MemPool
=============================================================================

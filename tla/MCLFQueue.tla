------------------------------ MODULE MCLFQueue ------------------------------
(***************************************************************************)
(* Model checking of LFQueue with small rings, producers and messages.     *)
(***************************************************************************)
EXTENDS LFQueue

CONSTANTS p1, p2, m1, m2, m3
=============================================================================

--------------------------- MODULE MCOrderGateway ---------------------------
(***************************************************************************)
(* Model checking of OrderGateway with a few requests of three pieces.     *)
(***************************************************************************)
EXTENDS OrderGateway
=============================================================================

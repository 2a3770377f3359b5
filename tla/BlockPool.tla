------------------------------ MODULE BlockPool ------------------------------
(***************************************************************************)
(* What a memory pool promises its owner: a block handed out is not in     *)
(* use, a block in use stays in use until its owner returns it, and the    *)
(* pool fails only when every block is taken or when the owner returns a   *)
(* block it does not hold.  MemPool implements this specification.         *)
(***************************************************************************)
CONSTANT Blocks

VARIABLES
  taken,   \* the blocks the owner holds
  health   \* "up", "exhausted" or "misused"

Init == taken = {} /\ health = "up"

Take(b) ==
  /\ health = "up"
  /\ b \notin taken
  /\ taken' = taken \cup {b}
  /\ UNCHANGED health

Release(b) ==
  /\ health = "up"
  /\ b \in taken
  /\ taken' = taken \ {b}
  /\ UNCHANGED health

\* The pool goes down once the last block is taken.
Exhaust ==
  /\ health = "up"
  /\ taken = Blocks
  /\ health' = "exhausted"
  /\ UNCHANGED taken

\* The owner returns a block it does not hold.
Misuse(b) ==
  /\ health = "up"
  /\ b \notin taken
  /\ health' = "misused"
  /\ UNCHANGED taken

Next ==
  \/ \E b \in Blocks : Take(b) \/ Release(b) \/ Misuse(b)
  \/ Exhaust

Spec == Init /\ [][Next]_<<taken, health>>
=============================================================================

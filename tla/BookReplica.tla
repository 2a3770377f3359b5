---------------------------- MODULE BookReplica ----------------------------
(***************************************************************************)
(* What a copy of the exchange's books promises: it shows the books as     *)
(* they were after some number of the updates published, never a mixture   *)
(* of two moments.  It may fall behind, and jump when it is rebuilt.       *)
(***************************************************************************)
EXTENDS MarketUpdates

VARIABLES
  log,   \* the updates published so far
  view,  \* the copy
  pos    \* the number of updates it shows

Init == log = <<>> /\ view = EmptyBook /\ pos = 0

Publish ==
  /\ \E u \in Updates : log' = Append(log, u) /\ MaySend(log, u)
  /\ UNCHANGED <<view, pos>>

Move ==
  /\ pos' \in 0 .. Len(log)
  /\ view' = BookAfter(log, pos')
  /\ UNCHANGED log

Next == Publish \/ Move

Spec == Init /\ [][Next]_<<log, view, pos>>
=============================================================================

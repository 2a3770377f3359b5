----------------------------- MODULE FifoChannel -----------------------------
(***************************************************************************)
(* What a queue between threads promises: the messages come out in the     *)
(* order in which they were sent, each of them once and as it was written. *)
(***************************************************************************)
EXTENDS Sequences

CONSTANTS Producers, Messages, noMessage

VARIABLES
  offered,  \* the message each producer is sending, or noMessage
  chan,     \* the messages sent and not yet received
  got       \* the message received last

Init ==
  /\ offered = [p \in Producers |-> noMessage]
  /\ chan = <<>>
  /\ got = noMessage

\* A producer starts to write a message.
Offer(p) ==
  /\ offered[p] = noMessage
  /\ \E m \in Messages : offered' = [offered EXCEPT ![p] = m]
  /\ UNCHANGED <<chan, got>>

\* The message is written: it goes to the end of the channel.
Send(p) ==
  /\ offered[p] # noMessage
  /\ chan' = Append(chan, offered[p])
  /\ offered' = [offered EXCEPT ![p] = noMessage]
  /\ UNCHANGED got

\* The consumer takes the first message.
Receive ==
  /\ chan # <<>>
  /\ got' = Head(chan)
  /\ chan' = Tail(chan)
  /\ UNCHANGED offered

Next == Receive \/ \E p \in Producers : Offer(p) \/ Send(p)

Spec == Init /\ [][Next]_<<offered, chan, got>>
=============================================================================

---------------------------- MODULE OrderGateway ----------------------------
(***************************************************************************)
(* Trading::OrderGateway (ch06/trading/order_gw) and the TCP connection    *)
(* (ch06/common/tcp_socket.cpp) to the order server of the exchange, byte  *)
(* by byte: send buffers, what the kernel takes of them, what a read       *)
(* returns and how the callbacks cut it into messages.                     *)
(*                                                                         *)
(* A message is a number and FrameUnits pieces of bytes.  The exchange is  *)
(* reduced to what it does with the connection: it takes the requests it   *)
(* expects, answers each of them, and ends when a number is not the one it *)
(* expects (module OrderServer has the rest of it).                        *)
(***************************************************************************)
EXTENDS Integers, Sequences

CONSTANTS
  Count,       \* the trade engine sends no more requests than this
  FrameUnits,  \* sizeof(OMClientRequest), sizeof(OMClientResponse) in pieces
  Room         \* pieces the kernel holds for a reader that is behind

ASSUME GatewayAssumption ==
  /\ Count \in Nat /\ FrameUnits \in Nat \ {0} /\ Room \in Nat

Ends == {"gateway", "exchange"}
Peer(e) == IF e = "gateway" THEN "exchange" ELSE "gateway"

VARIABLES
  up,        \* the connection is made
  down,      \* the ends whose threads have ended
  asked,     \* requests the trade engine has put into outgoing_requests_
  queued,    \* how many of them, at the gateway, or of the responses, at the exchange, wait
  outSeq,    \* next_outgoing_seq_num_ of each end
  expSeq,    \* next_exp_seq_num_ of each end
  outbound,  \* outbound_data_
  wire,      \* what each end has sent and the other has not read
  inbound,   \* inbound_data_
  taken,     \* the numbers each end took, to forward them; 0 for garbled bytes
  cut        \* some of a send buffer was dropped

buffers == <<outbound, inbound>>
vars == <<up, down, asked, queued, outSeq, expSeq, buffers, wire, taken, cut>>

Frame(n) == [k \in 1 .. FrameUnits |-> <<n, k>>]

\* The thread of end e has no whole message to go through.
LoopDone(e) == Len(inbound[e]) < FrameUnits /\ e \notin down

-----------------------------------------------------------------------------
Connect ==
  /\ ~up
  /\ up' = TRUE
  /\ UNCHANGED <<down, asked, queued, outSeq, expSeq, outbound, wire, inbound, taken, cut>>

\* The trade engine writes a request to outgoing_requests_.
Ask ==
  /\ asked < Count
  /\ asked' = asked + 1
  /\ queued' = [queued EXCEPT !["gateway"] = @ + 1]
  /\ UNCHANGED <<up, down, outSeq, expSeq, outbound, wire, inbound, taken, cut>>

\* updateReadIndex().
Dequeued(e) == [queued EXCEPT ![e] = @ - 1]

\* TCPSocket::send().
Buffered(e, bytes) == [outbound EXCEPT ![e] = @ \o bytes]

\* The loops of OrderGateway::run() and OrderServer::run(): number and message go to
\* the send buffer.
Send(e) ==
  /\ LoopDone(e) /\ queued[e] > 0
  /\ queued' = Dequeued(e)
  /\ outbound' = Buffered(e, Frame(outSeq[e]))
  /\ outSeq' = [outSeq EXCEPT ![e] = @ + 1]
  /\ UNCHANGED <<up, down, asked, expSeq, wire, inbound, taken, cut>>

\* What ::send() takes of the buffer: nothing before the connection is made.
Accepted(e) ==
  LET room == Room - Len(wire[e])
      n == IF Len(outbound[e]) <= room THEN Len(outbound[e]) ELSE room
  IN  IF up THEN SubSeq(outbound[e], 1, n) ELSE <<>>

\* What is left of the buffer: next_send_valid_index_ = 0, however much was sent.
Unsent(e) == <<>>

\* TCPSocket::sendAndRecv(), its second half.
Flush(e) ==
  /\ LoopDone(e) /\ outbound[e] # <<>>
  /\ wire' = [wire EXCEPT ![e] = @ \o Accepted(e)]
  /\ outbound' = [outbound EXCEPT ![e] = Unsent(e)]
  /\ cut' = (cut \/ Accepted(e) # outbound[e])
  /\ UNCHANGED <<up, down, asked, queued, outSeq, expSeq, inbound, taken>>

\* Its first half: recvmsg() returns the bytes that have arrived.
Receive(e) ==
  /\ LoopDone(e)
  /\ \E n \in 1 .. Len(wire[Peer(e)]) :
       /\ inbound' = [inbound EXCEPT ![e] = @ \o SubSeq(wire[Peer(e)], 1, n)]
       /\ wire' = [wire EXCEPT ![Peer(e)] = SubSeq(@, n + 1, Len(@))]
  /\ UNCHANGED <<up, down, asked, queued, outSeq, expSeq, outbound, taken, cut>>

-----------------------------------------------------------------------------
(***************************************************************************)
(* The loop of the two recvCallback()s, a message at a time.               *)
(***************************************************************************)
Bytes(e) == SubSeq(inbound[e], 1, FrameUnits)
Number(e) == IF \E n \in 1 .. Count : Bytes(e) = Frame(n) THEN Bytes(e)[1][1] ELSE 0

\* Mutant of Rest: the bytes left are not kept.
RestDropped(e) == <<>>

\* The bytes left go to the front of the buffer.
Rest(e) == SubSeq(inbound[e], FrameUnits + 1, Len(inbound[e]))

HasMessage(e) == Len(inbound[e]) >= FrameUnits /\ e \notin down

\* Mutant of IsNext: any later number is taken.
IsNextOrLater(e) == Number(e) = 0 \/ Number(e) >= expSeq[e]

\* The message is the expected one, or bytes that look like it.
IsNext(e) == Number(e) \in {0, expSeq[e]}

Take(e) ==
  /\ HasMessage(e) /\ IsNext(e)
  /\ taken' = [taken EXCEPT ![e] = Append(@, Number(e))]
  /\ expSeq' = [expSeq EXCEPT ![e] = @ + 1]
  /\ queued' = IF e = "exchange" THEN [queued EXCEPT ![e] = @ + 1] ELSE queued
  /\ inbound' = [inbound EXCEPT ![e] = Rest(e)]
  /\ UNCHANGED <<up, down, asked, outSeq, outbound, wire, cut>>

\* Wrong number, or wrong client: the gateway drops the message.
Drop(e) ==
  /\ HasMessage(e) /\ Number(e) # expSeq[e]
  /\ e = "exchange" => Number(e) = 0
  /\ inbound' = [inbound EXCEPT ![e] = Rest(e)]
  /\ UNCHANGED <<up, down, asked, queued, outSeq, expSeq, outbound, wire, taken, cut>>

\* The exchange ends at a number it does not expect.
Stop ==
  /\ HasMessage("exchange") /\ Number("exchange") # expSeq["exchange"]
  /\ down' = down \cup {"exchange"}
  /\ UNCHANGED <<up, asked, queued, outSeq, expSeq, outbound, wire, inbound, taken, cut>>

\* The gateway's thread finds run_ reset, by stop() or the destructor, and leaves its loop.
Leave ==
  /\ LoopDone("gateway")
  /\ down' = down \cup {"gateway"}
  /\ UNCHANGED <<up, asked, queued, outSeq, expSeq, outbound, wire, inbound, taken, cut>>

-----------------------------------------------------------------------------
Init ==
  /\ up = FALSE /\ down = {} /\ cut = FALSE /\ asked = 0
  /\ queued = [e \in Ends |-> 0]
  /\ outSeq = [e \in Ends |-> 1] /\ expSeq = [e \in Ends |-> 1]
  /\ outbound = [e \in Ends |-> <<>>] /\ wire = [e \in Ends |-> <<>>]
  /\ inbound = [e \in Ends |-> <<>>] /\ taken = [e \in Ends |-> <<>>]

Thread(e) == Send(e) \/ Flush(e) \/ Receive(e) \/ Take(e) \/ Drop(e)

Next == Connect \/ Ask \/ Stop \/ Leave \/ \E e \in Ends : Thread(e)

Spec == Init /\ [][Next]_vars

\* Each thread goes round its loop, and through all of it.
FairSpec ==
  /\ Spec
  /\ \A e \in Ends : /\ WF_vars(Send(e)) /\ WF_vars(Flush(e))
                     /\ WF_vars(Receive(e)) /\ WF_vars(Take(e) \/ Drop(e))

-----------------------------------------------------------------------------
Pieces == (1 .. Count) \X (1 .. FrameUnits)

\* The type invariant.
TypeOK ==
  /\ up \in BOOLEAN /\ down \subseteq Ends /\ cut \in BOOLEAN /\ asked \in 0 .. Count
  /\ queued \in [Ends -> 0 .. Count]
  /\ outSeq \in [Ends -> 1 .. Count + 1] /\ expSeq \in [Ends -> 1 .. Count + 1]
  /\ outbound \in [Ends -> Seq(Pieces)] /\ wire \in [Ends -> Seq(Pieces)]
  /\ \A e \in Ends : Len(wire[e]) <= Room
  /\ inbound \in [Ends -> Seq(Pieces)] /\ taken \in [Ends -> Seq(0 .. Count)]

\* Whatever is lost on the way, what an end forwards is the messages of the other end
\* from the first one on, without one missing, repeated or out of place; only bytes
\* that are no message may stand for one (the checks of the two recvCallback()s).
NumbersInPlace == \A e \in Ends : \A i \in DOMAIN taken[e] : taken[e][i] \in {i, 0}

\* The k-th piece of all that an end sends, and what of it the other has not taken.
Piece(k) == <<((k - 1) \div FrameUnits) + 1, ((k - 1) % FrameUnits) + 1>>
UnderWay(e) == inbound[Peer(e)] \o wire[e] \o outbound[e]

\* While the kernel takes all it is given, no byte is lost and none is out of place:
\* what was taken, and what is in the three buffers, is what was sent.
NothingLost ==
  ~cut => \A e \in Ends :
    LET before == FrameUnits * Len(taken[Peer(e)])
        all == FrameUnits * (outSeq[e] - 1)
    IN  UnderWay(e) = [k \in 1 .. all - before |-> Piece(before + k)]

\* Every request of the trade engine gets its response, unless bytes were dropped or the
\* gateway was stopped.
EveryRequestAnswered ==
  \A n \in 1 .. Count : asked >= n ~> cut \/ "gateway" \in down \/ Len(taken["gateway"]) >= n
=============================================================================

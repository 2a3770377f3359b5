-------------------------- MODULE OrderGateway_proof --------------------------
(***************************************************************************)
(* Proofs about OrderGateway, for messages of every length and for every   *)
(* amount the kernel holds.                                                *)
(***************************************************************************)
EXTENDS OrderGateway, SequenceTheorems, TLAPS

-----------------------------------------------------------------------------
\* The number an end expects counts what it took.
Counts ==
  /\ taken \in [Ends -> Seq(Nat)]
  /\ expSeq = [e \in Ends |-> Len(taken[e]) + 1]

PlaceInv == Counts /\ NumbersInPlace

\* What an end makes of the next bytes: a number, or 0 when they are no message.
LEMMA NumberIsNat == ASSUME NEW e PROVE Number(e) \in Nat
<1>1. CASE \E n \in 1 .. Count : Bytes(e) = Frame(n)
  <2>1. PICK n \in 1 .. Count : Bytes(e) = Frame(n)
    BY <1>1
  <2>2. Frame(n)[1][1] = n
    BY GatewayAssumption DEF Frame
  <2> QED
    BY <1>1, <2>1, <2>2, GatewayAssumption DEF Number
<1>2. CASE ~ \E n \in 1 .. Count : Bytes(e) = Frame(n)
  BY <1>2 DEF Number
<1> QED
  BY <1>1, <1>2

LEMMA InitPlaceInv == Init => PlaceInv
  BY DEF Init, PlaceInv, Counts, NumbersInPlace, Ends

\* The one step that takes a message.
LEMMA TakePlaceInv ==
  ASSUME PlaceInv, NEW e \in Ends, Take(e)
  PROVE  PlaceInv'
<1> DEFINE n == Number(e)
           t == taken[e]
<1>1. n \in Nat /\ t \in Seq(Nat)
  BY NumberIsNat DEF PlaceInv, Counts
<1>2. n \in {0, Len(t) + 1}
  BY DEF Take, IsNext, PlaceInv, Counts
<1>3. taken' = [taken EXCEPT ![e] = Append(t, n)] /\ expSeq' = [expSeq EXCEPT ![e] = @ + 1]
  BY DEF Take
<1>4. /\ Append(t, n) \in Seq(Nat) /\ Len(Append(t, n)) = Len(t) + 1
      /\ \A i \in 1 .. Len(t) : Append(t, n)[i] = t[i]
      /\ Append(t, n)[Len(t) + 1] = n
      /\ DOMAIN Append(t, n) = 1 .. Len(t) + 1 /\ DOMAIN t = 1 .. Len(t) /\ Len(t) \in Nat
  BY <1>1
<1>5. taken' \in [Ends -> Seq(Nat)]
  BY <1>3, <1>4 DEF PlaceInv, Counts
<1>6. \A f \in Ends : taken'[f] = IF f = e THEN Append(t, n) ELSE taken[f]
  BY <1>3 DEF PlaceInv, Counts
<1>7. \A f \in Ends : expSeq'[f] = Len(taken'[f]) + 1
  BY <1>3, <1>4, <1>6 DEF PlaceInv, Counts
<1>8. expSeq' = [f \in Ends |-> Len(taken'[f]) + 1]
  BY <1>3, <1>7 DEF PlaceInv, Counts
<1>9. \A i \in 1 .. Len(t) + 1 : Append(t, n)[i] \in {i, 0}
  <2> SUFFICES ASSUME NEW i \in 1 .. Len(t) + 1 PROVE Append(t, n)[i] \in {i, 0}
    OBVIOUS
  <2>1. CASE i = Len(t) + 1
    BY <2>1, <1>2, <1>4
  <2>2. CASE i # Len(t) + 1
    <3>1. i \in 1 .. Len(t)
      BY <2>2, <1>4
    <3> QED
      BY <3>1, <1>4 DEF PlaceInv, NumbersInPlace
  <2> QED
    BY <2>1, <2>2
<1>10. NumbersInPlace'
  BY <1>4, <1>6, <1>9 DEF PlaceInv, NumbersInPlace
<1> QED
  BY <1>5, <1>8, <1>10 DEF PlaceInv, Counts

LEMMA NextPlaceInv == PlaceInv /\ [Next]_vars => PlaceInv'
<1> SUFFICES ASSUME PlaceInv, [Next]_vars PROVE PlaceInv'
  OBVIOUS
<1>1. ASSUME NEW e \in Ends, Take(e) PROVE PlaceInv'
  BY <1>1, TakePlaceInv
<1>2. CASE UNCHANGED <<taken, expSeq>>
  BY <1>2 DEF PlaceInv, Counts, NumbersInPlace
<1>3. (\E e \in Ends : Take(e)) \/ UNCHANGED <<taken, expSeq>>
  BY DEF Next, vars, buffers, Connect, Ask, Stop, Leave, Thread, Send, Buffered, Flush, Receive, Drop
<1> QED
  BY <1>1, <1>2, <1>3

\* What an end of the connection forwards is the other end's messages in their places,
\* whatever the connection lost or garbled (the recvCallback()s of order_gateway.cpp and
\* order_server.h).
THEOREM TakenInPlace == Spec => []NumbersInPlace
<1>1. PlaceInv => NumbersInPlace
  BY DEF PlaceInv
<1> QED
  BY InitPlaceInv, NextPlaceInv, <1>1, PTL DEF Spec

-----------------------------------------------------------------------------
(***************************************************************************)
(* What is on its way between the ends.  A request or response is counted  *)
(* in the queue of its end, in the stream of pieces, or as taken; what is  *)
(* in the three buffers is the part of the stream behind what was taken.   *)
(***************************************************************************)
\* The types that a step of the line changes; TypeOK follows with what is counted.
Typed ==
  /\ up \in BOOLEAN /\ down \subseteq Ends /\ cut \in BOOLEAN /\ asked \in 0 .. Count
  /\ queued \in [Ends -> Nat] /\ outSeq \in [Ends -> Nat \ {0}] /\ expSeq \in [Ends -> Nat]
  /\ outbound \in [Ends -> Seq(Pieces)] /\ wire \in [Ends -> Seq(Pieces)]
  /\ \A e \in Ends : Len(wire[e]) <= Room
  /\ inbound \in [Ends -> Seq(Pieces)] /\ taken \in [Ends -> Seq(0 .. Count)]

Before(e) == FrameUnits * Len(taken[Peer(e)])
All(e) == FrameUnits * (outSeq[e] - 1)

Counted ==
  /\ asked = queued["gateway"] + (outSeq["gateway"] - 1)
  /\ Len(taken["exchange"]) = queued["exchange"] + (outSeq["exchange"] - 1)
  /\ \A e \in Ends : expSeq[e] = Len(taken[e]) + 1
  /\ \A e \in Ends : Len(UnderWay(e)) <= All(e) - Before(e)

InLine(e) ==
  /\ Len(UnderWay(e)) = All(e) - Before(e)
  /\ \A k \in 1 .. Len(UnderWay(e)) : UnderWay(e)[k] = Piece(Before(e) + k)

LineInv == Typed /\ Counted /\ (~cut => \A e \in Ends : InLine(e))

\* The pieces of the n-th message are in their places of the stream.
LEMMA PieceOfMessage ==
  ASSUME NEW n \in Nat, NEW j \in 1 .. FrameUnits
  PROVE  Piece(FrameUnits * n + j) = <<n + 1, j>>
<1> DEFINE k == FrameUnits * n + j
<1>1. FrameUnits \in Nat \ {0}
  BY GatewayAssumption
<1>2. (k - 1) \div FrameUnits = n /\ (k - 1) % FrameUnits = j - 1
  BY <1>1, Z3
<1> QED
  BY <1>2 DEF Piece

LEMMA FewerMessages ==
  ASSUME NEW n \in Nat, NEW m \in Nat, FrameUnits * n <= FrameUnits * m
  PROVE  n <= m
<1> SUFFICES ASSUME m + 1 <= n PROVE FALSE
  OBVIOUS
<1>1. FrameUnits \in Nat \ {0}
  BY GatewayAssumption
<1>2. FrameUnits * (m + 1) <= FrameUnits * n
  BY <1>1
<1> QED
  BY <1>1, <1>2

LEMMA Peers ==
  ASSUME NEW e \in Ends
  PROVE  Peer(e) \in Ends /\ Peer(Peer(e)) = e /\ Peer(e) # e /\ \A f \in Ends : f = e \/ f = Peer(e)
  BY DEF Ends, Peer

LEMMA FrameIs ==
  ASSUME NEW n \in 1 .. Count
  PROVE  /\ Frame(n) \in Seq(Pieces) /\ Len(Frame(n)) = FrameUnits
         /\ \A j \in 1 .. FrameUnits : Frame(n)[j] = <<n, j>>
<1>1. FrameUnits \in Nat
  BY GatewayAssumption
<1>2. Frame(n) \in [1 .. FrameUnits -> Pieces]
  BY DEF Frame, Pieces
<1>3. Frame(n) \in Seq(Pieces)
  BY <1>1, <1>2, SeqDef
<1> QED
  BY <1>1, <1>2, <1>3, LenProperties DEF Frame

\* The three buffers of a line.
LEMMA Line ==
  ASSUME Typed, NEW e \in Ends
  PROVE  /\ inbound[e] \in Seq(Pieces) /\ wire[e] \in Seq(Pieces) /\ outbound[e] \in Seq(Pieces)
         /\ inbound[Peer(e)] \in Seq(Pieces) /\ UnderWay(e) \in Seq(Pieces)
         /\ Len(UnderWay(e)) = Len(inbound[Peer(e)]) + Len(wire[e]) + Len(outbound[e])
         /\ Len(inbound[e]) \in Nat /\ Len(wire[e]) \in Nat /\ Len(outbound[e]) \in Nat
         /\ Len(inbound[Peer(e)]) \in Nat /\ Len(UnderWay(e)) \in Nat
         /\ Len(taken[e]) \in Nat /\ Len(taken[Peer(e)]) \in Nat
         /\ outSeq[e] \in Nat \ {0} /\ queued[e] \in Nat
         /\ All(e) \in Nat /\ Before(e) \in Nat
<1>1. /\ inbound[e] \in Seq(Pieces) /\ wire[e] \in Seq(Pieces) /\ outbound[e] \in Seq(Pieces)
      /\ inbound[Peer(e)] \in Seq(Pieces) /\ outSeq[e] \in Nat \ {0} /\ queued[e] \in Nat
      /\ taken[e] \in Seq(0 .. Count) /\ taken[Peer(e)] \in Seq(0 .. Count)
  BY Peers DEF Typed
<1>2. /\ inbound[Peer(e)] \o wire[e] \in Seq(Pieces)
      /\ Len(inbound[Peer(e)] \o wire[e]) = Len(inbound[Peer(e)]) + Len(wire[e])
  BY <1>1, ConcatProperties
<1>3. /\ UnderWay(e) \in Seq(Pieces)
      /\ Len(UnderWay(e)) = Len(inbound[Peer(e)] \o wire[e]) + Len(outbound[e])
  BY <1>1, <1>2, ConcatProperties DEF UnderWay
<1>4. /\ Len(inbound[e]) \in Nat /\ Len(wire[e]) \in Nat /\ Len(outbound[e]) \in Nat
      /\ Len(inbound[Peer(e)]) \in Nat /\ Len(UnderWay(e)) \in Nat
      /\ Len(taken[e]) \in Nat /\ Len(taken[Peer(e)]) \in Nat
  BY <1>1, <1>3, LenProperties
<1>5. All(e) \in Nat /\ Before(e) \in Nat
  <2>1. \A m, n \in Nat : m * n \in Nat
    OBVIOUS
  <2>2. FrameUnits \in Nat /\ outSeq[e] - 1 \in Nat /\ Len(taken[Peer(e)]) \in Nat
    BY <1>1, <1>4, GatewayAssumption
  <2> QED
    BY <2>1, <2>2 DEF All, Before
<1> QED
  BY <1>1, <1>2, <1>3, <1>4, <1>5

\* No end sends or takes more than the trade engine asked for.
LEMMA NoMoreThanAsked ==
  ASSUME Typed, Counted, NEW e \in Ends
  PROVE  /\ Len(taken[Peer(e)]) <= outSeq[e] - 1 /\ queued[e] + (outSeq[e] - 1) <= Count
         /\ Len(taken[e]) <= Count
<1>1. \A f \in Ends : Len(taken[Peer(f)]) <= outSeq[f] - 1
  <2> SUFFICES ASSUME NEW f \in Ends PROVE Len(taken[Peer(f)]) <= outSeq[f] - 1
    OBVIOUS
  <2>1. /\ Len(UnderWay(f)) \in Nat /\ All(f) \in Nat /\ Before(f) \in Nat
        /\ Len(taken[Peer(f)]) \in Nat /\ outSeq[f] \in Nat \ {0}
    BY Line
  <2>2. Len(UnderWay(f)) <= All(f) - Before(f)
    BY DEF Counted
  <2>3. Before(f) <= All(f) /\ outSeq[f] - 1 \in Nat
    BY ONLY <2>1, <2>2
  <2> QED
    BY <2>1, <2>3, FewerMessages DEF Before, All
<1>2. /\ asked \in Nat /\ asked <= Count /\ Count \in Nat
      /\ asked = queued["gateway"] + (outSeq["gateway"] - 1)
      /\ Len(taken["exchange"]) = queued["exchange"] + (outSeq["exchange"] - 1)
  <2>1. Count \in Nat /\ asked \in 0 .. Count
    BY GatewayAssumption DEF Typed
  <2>2. /\ asked = queued["gateway"] + (outSeq["gateway"] - 1)
        /\ Len(taken["exchange"]) = queued["exchange"] + (outSeq["exchange"] - 1)
    BY DEF Counted
  <2> QED
    BY <2>1, <2>2
<1>3. /\ "gateway" \in Ends /\ "exchange" \in Ends
      /\ Peer("gateway") = "exchange" /\ Peer("exchange") = "gateway"
  BY DEF Ends, Peer
<1>4. \A f \in Ends : Len(taken[f]) \in Nat /\ outSeq[f] \in Nat \ {0} /\ queued[f] \in Nat
  BY Line
<1>5. Len(taken["exchange"]) <= Count
  <2>1. Len(taken["exchange"]) <= outSeq["gateway"] - 1
    BY <1>1, <1>3
  <2> QED
    BY <1>2, <1>3, <1>4, <2>1
<1>6. Len(taken["gateway"]) <= Count
  <2>1. Len(taken["gateway"]) <= outSeq["exchange"] - 1
    BY <1>1, <1>3
  <2> QED
    BY <1>2, <1>3, <1>4, <1>5, <2>1
<1> QED
  BY <1>1, <1>2, <1>5, <1>6 DEF Ends

LEMMA LineTypeOK == Typed /\ Counted => TypeOK
<1> SUFFICES ASSUME Typed, Counted PROVE TypeOK
  OBVIOUS
<1>1. ASSUME NEW e \in Ends
      PROVE  queued[e] \in 0 .. Count /\ outSeq[e] \in 1 .. Count + 1 /\ expSeq[e] \in 1 .. Count + 1
  <2>1. /\ queued[e] \in Nat /\ outSeq[e] \in Nat \ {0} /\ Len(taken[e]) \in Nat /\ Count \in Nat
        /\ expSeq[e] = Len(taken[e]) + 1
    BY Line, GatewayAssumption DEF Counted
  <2> QED
    BY <2>1, NoMoreThanAsked
<1> QED
  BY <1>1 DEF Typed, TypeOK

\* A line no step touches.
LEMMA LineKept ==
  ASSUME NEW e \in Ends, UnderWay(e)' = UnderWay(e), outSeq'[e] = outSeq[e],
         Len(taken'[Peer(e)]) = Len(taken[Peer(e)])
  PROVE  All(e)' = All(e) /\ Before(e)' = Before(e) /\ (InLine(e) => InLine(e)')
<1>1. All(e)' = All(e) /\ Before(e)' = Before(e)
  BY DEF All, Before
<1> QED
  BY <1>1 DEF InLine

\* A message goes to the end of its line.
LEMMA SendLineInv ==
  ASSUME LineInv, NEW e \in Ends, Send(e)
  PROVE  LineInv'
<1> DEFINE p == Peer(e)
           n == outSeq[e]
           u == UnderWay(e)
<1>1. /\ queued[e] > 0 /\ queued' = [queued EXCEPT ![e] = @ - 1]
      /\ outbound' = [outbound EXCEPT ![e] = @ \o Frame(n)]
      /\ outSeq' = [outSeq EXCEPT ![e] = @ + 1]
      /\ UNCHANGED <<up, down, asked, expSeq, wire, inbound, taken, cut>>
  BY DEF Send, Dequeued, Buffered
<1>2. Typed /\ Counted
  BY DEF LineInv
<1>3. /\ queued[e] \in Nat \ {0} /\ n \in 1 .. Count /\ Count \in Nat /\ FrameUnits \in Nat
  <2>1. queued[e] \in Nat /\ n \in Nat \ {0} /\ Count \in Nat /\ FrameUnits \in Nat
    BY <1>2, Line, GatewayAssumption
  <2>2. queued[e] + (n - 1) <= Count
    BY <1>2, NoMoreThanAsked
  <2> QED
    BY ONLY <1>1, <2>1, <2>2
<1>4. Frame(n) \in Seq(Pieces)
  BY <1>3, FrameIs
<1>5. /\ outSeq'[e] = n + 1 /\ queued'[e] = queued[e] - 1 /\ outbound'[e] = outbound[e] \o Frame(n)
      /\ outSeq'[p] = outSeq[p] /\ queued'[p] = queued[p] /\ outbound'[p] = outbound[p]
  BY <1>1, <1>2, Peers DEF Typed
<1>6. UnderWay(e)' = u \o Frame(n)
  <2> DEFINE i == inbound[p] \o wire[e]
  <2>1. i \in Seq(Pieces) /\ outbound[e] \in Seq(Pieces)
    BY <1>2, Line, ConcatProperties
  <2>2. UnderWay(e)' = i \o (outbound[e] \o Frame(n))
    BY <1>1, <1>5 DEF UnderWay
  <2>3. u = i \o outbound[e]
    BY DEF UnderWay
  <2>4. \A x, y, z \in Seq(Pieces) : (x \o y) \o z = x \o (y \o z)
    BY ConcatAssociative
  <2> HIDE DEF i, u, n
  <2> QED
    BY <1>4, <2>1, <2>2, <2>3, <2>4, Zenon
<1>7. UnderWay(p)' = UnderWay(p)
  BY <1>1, <1>5 DEF UnderWay
<1>8. Typed'
  <2>1. outbound[e] \o Frame(n) \in Seq(Pieces)
    BY <1>2, <1>4, Line, ConcatProperties
  <2>2. outbound' \in [Ends -> Seq(Pieces)]
    BY <1>1, <1>2, <2>1 DEF Typed
  <2>3. queued' \in [Ends -> Nat]
    BY <1>1, <1>2, <1>3 DEF Typed
  <2>4. outSeq' \in [Ends -> Nat \ {0}]
    BY <1>1, <1>2, <1>3 DEF Typed
  <2> QED
    BY <1>1, <1>2, <2>2, <2>3, <2>4 DEF Typed
<1>9. /\ u \in Seq(Pieces) /\ Len(u) \in Nat /\ All(e) \in Nat /\ Before(e) \in Nat
      /\ UnderWay(e)' \in Seq(Pieces) /\ Len(UnderWay(e)') = Len(u) + FrameUnits
      /\ \A k \in 1 .. Len(u) + FrameUnits :
           UnderWay(e)'[k] = IF k <= Len(u) THEN u[k] ELSE Frame(n)[k - Len(u)]
  <2>1. u \in Seq(Pieces) /\ Len(u) \in Nat /\ All(e) \in Nat /\ Before(e) \in Nat
    BY <1>2, Line
  <2>2. Len(Frame(n)) = FrameUnits
    BY <1>3, FrameIs
  <2> HIDE DEF u, n
  <2>3. /\ u \o Frame(n) \in Seq(Pieces) /\ Len(u \o Frame(n)) = Len(u) + Len(Frame(n))
        /\ \A k \in 1 .. Len(u) + Len(Frame(n)) :
             (u \o Frame(n))[k] = IF k <= Len(u) THEN u[k] ELSE Frame(n)[k - Len(u)]
    BY <1>4, <2>1, ConcatProperties
  <2> QED
    BY <1>6, <2>1, <2>2, <2>3, Zenon
<1> HIDE DEF u
<1>10. All(e)' = All(e) + FrameUnits /\ Before(e)' = Before(e)
  BY <1>1, <1>3, <1>5 DEF All, Before
<1>11. All(p)' = All(p) /\ Before(p)' = Before(p) /\ (InLine(p) => InLine(p)')
  BY <1>1, <1>5, <1>7, LineKept, Peers
<1>12. Counted'
  <2>1. \A f \in Ends : Len(UnderWay(f)') <= All(f)' - Before(f)'
    <3>1. Len(u) <= All(e) - Before(e) /\ Len(UnderWay(p)) <= All(p) - Before(p)
      BY <1>2, Peers DEF Counted, u
    <3>2. Len(UnderWay(e)') <= All(e)' - Before(e)'
      BY <1>3, <1>9, <1>10, <3>1
    <3>3. Len(UnderWay(p)') <= All(p)' - Before(p)'
      BY <1>7, <1>11, <3>1
    <3> QED
      BY <3>2, <3>3, Peers
  <2>2. queued'[e] + (outSeq'[e] - 1) = queued[e] + (outSeq[e] - 1)
    BY <1>3, <1>5
  <2>3. \A f \in Ends : queued'[f] + (outSeq'[f] - 1) = queued[f] + (outSeq[f] - 1)
    BY <1>5, <2>2, Peers
  <2> QED
    BY <1>1, <1>2, <2>1, <2>3 DEF Counted, Ends
<1>13. ASSUME ~cut' PROVE \A f \in Ends : InLine(f)'
  <2>1. InLine(e) /\ InLine(p)
    BY <1>1, <1>13, Peers DEF LineInv
  <2>2. Len(UnderWay(e)') = All(e)' - Before(e)'
    BY <1>3, <1>9, <1>10, <2>1 DEF InLine, u
  <2>3. ASSUME NEW k \in 1 .. Len(UnderWay(e)') PROVE UnderWay(e)'[k] = Piece(Before(e)' + k)
    <3>1. CASE k <= Len(u)
      <4>1. k \in 1 .. Len(u) /\ k \in 1 .. Len(u) + FrameUnits
        BY <1>9, <3>1
      <4> QED
        BY <1>9, <1>10, <2>1, <4>1, <3>1 DEF InLine, u
    <3>2. CASE ~ (k <= Len(u))
      <4> DEFINE j == k - Len(u)
      <4>1. j \in 1 .. FrameUnits /\ k \in 1 .. Len(u) + FrameUnits /\ k = Len(u) + j
        BY <1>3, <1>9, <3>2
      <4>2. UnderWay(e)'[k] = Frame(n)[j]
        BY <1>9, <3>2, <4>1
      <4>3. Frame(n)[j] = <<n, j>>
        BY <1>3, <4>1, FrameIs
      <4>4. Len(u) = All(e) - Before(e) /\ All(e) = FrameUnits * (n - 1) /\ n - 1 \in Nat
        BY <1>3, <2>1 DEF InLine, u, All
      <4> HIDE DEF j
      <4>5. Piece(FrameUnits * (n - 1) + j) = <<(n - 1) + 1, j>>
        BY <4>1, <4>4, PieceOfMessage
      <4>6. Before(e)' + k = All(e) + j /\ (n - 1) + 1 = n
        <5>1. Len(u) \in Nat /\ All(e) \in Nat /\ Before(e) \in Nat /\ Before(e)' = Before(e)
          BY <1>9, <1>10
        <5>2. j \in Nat /\ k = Len(u) + j /\ Len(u) = All(e) - Before(e) /\ n - 1 \in Nat /\ n \in Nat
          BY <1>3, <4>1, <4>4
        <5> QED
          BY ONLY <5>1, <5>2
      <4> QED
        BY <4>2, <4>3, <4>4, <4>5, <4>6
    <3> QED
      BY <3>1, <3>2
  <2> QED
    BY <1>11, <2>1, <2>2, <2>3, Peers DEF InLine
<1> QED
  BY <1>8, <1>12, <1>13 DEF LineInv

\* A step that sends and takes no message, and loses none unless it cuts the line.
LEMMA NoMessageLineInv ==
  ASSUME LineInv, Typed', UNCHANGED <<asked, queued, outSeq, expSeq, taken>>,
         \A f \in Ends : Len(UnderWay(f)') <= Len(UnderWay(f)),
         ~cut' => ~cut /\ \A f \in Ends : UnderWay(f)' = UnderWay(f)
  PROVE  LineInv'
<1>1. \A f \in Ends : All(f)' = All(f) /\ Before(f)' = Before(f)
  BY DEF All, Before
<1>2. Counted'
  <2>1. ASSUME NEW f \in Ends PROVE Len(UnderWay(f)') <= All(f)' - Before(f)'
    <3>1. Len(UnderWay(f)) <= All(f) - Before(f) /\ Len(UnderWay(f)') <= Len(UnderWay(f))
      BY DEF LineInv, Counted
    <3>2. /\ Len(UnderWay(f)) \in Nat /\ Len(UnderWay(f)') \in Nat
          /\ All(f) \in Nat /\ Before(f) \in Nat
      <4>1. Len(UnderWay(f)) \in Nat /\ All(f) \in Nat /\ Before(f) \in Nat
        BY Line DEF LineInv
      <4>2. Len(UnderWay(f)') \in Nat
        <5>1. /\ inbound'[Peer(f)] \in Seq(Pieces) /\ wire'[f] \in Seq(Pieces)
              /\ outbound'[f] \in Seq(Pieces)
          BY Peers DEF Typed
        <5>2. inbound'[Peer(f)] \o wire'[f] \in Seq(Pieces)
          BY <5>1, ConcatProperties
        <5>3. UnderWay(f)' \in Seq(Pieces)
          BY <5>1, <5>2, ConcatProperties DEF UnderWay
        <5> QED
          BY <5>3, LenProperties
      <4> QED
        BY <4>1, <4>2
    <3> QED
      BY <1>1, <3>1, <3>2
  <2> QED
    BY <2>1 DEF LineInv, Counted
<1>3. ASSUME ~cut', NEW f \in Ends PROVE InLine(f)'
  BY <1>1, <1>3 DEF LineInv, InLine
<1> QED
  BY <1>2, <1>3 DEF LineInv

\* How much of x fits above y.
LEMMA FirstOf ==
  ASSUME NEW x \in Nat, NEW y \in Nat, NEW z \in Nat, y <= z
  PROVE  LET n == IF x <= z - y THEN x ELSE z - y
         IN  n \in Nat /\ n <= x /\ y + n <= z
<1>1. CASE x <= z - y
  BY <1>1
<1>2. CASE ~ (x <= z - y)
  BY <1>2
<1> QED
  BY <1>1, <1>2

LEMMA FlushLineInv ==
  ASSUME LineInv, NEW e \in Ends, Flush(e)
  PROVE  LineInv'
<1> DEFINE p == Peer(e)
           a == Accepted(e)
<1>1. /\ wire' = [wire EXCEPT ![e] = @ \o a] /\ outbound' = [outbound EXCEPT ![e] = <<>>]
      /\ cut' = (cut \/ a # outbound[e])
      /\ UNCHANGED <<up, down, asked, queued, outSeq, expSeq, inbound, taken>>
  BY DEF Flush, Unsent
<1>2. Typed
  BY DEF LineInv
<1>3. /\ inbound[p] \in Seq(Pieces) /\ wire[e] \in Seq(Pieces) /\ outbound[e] \in Seq(Pieces)
      /\ Len(inbound[p]) \in Nat /\ Len(wire[e]) \in Nat /\ Len(outbound[e]) \in Nat
      /\ Len(UnderWay(e)) = Len(inbound[p]) + Len(wire[e]) + Len(outbound[e])
  BY <1>2, Line
<1>4. Len(wire[e]) <= Room /\ Room \in Nat
  BY <1>2, GatewayAssumption DEF Typed
<1>5. /\ a \in Seq(Pieces) /\ Len(a) \in Nat /\ Len(a) <= Len(outbound[e])
      /\ Len(wire[e]) + Len(a) <= Room
  <2> DEFINE room == Room - Len(wire[e])
             n == IF Len(outbound[e]) <= room THEN Len(outbound[e]) ELSE room
  <2>4. Len(outbound[e]) \in Nat /\ Len(wire[e]) \in Nat /\ Room \in Nat /\ Len(wire[e]) <= Room
    BY <1>3, <1>4
  <2>1. n \in Nat /\ n <= Len(outbound[e]) /\ Len(wire[e]) + n <= Room
    BY <2>4, FirstOf
  <2> HIDE DEF n
  <2>2. CASE up
    <3>1. a = SubSeq(outbound[e], 1, n)
      BY <2>2 DEF Accepted, n
    <3>2. \A i \in 1 .. n : outbound[e][i] \in Pieces
      BY <1>3, <2>1, ElementOfSeq
    <3>3. SubSeq(outbound[e], 1, n) \in Seq(Pieces) /\ Len(SubSeq(outbound[e], 1, n)) = n
      BY <2>1, <3>2, SubSeqProperties
    <3>4. a \in Seq(Pieces) /\ Len(a) = n
      BY <3>1, <3>3
    <3> HIDE DEF a
    <3> QED
      BY <2>1, <3>4
  <2>3. CASE ~up
    <3>1. a = <<>>
      BY <2>3 DEF Accepted
    <3> QED
      BY <1>3, <1>4, <3>1, EmptySeq
  <2> QED
    BY <2>2, <2>3
<1> HIDE DEF a
<1>6. wire[e] \o a \in Seq(Pieces) /\ Len(wire[e] \o a) = Len(wire[e]) + Len(a)
  BY <1>3, <1>5, ConcatProperties
<1>7. <<>> \in Seq(Pieces) /\ Len(<<>>) = 0
  BY EmptySeq
<1>8. /\ wire'[e] = wire[e] \o a /\ outbound'[e] = <<>>
      /\ wire'[p] = wire[p] /\ outbound'[p] = outbound[p]
  BY <1>1, <1>2, Peers DEF Typed
<1>9. Typed'
  <2>1. wire' \in [Ends -> Seq(Pieces)] /\ outbound' \in [Ends -> Seq(Pieces)]
    BY <1>1, <1>2, <1>6, <1>7 DEF Typed
  <2>2. \A f \in Ends : Len(wire'[f]) <= Room
    <3>1. Len(wire'[e]) <= Room
      BY <1>5, <1>6, <1>8
    <3>2. Len(wire'[p]) <= Room
      BY <1>2, <1>8, Peers DEF Typed
    <3> QED
      BY <3>1, <3>2, Peers
  <2>3. cut' \in BOOLEAN
    BY <1>1
  <2> QED
    BY <1>1, <1>2, <2>1, <2>2, <2>3 DEF Typed
<1>10. UnderWay(p)' = UnderWay(p)
  BY <1>1, <1>8 DEF UnderWay
<1>11. UnderWay(e)' = inbound[p] \o (wire[e] \o a)
  <2>1. UnderWay(e)' = inbound[p] \o (wire[e] \o a) \o <<>>
    BY <1>1, <1>8 DEF UnderWay
  <2>2. inbound[p] \o (wire[e] \o a) \in Seq(Pieces)
    BY <1>3, <1>6, ConcatProperties
  <2> QED
    BY <2>1, <2>2, ConcatEmptySeq
<1>12. Len(UnderWay(e)') <= Len(UnderWay(e))
  <2>1. Len(inbound[p] \o (wire[e] \o a)) = Len(inbound[p]) + (Len(wire[e]) + Len(a))
    BY <1>3, <1>6, ConcatProperties
  <2>2. Len(UnderWay(e)') = Len(inbound[p]) + (Len(wire[e]) + Len(a))
    BY <1>11, <2>1
  <2>3. /\ Len(UnderWay(e)) = Len(inbound[p]) + Len(wire[e]) + Len(outbound[e])
        /\ Len(inbound[p]) \in Nat /\ Len(wire[e]) \in Nat /\ Len(outbound[e]) \in Nat
        /\ Len(a) \in Nat /\ Len(a) <= Len(outbound[e])
    BY <1>3, <1>5
  <2>4. \A i, x, y, z \in Nat : z <= y => i + (x + z) <= i + x + y
    OBVIOUS
  <2> QED
    BY <2>2, <2>3, <2>4
<1>13. ASSUME ~cut' PROVE UnderWay(e)' = UnderWay(e)
  <2>1. a = outbound[e]
    BY <1>1, <1>13
  <2>2. \A x, y, z \in Seq(Pieces) : (x \o y) \o z = x \o (y \o z)
    BY ConcatAssociative
  <2>3. inbound[p] \o (wire[e] \o outbound[e]) = (inbound[p] \o wire[e]) \o outbound[e]
    BY <1>3, <2>2, Zenon
  <2> QED
    BY <1>11, <2>1, <2>3 DEF UnderWay
<1>14. \A f \in Ends : Len(UnderWay(f)') <= Len(UnderWay(f))
  <2>1. Len(UnderWay(p)) \in Nat
    BY <1>2, Line, Peers
  <2> QED
    BY <1>10, <1>12, <2>1, Peers
<1>15. ~cut' => ~cut /\ \A f \in Ends : UnderWay(f)' = UnderWay(f)
  BY <1>1, <1>10, <1>13, Peers
<1> QED
  BY <1>1, <1>9, <1>14, <1>15, NoMessageLineInv

LEMMA ReceiveLineInv ==
  ASSUME LineInv, NEW e \in Ends, Receive(e)
  PROVE  LineInv'
<1> DEFINE p == Peer(e)
           w == wire[p]
<1>1. PICK n \in 1 .. Len(w) :
        /\ inbound' = [inbound EXCEPT ![e] = @ \o SubSeq(w, 1, n)]
        /\ wire' = [wire EXCEPT ![p] = SubSeq(@, n + 1, Len(@))]
  BY DEF Receive
<1>2. UNCHANGED <<up, down, asked, queued, outSeq, expSeq, outbound, taken, cut>>
  BY DEF Receive
<1>3. Typed /\ p \in Ends /\ Peer(p) = e /\ p # e
  BY Peers DEF LineInv
<1>4. inbound[e] \in Seq(Pieces) /\ w \in Seq(Pieces) /\ outbound[p] \in Seq(Pieces) /\ Len(w) \in Nat
  BY <1>3, Line
<1> DEFINE h == SubSeq(w, 1, n)
           r == SubSeq(w, n + 1, Len(w))
<1>5. /\ h \in Seq(Pieces) /\ r \in Seq(Pieces) /\ Len(r) <= Len(w)
  <2>1. \A i \in 1 .. Len(w) : w[i] \in Pieces
    BY <1>4, ElementOfSeq
  <2>2. n \in Int /\ n + 1 \in Int /\ Len(w) \in Int /\ n <= Len(w) /\ n >= 1
    BY <1>4
  <2>3. h \in Seq(Pieces)
    BY <2>1, <2>2, SubSeqProperties
  <2>4. /\ r \in Seq(Pieces)
        /\ Len(r) = IF n + 1 <= Len(w) THEN Len(w) - (n + 1) + 1 ELSE 0
    BY <2>1, <2>2, SubSeqProperties
  <2> QED
    BY <2>2, <2>3, <2>4
<1>6. h \o r = w
  <2>1. 1 \in 1 .. Len(w) + 1 /\ n \in 1 - 1 .. Len(w) /\ Len(w) \in n .. Len(w)
    BY <1>4
  <2>2. h \o r = SubSeq(w, 1, Len(w))
    BY <1>4, <2>1, ConcatAdjacentSubSeq
  <2> QED
    BY <1>4, <2>2, SubSeqFull
<1> HIDE DEF h, r
<1>7. /\ inbound'[e] = inbound[e] \o h /\ inbound'[p] = inbound[p]
      /\ wire'[p] = r /\ wire'[e] = wire[e] /\ outbound' = outbound
  BY <1>1, <1>2, <1>3 DEF Typed, h, r
<1>8. Typed'
  <2>1. inbound[e] \o h \in Seq(Pieces)
    BY <1>4, <1>5, ConcatProperties
  <2>2. inbound' \in [Ends -> Seq(Pieces)] /\ wire' \in [Ends -> Seq(Pieces)]
    BY <1>1, <1>3, <1>5, <2>1 DEF Typed, h, r
  <2>3. \A f \in Ends : Len(wire'[f]) <= Room
    <3>1. Len(w) <= Room /\ Len(wire[e]) <= Room /\ Room \in Nat /\ Len(r) \in Nat
      BY <1>3, <1>5, LenProperties, GatewayAssumption DEF Typed
    <3>2. Len(wire'[p]) <= Room
      BY <1>4, <1>5, <1>7, <3>1
    <3> QED
      BY <1>7, <3>1, <3>2, Peers
  <2> QED
    BY <1>2, <1>3, <2>2, <2>3 DEF Typed
<1>9. UnderWay(e)' = UnderWay(e)
  BY <1>7 DEF UnderWay
<1>10. UnderWay(p)' = UnderWay(p)
  <2>1. UnderWay(p)' = ((inbound[e] \o h) \o r) \o outbound[p]
    BY <1>3, <1>7 DEF UnderWay
  <2>2. UnderWay(p) = (inbound[e] \o (h \o r)) \o outbound[p]
    BY <1>3, <1>6 DEF UnderWay
  <2>3. \A x, y, z \in Seq(Pieces) : (x \o y) \o z = x \o (y \o z)
    BY ConcatAssociative
  <2>4. (inbound[e] \o h) \o r = inbound[e] \o (h \o r)
    BY <1>4, <1>5, <2>3, Zenon
  <2> QED
    BY <2>1, <2>2, <2>4
<1>11. \A f \in Ends : UnderWay(f)' = UnderWay(f) /\ Len(UnderWay(f)) \in Nat
  BY <1>3, <1>9, <1>10, Line, Peers
<1>12. \A f \in Ends : Len(UnderWay(f)') <= Len(UnderWay(f))
  BY <1>11
<1> QED
  BY <1>2, <1>8, <1>11, <1>12, NoMessageLineInv

\* The first message of the bytes an end has, and the bytes behind it.
LEMMA MessageOf ==
  ASSUME Typed, NEW e \in Ends, HasMessage(e)
  PROVE  /\ Bytes(e) \in Seq(Pieces) /\ Rest(e) \in Seq(Pieces) /\ Len(Bytes(e)) = FrameUnits
         /\ inbound[e] = Bytes(e) \o Rest(e)
<1> DEFINE b == inbound[e]
<1>1. b \in Seq(Pieces) /\ Len(b) \in Nat /\ FrameUnits \in Nat \ {0} /\ FrameUnits <= Len(b)
  BY Line, GatewayAssumption DEF HasMessage
<1>2. \A i \in 1 .. Len(b) : b[i] \in Pieces
  BY <1>1, ElementOfSeq
<1> HIDE DEF b
<1>3. SubSeq(b, 1, FrameUnits) \in Seq(Pieces) /\ Len(SubSeq(b, 1, FrameUnits)) = FrameUnits
  BY <1>1, <1>2, SubSeqProperties
<1>4. SubSeq(b, FrameUnits + 1, Len(b)) \in Seq(Pieces)
  BY <1>1, <1>2, SubSeqProperties
<1>5. b = SubSeq(b, 1, FrameUnits) \o SubSeq(b, FrameUnits + 1, Len(b))
  <2>1. 1 \in 1 .. Len(b) + 1 /\ FrameUnits \in 1 - 1 .. Len(b) /\ Len(b) \in FrameUnits .. Len(b)
    BY <1>1
  <2>2. SubSeq(b, 1, FrameUnits) \o SubSeq(b, FrameUnits + 1, Len(b)) = SubSeq(b, 1, Len(b))
    BY <1>1, <2>1, ConcatAdjacentSubSeq
  <2> QED
    BY <1>1, <2>2, SubSeqFull
<1> QED
  BY <1>3, <1>4, <1>5 DEF Bytes, Rest, b

\* The line that ends there begins with the message.
LEMMA MessageFirst ==
  ASSUME Typed, NEW e \in Ends, HasMessage(e), NEW u,
         u = (Rest(e) \o wire[Peer(e)]) \o outbound[Peer(e)]
  PROVE  /\ UnderWay(Peer(e)) = Bytes(e) \o u
         /\ u \in Seq(Pieces) /\ Len(u) \in Nat
         /\ Len(UnderWay(Peer(e))) = FrameUnits + Len(u)
         /\ \A k \in 1 .. FrameUnits : UnderWay(Peer(e))[k] = Bytes(e)[k]
         /\ \A k \in 1 .. Len(u) : UnderWay(Peer(e))[FrameUnits + k] = u[k]
<1> DEFINE b == Bytes(e)
           r == Rest(e)
           w == wire[Peer(e)]
           o == outbound[Peer(e)]
<1>1. /\ b \in Seq(Pieces) /\ r \in Seq(Pieces) /\ Len(b) = FrameUnits /\ inbound[e] = b \o r
      /\ w \in Seq(Pieces) /\ o \in Seq(Pieces) /\ FrameUnits \in Nat
  BY MessageOf, Line, Peers, GatewayAssumption
<1>2. UnderWay(Peer(e)) = ((b \o r) \o w) \o o
  BY <1>1, Peers DEF UnderWay
<1> HIDE DEF b, r, w, o
<1>3. r \o w \in Seq(Pieces) /\ (r \o w) \o o \in Seq(Pieces)
  BY <1>1, ConcatProperties
<1>4. u \in Seq(Pieces) /\ Len(u) \in Nat
  <2>1. u \in Seq(Pieces)
    BY <1>3 DEF r, w, o
  <2> QED
    BY <2>1, LenProperties
<1>5. UnderWay(Peer(e)) = b \o u
  <2>1. \A x, y, z \in Seq(Pieces) : (x \o y) \o z = x \o (y \o z)
    BY ConcatAssociative
  <2>2. (b \o r) \o w = b \o (r \o w)
    BY <1>1, <2>1, Zenon
  <2>3. (b \o (r \o w)) \o o = b \o ((r \o w) \o o)
    BY <1>1, <1>3, <2>1, Zenon
  <2> QED
    BY <1>2, <2>2, <2>3 DEF r, w, o
<1> DEFINE l == Len(u)
           c == b \o u
<1>6. /\ Len(c) = FrameUnits + l
      /\ \A k \in 1 .. FrameUnits + l : c[k] = IF k <= FrameUnits THEN b[k] ELSE u[k - FrameUnits]
  <2>1. /\ Len(b \o u) = Len(b) + Len(u)
        /\ \A k \in 1 .. Len(b) + Len(u) : (b \o u)[k] = IF k <= Len(b) THEN b[k] ELSE u[k - Len(b)]
    BY <1>1, <1>4, ConcatProperties
  <2>2. Len(b) = FrameUnits
    BY <1>1
  <2> HIDE DEF b
  <2> QED
    BY <2>1, <2>2, Zenon
<1>7. l \in Nat /\ FrameUnits \in Nat
  BY <1>1, <1>4
<1> HIDE DEF l, c
<1>8. ASSUME NEW k \in 1 .. FrameUnits PROVE c[k] = b[k]
  <2>1. k \in 1 .. FrameUnits + l /\ k <= FrameUnits
    BY <1>7
  <2> QED
    BY <1>6, <2>1
<1>9. ASSUME NEW k \in 1 .. l PROVE c[FrameUnits + k] = u[k]
  <2>1. /\ FrameUnits + k \in 1 .. FrameUnits + l /\ ~ (FrameUnits + k <= FrameUnits)
        /\ (FrameUnits + k) - FrameUnits = k
    BY <1>7
  <2> QED
    BY <1>6, <2>1
<1> QED
  BY <1>4, <1>5, <1>6, <1>8, <1>9 DEF b, c, l

\* Until something is cut, it is the one expected.
LEMMA MessageExpected ==
  ASSUME LineInv, ~cut, NEW e \in Ends, HasMessage(e)
  PROVE  Number(e) = expSeq[e]
<1> DEFINE p == Peer(e)
           t == Len(taken[e])
           n == t + 1
<1>1. /\ Typed /\ Counted /\ p \in Ends /\ Peer(p) = e /\ InLine(p) /\ expSeq[e] = n
      /\ FrameUnits \in Nat \ {0} /\ t \in Nat /\ Count \in Nat /\ n = t + 1
  BY Peers, Line, GatewayAssumption DEF LineInv, Counted
<1> HIDE DEF n
<1>2. /\ Bytes(e) \in Seq(Pieces) /\ Len(Bytes(e)) = FrameUnits
      /\ FrameUnits <= Len(UnderWay(p)) /\ Len(UnderWay(p)) \in Nat
      /\ \A k \in 1 .. FrameUnits : UnderWay(p)[k] = Bytes(e)[k]
  <2> DEFINE u == (Rest(e) \o wire[p]) \o outbound[p]
  <2>1. /\ Len(u) \in Nat /\ Len(UnderWay(p)) = FrameUnits + Len(u)
        /\ \A k \in 1 .. FrameUnits : UnderWay(p)[k] = Bytes(e)[k]
    BY <1>1, MessageFirst
  <2>2. Bytes(e) \in Seq(Pieces) /\ Len(Bytes(e)) = FrameUnits
    BY <1>1, MessageOf
  <2> DEFINE l == Len(u)
  <2>3. l \in Nat /\ Len(UnderWay(p)) = FrameUnits + l
    BY <2>1
  <2> HIDE DEF l
  <2>4. FrameUnits <= Len(UnderWay(p)) /\ Len(UnderWay(p)) \in Nat
    BY <1>1, <2>3
  <2> QED
    BY <2>1, <2>2, <2>4
<1>3. n \in 1 .. Count
  <2>1. outSeq[p] \in Nat \ {0} /\ queued[p] \in Nat /\ queued[p] + (outSeq[p] - 1) <= Count
    BY <1>1, Line, NoMoreThanAsked
  <2>2. Len(UnderWay(p)) = FrameUnits * (outSeq[p] - 1) - FrameUnits * t
    BY <1>1 DEF InLine, All, Before
  <2>3. FrameUnits * n <= FrameUnits * (outSeq[p] - 1)
    <3>1. FrameUnits * n = FrameUnits * t + FrameUnits
      BY <1>1
    <3> DEFINE x == FrameUnits * t
               y == FrameUnits * (outSeq[p] - 1)
               z == FrameUnits * n
               l == Len(UnderWay(p))
    <3>2. x \in Int /\ y \in Int
      BY <1>1, <2>1
    <3>3. l \in Nat /\ FrameUnits <= l /\ l = y - x /\ z = x + FrameUnits
      BY <1>2, <2>2, <3>1
    <3>4. FrameUnits \in Nat
      BY <1>1
    <3> HIDE DEF x, y, z, l
    <3>5. z <= y
      BY <3>2, <3>3, <3>4
    <3> QED
      BY <1>1, <2>1, <3>5 DEF y, z
  <2>4. n <= outSeq[p] - 1
    <3>1. n \in Nat /\ outSeq[p] - 1 \in Nat
      BY <1>1, <2>1
    <3> QED
      BY <2>3, <3>1, FewerMessages
  <2> QED
    BY <1>1, <2>1, <2>4
<1>4. ASSUME NEW k \in 1 .. FrameUnits PROVE Bytes(e)[k] = <<n, k>>
  <2>1. UnderWay(p)[k] = Piece(Before(p) + k)
    <3>1. k \in 1 .. Len(UnderWay(p))
      BY <1>1, <1>2
    <3> QED
      BY <1>1, <3>1 DEF InLine
  <2>2. Before(p) = FrameUnits * t
    BY <1>1 DEF Before
  <2>3. Piece(FrameUnits * t + k) = <<n, k>>
    BY <1>1, PieceOfMessage
  <2> QED
    BY <1>1, <1>2, <2>1, <2>2, <2>3
<1>5. Bytes(e) = Frame(n)
  <2>1. /\ Frame(n) \in Seq(Pieces) /\ Len(Frame(n)) = FrameUnits
        /\ \A k \in 1 .. FrameUnits : Frame(n)[k] = <<n, k>>
    BY <1>3, FrameIs
  <2>2. Len(Bytes(e)) = Len(Frame(n)) /\ \A k \in 1 .. Len(Bytes(e)) : Bytes(e)[k] = Frame(n)[k]
    BY <1>2, <1>4, <2>1
  <2> QED
    BY <1>2, <2>1, <2>2, SeqEqual
<1>6. Number(e) = Bytes(e)[1][1]
  BY <1>3, <1>5 DEF Number
<1>7. Bytes(e)[1] = <<n, 1>>
  BY <1>1, <1>4
<1> QED
  BY <1>1, <1>6, <1>7

LEMMA DropLineInv ==
  ASSUME LineInv, NEW e \in Ends, Drop(e)
  PROVE  LineInv'
<1> DEFINE p == Peer(e)
           u == (Rest(e) \o wire[p]) \o outbound[p]
<1>1. /\ HasMessage(e) /\ inbound' = [inbound EXCEPT ![e] = Rest(e)]
      /\ UNCHANGED <<up, down, asked, queued, outSeq, expSeq, outbound, wire, taken, cut>>
  BY DEF Drop
<1>2. Typed /\ p \in Ends /\ Peer(p) = e /\ p # e
  BY Peers DEF LineInv
<1>3. cut
  BY <1>1, MessageExpected DEF Drop
<1>4. inbound'[e] = Rest(e) /\ inbound'[p] = inbound[p] /\ Rest(e) \in Seq(Pieces)
  BY <1>1, <1>2, MessageOf DEF Typed
<1>5. Typed'
  BY <1>1, <1>2, <1>4 DEF Typed
<1>6. UnderWay(e)' = UnderWay(e)
  BY <1>1, <1>4 DEF UnderWay
<1>7. UnderWay(p)' = u
  BY <1>1, <1>2, <1>4 DEF UnderWay
<1>8. Len(u) <= Len(UnderWay(p)) /\ Len(UnderWay(e)) \in Nat
  <2> DEFINE l == Len(u)
  <2>1. l \in Nat /\ Len(UnderWay(p)) = FrameUnits + l
    BY <1>1, <1>2, MessageFirst
  <2> HIDE DEF l
  <2>2. l <= Len(UnderWay(p))
    BY <2>1, GatewayAssumption
  <2> QED
    BY <1>2, <2>2, Line DEF l
<1> HIDE DEF u
<1>9. \A f \in Ends : Len(UnderWay(f)') <= Len(UnderWay(f))
  <2>1. Len(UnderWay(e)') <= Len(UnderWay(e))
    BY <1>6, <1>8
  <2>2. Len(UnderWay(p)') <= Len(UnderWay(p))
    BY <1>7, <1>8
  <2> QED
    BY <2>1, <2>2, Peers
<1> QED
  BY <1>1, <1>3, <1>5, <1>9, NoMessageLineInv

LEMMA TakeLineInv ==
  ASSUME LineInv, NEW e \in Ends, Take(e)
  PROVE  LineInv'
<1> DEFINE p == Peer(e)
           n == Number(e)
           u == (Rest(e) \o wire[p]) \o outbound[p]
           l == Len(u)
<1>1. /\ HasMessage(e) /\ inbound' = [inbound EXCEPT ![e] = Rest(e)]
      /\ taken' = [taken EXCEPT ![e] = Append(@, n)] /\ expSeq' = [expSeq EXCEPT ![e] = @ + 1]
      /\ queued' = IF e = "exchange" THEN [queued EXCEPT ![e] = @ + 1] ELSE queued
      /\ UNCHANGED <<up, down, asked, outSeq, outbound, wire, cut>>
  BY DEF Take
<1>2. Typed /\ Counted /\ p \in Ends /\ Peer(p) = e /\ p # e /\ FrameUnits \in Nat /\ Count \in Nat
  BY Peers, GatewayAssumption DEF LineInv
<1>3. inbound'[e] = Rest(e) /\ inbound'[p] = inbound[p] /\ Rest(e) \in Seq(Pieces)
  BY <1>1, <1>2, MessageOf DEF Typed
<1>4. n \in 0 .. Count
  <2>1. CASE \E m \in 1 .. Count : Bytes(e) = Frame(m)
    <3>1. PICK m \in 1 .. Count : Bytes(e) = Frame(m)
      BY <2>1
    <3>2. Frame(m)[1][1] = m
      BY GatewayAssumption DEF Frame
    <3> QED
      BY <1>2, <2>1, <3>1, <3>2 DEF Number
  <2>2. CASE ~ \E m \in 1 .. Count : Bytes(e) = Frame(m)
    BY <1>2, <2>2 DEF Number
  <2> QED
    BY <2>1, <2>2
<1> HIDE DEF n
<1>5. /\ taken'[e] \in Seq(0 .. Count) /\ taken'[p] = taken[p]
      /\ Len(taken'[e]) = Len(taken[e]) + 1 /\ Len(taken[e]) \in Nat
  <2>1. taken[e] \in Seq(0 .. Count) /\ taken'[e] = Append(taken[e], n)
    BY <1>1, <1>2 DEF Typed
  <2> QED
    BY <1>1, <1>2, <1>4, <2>1, AppendProperties, LenProperties DEF Typed
<1>6. Typed'
  <2>1. taken' \in [Ends -> Seq(0 .. Count)]
    BY <1>1, <1>2, <1>5 DEF Typed
  <2>2. inbound' \in [Ends -> Seq(Pieces)]
    BY <1>1, <1>2, <1>3 DEF Typed
  <2>3. queued' \in [Ends -> Nat]
    <3>1. queued \in [Ends -> Nat]
      BY <1>2 DEF Typed
    <3>2. [queued EXCEPT ![e] = @ + 1] \in [Ends -> Nat]
      BY <3>1
    <3> QED
      BY <1>1, <3>1, <3>2
  <2>4. expSeq' \in [Ends -> Nat]
    <3>1. expSeq \in [Ends -> Nat] /\ expSeq' = [expSeq EXCEPT ![e] = @ + 1]
      BY <1>1, <1>2 DEF Typed
    <3> QED
      BY <3>1
  <2> QED
    BY <1>1, <1>2, <2>1, <2>2, <2>3, <2>4 DEF Typed
<1>7. UnderWay(e)' = UnderWay(e) /\ UnderWay(p)' = u
  BY <1>1, <1>2, <1>3 DEF UnderWay
<1>8. /\ l \in Nat /\ Len(UnderWay(p)) = FrameUnits + l
      /\ \A k \in 1 .. l : UnderWay(p)[FrameUnits + k] = u[k]
  BY <1>1, <1>2, MessageFirst
<1>9. All(e)' = All(e) /\ Before(e)' = Before(e) /\ (InLine(e) => InLine(e)')
  BY <1>1, <1>5, <1>7, LineKept
<1>10. /\ All(p)' = All(p) /\ Before(p)' = Before(p) + FrameUnits
       /\ All(p) \in Nat /\ Before(p) \in Nat
  <2>1. FrameUnits * (Len(taken[e]) + 1) = FrameUnits * Len(taken[e]) + FrameUnits
    BY <1>2, <1>5
  <2> QED
    BY <1>1, <1>2, <1>5, <2>1, Line DEF All, Before
<1>11. Len(UnderWay(p)') = l
  BY <1>7
<1> HIDE DEF u, l
<1>12. Counted'
  <2>1. Len(UnderWay(e)') <= All(e)' - Before(e)'
    BY <1>2, <1>7, <1>9 DEF Counted
  <2>2. Len(UnderWay(p)') <= All(p)' - Before(p)'
    <3>1. FrameUnits + l <= All(p) - Before(p)
      BY <1>2, <1>8 DEF Counted
    <3>2. l <= All(p) - (Before(p) + FrameUnits)
      BY <1>2, <1>8, <1>10, <3>1
    <3> QED
      BY <1>10, <1>11, <3>2
  <2>3. \A f \in Ends : Len(UnderWay(f)') <= All(f)' - Before(f)'
    BY <2>1, <2>2, Peers
  <2>4. \A f \in Ends : expSeq'[f] = Len(taken'[f]) + 1
    <3>1. expSeq'[e] = Len(taken'[e]) + 1
      BY <1>1, <1>2, <1>5 DEF Typed, Counted
    <3>2. expSeq'[p] = Len(taken'[p]) + 1
      BY <1>1, <1>2, <1>5 DEF Typed, Counted
    <3> QED
      BY <3>1, <3>2, Peers
  <2>5. asked' = queued'["gateway"] + (outSeq'["gateway"] - 1)
    <3>1. queued'["gateway"] = queued["gateway"]
      BY <1>1, <1>2 DEF Typed, Ends
    <3> QED
      BY <1>1, <1>2, <3>1 DEF Counted
  <2>6. Len(taken'["exchange"]) = queued'["exchange"] + (outSeq'["exchange"] - 1)
    <3>1. CASE e = "exchange"
      <4>1. /\ Len(taken[e]) = queued[e] + (outSeq[e] - 1) /\ queued[e] \in Nat
            /\ outSeq[e] \in Nat \ {0} /\ queued'[e] = queued[e] + 1 /\ outSeq'[e] = outSeq[e]
        BY <1>1, <1>2, <3>1 DEF Typed, Counted
      <4> QED
        BY <1>5, <3>1, <4>1
    <3>2. CASE e # "exchange"
      <4>1. p = "exchange" /\ queued' = queued
        BY <1>1, <1>2, <3>2 DEF Ends
      <4> QED
        BY <1>1, <1>2, <1>5, <4>1 DEF Counted
    <3> QED
      BY <3>1, <3>2
  <2> QED
    BY <2>3, <2>4, <2>5, <2>6 DEF Counted
<1>13. ASSUME ~cut' PROVE \A f \in Ends : InLine(f)'
  <2>1. InLine(e) /\ InLine(p)
    BY <1>1, <1>2, <1>13 DEF LineInv
  <2>2. Len(UnderWay(p)') = All(p)' - Before(p)'
    <3>1. FrameUnits + l = All(p) - Before(p)
      BY <1>8, <2>1 DEF InLine
    <3>2. l = All(p) - (Before(p) + FrameUnits)
      BY <1>2, <1>8, <1>10, <3>1
    <3> QED
      BY <1>10, <1>11, <3>2
  <2>3. ASSUME NEW k \in 1 .. Len(UnderWay(p)') PROVE UnderWay(p)'[k] = Piece(Before(p)' + k)
    <3>1. k \in 1 .. l /\ k \in Nat /\ FrameUnits + k \in 1 .. FrameUnits + l
      BY <1>2, <1>8, <1>11
    <3>2. UnderWay(p)'[k] = UnderWay(p)[FrameUnits + k]
      BY <1>7, <1>8, <3>1
    <3>3. UnderWay(p)[FrameUnits + k] = Piece(Before(p) + (FrameUnits + k))
      BY <1>8, <2>1, <3>1 DEF InLine
    <3>4. Before(p) + (FrameUnits + k) = Before(p)' + k
      BY <1>2, <1>10, <3>1
    <3> QED
      BY <3>2, <3>3, <3>4
  <2> QED
    BY <1>9, <2>1, <2>2, <2>3, Peers DEF InLine
<1> QED
  BY <1>6, <1>12, <1>13 DEF LineInv

LEMMA InitLineInv == Init => LineInv
<1> SUFFICES ASSUME Init PROVE LineInv
  OBVIOUS
<1>1. Typed
  <2>1. <<>> \in Seq(Pieces) /\ <<>> \in Seq(0 .. Count) /\ Len(<<>>) = 0
    BY EmptySeq
  <2>2. outbound \in [Ends -> Seq(Pieces)] /\ wire \in [Ends -> Seq(Pieces)]
        /\ inbound \in [Ends -> Seq(Pieces)] /\ taken \in [Ends -> Seq(0 .. Count)]
    BY <2>1 DEF Init
  <2>3. \A e \in Ends : Len(wire[e]) <= Room
    BY <2>1, GatewayAssumption DEF Init
  <2>4. queued \in [Ends -> Nat] /\ outSeq \in [Ends -> Nat \ {0}] /\ expSeq \in [Ends -> Nat]
    BY DEF Init
  <2>5. asked \in 0 .. Count
    <3>1. asked = 0 /\ Count \in Nat
      BY GatewayAssumption DEF Init
    <3> QED
      BY ONLY <3>1
  <2>6. up \in BOOLEAN /\ down \subseteq Ends /\ cut \in BOOLEAN
    BY DEF Init
  <2> QED
    BY <2>2, <2>3, <2>4, <2>5, <2>6 DEF Typed
<1>2. \A e \in Ends : Len(taken[e]) = 0 /\ outSeq[e] = 1 /\ expSeq[e] = 1 /\ queued[e] = 0
  BY EmptySeq DEF Init
<1>3. \A e \in Ends : All(e) = 0 /\ Before(e) = 0 /\ Len(UnderWay(e)) = 0
  <2> SUFFICES ASSUME NEW e \in Ends PROVE All(e) = 0 /\ Before(e) = 0 /\ Len(UnderWay(e)) = 0
    OBVIOUS
  <2>1. All(e) = 0 /\ Before(e) = 0
    BY <1>2, Peers, GatewayAssumption DEF All, Before
  <2>2. Len(inbound[Peer(e)]) = 0 /\ Len(wire[e]) = 0 /\ Len(outbound[e]) = 0
    BY Peers, EmptySeq DEF Init
  <2>3. Len(UnderWay(e)) = Len(inbound[Peer(e)]) + Len(wire[e]) + Len(outbound[e])
    BY <1>1, Line
  <2> QED
    BY <2>1, <2>2, <2>3
<1>4. asked = 0 /\ "gateway" \in Ends /\ "exchange" \in Ends
  BY DEF Init, Ends
<1>5. Counted
  <2>1. \A e \in Ends : Len(UnderWay(e)) <= All(e) - Before(e)
    BY <1>3
  <2> QED
    BY <1>2, <1>4, <2>1 DEF Counted
<1>6. \A e \in Ends : InLine(e)
  BY <1>3 DEF InLine
<1> QED
  BY <1>1, <1>5, <1>6 DEF LineInv

LEMMA NextLineInv == LineInv /\ [Next]_vars => LineInv'
<1> SUFFICES ASSUME LineInv, [Next]_vars PROVE LineInv'
  OBVIOUS
<1> DEFINE Still == UNCHANGED <<outSeq, expSeq, outbound, wire, inbound, taken, cut>>
<1>1. ASSUME Still PROVE \A f \in Ends : UnderWay(f)' = UnderWay(f) /\ Len(UnderWay(f)) \in Nat
  BY <1>1, Line DEF LineInv, UnderWay
<1>2. CASE Ask
  <2>1. /\ asked < Count /\ asked' = asked + 1 /\ queued' = [queued EXCEPT !["gateway"] = @ + 1]
        /\ UNCHANGED <<up, down>> /\ Still
    BY <1>2 DEF Ask
  <2>2. "gateway" \in Ends /\ "exchange" \in Ends
    BY DEF Ends
  <2>3. queued'["gateway"] = queued["gateway"] + 1 /\ queued'["exchange"] = queued["exchange"]
        /\ queued' \in [Ends -> Nat] /\ asked' \in 0 .. Count
    BY <2>1, <2>2, GatewayAssumption DEF LineInv, Typed
  <2>4. Typed'
    BY <2>1, <2>3 DEF LineInv, Typed
  <2>5. \A f \in Ends : /\ UnderWay(f)' = UnderWay(f) /\ All(f)' = All(f) /\ Before(f)' = Before(f)
                        /\ (InLine(f) => InLine(f)')
    BY <1>1, <2>1, LineKept
  <2>6. asked' = queued'["gateway"] + (outSeq'["gateway"] - 1)
    <3>1. /\ asked \in Nat /\ queued["gateway"] \in Nat /\ outSeq["gateway"] \in Nat
          /\ asked = queued["gateway"] + (outSeq["gateway"] - 1)
      BY <2>2 DEF LineInv, Typed, Counted
    <3> QED
      BY <2>1, <2>3, <3>1
  <2>7. Counted'
    BY <2>1, <2>3, <2>5, <2>6 DEF LineInv, Counted
  <2> QED
    BY <2>1, <2>4, <2>5, <2>7 DEF LineInv
<1>3. CASE Connect \/ Stop \/ Leave \/ UNCHANGED vars
  <2>1. Still /\ UNCHANGED <<asked, queued>> /\ up' \in BOOLEAN /\ down' \subseteq Ends
    BY <1>3 DEF Connect, Stop, Leave, vars, buffers, LineInv, Typed, Ends
  <2>2. Typed'
    BY <2>1 DEF LineInv, Typed
  <2>3. \A f \in Ends : UnderWay(f)' = UnderWay(f) /\ Len(UnderWay(f)) \in Nat
    BY <1>1, <2>1
  <2>4. \A f \in Ends : Len(UnderWay(f)') <= Len(UnderWay(f))
    BY <2>3
  <2> QED
    BY <2>1, <2>2, <2>3, <2>4, NoMessageLineInv
<1>4. CASE \E e \in Ends : Thread(e)
  BY <1>4, SendLineInv, FlushLineInv, ReceiveLineInv, TakeLineInv, DropLineInv DEF Thread
<1> QED
  BY <1>2, <1>3, <1>4 DEF Next

LEMMA LineInvariance == Spec => []LineInv
  BY InitLineInv, NextLineInv, PTL DEF Spec

\* No queue, number or buffer holds more than the trade engine asked for, or than the kernel
\* has room for, whatever is cut.
THEOREM TypeCorrect == Spec => []TypeOK
<1>1. LineInv => TypeOK
  BY LineTypeOK DEF LineInv
<1> QED
  BY LineInvariance, <1>1, PTL

\* As long as the kernel takes all it is given, what is in the send buffer, on the wire and in
\* the receive buffer is, piece by piece, what was sent and not yet taken (TCPSocket and the
\* recvCallback()s).
THEOREM LineComplete == Spec => []NothingLost
<1>1. LineInv => NothingLost
  <2> SUFFICES ASSUME LineInv, ~cut, NEW e \in Ends
               PROVE  UnderWay(e) = [k \in 1 .. All(e) - Before(e) |-> Piece(Before(e) + k)]
    BY DEF NothingLost, All, Before
  <2>1. InLine(e) /\ UnderWay(e) \in Seq(Pieces)
    BY Line DEF LineInv
  <2>2. UnderWay(e) \in [1 .. All(e) - Before(e) -> Pieces]
    BY <2>1, LenProperties DEF InLine
  <2> QED
    BY <2>1, <2>2 DEF InLine
<1> QED
  BY LineInvariance, <1>1, PTL

\* The exchange ends at a wrong number ("Incorrect sequence number") only when pieces of a
\* message were cut away.
EndsForCause == "exchange" \in down => cut

THEOREM ExchangeEndsForCause == Spec => []EndsForCause
<1>1. Init => EndsForCause
  BY DEF Init, EndsForCause
<1>2. LineInv /\ EndsForCause /\ [Next]_vars => EndsForCause'
  <2> SUFFICES ASSUME LineInv, EndsForCause, [Next]_vars PROVE EndsForCause'
    OBVIOUS
  <2>1. CASE Stop
    <3>1. HasMessage("exchange") /\ Number("exchange") # expSeq["exchange"] /\ cut' = cut
      BY <2>1 DEF Stop
    <3> QED
      BY <3>1, MessageExpected DEF Ends, EndsForCause
  <2>2. CASE Leave
    BY <2>2 DEF Leave, EndsForCause
  <2>3. CASE ~ Stop /\ ~ Leave
    <3>1. down' = down /\ (cut => cut')
      <4>1. CASE \E e \in Ends : Flush(e)
        BY <4>1 DEF Flush
      <4>2. CASE ~ \E e \in Ends : Flush(e)
        BY <2>3, <4>2 DEF Next, vars, buffers, Connect, Ask, Thread, Send, Receive, Take, Drop
      <4> QED
        BY <4>1, <4>2
    <3> QED
      BY <3>1 DEF EndsForCause
  <2> QED
    BY <2>1, <2>2, <2>3
<1> QED
  BY LineInvariance, <1>1, <1>2, PTL DEF Spec
=============================================================================

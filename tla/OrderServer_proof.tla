-------------------------- MODULE OrderServer_proof --------------------------
(***************************************************************************)
(* Proofs about OrderServer, for any number of clients, connections and    *)
(* requests.                                                               *)
(***************************************************************************)
EXTENDS OrderServer, SequenceTheorems, TLAPS

USE DEF client, net, reader, book, engine, answer

-----------------------------------------------------------------------------
(***************************************************************************)
(* The type invariant.                                                     *)
(***************************************************************************)
LEMMA InitType == Init => TypeOK
<1> SUFFICES ASSUME Init PROVE TypeOK
  OBVIOUS
<1>1. ClientsOK /\ WireOK /\ InboxOK
  BY ServerAssumption DEF Init, ClientsOK, WireOK, InboxOK
<1>2. BookOK /\ PendingOK /\ EngineOK /\ AnswersOK
  BY ServerAssumption DEF Init, BookOK, PendingOK, EngineOK, AnswersOK
<1>3. recvSockets \in Seq(Sockets) /\ backlog \in Seq(Sockets) /\ Len(recvSockets) = 0
  BY EmptySeq DEF Init
<1>4. ReaderOK
  BY <1>3 DEF Init, ReaderOK
<1>5. RecvOK
  BY DEF Init, RecvOK
<1> QED
  BY <1>1, <1>2, <1>4, <1>5 DEF TypeOK

\* Which steps change a group of variables.
Arriving ==
  \/ \E c \in Clients, part \in {"none", "unread"} : SendRequest(c, part)
  \/ \E s \in Sockets : Complete(s)
Calling == \E c \in Clients : Connect(c) \/ Establish(c) \/ LoseRequest(c)

LEMMA Changes ==
  ASSUME [Next]_vars
  PROVE  /\ UNCHANGED client \/ Calling \/ Arriving
         /\ UNCHANGED wire \/ Arriving \/ ReadSocket
         /\ UNCHANGED <<backlog, recvSockets, turn, pc>>
              \/ (\E c \in Clients : Establish(c)) \/ Server
         /\ UNCHANGED recv \/ Poll \/ ReadSocket
         /\ UNCHANGED <<inbox, rxTime>> \/ ReadSocket \/ DropForeign \/ TakeRequest
         /\ UNCHANGED <<cidSocket, expSeq>> \/ WrongNumber \/ TakeRequest \/ TooMany
         /\ UNCHANGED pending \/ TakeRequest \/ RecvFinished
         /\ UNCHANGED <<published, consumed>> \/ RecvFinished \/ Engine
         /\ UNCHANGED <<outSeq, responses, outbound, delivered>>
              \/ NextSocket \/ Respond \/ Engine
<1>1. CASE UNCHANGED vars
  BY <1>1 DEF vars
<1>2. CASE Calling
  BY <1>2 DEF Calling, Connect, Establish, LoseRequest
<1>3. CASE Arriving
  BY <1>3 DEF Arriving, SendRequest, Complete
<1>4. CASE Engine
  BY <1>4 DEF Engine
<1>5. CASE Poll \/ ReadSocket \/ NextSocket
  BY <1>5 DEF Poll, ReadSocket, NextSocket, Server
<1>6. CASE DropForeign \/ WrongNumber \/ TakeRequest \/ TooMany
  BY <1>6 DEF DropForeign, WrongNumber, TakeRequest, TooMany, Server
<1>7. CASE RecvFinished \/ Respond \/ RespondEnds
  BY <1>7 DEF RecvFinished, Respond, RespondEnds, Server
<1> QED
  BY <1>1, <1>2, <1>3, <1>4, <1>5, <1>6, <1>7 DEF Next, Server, Environment, Calling, Arriving

LEMMA ClientsType == ASSUME TypeOK, [Next]_vars PROVE ClientsOK'
<1>1. ASSUME NEW c \in Clients, Connect(c) PROVE ClientsOK'
  <2>1. (CHOOSE s \in Unused(c) : TRUE) \in Sockets
    BY <1>1 DEF Connect, Unused
  <2> QED
    BY <1>1, <2>1, ServerAssumption DEF Connect, TypeOK, ClientsOK
<1>2. ASSUME NEW c \in Clients, Establish(c) PROVE ClientsOK'
  BY <1>2 DEF Establish, TypeOK, ClientsOK
<1>3. ASSUME NEW c \in Clients, LoseRequest(c) PROVE ClientsOK'
  BY <1>3, ServerAssumption DEF LoseRequest, Count, TypeOK, ClientsOK
<1>4. ASSUME NEW c \in Clients, NEW part, SendRequest(c, part) PROVE ClientsOK'
  BY <1>4, ServerAssumption DEF SendRequest, Count, Tick, TypeOK, ClientsOK
<1>5. ASSUME NEW s \in Sockets, Complete(s) PROVE ClientsOK'
  BY <1>5, ServerAssumption DEF Complete, Tick, TypeOK, ClientsOK
<1>6. CASE UNCHANGED client
  BY <1>6 DEF TypeOK, ClientsOK
<1> QED
  BY <1>1, <1>2, <1>3, <1>4, <1>5, <1>6, Changes DEF Calling, Arriving

\* What a request that is sent adds to its connection.
LEMMA Sending ==
  ASSUME TypeOK, NEW c \in Clients, NEW part \in {"none", "unread"}, SendRequest(c, part)
  PROVE  /\ conn[c] \in Sockets /\ Arrival(c, part) \in Arrivals
         /\ wire' = [wire EXCEPT ![conn[c]] = Append(@, Arrival(c, part))]
<1>1. conn[c] \in Sockets /\ now' \in 0 .. MaxTime /\ sent[c] + 1 \in 1 .. MaxSeq
  BY ServerAssumption DEF SendRequest, Count, Tick, TypeOK, ClientsOK
<1> QED
  BY <1>1 DEF SendRequest, Arrival, Arrivals

\* What the end of a request makes of the last element of a connection.
LEMMA Completed ==
  ASSUME TypeOK, NEW s \in Sockets, Complete(s)
  PROVE  /\ Len(wire[s]) \in 1 .. Len(wire[s])
         /\ LET last == [wire[s][Len(wire[s])] EXCEPT !.part = "none", !.at = now'] IN
            /\ last \in Arrivals
            /\ wire' = [wire EXCEPT ![s] = [@ EXCEPT ![Len(wire[s])] = last]]
<1>1. wire[s] \in Seq(Arrivals) /\ wire[s] # <<>>
  BY DEF Complete, Whole, TypeOK, WireOK
<1>2. Len(wire[s]) \in 1 .. Len(wire[s])
  BY <1>1
<1>3. wire[s][Len(wire[s])] \in Arrivals
  BY <1>1, <1>2, ElementOfSeq
<1>4. now' \in 0 .. MaxTime
  BY ServerAssumption DEF Complete, Tick, TypeOK, ClientsOK
<1>5. [wire[s][Len(wire[s])] EXCEPT !.part = "none", !.at = now'] \in Arrivals
  BY <1>3, <1>4 DEF Arrivals
<1>6. wire' = [wire EXCEPT ![s] = [@ EXCEPT ![Len(wire[s])] =
                 [wire[s][Len(wire[s])] EXCEPT !.part = "none", !.at = now']]]
  BY <1>2, <1>3 DEF Complete, TypeOK, WireOK, Arrivals
<1> QED
  BY <1>2, <1>5, <1>6

\* What a read takes out of a connection and leaves there.
LEMMA ReadParts ==
  ASSUME TypeOK, NEW s \in Sockets, Readable(s)
  PROVE  /\ wire[s] \in Seq(Arrivals) /\ Len(wire[s]) \in 1 .. Len(wire[s])
         /\ wire[s][Len(wire[s])] \in Arrivals
         /\ WholeRequests(s) \in Seq(Arrivals) /\ LeftOver(s) \in Seq(Arrivals)
         /\ Len(WholeRequests(s)) <= Len(wire[s])
         /\ \A i \in 1 .. Len(WholeRequests(s)) : WholeRequests(s)[i] = wire[s][i]
         /\ \A i \in 1 .. Len(LeftOver(s)) :
              LeftOver(s)[i] = [wire[s][Len(wire[s])] EXCEPT !.part = "read"]
         /\ LeftOver(s) # <<>> => Len(WholeRequests(s)) = Len(wire[s]) - 1
<1> DEFINE w == wire[s]
           n == Len(w)
<1>1. w \in Seq(Arrivals) /\ w # <<>>
  BY DEF Readable, TypeOK, WireOK
<1>2. n \in 1 .. n /\ n \in Nat
  BY <1>1
<1>3. \A i \in 1 .. n : w[i] \in Arrivals
  BY <1>1, ElementOfSeq
<1>4. /\ SubSeq(w, 1, n - 1) \in Seq(Arrivals)
      /\ Len(SubSeq(w, 1, n - 1)) = n - 1
      /\ \A i \in 1 .. n - 1 : SubSeq(w, 1, n - 1)[i] = w[i]
  BY <1>2, <1>3, SubSeqProperties
<1>5. [w[n] EXCEPT !.part = "read"] \in Arrivals
  BY <1>2, <1>3 DEF Arrivals
<1>6. WholeRequests(s) \in Seq(Arrivals) /\ Len(WholeRequests(s)) <= n
        /\ \A i \in 1 .. Len(WholeRequests(s)) : WholeRequests(s)[i] = w[i]
  BY <1>1, <1>2, <1>4 DEF WholeRequests
<1>7. LeftOver(s) \in Seq(Arrivals)
        /\ \A i \in 1 .. Len(LeftOver(s)) : LeftOver(s)[i] = [w[n] EXCEPT !.part = "read"]
  BY <1>5 DEF LeftOver
<1>8. LeftOver(s) # <<>> => Len(WholeRequests(s)) = n - 1
  BY <1>4 DEF LeftOver, WholeRequests
<1> QED
  BY <1>1, <1>2, <1>3, <1>6, <1>7, <1>8

LEMMA SocketType ==
  ASSUME TypeOK, turn <= Len(recvSockets)
  PROVE  Socket \in Sockets
<1>1. recvSockets \in Seq(Sockets) /\ turn \in 1 .. Len(recvSockets)
  BY DEF TypeOK, ReaderOK
<1> QED
  BY <1>1, ElementOfSeq DEF Socket

LEMMA WireType == ASSUME TypeOK, [Next]_vars PROVE WireOK'
<1> SUFFICES ASSUME wire \in [Sockets -> Seq(Arrivals)] PROVE WireOK'
  BY DEF TypeOK, WireOK
<1>1. ASSUME NEW c \in Clients, NEW part \in {"none", "unread"}, SendRequest(c, part) PROVE WireOK'
  <2>1. PICK s \in Sockets, new \in Arrivals : wire' = [wire EXCEPT ![s] = Append(@, new)]
    BY <1>1, Sending
  <2>2. Append(wire[s], new) \in Seq(Arrivals)
    BY AppendProperties
  <2> QED
    BY <2>1, <2>2 DEF WireOK
<1>2. ASSUME NEW s \in Sockets, Complete(s) PROVE WireOK'
  <2>1. PICK last \in Arrivals : wire' = [wire EXCEPT ![s] = [@ EXCEPT ![Len(wire[s])] = last]]
    BY <1>2, Completed
  <2>2. [wire[s] EXCEPT ![Len(wire[s])] = last] \in Seq(Arrivals)
    BY <1>2, Completed, ExceptSeq
  <2> QED
    BY <2>1, <2>2 DEF WireOK
<1>3. CASE ReadSocket
  <2>1. Socket \in Sockets /\ LeftOver(Socket) \in Seq(Arrivals)
    BY <1>3, SocketType, ReadParts DEF ReadSocket
  <2> QED
    BY <1>3, <2>1 DEF ReadSocket, WireOK
<1>4. CASE UNCHANGED wire
  BY <1>4 DEF WireOK
<1> QED
  BY <1>1, <1>2, <1>3, <1>4, Changes DEF Arriving

LEMMA ReaderType == ASSUME TypeOK, [Next]_vars PROVE ReaderOK'
<1> USE DEF ReaderOK
<1>1. ASSUME NEW c \in Clients, Establish(c) PROVE ReaderOK'
  BY <1>1 DEF Establish, TypeOK
<1>2. CASE Poll
  <2>1. recvSockets \o backlog \in Seq(Sockets)
    BY ConcatProperties DEF TypeOK
  <2>2. Len(recvSockets \o backlog) \in Nat
    BY <2>1, LenProperties
  <2> QED
    BY <1>2, <2>1, <2>2 DEF Poll, TypeOK
<1>3. CASE ReadSocket \/ NextSocket
  BY <1>3 DEF ReadSocket, NextSocket, TypeOK
<1>4. CASE DropForeign \/ WrongNumber \/ TakeRequest \/ TooMany
  BY <1>4 DEF DropForeign, WrongNumber, TakeRequest, TooMany, TypeOK
<1>5. CASE RecvFinished \/ Respond \/ RespondEnds
  BY <1>5 DEF RecvFinished, Respond, RespondEnds, TypeOK
<1>6. CASE UNCHANGED <<backlog, recvSockets, turn, pc>>
  BY <1>6 DEF TypeOK
<1> QED
  BY <1>1, <1>2, <1>3, <1>4, <1>5, <1>6, Changes DEF Server

LEMMA RecvType == ASSUME TypeOK, [Next]_vars PROVE RecvOK'
<1>1. recv' = recv \/ recv' = FALSE \/ recv' = TRUE
  BY Changes, Zenon DEF Poll, ReadSocket
<1> QED
  BY <1>1 DEF TypeOK, RecvOK

\* The request recvCallback() looks at.
LEMMA RequestType ==
  ASSUME TypeOK, inbox # <<>>
  PROVE  /\ Request \in Arrivals /\ Request = inbox[1] /\ Len(inbox) \in Nat \ {0}
         /\ Tail(inbox) \in Seq(Arrivals) /\ Len(Tail(inbox)) = Len(inbox) - 1
         /\ \A i \in 1 .. Len(Tail(inbox)) : Tail(inbox)[i] = inbox[i + 1]
  BY HeadTailProperties, EmptySeq DEF TypeOK, InboxOK, Request

LEMMA InboxType == ASSUME TypeOK, [Next]_vars PROVE InboxOK'
<1>1. CASE ReadSocket
  <2>1. Socket \in Sockets /\ Readable(Socket)
    BY <1>1, SocketType DEF ReadSocket
  <2> QED
    BY <1>1, <2>1, ReadParts DEF ReadSocket, Arrivals, InboxOK
<1>2. CASE DropForeign \/ TakeRequest
  BY <1>2, RequestType DEF DropForeign, TakeRequest, Expected, TypeOK, InboxOK
<1>3. CASE UNCHANGED <<inbox, rxTime>>
  BY <1>3 DEF TypeOK, InboxOK
<1> QED
  BY <1>1, <1>2, <1>3, Changes

LEMMA BookType == ASSUME TypeOK, [Next]_vars PROVE BookOK'
<1>1. ASSUME pc = "callback", inbox # <<>>, Bind(Request.cid)
      PROVE  cidSocket' \in [Clients -> Sockets \union {noSocket}]
  <2>1. Socket \in Sockets /\ Request.cid \in Clients
    BY <1>1, SocketType, RequestType DEF TypeOK, ReaderOK, Arrivals
  <2> QED
    BY <1>1, <2>1 DEF Bind, Binding, TypeOK, BookOK
<1>2. ASSUME Expected PROVE expSeq' \in [Clients -> 1 .. MaxSeq + 1]
  <2>1. Request.cid \in Clients /\ Request.seq \in 1 .. MaxSeq
    BY <1>2, RequestType DEF Expected, Arrivals
  <2> QED
    BY <1>2, <2>1, ServerAssumption DEF Expected, Counted, TypeOK, BookOK
<1>3. CASE WrongNumber
  BY <1>1, <1>3 DEF WrongNumber, TypeOK, BookOK
<1>4. CASE TakeRequest \/ TooMany
  BY <1>1, <1>2, <1>4 DEF TakeRequest, TooMany, Expected, BookOK
<1>5. CASE UNCHANGED <<cidSocket, expSeq>>
  BY <1>5 DEF TypeOK, BookOK
<1> QED
  BY <1>3, <1>4, <1>5, Changes

\* What a request becomes in the sequencer.
LEMMA PendedType ==
  ASSUME TypeOK, inbox # <<>>
  PROVE  \E p \in Pendings :
           /\ Pended(Request) = Append(pending, p)
           /\ p.cid = Request.cid /\ p.seq = Request.seq /\ p.sock = Request.sock /\ p.rx = rxTime
<1> DEFINE p == [cid |-> Request.cid, seq |-> Request.seq, sock |-> Request.sock, at |-> Request.at,
                 rx |-> rxTime]
<1>1. p \in Pendings
  BY RequestType DEF Arrivals, Pendings, TypeOK, InboxOK
<1> QED
  BY <1>1 DEF Pended

\* What sorting makes of the pending requests: every entry of the result is one of them.
LEMMA SortedType ==
  ASSUME NEW q \in Seq(Pendings), NEW r \in Sorted(q)
  PROVE  /\ r \in Seq(Pendings) /\ Len(r) = Len(q)
         /\ \E o \in [1 .. Len(q) -> 1 .. Len(q)] :
              /\ \A i \in 1 .. Len(q) : r[i] = q[o[i]]
              /\ \A i, j \in 1 .. Len(q) : i < j => o[i] # o[j] /\ Before(q, o[i], o[j])
<1>1. DOMAIN q = 1 .. Len(q) /\ Len(q) \in Nat
  BY LenProperties
<1>2. PICK o \in [1 .. Len(q) -> 1 .. Len(q)] :
        /\ r = [i \in 1 .. Len(q) |-> q[o[i]]]
        /\ \A i, j \in 1 .. Len(q) : i < j => o[i] # o[j] /\ Before(q, o[i], o[j])
  BY <1>1 DEF Sorted
<1>3. \A i \in 1 .. Len(q) : q[o[i]] \in Pendings
  BY ElementOfSeq
<1>4. r \in [1 .. Len(q) -> Pendings]
  BY <1>2, <1>3
<1>5. r \in Seq(Pendings) /\ Len(r) = Len(q)
  BY <1>1, <1>4
<1> QED
  BY <1>2, <1>5

LEMMA PendingType == ASSUME TypeOK, [Next]_vars PROVE PendingOK'
<1>1. CASE TakeRequest
  <2>1. PICK p \in Pendings : pending' = Append(pending, p)
    BY <1>1, PendedType DEF TakeRequest, Expected
  <2> QED
    BY <1>1, <2>1, ServerAssumption DEF TakeRequest, Room, TypeOK, PendingOK
<1>2. CASE RecvFinished
  BY <1>2, SortedType
     DEF RecvFinished, RecvFinishedCallback, Publish, PublishNothing, TypeOK, PendingOK
<1>3. CASE UNCHANGED pending
  BY <1>3 DEF TypeOK, PendingOK
<1> QED
  BY <1>1, <1>2, <1>3, Changes

LEMMA EngineType == ASSUME TypeOK, [Next]_vars PROVE EngineOK'
<1>1. CASE RecvFinished /\ Publish
  <2>1. pending' \in Seq(Pendings)
    BY <1>1, SortedType DEF Publish, TypeOK, PendingOK
  <2>2. /\ published' \in Seq(Pendings) /\ Len(published') = Len(published) + Len(pending')
        /\ Len(pending') \in Nat /\ Len(published) \in Nat
    BY <1>1, <2>1, ConcatProperties, LenProperties DEF Publish, TypeOK, EngineOK
  <2> QED
    BY <1>1, <2>2 DEF RecvFinished, TypeOK, EngineOK
<1>2. CASE RecvFinished /\ PublishNothing
  BY <1>2 DEF RecvFinished, PublishNothing, TypeOK, EngineOK
<1>3. CASE Engine
  BY <1>3 DEF Engine, TypeOK, EngineOK
<1>4. CASE UNCHANGED <<published, consumed>>
  BY <1>4 DEF TypeOK, EngineOK
<1> QED
  BY <1>1, <1>2, <1>3, <1>4, Changes DEF RecvFinished, RecvFinishedCallback

LEMMA AnswersType == ASSUME TypeOK, [Next]_vars PROVE AnswersOK'
<1>1. CASE NextSocket
  <2>1. Socket \in Sockets
    BY <1>1, SocketType DEF NextSocket, TypeOK, ReaderOK
  <2>2. delivered[Socket] \o outbound[Socket] \in Seq(Answers)
    BY <2>1, ConcatProperties DEF TypeOK, AnswersOK
  <2> QED
    BY <1>1, <2>1, <2>2 DEF NextSocket, Sends, TypeOK, AnswersOK
<1>2. CASE Respond
  <2> DEFINE c == Head(responses)
  <2>1. c \in Clients /\ responses' \in Seq(Clients)
    BY <1>2, HeadTailProperties DEF Respond, TypeOK, AnswersOK
  <2>2. cidSocket[c] \in Sockets
    BY <1>2, <2>1 DEF Respond, TypeOK, BookOK
  <2>3. [cid |-> c, seq |-> outSeq[c]] \in Answers
    BY <2>1 DEF Answers, TypeOK, AnswersOK
  <2>4. outSeq' \in [Clients -> Nat \ {0}] /\ outbound' \in [Sockets -> Seq(Answers)]
    BY <1>2, <2>1, <2>2, <2>3 DEF Respond, Answered, TypeOK, AnswersOK
  <2> QED
    BY <1>2, <2>1, <2>4 DEF Respond, TypeOK, AnswersOK
<1>3. CASE Engine
  <2>1. PICK i \in 1 .. consumed + 1 : responses' = Append(responses, published[i].cid)
    BY <1>3 DEF Engine
  <2>2. i \in 1 .. Len(published)
    BY <1>3 DEF Engine, TypeOK, EngineOK
  <2>3. published[i] \in Pendings
    BY <2>2, ElementOfSeq DEF TypeOK, EngineOK
  <2>4. responses' \in Seq(Clients)
    BY <2>1, <2>3 DEF Pendings, TypeOK, AnswersOK
  <2> QED
    BY <1>3, <2>4 DEF Engine, TypeOK, AnswersOK
<1>4. CASE UNCHANGED <<outSeq, responses, outbound, delivered>>
  BY <1>4 DEF TypeOK, AnswersOK
<1> QED
  BY <1>1, <1>2, <1>3, <1>4, Changes

LEMMA NextType == TypeOK /\ [Next]_vars => TypeOK'
  BY ClientsType, WireType, ReaderType, RecvType, InboxType, BookType, PendingType, EngineType,
     AnswersType DEF TypeOK

\* Every variable of the server keeps to its type.
THEOREM TypeCorrect == Spec => []TypeOK
  BY InitType, NextType, PTL DEF Spec

-----------------------------------------------------------------------------
(***************************************************************************)
(* One connection per client.                                              *)
(***************************************************************************)
\* Requests carry the socket they came over, in the connection and while they are read.
SocketsMatch ==
  /\ \A s \in Sockets : \A k \in 1 .. Len(wire[s]) : wire[s][k].sock = s
  /\ pc = "callback" => \A k \in 1 .. Len(inbox) : inbox[k].sock = Socket

ConnInv == SocketsMatch /\ OneConnection

(***************************************************************************)
(* The order of a client's requests.                                       *)
(***************************************************************************)
\* What was received was received before now.
Past ==
  /\ rxTime <= now
  /\ \A i \in 1 .. Len(pending) : pending[i].rx <= now
  /\ \A s \in Sockets : \A k \in 1 .. Len(wire[s]) : wire[s][k].at <= now

\* What is still to be read of a socket came after all that was read of it: the read that
\* recvCallback() works on, and the requests in the connection.
ReadLater ==
  pc = "callback" =>
    /\ \A i \in 1 .. Len(pending) : pending[i].sock = Socket => pending[i].rx <= rxTime
    /\ \A k \in 1 .. Len(wire[Socket]) :
         wire[Socket][k].part # "read" => rxTime <= wire[Socket][k].at
ArrivesLater ==
  \A s \in Sockets : \A k \in 1 .. Len(wire[s]) : wire[s][k].part # "read" =>
    \A i \in 1 .. Len(pending) : pending[i].sock = s => pending[i].rx <= wire[s][k].at

\* The numbers given to the sequencer are those the server expected before.
SeqBelow == \A i \in 1 .. Len(pending) : pending[i].seq < expSeq[pending[i].cid]

\* A client's requests are in the order of their times, and in that of their numbers, unless two
\* have the same time and are among more requests than std::sort() keeps in order.
Follows(a, b, n) == /\ a.rx <= b.rx
                    /\ a.seq < b.seq \/ (a.rx = b.rx /\ n > SortLimit)
RunOrdered(q) ==
  \A i, j \in 1 .. Len(q) : i < j /\ q[i].cid = q[j].cid => Follows(q[i], q[j], Len(q))
Ordered == RunOrdered(pending)

OrderInv == Past /\ ReadLater /\ ArrivesLater /\ SeqBelow /\ Ordered

IInv == TypeOK /\ ConnInv /\ OrderInv

-----------------------------------------------------------------------------
\* What a step makes of the requests in the connections and in the sequencer.
LEMMA Clock == ASSUME TypeOK, [Next]_vars PROVE now \in Nat /\ now' \in Nat /\ now <= now'
<1>1. now \in 0 .. MaxTime /\ now' \in 0 .. MaxTime
  BY ClientsType DEF TypeOK, ClientsOK
<1>2. now' = now \/ now' = now + 1
  <2>1. CASE Calling
    BY <2>1 DEF Calling, Connect, Establish, LoseRequest
  <2>2. CASE Arriving
    BY <2>2 DEF Arriving, SendRequest, Complete, Tick
  <2> QED
    BY <2>1, <2>2, Changes
<1> QED
  BY <1>1, <1>2, ServerAssumption

LEMMA SocketStays ==
  ASSUME [Next]_vars, pc' = "callback"
  PROVE  Socket' = Socket /\ (pc = "callback" \/ ReadSocket)
<1>1. UNCHANGED <<recvSockets, turn, pc>> \/ ReadSocket \/ DropForeign \/ TakeRequest
  <2>1. ASSUME NEW c \in Clients, Establish(c) PROVE UNCHANGED <<recvSockets, turn, pc>>
    BY <2>1 DEF Establish
  <2>2. CASE Server
    BY <2>2 DEF Server, Poll, NextSocket, WrongNumber, TooMany, RecvFinished, Respond, RespondEnds
  <2> QED
    BY <2>1, <2>2, Changes
<1> QED
  BY <1>1 DEF Socket, ReadSocket, DropForeign, TakeRequest, Expected

LEMMA TimeStays == ASSUME [Next]_vars PROVE rxTime' = rxTime \/ ReadSocket
  BY Changes DEF DropForeign, TakeRequest

LEMMA WireStep ==
  ASSUME TypeOK, SocketsMatch, [Next]_vars, NEW s \in Sockets, NEW k \in 1 .. Len(wire'[s])
  PROVE  /\ wire'[s][k].sock = s
         /\ \/ k \in 1 .. Len(wire[s]) /\ wire'[s][k] = wire[s][k]
            \/ wire'[s][k].at = now'
            \/ /\ wire'[s][k].part = "read"
               /\ \E m \in 1 .. Len(wire[s]) : wire'[s][k].at = wire[s][m].at
<1>0. wire \in [Sockets -> Seq(Arrivals)] /\ wire[s] \in Seq(Arrivals)
  BY DEF TypeOK, WireOK
<1>1. ASSUME k \in 1 .. Len(wire[s]), wire'[s][k] = wire[s][k] PROVE wire'[s][k].sock = s
  BY <1>1 DEF SocketsMatch
<1>2. ASSUME NEW c \in Clients, NEW part \in {"none", "unread"}, SendRequest(c, part)
      PROVE  \/ k \in 1 .. Len(wire[s]) /\ wire'[s][k] = wire[s][k]
             \/ wire'[s][k].sock = s /\ wire'[s][k].at = now'
  <2>1. CASE s # conn[c]
    BY <1>0, <1>2, <2>1, Sending
  <2>2. CASE s = conn[c]
    <3> DEFINE new == Arrival(c, part)
    <3>1. wire'[s] = Append(wire[s], new) /\ new \in Arrivals
      BY <1>0, <1>2, <2>2, Sending
    <3>2. new.sock = s /\ new.at = now'
      BY <2>2 DEF Arrival
    <3>3. (k \in 1 .. Len(wire[s]) /\ wire'[s][k] = wire[s][k]) \/ wire'[s][k] = new
      BY <1>0, <3>1, AppendProperties
    <3> QED
      BY <3>2, <3>3
  <2> QED
    BY <2>1, <2>2
<1>3. ASSUME NEW t \in Sockets, Complete(t)
      PROVE  \/ k \in 1 .. Len(wire[s]) /\ wire'[s][k] = wire[s][k]
             \/ wire'[s][k].sock = s /\ wire'[s][k].at = now'
  <2> DEFINE last == [wire[t][Len(wire[t])] EXCEPT !.part = "none", !.at = now']
  <2>1. /\ Len(wire[t]) \in 1 .. Len(wire[t]) /\ last \in Arrivals
        /\ wire' = [wire EXCEPT ![t] = [@ EXCEPT ![Len(wire[t])] = last]]
    BY <1>3, Completed
  <2>2. wire[t][Len(wire[t])] \in Arrivals /\ wire[t][Len(wire[t])].sock = t
    BY <2>1, ElementOfSeq DEF TypeOK, WireOK, SocketsMatch
  <2>3. last.at = now' /\ last.sock = t
    BY <2>2 DEF Arrivals
  <2>4. CASE s # t
    BY <1>0, <2>1, <2>4
  <2>5. CASE s = t
    <3>1. wire'[s] = [wire[s] EXCEPT ![Len(wire[s])] = last]
      BY <1>0, <2>1, <2>5
    <3>2. DOMAIN wire[s] = 1 .. Len(wire[s]) /\ Len(wire'[s]) = Len(wire[s])
      BY <1>0, <2>1, <2>5, <3>1, ExceptSeq
    <3>3. k \in 1 .. Len(wire[s]) /\ (wire'[s][k] = wire[s][k] \/ wire'[s][k] = last)
      BY <3>1, <3>2
    <3> QED
      BY <2>3, <2>5, <3>3
  <2> QED
    BY <2>4, <2>5
<1>4. ASSUME ReadSocket
      PROVE  \/ k \in 1 .. Len(wire[s]) /\ wire'[s][k] = wire[s][k]
             \/ /\ wire'[s][k].sock = s
                /\ wire'[s][k].part = "read"
                /\ \E m \in 1 .. Len(wire[s]) : wire'[s][k].at = wire[s][m].at
  <2>1. Socket \in Sockets /\ Readable(Socket) /\ wire' = [wire EXCEPT ![Socket] = LeftOver(Socket)]
    BY <1>4, SocketType DEF ReadSocket
  <2>2. CASE s # Socket
    BY <1>0, <2>1, <2>2
  <2>3. CASE s = Socket
    <3> DEFINE n == Len(wire[s])
    <3>1. wire'[s] = LeftOver(s)
      BY <1>0, <2>1, <2>3
    <3>2. n \in 1 .. n /\ wire[s][n] \in Arrivals /\ wire'[s][k] = [wire[s][n] EXCEPT !.part = "read"]
      BY <2>1, <2>3, <3>1, ReadParts
    <3>3. wire[s][n].sock = s
      BY <3>2 DEF SocketsMatch
    <3> QED
      BY <3>2, <3>3 DEF Arrivals
  <2> QED
    BY <2>2, <2>3
<1>5. CASE UNCHANGED wire
  BY <1>1, <1>5
<1> QED
  BY <1>1, <1>2, <1>3, <1>4, <1>5, Changes DEF Arriving

LEMMA PendingStep ==
  ASSUME TypeOK, [Next]_vars, NEW i \in 1 .. Len(pending')
  PROVE  \/ \E m \in 1 .. Len(pending) : pending'[i] = pending[m]
         \/ /\ TakeRequest
            /\ pending'[i].cid = Request.cid /\ pending'[i].seq = Request.seq
            /\ pending'[i].sock = Request.sock /\ pending'[i].rx = rxTime
<1>0. pending \in Seq(Pendings)
  BY DEF TypeOK, PendingOK
<1>1. CASE TakeRequest
  <2>1. PICK p \in Pendings :
          /\ pending' = Append(pending, p)
          /\ p.cid = Request.cid /\ p.seq = Request.seq /\ p.sock = Request.sock /\ p.rx = rxTime
    BY <1>1, PendedType DEF TakeRequest, Expected
  <2>2. (i \in 1 .. Len(pending) /\ pending'[i] = pending[i]) \/ pending'[i] = p
    BY <1>0, <2>1, AppendProperties
  <2> QED
    BY <1>1, <2>1, <2>2
<1>2. CASE RecvFinished /\ Publish
  <2>1. PICK o \in [1 .. Len(pending) -> 1 .. Len(pending)] :
          Len(pending') = Len(pending) /\ \A j \in 1 .. Len(pending) : pending'[j] = pending[o[j]]
    <3>1. pending' \in Sorted(pending)
      BY <1>2 DEF Publish
    <3> QED
      BY <1>0, <3>1, SortedType
  <2> QED
    BY <2>1
<1>3. CASE UNCHANGED pending
  BY <1>3
<1> QED
  BY <1>1, <1>2, <1>3, Changes DEF RecvFinished, RecvFinishedCallback, PublishNothing

LEMMA NumberStays ==
  ASSUME TypeOK, [Next]_vars, NEW c \in Clients
  PROVE  expSeq[c] \in Nat /\ expSeq'[c] \in Nat /\ expSeq[c] <= expSeq'[c]
<1>1. expSeq \in [Clients -> 1 .. MaxSeq + 1] /\ expSeq' \in [Clients -> 1 .. MaxSeq + 1]
  BY BookType DEF TypeOK, BookOK
<1>2. expSeq' = expSeq \/ Counted(Request.cid)
  BY Changes DEF WrongNumber, TakeRequest, TooMany, Expected
<1> QED
  BY <1>1, <1>2, ServerAssumption DEF Counted

LEMMA BoundStays ==
  ASSUME TypeOK, [Next]_vars, NEW c \in Clients, cidSocket[c] # noSocket
  PROVE  cidSocket'[c] = cidSocket[c]
<1>1. cidSocket \in [Clients -> Sockets \union {noSocket}]
  BY DEF TypeOK, BookOK
<1>2. cidSocket' = cidSocket \/ Bind(Request.cid)
  BY Changes DEF WrongNumber, TakeRequest, TooMany, Expected
<1> QED
  BY <1>1, <1>2 DEF Bind, Binding

\* The request that is taken came over the client's socket.
LEMMA TakenFrom ==
  ASSUME TypeOK, SocketsMatch, TakeRequest
  PROVE  /\ Request.cid \in Clients /\ Request.sock = Socket /\ Socket \in Sockets
         /\ cidSocket'[Request.cid] = Socket
         /\ cidSocket[Request.cid] \in {noSocket, Socket}
<1>1. pc = "callback" /\ inbox # <<>> /\ Binding(Request.cid) = Socket /\ Bind(Request.cid)
  BY DEF TakeRequest, Expected
<1>2. Request \in Arrivals /\ Request = inbox[1] /\ Len(inbox) \in Nat \ {0}
  BY <1>1, RequestType
<1>3. Request.cid \in Clients /\ Request.sock = Socket
  BY <1>1, <1>2 DEF SocketsMatch, Arrivals
<1>4. Socket \in Sockets
  BY <1>1, SocketType DEF TypeOK, ReaderOK
<1> QED
  BY <1>1, <1>3, <1>4 DEF Bind, Binding, TypeOK, BookOK

-----------------------------------------------------------------------------
LEMMA InitInv == Init => IInv
<1> SUFFICES ASSUME Init PROVE IInv
  OBVIOUS
<1>1. Len(pending) = 0 /\ Len(published) = 0 /\ \A s \in Sockets : Len(wire[s]) = 0
  BY EmptySeq DEF Init
<1>2. ConnInv
  BY <1>1 DEF Init, ConnInv, SocketsMatch, OneConnection
<1>3. OrderInv
  BY <1>1 DEF Init, OrderInv, Past, ReadLater, ArrivesLater, SeqBelow, Ordered, RunOrdered
<1> QED
  BY <1>2, <1>3, InitType DEF IInv

LEMMA NextSockets == ASSUME TypeOK, SocketsMatch, [Next]_vars PROVE SocketsMatch'
<1>1. \A s \in Sockets : \A k \in 1 .. Len(wire'[s]) : wire'[s][k].sock = s
  BY WireStep
<1>2. ASSUME pc' = "callback", NEW k \in 1 .. Len(inbox') PROVE inbox'[k].sock = Socket
  <2>1. CASE ReadSocket
    <3>1. Socket \in Sockets /\ Readable(Socket)
      BY <2>1, SocketType DEF ReadSocket
    <3>2. inbox' = WholeRequests(Socket)
      BY <2>1 DEF ReadSocket
    <3>3. /\ WholeRequests(Socket) \in Seq(Arrivals) /\ wire[Socket] \in Seq(Arrivals)
          /\ Len(WholeRequests(Socket)) <= Len(wire[Socket])
          /\ \A i \in 1 .. Len(WholeRequests(Socket)) : WholeRequests(Socket)[i] = wire[Socket][i]
      BY <3>1, ReadParts
    <3>4. k \in 1 .. Len(wire[Socket]) /\ inbox'[k] = wire[Socket][k]
      BY <1>2, <3>2, <3>3
    <3> QED
      BY <3>1, <3>4 DEF SocketsMatch
  <2>2. CASE DropForeign \/ TakeRequest
    <3>1. pc = "callback" /\ inbox # <<>> /\ inbox' = Tail(inbox)
      BY <2>2 DEF DropForeign, TakeRequest, Expected
    <3>2. k + 1 \in 1 .. Len(inbox) /\ inbox'[k] = inbox[k + 1]
      BY <3>1, RequestType
    <3> QED
      BY <3>1, <3>2 DEF SocketsMatch
  <2>3. CASE UNCHANGED inbox /\ pc = "callback"
    BY <2>3 DEF SocketsMatch
  <2> QED
    BY <1>2, <2>1, <2>2, <2>3, Changes, SocketStays
<1>3. pc' = "callback" => Socket' = Socket
  BY SocketStays
<1> QED
  BY <1>1, <1>2, <1>3 DEF SocketsMatch

\* Everything published was pending.
LEMMA PublishedStep ==
  ASSUME TypeOK, [Next]_vars, NEW i \in 1 .. Len(published')
  PROVE  \/ \E m \in 1 .. Len(published) : published'[i] = published[m]
         \/ \E m \in 1 .. Len(pending) : published'[i] = pending[m]
<1>1. CASE RecvFinished /\ Publish
  <2>1. pending \in Seq(Pendings) /\ published \in Seq(Pendings)
    BY DEF TypeOK, PendingOK, EngineOK
  <2>2. pending' \in Seq(Pendings)
    BY PendingType DEF PendingOK
  <2>3. \/ i \in 1 .. Len(published) /\ published'[i] = published[i]
        \/ \E j \in 1 .. Len(pending') : published'[i] = pending'[j]
    <3>1. /\ published' = published \o pending'
          /\ Len(published) \in Nat /\ Len(pending') \in Nat
      BY <1>1, <2>1, <2>2 DEF Publish
    <3>2. CASE i <= Len(published)
      BY <2>1, <2>2, <3>1, <3>2, ConcatProperties
    <3>3. CASE ~(i <= Len(published))
      <4>1. i - Len(published) \in 1 .. Len(pending') /\ published'[i] = pending'[i - Len(published)]
        BY <2>1, <2>2, <3>1, <3>3, ConcatProperties
      <4> QED
        BY <4>1
    <3> QED
      BY <3>2, <3>3
  <2>4. \A j \in 1 .. Len(pending') : \E m \in 1 .. Len(pending) : pending'[j] = pending[m]
    BY <1>1, PendingStep DEF RecvFinished, TakeRequest, Expected
  <2> QED
    BY <2>3, <2>4
<1>2. CASE UNCHANGED published
  BY <1>2
<1> QED
  BY <1>1, <1>2, Changes DEF RecvFinished, RecvFinishedCallback, PublishNothing, Engine

LEMMA NextConnection == ASSUME TypeOK, ConnInv, [Next]_vars PROVE OneConnection'
<1>0. pending \in Seq(Pendings) /\ published \in Seq(Pendings)
  BY DEF TypeOK, PendingOK, EngineOK
<1>1. ASSUME NEW q \in {pending, published}, NEW m \in 1 .. Len(q)
      PROVE  q[m].sock = cidSocket'[q[m].cid]
  <2>1. q[m] \in Pendings
    BY <1>0, ElementOfSeq
  <2>2. q[m].sock = cidSocket[q[m].cid]
    BY <1>0 DEF ConnInv, OneConnection
  <2> QED
    BY <2>1, <2>2, BoundStays, ServerAssumption DEF Pendings
<1>2. ASSUME NEW i \in 1 .. Len(pending') PROVE pending'[i].sock = cidSocket'[pending'[i].cid]
  BY <1>1, PendingStep, TakenFrom DEF ConnInv
<1>3. ASSUME NEW i \in 1 .. Len(published') PROVE published'[i].sock = cidSocket'[published'[i].cid]
  BY <1>1, PublishedStep
<1>4. DOMAIN pending' = 1 .. Len(pending') /\ DOMAIN published' = 1 .. Len(published')
  BY PendingType, EngineType DEF PendingOK, EngineOK
<1> QED
  BY <1>2, <1>3, <1>4 DEF OneConnection

-----------------------------------------------------------------------------
\* The arithmetic of the times and numbers of the requests.
LEMMA Numbers ==
  ASSUME TypeOK
  PROVE  /\ rxTime \in Nat /\ now \in Nat
         /\ \A i \in 1 .. Len(pending) :
              /\ pending[i].rx \in Nat /\ pending[i].seq \in Nat
              /\ pending[i].cid \in Clients /\ pending[i].sock \in Sockets
         /\ \A s \in Sockets : \A k \in 1 .. Len(wire[s]) : wire[s][k].at \in Nat
<1>1. \A i \in 1 .. Len(pending) : pending[i] \in Pendings
  BY ElementOfSeq DEF TypeOK, PendingOK
<1>2. \A s \in Sockets : \A k \in 1 .. Len(wire[s]) : wire[s][k] \in Arrivals
  BY ElementOfSeq DEF TypeOK, WireOK
<1> QED
  BY <1>1, <1>2, ServerAssumption DEF TypeOK, InboxOK, ClientsOK, Pendings, Arrivals

\* What a read finds: the last element, not read before; what it leaves was read.
LEMMA ReadTime ==
  ASSUME TypeOK, ReadSocket
  PROVE  /\ Socket \in Sockets /\ UNCHANGED <<pending, now>>
         /\ \E n \in 1 .. Len(wire[Socket]) :
              rxTime' = wire[Socket][n].at /\ wire[Socket][n].part # "read"
         /\ \A k \in 1 .. Len(wire'[Socket]) : wire'[Socket][k].part = "read"
<1>1. Socket \in Sockets /\ Readable(Socket)
  BY SocketType DEF ReadSocket
<1>2. /\ Len(wire[Socket]) \in 1 .. Len(wire[Socket])
      /\ wire[Socket][Len(wire[Socket])].part # "read"
  BY <1>1, ReadParts DEF Readable
<1>3. wire'[Socket] = LeftOver(Socket)
  BY <1>1 DEF ReadSocket, TypeOK, WireOK
<1>4. ASSUME NEW k \in 1 .. Len(wire'[Socket]) PROVE wire'[Socket][k].part = "read"
  <2>1. wire[Socket][Len(wire[Socket])] \in Arrivals
    BY <1>1, ReadParts
  <2>2. wire'[Socket][k] = [wire[Socket][Len(wire[Socket])] EXCEPT !.part = "read"]
    BY <1>1, <1>3, ReadParts
  <2> QED
    BY <2>1, <2>2 DEF Arrivals
<1> QED
  BY <1>1, <1>2, <1>4 DEF ReadSocket

LEMMA NextPast == ASSUME TypeOK, SocketsMatch, Past, [Next]_vars PROVE Past'
<1> USE Numbers, Clock DEF Past
<1>1. rxTime' <= now'
  <2>1. CASE ReadSocket
    BY <2>1, ReadTime
  <2>2. CASE rxTime' = rxTime
    BY <2>2
  <2> QED
    BY <2>1, <2>2, TimeStays
<1>2. ASSUME NEW i \in 1 .. Len(pending') PROVE pending'[i].rx <= now'
  BY PendingStep
<1>3. ASSUME NEW s \in Sockets, NEW k \in 1 .. Len(wire'[s]) PROVE wire'[s][k].at <= now'
  <2>1. wire'[s][k].at = now' \/ \E m \in 1 .. Len(wire[s]) : wire'[s][k].at = wire[s][m].at
    BY WireStep
  <2>2. \A m \in 1 .. Len(wire[s]) : wire[s][m].at \in Nat /\ wire[s][m].at <= now
    OBVIOUS
  <2> QED
    BY <2>1, <2>2
<1> QED
  BY <1>1, <1>2, <1>3

LEMMA NextReadLater ==
  ASSUME TypeOK, SocketsMatch, Past, ReadLater, ArrivesLater, [Next]_vars, pc' = "callback"
  PROVE  /\ \A i \in 1 .. Len(pending') : pending'[i].sock = Socket => pending'[i].rx <= rxTime'
         /\ \A k \in 1 .. Len(wire'[Socket]) :
              wire'[Socket][k].part # "read" => rxTime' <= wire'[Socket][k].at
<1>1. CASE ReadSocket
  BY <1>1, ReadTime DEF ArrivesLater
<1>2. CASE pc = "callback" /\ rxTime' = rxTime
  <2> USE Numbers, Clock
  <2>1. ASSUME NEW i \in 1 .. Len(pending'), pending'[i].sock = Socket PROVE pending'[i].rx <= rxTime
    BY <1>2, <2>1, PendingStep DEF ReadLater
  <2>2. Socket \in Sockets
    BY <1>2, SocketType DEF TypeOK, ReaderOK
  <2>3. ASSUME NEW k \in 1 .. Len(wire'[Socket]), wire'[Socket][k].part # "read"
        PROVE  rxTime <= wire'[Socket][k].at
    BY <1>2, <2>2, <2>3, WireStep DEF ReadLater, Past
  <2> QED
    BY <1>2, <2>1, <2>3
<1> QED
  BY <1>1, <1>2, SocketStays, TimeStays

LEMMA NextArrivesLater ==
  ASSUME TypeOK, SocketsMatch, Past, ReadLater, ArrivesLater, [Next]_vars
  PROVE  ArrivesLater'
<1> SUFFICES ASSUME NEW s \in Sockets, NEW k \in 1 .. Len(wire'[s]), wire'[s][k].part # "read",
                    NEW i \in 1 .. Len(pending'), pending'[i].sock = s
             PROVE  pending'[i].rx <= wire'[s][k].at
  BY DEF ArrivesLater
<1> USE Numbers, Clock
<1>1. CASE wire'[s][k].at = now'
  <2>1. pending'[i].rx \in Nat /\ pending'[i].rx <= now
    BY PendingStep DEF Past
  <2> QED
    BY <1>1, <2>1
<1>2. CASE k \in 1 .. Len(wire[s]) /\ wire'[s][k] = wire[s][k]
  <2>1. CASE \E m \in 1 .. Len(pending) : pending'[i] = pending[m]
    BY <1>2, <2>1 DEF ArrivesLater
  <2>2. CASE TakeRequest /\ pending'[i].sock = Request.sock /\ pending'[i].rx = rxTime
    BY <1>2, <2>2, TakenFrom DEF ReadLater, TakeRequest, Expected
  <2> QED
    BY <2>1, <2>2, PendingStep
<1> QED
  BY <1>1, <1>2, WireStep

LEMMA NextSeqBelow == ASSUME TypeOK, SeqBelow, [Next]_vars PROVE SeqBelow'
<1> SUFFICES ASSUME NEW i \in 1 .. Len(pending') PROVE pending'[i].seq < expSeq'[pending'[i].cid]
  BY DEF SeqBelow
<1>1. CASE \E m \in 1 .. Len(pending) : pending'[i] = pending[m]
  BY <1>1, Numbers, NumberStays DEF SeqBelow
<1>2. CASE TakeRequest /\ pending'[i].cid = Request.cid /\ pending'[i].seq = Request.seq
  <2>1. Request.cid \in Clients
    BY <1>2, RequestType DEF TakeRequest, Expected, Arrivals
  <2>2. Request.seq = expSeq[Request.cid] /\ expSeq'[Request.cid] = expSeq[Request.cid] + 1
    BY <1>2, <2>1 DEF TakeRequest, Expected, Counted, TypeOK, BookOK
  <2> QED
    BY <1>2, <2>1, <2>2, NumberStays
<1> QED
  BY <1>1, <1>2, PendingStep

\* Sorting an ordered sequence leaves it ordered.
LEMMA SortingKeepsOrder ==
  ASSUME NEW q \in Seq(Pendings), NEW r \in Sorted(q), RunOrdered(q)
  PROVE  RunOrdered(r)
<1>1. PICK o \in [1 .. Len(q) -> 1 .. Len(q)] :
        /\ Len(r) = Len(q) /\ \A i \in 1 .. Len(q) : r[i] = q[o[i]]
        /\ \A i, j \in 1 .. Len(q) : i < j => o[i] # o[j] /\ Before(q, o[i], o[j])
  BY SortedType
<1>2. \A i \in 1 .. Len(q) : q[i].rx \in Nat /\ q[i].seq \in Nat
  <2>1. \A i \in 1 .. Len(q) : q[i] \in Pendings
    BY ElementOfSeq
  <2> QED
    BY <2>1, ServerAssumption DEF Pendings
<1>3. ASSUME NEW i \in 1 .. Len(r), NEW j \in 1 .. Len(r), i < j, r[i].cid = r[j].cid
      PROVE  Follows(r[i], r[j], Len(r))
  <2> DEFINE a == o[i]
             b == o[j]
  <2>1. /\ a \in 1 .. Len(q) /\ b \in 1 .. Len(q) /\ a # b /\ Before(q, a, b)
        /\ r[i] = q[a] /\ r[j] = q[b]
    BY <1>1, <1>3
  <2>2. CASE a < b
    BY <1>1, <1>3, <2>1, <2>2 DEF RunOrdered
  <2>3. CASE b < a
    <3>1. q[b].rx <= q[a].rx
      BY <1>3, <2>1, <2>3 DEF RunOrdered, Follows
    <3>2. q[a].rx < q[b].rx \/ (q[a].rx = q[b].rx /\ Len(q) > SortLimit)
      BY <2>1, <2>3, <1>2, ServerAssumption DEF Before
    <3> QED
      BY <1>1, <1>2, <2>1, <3>1, <3>2 DEF Follows
  <2> QED
    BY <2>1, <2>2, <2>3
<1> QED
  BY <1>3 DEF RunOrdered

LEMMA NextOrdered == ASSUME IInv, [Next]_vars PROVE Ordered'
<1> SUFFICES RunOrdered(pending')
  BY DEF Ordered
<1>0. pending \in Seq(Pendings) /\ TypeOK
  BY DEF IInv, TypeOK, PendingOK
<1>1. CASE TakeRequest
  <2>1. PICK p \in Pendings :
          /\ pending' = Append(pending, p)
          /\ p.cid = Request.cid /\ p.seq = Request.seq /\ p.rx = rxTime
    BY <1>0, <1>1, PendedType DEF TakeRequest, Expected
  <2>2. /\ Len(pending) \in Nat /\ Len(pending') = Len(pending) + 1
        /\ pending'[Len(pending) + 1] = p
        /\ \A i \in 1 .. Len(pending) : pending'[i] = pending[i]
    BY <1>0, <2>1, AppendProperties
  <2>3. RunOrdered(pending)
    BY DEF IInv, OrderInv, Ordered
  <2>4. ASSUME NEW i \in 1 .. Len(pending), pending[i].cid = p.cid
        PROVE  pending[i].seq < p.seq /\ pending[i].rx <= p.rx
    <3>1. pending[i].seq < p.seq
      BY <1>1, <2>1, <2>4 DEF TakeRequest, Expected, IInv, OrderInv, SeqBelow
    <3>2. pending[i].sock = Socket
      <4>1. pending[i].sock = cidSocket[p.cid] /\ pending[i].sock \in Sockets
        BY <1>0, <2>4, Numbers DEF IInv, ConnInv, OneConnection
      <4> QED
        BY <1>0, <1>1, <2>1, <4>1, TakenFrom, ServerAssumption DEF IInv, ConnInv
    <3>3. pending[i].rx <= p.rx
      BY <1>1, <2>1, <3>2 DEF TakeRequest, Expected, IInv, OrderInv, ReadLater
    <3> QED
      BY <3>1, <3>3
  <2>5. ASSUME NEW i \in 1 .. Len(pending'), NEW j \in 1 .. Len(pending'), i < j,
               pending'[i].cid = pending'[j].cid
        PROVE  Follows(pending'[i], pending'[j], Len(pending'))
    <3>1. CASE j = Len(pending) + 1
      BY <2>2, <2>4, <2>5, <3>1 DEF Follows
    <3>2. CASE j # Len(pending) + 1
      <4>1. /\ i \in 1 .. Len(pending) /\ j \in 1 .. Len(pending)
            /\ pending'[i] = pending[i] /\ pending'[j] = pending[j]
        BY <2>2, <2>5, <3>2
      <4>2. Follows(pending[i], pending[j], Len(pending))
        BY <2>3, <2>5, <4>1 DEF RunOrdered
      <4> QED
        BY <2>2, <4>1, <4>2, ServerAssumption DEF Follows
    <3> QED
      BY <3>1, <3>2
  <2> QED
    BY <2>5 DEF RunOrdered
<1>2. CASE RecvFinished /\ Publish
  <2>1. pending' \in Sorted(pending) /\ Len(pending) = Len(pending')
    BY <1>0, <1>2, SortedType DEF Publish
  <2> QED
    BY <1>0, <2>1, SortingKeepsOrder DEF IInv, OrderInv, Ordered
<1>3. CASE UNCHANGED pending
  BY <1>3 DEF IInv, OrderInv, Ordered
<1> QED
  BY <1>0, <1>1, <1>2, <1>3, Changes DEF RecvFinished, RecvFinishedCallback, PublishNothing

LEMMA NextInv == IInv /\ [Next]_vars => IInv'
<1> SUFFICES ASSUME IInv, [Next]_vars PROVE IInv'
  OBVIOUS
<1>1. TypeOK' /\ ConnInv'
  BY NextType, NextSockets, NextConnection DEF IInv, ConnInv
<1>2. Past' /\ ArrivesLater' /\ SeqBelow' /\ Ordered'
  BY NextPast, NextArrivesLater, NextSeqBelow, NextOrdered DEF IInv, ConnInv, OrderInv
<1>3. ReadLater'
  BY NextReadLater, SocketStays DEF IInv, ConnInv, OrderInv, ReadLater
<1> QED
  BY <1>1, <1>2, <1>3 DEF IInv, OrderInv

LEMMA Invariance == Spec => []IInv
  BY InitInv, NextInv, PTL DEF Spec

\* All requests of a client that get to the sequencer or the engine came over one socket,
\* the one its responses go to, however its gateways connect again (recvCallback()).
THEOREM ClientsKeepOneConnection == Spec => []OneConnection
<1>1. IInv => OneConnection
  BY DEF IInv, ConnInv
<1> QED
  BY <1>1, Invariance, PTL

\* Whatever the number of clients and connections, the sequencer keeps a client's requests in
\* the order of their numbers, but for those read at once when it holds more requests than
\* std::sort() sorts by insertion (FIFOSequencer::sequenceAndPublish()).
THEOREM OnlyOneReadIsMixed == Spec => []ClientOrderKept
<1>1. IInv => ClientOrderKept
  <2> SUFFICES ASSUME IInv PROVE ClientOrderKept
    OBVIOUS
  <2>1. DOMAIN pending = 1 .. Len(pending)
    BY DEF IInv, TypeOK, PendingOK
  <2> QED
    BY <2>1 DEF IInv, OrderInv, Ordered, RunOrdered, Follows, ClientOrderKept
<1> QED
  BY <1>1, Invariance, PTL

-----------------------------------------------------------------------------
(***************************************************************************)
(* Sessions: what a client's numbers and the responses to it are worth     *)
(* when its gateways come and go.  First the inductive invariant.          *)
(***************************************************************************)
\* Nothing was read from, bound to or sent on a socket whose connection is not made.
UnmadeQuiet ==
  /\ \A i \in 1 .. Len(backlog) : backlog[i] \in made
  /\ \A i \in 1 .. Len(recvSockets) : recvSockets[i] \in made
  /\ \A c \in Clients : cidSocket[c] \in made \union {noSocket}
  /\ \A s \in Sockets \ made : wire[s] = <<>> /\ delivered[s] = <<>> /\ outbound[s] = <<>>

\* No socket is that of two gateways.
OneOwner == \A c, d \in Clients : conn[c] = conn[d] /\ conn[c] # noSocket => c = d

\* What came over a gateway's socket, and is not taken yet, is of its client and was sent.
WireFrom ==
  \A c \in Clients : conn[c] # noSocket =>
    \A k \in 1 .. Len(wire[conn[c]]) : wire[conn[c]][k].cid = c /\ wire[conn[c]][k].seq <= sent[c]
InboxFrom ==
  pc = "callback" => \A c \in Clients : conn[c] = Socket =>
    \A k \in 1 .. Len(inbox) : inbox[k].cid = c /\ inbox[k].seq <= sent[c]

\* Only its client is bound to it, and no number is expected that is not to be sent next or
\* was sent before.
BoundFrom ==
  \A c, d \in Clients :
    conn[c] # noSocket /\ cidSocket[d] = conn[c] => d = c /\ expSeq[c] <= sent[c] + 1

\* The numbers that come over a socket increase, ...
WireIncreasing ==
  \A s \in Sockets : \A j, k \in 1 .. Len(wire[s]) : j < k => wire[s][j].seq < wire[s][k].seq
InboxIncreasing ==
  pc = "callback" =>
    /\ \A j, k \in 1 .. Len(inbox) : j < k => inbox[j].seq < inbox[k].seq
    /\ \A j \in 1 .. Len(inbox) : \A k \in 1 .. Len(wire[Socket]) :
         inbox[j].seq < wire[Socket][k].seq

\* ... and for a client bound to the socket they are not below the one expected.
WireExpected ==
  \A s \in Sockets : \A k \in 1 .. Len(wire[s]) :
    cidSocket[wire[s][k].cid] = s => expSeq[wire[s][k].cid] <= wire[s][k].seq
InboxExpected ==
  pc = "callback" => \A k \in 1 .. Len(inbox) :
    cidSocket[inbox[k].cid] = Socket => expSeq[inbox[k].cid] <= inbox[k].seq

\* A client that is not bound is unknown.
Fresh == \A c \in Clients : cidSocket[c] = noSocket => expSeq[c] = 1 /\ outSeq[c] = 1

\* The responses on a gateway's socket are those to its client, all of them once it is bound.
Stream(s) == delivered[s] \o outbound[s]
Sent(c) == IF cidSocket[c] = conn[c] THEN outSeq[c] - 1 ELSE 0
StreamOf(c) ==
  /\ Len(Stream(conn[c])) = Sent(c)
  /\ \A i \in 1 .. Len(Stream(conn[c])) : Stream(conn[c])[i] = [cid |-> c, seq |-> i]
Streams == \A c \in Clients : conn[c] # noSocket => StreamOf(c)

SessionInv ==
  /\ UnmadeQuiet /\ OneOwner /\ WireFrom /\ InboxFrom /\ BoundFrom
  /\ WireIncreasing /\ InboxIncreasing /\ WireExpected /\ InboxExpected
  /\ Fresh /\ Streams /\ StopsForCause

-----------------------------------------------------------------------------
(***************************************************************************)
(* What the steps do.                                                      *)
(***************************************************************************)
LEMMA Types ==
  ASSUME TypeOK
  PROVE  /\ \A c \in Clients : /\ conn[c] \in Sockets \union {noSocket} /\ sent[c] \in Nat
                               /\ expSeq[c] \in Nat /\ outSeq[c] \in Nat \ {0}
                               /\ cidSocket[c] \in Sockets \union {noSocket}
         /\ \A s \in Sockets :
              /\ wire[s] \in Seq(Arrivals) /\ Len(wire[s]) \in Nat
              /\ \A k \in 1 .. Len(wire[s]) :
                   wire[s][k].cid \in Clients /\ wire[s][k].seq \in Nat \ {0}
         /\ Len(inbox) \in Nat
         /\ \A k \in 1 .. Len(inbox) : inbox[k].cid \in Clients /\ inbox[k].seq \in Nat \ {0}
<1>1. /\ \A s \in Sockets : wire[s] \in Seq(Arrivals)
      /\ inbox \in Seq(Arrivals)
  BY DEF TypeOK, WireOK, InboxOK
<1>2. /\ \A s \in Sockets : \A k \in 1 .. Len(wire[s]) : wire[s][k] \in Arrivals
      /\ \A k \in 1 .. Len(inbox) : inbox[k] \in Arrivals
  BY <1>1, ElementOfSeq
<1>3. \A r \in Arrivals : r.cid \in Clients /\ r.seq \in Nat \ {0}
  BY ServerAssumption DEF Arrivals
<1>4. \A c \in Clients : conn[c] \in Sockets \union {noSocket} /\ sent[c] \in Nat
  BY ServerAssumption DEF TypeOK, ClientsOK
<1>5. \A c \in Clients : /\ expSeq[c] \in Nat /\ outSeq[c] \in Nat \ {0}
                         /\ cidSocket[c] \in Sockets \union {noSocket}
  BY ServerAssumption DEF TypeOK, BookOK, AnswersOK
<1> QED
  BY <1>1, <1>2, <1>3, <1>4, <1>5, LenProperties

LEMMA Connecting ==
  ASSUME TypeOK, NEW c \in Clients, Connect(c)
  PROVE  /\ conn'[c] \in Sockets \ made
         /\ \A d \in Clients \ {c} : conn[d] # conn'[c] /\ conn'[d] = conn[d] /\ sent'[d] = sent[d]
         /\ UNCHANGED <<made, now, net, reader, pc, book, engine, answer>>
<1> DEFINE s == CHOOSE s \in Unused(c) : TRUE
<1>1. s \in Unused(c)
  BY DEF Connect
<1>2. s \in Sockets \ made /\ \A d \in Clients \ {c} : conn[d] # s
  BY <1>1 DEF Unused
<1>3. conn' = [conn EXCEPT ![c] = s] /\ sent' = [sent EXCEPT ![c] = 0]
  BY DEF Connect
<1>4. conn'[c] = s /\ \A d \in Clients \ {c} : conn'[d] = conn[d] /\ sent'[d] = sent[d]
  BY <1>3 DEF TypeOK, ClientsOK
<1> QED
  BY <1>2, <1>4 DEF Connect

\* A gateway gets a socket only by connecting, and a number only goes up otherwise.
LEMMA GatewayStep ==
  ASSUME TypeOK, [Next]_vars, NEW c \in Clients
  PROVE  Connect(c) \/ (conn'[c] = conn[c] /\ sent'[c] \in Nat /\ sent[c] <= sent'[c])
<1> USE Types DEF TypeOK, ClientsOK
<1>1. ASSUME NEW d \in Clients, Connect(d), d # c PROVE conn'[c] = conn[c] /\ sent'[c] = sent[c]
  BY <1>1, Connecting
<1>2. ASSUME NEW d \in Clients, Count(d) PROVE sent'[c] \in Nat /\ sent[c] <= sent'[c]
  BY <1>2 DEF Count
<1>3. ASSUME NEW d \in Clients, Establish(d) \/ LoseRequest(d)
      PROVE  conn'[c] = conn[c] /\ sent'[c] \in Nat /\ sent[c] <= sent'[c]
  BY <1>2, <1>3 DEF Establish, LoseRequest
<1>4. CASE Arriving
  <2>1. ASSUME NEW d \in Clients, NEW part, SendRequest(d, part)
        PROVE  conn'[c] = conn[c] /\ sent'[c] \in Nat /\ sent[c] <= sent'[c]
    BY <1>2, <2>1 DEF SendRequest
  <2>2. ASSUME NEW s \in Sockets, Complete(s) PROVE conn'[c] = conn[c] /\ sent'[c] = sent[c]
    BY <2>2 DEF Complete
  <2> QED
    BY <1>4, <2>1, <2>2 DEF Arriving
<1>5. CASE UNCHANGED client
  BY <1>5
<1> QED
  BY <1>1, <1>3, <1>4, <1>5, Changes DEF Calling

\* A socket is made once and for all.
LEMMA MadeGrows == ASSUME [Next]_vars PROVE made \subseteq made'
  BY Changes DEF Calling, Arriving, Connect, Establish, LoseRequest, SendRequest, Complete

\* What is in a connection was there before, or was just sent.
\* What is in a connection was there before, or was just sent.
LEMMA SentElement ==
  ASSUME TypeOK, NEW c \in Clients, NEW part \in {"none", "unread"}, SendRequest(c, part)
  PROVE  /\ conn[c] \in Sockets /\ conn[c] \in made /\ sent'[c] = sent[c] + 1
         /\ \A s \in Sockets \ {conn[c]} : wire'[s] = wire[s]
         /\ LET w == wire[conn[c]]
                v == wire'[conn[c]] IN
            /\ Len(v) = Len(w) + 1
            /\ \A k \in 1 .. Len(w) : v[k] = w[k]
            /\ v[Len(w) + 1].cid = c /\ v[Len(w) + 1].seq = sent[c] + 1
         /\ UNCHANGED <<conn, made, reader, pc, book, answer>>
<1> DEFINE new == Arrival(c, part)
<1>1. /\ conn[c] \in Sockets /\ new \in Arrivals
      /\ wire' = [wire EXCEPT ![conn[c]] = Append(@, new)]
  BY Sending
<1>2. /\ \A s \in Sockets \ {conn[c]} : wire'[s] = wire[s]
      /\ wire'[conn[c]] = Append(wire[conn[c]], new)
  BY <1>1 DEF TypeOK, WireOK
<1>3. new.cid = c /\ new.seq = sent[c] + 1
  BY DEF Arrival
<1>4. sent'[c] = sent[c] + 1
  BY DEF SendRequest, Count, TypeOK, ClientsOK
<1>5. wire[conn[c]] \in Seq(Arrivals)
  BY <1>1, Types
<1>6. /\ Len(wire'[conn[c]]) = Len(wire[conn[c]]) + 1
      /\ \A k \in 1 .. Len(wire[conn[c]]) : wire'[conn[c]][k] = wire[conn[c]][k]
      /\ wire'[conn[c]][Len(wire[conn[c]]) + 1] = new
  BY <1>1, <1>2, <1>5, AppendProperties
<1> QED
  BY <1>1, <1>2, <1>3, <1>4, <1>6 DEF SendRequest

LEMMA CompletedElement ==
  ASSUME TypeOK, NEW t \in Sockets, Complete(t), NEW s \in Sockets
  PROVE  /\ Len(wire'[s]) = Len(wire[s])
         /\ \A k \in 1 .. Len(wire[s]) :
              wire'[s][k].cid = wire[s][k].cid /\ wire'[s][k].seq = wire[s][k].seq
<1> DEFINE n == Len(wire[t])
           last == [wire[t][n] EXCEPT !.part = "none", !.at = now']
<1>1. n \in 1 .. n /\ last \in Arrivals /\ wire' = [wire EXCEPT ![t] = [@ EXCEPT ![n] = last]]
  BY Completed
<1>2. wire[t] \in Seq(Arrivals) /\ wire[t][n] \in Arrivals
  BY <1>1, Types, ElementOfSeq
<1>3. last.cid = wire[t][n].cid /\ last.seq = wire[t][n].seq
  BY <1>2 DEF Arrivals
<1>4. CASE s # t
  BY <1>1, <1>4 DEF TypeOK, WireOK
<1>5. CASE s = t
  <2>1. wire'[s] = [wire[s] EXCEPT ![n] = last]
    BY <1>1, <1>5 DEF TypeOK, WireOK
  <2>2. DOMAIN wire[s] = 1 .. Len(wire[s]) /\ Len(wire'[s]) = Len(wire[s])
    BY <1>1, <1>2, <1>5, <2>1, ExceptSeq
  <2>3. \A k \in 1 .. Len(wire[s]) : wire'[s][k] = IF k = n THEN last ELSE wire[s][k]
    BY <2>1, <2>2
  <2> QED
    BY <1>3, <1>5, <2>2, <2>3
<1> QED
  BY <1>4, <1>5

\* A read takes the whole requests, and leaves no more than the one after them.
LEMMA ReadElements ==
  ASSUME TypeOK, ReadSocket
  PROVE  /\ Socket \in Sockets /\ Socket = recvSockets[turn] /\ turn \in 1 .. Len(recvSockets)
         /\ \A s \in Sockets \ {Socket} : wire'[s] = wire[s]
         /\ wire[Socket] # <<>> /\ Len(wire[Socket]) \in 1 .. Len(wire[Socket])
         /\ Len(inbox') <= Len(wire[Socket])
         /\ \A k \in 1 .. Len(inbox') : inbox'[k] = wire[Socket][k]
         /\ Len(wire'[Socket]) \in {0, 1}
         /\ \A k \in 1 .. Len(wire'[Socket]) :
              /\ Len(inbox') = Len(wire[Socket]) - 1
              /\ wire'[Socket][k].cid = wire[Socket][Len(wire[Socket])].cid
              /\ wire'[Socket][k].seq = wire[Socket][Len(wire[Socket])].seq
         /\ pc = "recv" /\ Socket' = Socket
         /\ UNCHANGED <<client, backlog, recvSockets, turn, book, engine, answer>>
<1> DEFINE n == Len(wire[Socket])
<1>1. Socket \in Sockets /\ Readable(Socket)
  BY SocketType DEF ReadSocket
<1>2. turn \in 1 .. Len(recvSockets)
  BY DEF ReadSocket, TypeOK, ReaderOK
<1>3. /\ inbox' = WholeRequests(Socket) /\ wire' = [wire EXCEPT ![Socket] = LeftOver(Socket)]
      /\ pc = "recv" /\ UNCHANGED <<client, backlog, recvSockets, turn, book, engine, answer>>
  BY DEF ReadSocket
<1>4. wire'[Socket] = LeftOver(Socket) /\ \A s \in Sockets \ {Socket} : wire'[s] = wire[s]
  BY <1>1, <1>3 DEF TypeOK, WireOK
<1>5. /\ n \in 1 .. n /\ Len(inbox') <= n /\ \A k \in 1 .. Len(inbox') : inbox'[k] = wire[Socket][k]
      /\ wire[Socket][n] \in Arrivals
  BY <1>1, <1>3, ReadParts
<1>6. Len(LeftOver(Socket)) \in {0, 1}
  BY DEF LeftOver
<1>7. ASSUME NEW k \in 1 .. Len(wire'[Socket])
      PROVE  Len(inbox') = n - 1 /\ wire'[Socket][k] = [wire[Socket][n] EXCEPT !.part = "read"]
  <2>1. LeftOver(Socket) # <<>>
    BY <1>4, EmptySeq
  <2> QED
    BY <1>1, <1>3, <1>4, <2>1, ReadParts
<1>8. \A k \in 1 .. Len(wire'[Socket]) :
        wire'[Socket][k].cid = wire[Socket][n].cid /\ wire'[Socket][k].seq = wire[Socket][n].seq
  BY <1>5, <1>7 DEF Arrivals
<1>9. Len(wire'[Socket]) \in {0, 1}
  BY <1>4, <1>6, Zenon
<1>10. wire[Socket] # <<>>
  BY <1>1 DEF Readable
<1> QED
  BY <1>1, <1>2, <1>3, <1>4, <1>5, <1>7, <1>8, <1>9, <1>10 DEF Socket

LEMMA ElementAfter ==
  ASSUME TypeOK, [Next]_vars, NEW s \in Sockets, NEW k \in 1 .. Len(wire'[s])
  PROVE  \/ \E m \in 1 .. Len(wire[s]) :
              wire'[s][k].cid = wire[s][m].cid /\ wire'[s][k].seq = wire[s][m].seq
         \/ \E c \in Clients : \E part \in {"none", "unread"} :
              /\ SendRequest(c, part) /\ conn[c] = s
              /\ wire'[s][k].cid = c /\ wire'[s][k].seq = sent[c] + 1
<1>1. ASSUME NEW c \in Clients, NEW part \in {"none", "unread"}, SendRequest(c, part)
      PROVE  \/ \E m \in 1 .. Len(wire[s]) : wire'[s][k] = wire[s][m]
             \/ conn[c] = s /\ wire'[s][k].cid = c /\ wire'[s][k].seq = sent[c] + 1
  <2>1. CASE conn[c] # s
    BY <1>1, <2>1, SentElement
  <2>2. CASE conn[c] = s
    <3> DEFINE n == Len(wire[s])
    <3>1. /\ Len(wire'[s]) = n + 1 /\ \A m \in 1 .. n : wire'[s][m] = wire[s][m]
          /\ wire'[s][n + 1].cid = c /\ wire'[s][n + 1].seq = sent[c] + 1
      BY <1>1, <2>2, SentElement
    <3>2. n \in Nat /\ (k \in 1 .. n \/ k = n + 1)
      BY <3>1, Types
    <3> QED
      BY <2>2, <3>1, <3>2
  <2> QED
    BY <2>1, <2>2
<1>2. ASSUME NEW t \in Sockets, Complete(t)
      PROVE  \E m \in 1 .. Len(wire[s]) :
               wire'[s][k].cid = wire[s][m].cid /\ wire'[s][k].seq = wire[s][m].seq
  BY <1>2, CompletedElement
<1>3. CASE ReadSocket
  <2>1. CASE s # Socket
    BY <1>3, <2>1, ReadElements
  <2>2. CASE s = Socket
    BY <1>3, <2>2, ReadElements
  <2> QED
    BY <2>1, <2>2
<1>4. CASE UNCHANGED wire
  BY <1>4
<1> QED
  BY <1>1, <1>2, <1>3, <1>4, Changes DEF Arriving

\* recvCallback() goes on to the next request.
LEMMA OneDown ==
  ASSUME TypeOK, DropForeign \/ TakeRequest
  PROVE  /\ pc = "callback" /\ UNCHANGED <<client, net, recvSockets, turn, pc>>
         /\ 1 \in 1 .. Len(inbox) /\ Request = inbox[1] /\ Len(inbox') = Len(inbox) - 1
         /\ \A k \in 1 .. Len(inbox') : k + 1 \in 1 .. Len(inbox) /\ inbox'[k] = inbox[k + 1]
         /\ Socket \in Sockets
<1>1. /\ pc = "callback" /\ inbox # <<>> /\ inbox' = Tail(inbox)
      /\ UNCHANGED <<client, net, recvSockets, turn, pc>>
  BY DEF DropForeign, TakeRequest, Expected
<1>2. Socket \in Sockets
  BY <1>1, SocketType DEF TypeOK, ReaderOK
<1>3. /\ Request = inbox[1] /\ Len(inbox) \in Nat \ {0} /\ Len(Tail(inbox)) = Len(inbox) - 1
      /\ \A i \in 1 .. Len(Tail(inbox)) : Tail(inbox)[i] = inbox[i + 1]
  BY <1>1, RequestType
<1>4. \A k \in 1 .. Len(inbox') : k + 1 \in 1 .. Len(inbox) /\ inbox'[k] = inbox[k + 1]
  BY <1>1, <1>3
<1> QED
  BY <1>1, <1>2, <1>3, <1>4

LEMMA InboxStep ==
  ASSUME [Next]_vars, pc' = "callback"
  PROVE  /\ Socket' = Socket
         /\ \/ ReadSocket
            \/ pc = "callback" /\ UNCHANGED inbox
            \/ pc = "callback" /\ (DropForeign \/ TakeRequest)
  BY SocketStays, Changes

\* A client is bound, if it is not, and its next number expected, when a request of it is
\* looked at.
LEMMA BindStep ==
  ASSUME TypeOK, [Next]_vars, NEW c \in Clients
  PROVE  \/ cidSocket'[c] = cidSocket[c] /\ expSeq'[c] = expSeq[c]
         \/ /\ pc = "callback" /\ inbox # <<>> /\ c = Request.cid
            /\ cidSocket[c] \in {noSocket, Socket} /\ cidSocket'[c] = Socket
            /\ expSeq'[c] = expSeq[c] \/ (expSeq[c] = Request.seq /\ expSeq'[c] = expSeq[c] + 1)
            /\ UNCHANGED <<client, net, outSeq, outbound, delivered>>
<1> USE DEF TypeOK, BookOK
<1>1. CASE WrongNumber
  BY <1>1 DEF WrongNumber, Bind, Binding
<1>2. CASE TakeRequest \/ TooMany
  <2>1. /\ pc = "callback" /\ inbox # <<>> /\ Binding(Request.cid) = Socket
        /\ Request.seq = expSeq[Request.cid] /\ Bind(Request.cid) /\ Counted(Request.cid)
        /\ UNCHANGED <<client, net, outSeq, outbound, delivered>>
    BY <1>2 DEF TakeRequest, TooMany, Expected
  <2> QED
    BY <2>1 DEF Bind, Binding, Counted
<1>3. CASE UNCHANGED <<cidSocket, expSeq>>
  BY <1>3
<1> QED
  BY <1>1, <1>2, <1>3, Changes

-----------------------------------------------------------------------------
(***************************************************************************)
(* Every step keeps the parts of the invariant.                            *)
(***************************************************************************)
LEMMA AcceptedMade ==
  ASSUME TypeOK, UnmadeQuiet, turn <= Len(recvSockets)
  PROVE  Socket \in made
BY DEF UnmadeQuiet, Socket, TypeOK, ReaderOK

LEMMA NextBacklog ==
  ASSUME TypeOK, UnmadeQuiet, [Next]_vars
  PROVE  /\ \A i \in 1 .. Len(backlog') : backlog'[i] \in made'
         /\ \A i \in 1 .. Len(recvSockets') : recvSockets'[i] \in made'
<1>0. backlog \in Seq(Sockets) /\ recvSockets \in Seq(Sockets)
  BY DEF TypeOK, ReaderOK
<1>1. ASSUME NEW c \in Clients, Establish(c) PROVE \A i \in 1 .. Len(backlog') : backlog'[i] \in made'
  <2>1. /\ backlog' = Append(backlog, conn[c]) /\ made' = made \union {conn[c]} /\ conn[c] \in Sockets
    BY <1>1 DEF Establish
  <2>2. /\ Len(backlog') = Len(backlog) + 1 /\ Len(backlog) \in Nat
        /\ backlog'[Len(backlog) + 1] = conn[c]
        /\ \A i \in 1 .. Len(backlog) : backlog'[i] = backlog[i]
    BY <1>0, <2>1, AppendProperties
  <2> QED
    BY <2>1, <2>2 DEF UnmadeQuiet
<1>2. CASE Poll
  <2>1. recvSockets' = recvSockets \o backlog /\ Len(backlog') = 0
    BY <1>2, EmptySeq DEF Poll
  <2>2. \A i \in 1 .. Len(recvSockets') :
          \/ i \in 1 .. Len(recvSockets) /\ recvSockets'[i] = recvSockets[i]
          \/ \E m \in 1 .. Len(backlog) : recvSockets'[i] = backlog[m]
    <3>1. Len(recvSockets) \in Nat /\ Len(backlog) \in Nat
      BY <1>0, LenProperties
    <3>2. ASSUME NEW i \in 1 .. Len(recvSockets'), i > Len(recvSockets)
          PROVE  /\ i - Len(recvSockets) \in 1 .. Len(backlog)
                 /\ recvSockets'[i] = backlog[i - Len(recvSockets)]
      BY <1>0, <2>1, <3>1, <3>2, ConcatProperties
    <3>3. ASSUME NEW i \in 1 .. Len(recvSockets'), i <= Len(recvSockets)
          PROVE  recvSockets'[i] = recvSockets[i]
      BY <1>0, <2>1, <3>1, <3>3, ConcatProperties
    <3>4. ASSUME NEW i \in 1 .. Len(recvSockets')
          PROVE  \/ i \in 1 .. Len(recvSockets) /\ recvSockets'[i] = recvSockets[i]
                 \/ \E m \in 1 .. Len(backlog) : recvSockets'[i] = backlog[m]
      BY <3>1, <3>2, <3>3
    <3> QED
      BY <3>4
  <2> QED
    BY <2>1, <2>2, MadeGrows DEF UnmadeQuiet
<1>3. backlog' = backlog \/ Poll \/ \E c \in Clients : Establish(c)
  <2>1. CASE Calling
    BY <2>1 DEF Calling, Connect, LoseRequest
  <2>2. CASE Arriving
    BY <2>2 DEF Arriving, SendRequest, Complete
  <2>3. CASE Server
    BY <2>3 DEF Server, ReadSocket, NextSocket, DropForeign, WrongNumber, TakeRequest, TooMany,
                RecvFinished, Respond, RespondEnds
  <2> QED
    BY <2>1, <2>2, <2>3, Changes
<1>4. recvSockets' = recvSockets \/ Poll
  <2>1. CASE Server
    BY <2>1 DEF Server, ReadSocket, NextSocket, DropForeign, WrongNumber, TakeRequest, TooMany,
                RecvFinished, Respond, RespondEnds
  <2>2. ASSUME NEW c \in Clients, Establish(c) PROVE recvSockets' = recvSockets
    BY <2>2 DEF Establish
  <2> QED
    BY <2>1, <2>2, Changes
<1>5. recvSockets' = recvSockets => \A i \in 1 .. Len(recvSockets') : recvSockets'[i] \in made'
  BY MadeGrows DEF UnmadeQuiet
<1>6. backlog' = backlog => \A i \in 1 .. Len(backlog') : backlog'[i] \in made'
  BY MadeGrows DEF UnmadeQuiet
<1> QED
  BY <1>1, <1>2, <1>3, <1>4, <1>5, <1>6

\* What a step does to the responses on a socket.
LEMMA StreamStep ==
  ASSUME TypeOK, [Next]_vars, NEW s \in Sockets
  PROVE  \/ UNCHANGED <<delivered[s], outbound[s], outSeq>>
         \/ /\ NextSocket /\ s = Socket /\ UNCHANGED <<client, book, outSeq>>
            /\ outbound'[s] = <<>>
            /\ delivered'[s] = IF \E c \in Clients : conn[c] = s THEN delivered[s] \o outbound[s]
                                                                 ELSE delivered[s]
         \/ \E c \in Clients :
              /\ Respond /\ cidSocket[c] # noSocket /\ UNCHANGED <<client, book, delivered>>
              /\ outSeq' = [outSeq EXCEPT ![c] = @ + 1]
              /\ outbound'[s] = IF cidSocket[c] = s
                                THEN Append(outbound[s], [cid |-> c, seq |-> outSeq[c]])
                                ELSE outbound[s]
<1> USE DEF TypeOK, AnswersOK
<1>1. CASE NextSocket
  BY <1>1 DEF NextSocket, Sends
<1>2. CASE Respond
  <2> DEFINE c == Head(responses)
  <2>1. c \in Clients
    BY <1>2, HeadTailProperties DEF Respond
  <2>2. /\ cidSocket[c] # noSocket /\ UNCHANGED <<client, book, delivered>>
        /\ outSeq' = [outSeq EXCEPT ![c] = @ + 1]
        /\ outbound' = [outbound EXCEPT ![cidSocket[c]] = Append(@, [cid |-> c, seq |-> outSeq[c]])]
    BY <1>2 DEF Respond, Answered
  <2>3. outbound'[s] = IF cidSocket[c] = s THEN Append(outbound[s], [cid |-> c, seq |-> outSeq[c]])
                                           ELSE outbound[s]
    BY <2>2
  <2> QED
    BY <1>2, <2>1, <2>2, <2>3
<1>3. CASE Engine
  BY <1>3 DEF Engine
<1>4. CASE UNCHANGED <<outSeq, responses, outbound, delivered>>
  BY <1>4
<1> QED
  BY <1>1, <1>2, <1>3, <1>4, Changes

LEMMA NextUnmade == ASSUME TypeOK, UnmadeQuiet, [Next]_vars PROVE UnmadeQuiet'
<1>1. ASSUME NEW c \in Clients PROVE cidSocket'[c] \in made' \union {noSocket}
  <2>1. pc = "callback" => Socket \in made
    BY AcceptedMade DEF TypeOK, ReaderOK
  <2> QED
    BY <2>1, BindStep, MadeGrows DEF UnmadeQuiet
<1>2. ASSUME NEW s \in Sockets \ made'
      PROVE  wire'[s] = <<>> /\ delivered'[s] = <<>> /\ outbound'[s] = <<>>
  <2>1. s \notin made /\ wire[s] = <<>> /\ delivered[s] = <<>> /\ outbound[s] = <<>>
    BY MadeGrows DEF UnmadeQuiet
  <2>2. wire'[s] = <<>>
    <3>1. wire'[s] \in Seq(Arrivals)
      BY WireType DEF WireOK
    <3>2. ASSUME NEW k \in 1 .. Len(wire'[s]) PROVE FALSE
      <4>1. Len(wire[s]) = 0
        BY <2>1, EmptySeq
      <4> QED
        BY <2>1, <4>1, ElementAfter DEF SendRequest
    <3>3. Len(wire'[s]) = 0
      BY <3>1, <3>2, LenProperties
    <3> QED
      BY <3>1, <3>3, EmptySeq
  <2>3. ~(NextSocket /\ s = Socket)
    BY <2>1, AcceptedMade DEF NextSocket, TypeOK, ReaderOK
  <2>4. \A c \in Clients : cidSocket[c] # noSocket => cidSocket[c] # s
    BY <2>1 DEF UnmadeQuiet
  <2>5. delivered'[s] = <<>> /\ outbound'[s] = <<>>
    BY <2>1, <2>3, <2>4, StreamStep
  <2> QED
    BY <2>2, <2>5
<1> QED
  BY <1>1, <1>2, NextBacklog DEF UnmadeQuiet

LEMMA NextOwner == ASSUME TypeOK, OneOwner, [Next]_vars PROVE OneOwner'
<1> SUFFICES ASSUME NEW c \in Clients, NEW d \in Clients, conn'[c] = conn'[d], conn'[c] # noSocket, c # d
             PROVE  FALSE
  BY DEF OneOwner
<1>1. ~Connect(c) /\ ~Connect(d)
  BY Connecting
<1> QED
  BY <1>1, GatewayStep DEF OneOwner

LEMMA NextWireFrom == ASSUME TypeOK, UnmadeQuiet, OneOwner, WireFrom, [Next]_vars PROVE WireFrom'
<1> SUFFICES ASSUME NEW c \in Clients, conn'[c] # noSocket, NEW k \in 1 .. Len(wire'[conn'[c]])
             PROVE  wire'[conn'[c]][k].cid = c /\ wire'[conn'[c]][k].seq <= sent'[c]
  BY DEF WireFrom
<1> DEFINE s == conn'[c]
<1>0. s \in Sockets
  BY ClientsType DEF ClientsOK
<1>1. ~Connect(c)
  <2> SUFFICES ASSUME Connect(c) PROVE FALSE
    OBVIOUS
  <2>1. wire'[s] = <<>>
    BY Connecting DEF UnmadeQuiet
  <2> QED
    BY <2>1, EmptySeq
<1>2. conn[c] = s /\ sent'[c] \in Nat /\ sent[c] <= sent'[c] /\ sent[c] \in Nat
  BY <1>1, GatewayStep, Types
<1>3. CASE \E m \in 1 .. Len(wire[s]) :
             wire'[s][k].cid = wire[s][m].cid /\ wire'[s][k].seq = wire[s][m].seq
  <2>1. PICK m \in 1 .. Len(wire[s]) :
          wire'[s][k].cid = wire[s][m].cid /\ wire'[s][k].seq = wire[s][m].seq
    BY <1>3
  <2>2. wire[s][m].cid = c /\ wire[s][m].seq <= sent[c] /\ wire[s][m].seq \in Nat
    BY <1>0, <1>2, Types DEF WireFrom
  <2> QED
    BY <1>2, <2>1, <2>2
<1>4. ASSUME NEW d \in Clients, NEW part \in {"none", "unread"}, SendRequest(d, part), conn[d] = s,
             wire'[s][k].cid = d, wire'[s][k].seq = sent[d] + 1
      PROVE  wire'[s][k].cid = c /\ wire'[s][k].seq <= sent'[c]
  <2>1. d = c
    BY <1>2, <1>4 DEF OneOwner
  <2> QED
    BY <1>2, <1>4, <2>1, SentElement
<1> QED
  BY <1>0, <1>3, <1>4, ElementAfter

LEMMA NextInboxFrom ==
  ASSUME TypeOK, UnmadeQuiet, WireFrom, InboxFrom, [Next]_vars
  PROVE  InboxFrom'
<1> SUFFICES ASSUME pc' = "callback", NEW c \in Clients, conn'[c] = Socket', NEW k \in 1 .. Len(inbox')
             PROVE  inbox'[k].cid = c /\ inbox'[k].seq <= sent'[c]
  BY DEF InboxFrom
<1>0. Socket' = Socket
  BY SocketStays
<1>1. CASE ReadSocket
  BY <1>0, <1>1, ReadElements, ServerAssumption DEF WireFrom
<1>2. CASE pc = "callback" /\ (UNCHANGED inbox \/ DropForeign \/ TakeRequest)
  <2>1. Socket \in made /\ Socket \in Sockets
    BY <1>2, AcceptedMade, SocketType DEF TypeOK, ReaderOK
  <2>2. conn[c] = Socket /\ sent[c] <= sent'[c] /\ sent[c] \in Nat /\ sent'[c] \in Nat
    BY <1>0, <2>1, Connecting, GatewayStep, Types
  <2>3. \E m \in 1 .. Len(inbox) : inbox'[k] = inbox[m]
    BY <1>2, OneDown
  <2> QED
    BY <1>2, <2>2, <2>3, Types DEF InboxFrom
<1> QED
  BY <1>1, <1>2, InboxStep

LEMMA NextBoundFrom ==
  ASSUME TypeOK, UnmadeQuiet, OneOwner, InboxFrom, BoundFrom, Fresh, [Next]_vars
  PROVE  BoundFrom'
<1> SUFFICES ASSUME NEW c \in Clients, NEW d \in Clients, conn'[c] # noSocket, cidSocket'[d] = conn'[c]
             PROVE  d = c /\ expSeq'[c] <= sent'[c] + 1
  BY DEF BoundFrom
<1>1. ~Connect(c)
  BY Connecting DEF UnmadeQuiet
<1>2. conn[c] = conn'[c] /\ sent'[c] \in Nat /\ sent[c] <= sent'[c] /\ sent[c] \in Nat
  BY <1>1, GatewayStep, Types
<1>3. CASE cidSocket'[d] = cidSocket[d]
  <2>1. d = c /\ expSeq[c] <= sent[c] + 1 /\ expSeq[c] \in Nat
    BY <1>2, <1>3, Types DEF BoundFrom
  <2>2. \/ expSeq'[c] = expSeq[c]
        \/ /\ pc = "callback" /\ inbox # <<>> /\ c = Request.cid /\ Socket = conn[c]
           /\ expSeq[c] = Request.seq /\ expSeq'[c] = expSeq[c] + 1
    BY <1>2, <2>1, BindStep
  <2>3. inbox # <<>> => Request = inbox[1] /\ 1 \in 1 .. Len(inbox)
    BY RequestType
  <2> QED
    BY <1>2, <2>1, <2>2, <2>3 DEF InboxFrom
<1>4. CASE cidSocket'[d] # cidSocket[d]
  <2>1. /\ pc = "callback" /\ inbox # <<>> /\ d = Request.cid /\ Socket = conn[c]
        /\ cidSocket[d] = noSocket
        /\ expSeq'[d] = expSeq[d] \/ (expSeq[d] = Request.seq /\ expSeq'[d] = expSeq[d] + 1)
    BY <1>2, <1>4, BindStep
  <2>2. Request = inbox[1] /\ 1 \in 1 .. Len(inbox)
    BY <2>1, RequestType
  <2>3. d = c /\ Request.seq <= sent[c] /\ expSeq[c] = 1
    BY <2>1, <2>2 DEF InboxFrom, Fresh
  <2> QED
    BY <1>2, <2>1, <2>3
<1> QED
  BY <1>3, <1>4

LEMMA NextWireIncreasing ==
  ASSUME TypeOK, WireFrom, WireIncreasing, [Next]_vars
  PROVE  WireIncreasing'
<1> SUFFICES ASSUME NEW s \in Sockets, NEW j \in 1 .. Len(wire'[s]), NEW k \in 1 .. Len(wire'[s]), j < k
             PROVE  wire'[s][j].seq < wire'[s][k].seq
  BY DEF WireIncreasing
<1> DEFINE n == Len(wire[s])
<1>0. n \in Nat /\ Len(wire'[s]) \in Nat
  BY Types, WireType, LenProperties DEF WireOK
<1>1. ASSUME NEW c \in Clients, NEW part \in {"none", "unread"}, SendRequest(c, part)
      PROVE  wire'[s][j].seq < wire'[s][k].seq
  <2>1. CASE conn[c] # s
    BY <1>1, <2>1, SentElement DEF WireIncreasing
  <2>2. CASE conn[c] = s
    <3>1. /\ Len(wire'[s]) = n + 1 /\ \A m \in 1 .. n : wire'[s][m] = wire[s][m]
          /\ wire'[s][n + 1].seq = sent[c] + 1
      BY <1>1, <2>2, SentElement
    <3>2. \A m \in 1 .. n : wire[s][m].seq < sent[c] + 1
      <4>1. \A m \in 1 .. n : wire[s][m].seq <= sent[c]
        BY <2>2, ServerAssumption DEF WireFrom
      <4>2. \A m \in 1 .. n : wire[s][m].seq \in Nat /\ sent[c] \in Nat
        BY Types
      <4> QED
        BY <4>1, <4>2
    <3>3. j \in 1 .. n /\ (k \in 1 .. n \/ k = n + 1)
      BY <1>0, <3>1
    <3> QED
      BY <3>1, <3>2, <3>3 DEF WireIncreasing
  <2> QED
    BY <2>1, <2>2
<1>2. ASSUME NEW t \in Sockets, Complete(t) PROVE wire'[s][j].seq < wire'[s][k].seq
  BY <1>2, CompletedElement DEF WireIncreasing
<1>3. CASE ReadSocket
  <2>1. CASE s # Socket
    BY <1>3, <2>1, ReadElements DEF WireIncreasing
  <2>2. CASE s = Socket
    <3>1. Len(wire'[s]) \in {0, 1}
      BY <1>3, <2>2, ReadElements
    <3> QED
      BY <1>0, <3>1
  <2> QED
    BY <2>1, <2>2
<1>4. CASE UNCHANGED wire
  BY <1>4 DEF WireIncreasing
<1> QED
  BY <1>1, <1>2, <1>3, <1>4, Changes DEF Arriving

LEMMA NextInboxIncreasing ==
  ASSUME TypeOK, WireIncreasing, InboxFrom, InboxIncreasing, [Next]_vars
  PROVE  InboxIncreasing'
<1> SUFFICES ASSUME pc' = "callback"
             PROVE  /\ \A j, k \in 1 .. Len(inbox') : j < k => inbox'[j].seq < inbox'[k].seq
                    /\ \A j \in 1 .. Len(inbox') : \A k \in 1 .. Len(wire'[Socket]) :
                         inbox'[j].seq < wire'[Socket][k].seq
  BY SocketStays DEF InboxIncreasing
<1>1. CASE ReadSocket
  <2> DEFINE n == Len(wire[Socket])
  <2>1. /\ Socket \in Sockets /\ n \in 1 .. n /\ n \in Nat /\ Len(inbox') <= n
        /\ \A k \in 1 .. Len(inbox') : inbox'[k] = wire[Socket][k]
        /\ \A k \in 1 .. Len(wire'[Socket]) :
             Len(inbox') = n - 1 /\ wire'[Socket][k].seq = wire[Socket][n].seq
    BY <1>1, ReadElements
  <2>2. Len(inbox') \in Nat
    BY InboxType, LenProperties DEF InboxOK
  <2>3. \A k \in 1 .. Len(inbox') : k \in 1 .. n
    BY <2>1, <2>2
  <2>4. \A j, k \in 1 .. Len(inbox') : j < k => inbox'[j].seq < inbox'[k].seq
    BY <2>1, <2>3 DEF WireIncreasing
  <2>5. ASSUME NEW j \in 1 .. Len(inbox'), NEW k \in 1 .. Len(wire'[Socket])
        PROVE  inbox'[j].seq < wire'[Socket][k].seq
    <3>1. j \in 1 .. n /\ j < n
      BY <2>1, <2>2
    <3> QED
      BY <2>1, <3>1 DEF WireIncreasing
  <2> QED
    BY <2>4, <2>5
<1>2. CASE pc = "callback" /\ (UNCHANGED inbox \/ DropForeign \/ TakeRequest)
  <2>1. Socket \in Sockets
    BY <1>2, SocketType DEF TypeOK, ReaderOK
  <2>2. \A j, k \in 1 .. Len(inbox') : j < k => inbox'[j].seq < inbox'[k].seq
    <3>1. CASE UNCHANGED inbox
      BY <1>2, <3>1 DEF InboxIncreasing
    <3>2. CASE DropForeign \/ TakeRequest
      BY <3>2, OneDown DEF InboxIncreasing
    <3> QED
      BY <1>2, <3>1, <3>2
  <2>3. ASSUME NEW j \in 1 .. Len(inbox'), NEW k \in 1 .. Len(wire'[Socket])
        PROVE  inbox'[j].seq < wire'[Socket][k].seq
    <3>1. PICK i \in 1 .. Len(inbox) : inbox'[j] = inbox[i]
      BY <1>2, OneDown
    <3>2. CASE \E m \in 1 .. Len(wire[Socket]) : wire'[Socket][k].seq = wire[Socket][m].seq
      BY <1>2, <3>1, <3>2 DEF InboxIncreasing
    <3>3. ASSUME NEW c \in Clients, conn[c] = Socket, wire'[Socket][k].seq = sent[c] + 1
          PROVE  inbox'[j].seq < wire'[Socket][k].seq
      <4>1. inbox[i].seq <= sent[c] /\ inbox[i].seq \in Nat /\ sent[c] \in Nat
        BY <1>2, <3>3, Types DEF InboxFrom
      <4> QED
        BY <3>1, <3>3, <4>1
    <3> QED
      BY <2>1, <3>2, <3>3, ElementAfter
  <2> QED
    BY <2>2, <2>3
<1> QED
  BY <1>1, <1>2, InboxStep

LEMMA NextWireExpected ==
  ASSUME TypeOK, BoundFrom, InboxIncreasing, WireExpected, Fresh, [Next]_vars
  PROVE  WireExpected'
<1> SUFFICES ASSUME NEW s \in Sockets, NEW k \in 1 .. Len(wire'[s]), cidSocket'[wire'[s][k].cid] = s
             PROVE  expSeq'[wire'[s][k].cid] <= wire'[s][k].seq
  BY DEF WireExpected
<1>1. ASSUME NEW m \in 1 .. Len(wire[s]),
             wire'[s][k].cid = wire[s][m].cid, wire'[s][k].seq = wire[s][m].seq
      PROVE  expSeq'[wire'[s][k].cid] <= wire'[s][k].seq
  <2> DEFINE c == wire[s][m].cid
  <2>1. c \in Clients /\ wire[s][m].seq \in Nat \ {0} /\ expSeq[c] \in Nat
    BY Types
  <2>2. cidSocket[c] \in {noSocket, s} => expSeq[c] <= wire[s][m].seq
    BY <2>1 DEF WireExpected, Fresh
  <2>3. CASE cidSocket'[c] = cidSocket[c] /\ expSeq'[c] = expSeq[c]
    BY <1>1, <2>2, <2>3
  <2>4. CASE /\ pc = "callback" /\ inbox # <<>> /\ s = Socket /\ cidSocket[c] \in {noSocket, s}
             /\ expSeq'[c] = expSeq[c] \/ (expSeq[c] = Request.seq /\ expSeq'[c] = expSeq[c] + 1)
    <3>1. Request = inbox[1] /\ 1 \in 1 .. Len(inbox)
      BY <2>4, RequestType
    <3>2. Request.seq < wire[s][m].seq
      BY <2>4, <3>1 DEF InboxIncreasing
    <3> QED
      BY <1>1, <2>1, <2>2, <2>4, <3>2
  <2> QED
    BY <1>1, <2>1, <2>3, <2>4, BindStep
<1>2. ASSUME NEW c \in Clients, NEW part \in {"none", "unread"}, SendRequest(c, part), conn[c] = s,
             wire'[s][k].cid = c, wire'[s][k].seq = sent[c] + 1
      PROVE  expSeq'[wire'[s][k].cid] <= wire'[s][k].seq
  BY <1>2, SentElement, ServerAssumption DEF BoundFrom
<1> QED
  BY <1>1, <1>2, ElementAfter

LEMMA NextInboxExpected ==
  ASSUME TypeOK, WireExpected, InboxExpected, InboxIncreasing, Fresh, [Next]_vars
  PROVE  InboxExpected'
<1> SUFFICES ASSUME pc' = "callback", NEW k \in 1 .. Len(inbox'), cidSocket'[inbox'[k].cid] = Socket
             PROVE  expSeq'[inbox'[k].cid] <= inbox'[k].seq
  BY SocketStays DEF InboxExpected
<1>1. CASE ReadSocket
  <2>1. /\ Socket \in Sockets /\ Len(inbox') <= Len(wire[Socket]) /\ inbox'[k] = wire[Socket][k]
        /\ UNCHANGED book
    BY <1>1, ReadElements
  <2>2. k \in 1 .. Len(wire[Socket])
    BY <2>1, Types, InboxType, LenProperties DEF InboxOK
  <2> QED
    BY <2>1, <2>2 DEF WireExpected
<1>2. CASE pc = "callback" /\ UNCHANGED inbox /\ UNCHANGED <<cidSocket, expSeq>>
  BY <1>2 DEF InboxExpected
<1>3. CASE DropForeign
  <2>1. UNCHANGED <<cidSocket, expSeq>>
    BY <1>3 DEF DropForeign
  <2> QED
    BY <1>3, <2>1, OneDown DEF InboxExpected
<1>4. CASE TakeRequest
  <2> DEFINE c == inbox[k + 1].cid
  <2>1. /\ pc = "callback" /\ k + 1 \in 1 .. Len(inbox) /\ 1 \in 1 .. Len(inbox)
        /\ inbox'[k] = inbox[k + 1] /\ Request = inbox[1]
    BY <1>4, OneDown
  <2>2. c \in Clients /\ inbox[k + 1].seq \in Nat \ {0} /\ expSeq[c] \in Nat
    BY <2>1, Types
  <2>3. cidSocket[c] \in {noSocket, Socket} => expSeq[c] <= inbox[k + 1].seq
    BY <2>1, <2>2 DEF InboxExpected, Fresh
  <2>4. Request.seq < inbox[k + 1].seq
    BY <2>1 DEF InboxIncreasing
  <2>5. \/ cidSocket'[c] = cidSocket[c] /\ expSeq'[c] = expSeq[c]
        \/ /\ cidSocket[c] \in {noSocket, Socket}
           /\ expSeq'[c] = expSeq[c] \/ (expSeq[c] = Request.seq /\ expSeq'[c] = expSeq[c] + 1)
    BY <2>2, BindStep
  <2> QED
    BY <2>1, <2>2, <2>3, <2>4, <2>5
<1>5. pc = "callback" /\ UNCHANGED inbox => UNCHANGED <<cidSocket, expSeq>>
  BY <1>2, Changes DEF WrongNumber, TakeRequest, TooMany, Expected
<1> QED
  BY <1>1, <1>2, <1>3, <1>4, <1>5, InboxStep

LEMMA NextFresh == ASSUME TypeOK, Fresh, [Next]_vars PROVE Fresh'
<1> SUFFICES ASSUME NEW c \in Clients, cidSocket'[c] = noSocket PROVE expSeq'[c] = 1 /\ outSeq'[c] = 1
  BY DEF Fresh
<1>1. cidSocket[c] = noSocket /\ expSeq'[c] = expSeq[c]
  <2>1. pc = "callback" => Socket # noSocket
    BY SocketType, ServerAssumption DEF TypeOK, ReaderOK
  <2> QED
    BY <2>1, BindStep
<1>2. outSeq'[c] = outSeq[c]
  <2>1. CASE Respond
    <3>1. cidSocket[Head(responses)] # noSocket /\ outSeq' = [outSeq EXCEPT ![Head(responses)] = @ + 1]
      BY <2>1 DEF Respond, Answered
    <3> QED
      BY <1>1, <3>1 DEF TypeOK, AnswersOK
  <2>2. CASE UNCHANGED outSeq
    BY <2>2
  <2> QED
    BY <2>1, <2>2, Changes DEF NextSocket, Sends, Engine
<1> QED
  BY <1>1, <1>2 DEF Fresh

LEMMA NextDown == ASSUME TypeOK, InboxExpected, Fresh, DownForCause, [Next]_vars PROVE DownForCause'
<1> SUFFICES ASSUME pc' = "down"
             PROVE  Len(pending') = PendingSize \/ Request'.seq > expSeq'[Request'.cid]
  BY DEF DownForCause
<1>1. CASE pc = "down"
  <2>1. ~Server /\ UNCHANGED <<reader, book>>
    <3>1. ~Server
      BY <1>1 DEF Server, Poll, ReadSocket, NextSocket, DropForeign, WrongNumber, TakeRequest, TooMany,
                  Expected, RecvFinished, Respond, RespondEnds
    <3>2. ASSUME Calling PROVE UNCHANGED <<reader, book>>
      BY <3>2 DEF Calling, Connect, Establish, LoseRequest
    <3>3. ASSUME Arriving PROVE UNCHANGED <<reader, book>>
      BY <3>3 DEF Arriving, SendRequest, Complete
    <3>4. ASSUME Engine PROVE UNCHANGED <<reader, book>>
      BY <3>4 DEF Engine
    <3>5. ASSUME UNCHANGED vars PROVE UNCHANGED <<reader, book>>
      BY <3>5 DEF vars
    <3> QED
      BY <3>1, <3>2, <3>3, <3>4, <3>5 DEF Next, Environment, Calling, Arriving
  <2> QED
    BY <1>1, <2>1 DEF DownForCause, Request
<1>2. CASE pc # "down"
  <2>1. CASE WrongNumber
    <3> DEFINE c == Request.cid
    <3>1. /\ pc = "callback" /\ inbox # <<>> /\ Binding(c) = Socket /\ Request.seq # expSeq[c]
          /\ UNCHANGED <<inbox, expSeq>>
      BY <2>1 DEF WrongNumber
    <3>2. Request = inbox[1] /\ 1 \in 1 .. Len(inbox)
      BY <3>1, RequestType
    <3>3. c \in Clients /\ Request.seq \in Nat \ {0} /\ expSeq[c] \in Nat
      BY <3>2, Types
    <3>4. expSeq[c] <= Request.seq
      BY <3>1, <3>2, <3>3 DEF Binding, InboxExpected, Fresh
    <3>5. Request' = Request
      BY <3>1 DEF Request
    <3> QED
      BY <3>1, <3>3, <3>4, <3>5
  <2>2. CASE TooMany
    BY <2>2, ServerAssumption, LenProperties DEF TooMany, Room, TypeOK, PendingOK
  <2>3. WrongNumber \/ TooMany
    <3>1. CASE Server
      BY <1>2, <3>1 DEF Server, Poll, ReadSocket, NextSocket, DropForeign, TakeRequest,
                        Expected, RecvFinished, Respond, RespondEnds
    <3>2. ASSUME NEW c \in Clients, Establish(c) PROVE FALSE
      BY <1>2, <3>2 DEF Establish
    <3> QED
      BY <1>2, <3>1, <3>2, Changes
  <2> QED
    BY <2>1, <2>2, <2>3
<1> QED
  BY <1>1, <1>2

\* A client that is answered was published, and so is bound.
LEMMA NextBound == ASSUME TypeOK, OneConnection, AnswersBound, [Next]_vars PROVE AnswersBound'
<1>0. responses \in Seq(Clients) /\ published \in Seq(Pendings)
  BY DEF TypeOK, AnswersOK, EngineOK
<1>1. ASSUME NEW c \in Clients, cidSocket[c] # noSocket PROVE cidSocket'[c] # noSocket
  BY <1>1, BoundStays
<1>2. \A i \in 1 .. Len(responses) : responses[i] \in Clients /\ cidSocket[responses[i]] # noSocket
  BY <1>0, ElementOfSeq DEF AnswersBound
<1>3. ASSUME NEW i \in 1 .. Len(responses')
      PROVE  responses'[i] \in Clients /\ cidSocket[responses'[i]] # noSocket
  <2>1. CASE Respond
    <3>1. responses # <<>> /\ responses' = Tail(responses)
      BY <2>1 DEF Respond
    <3>2. i + 1 \in 1 .. Len(responses) /\ responses'[i] = responses[i + 1]
      BY <1>0, <3>1, HeadTailProperties, EmptySeq
    <3> QED
      BY <1>2, <3>2
  <2>2. CASE Engine
    <3>1. PICK k \in 1 .. consumed + 1 : responses' = Append(responses, published[k].cid)
      BY <2>2 DEF Engine
    <3>2. k \in 1 .. Len(published)
      BY <2>2 DEF Engine, TypeOK, EngineOK
    <3>3. published[k] \in Pendings
      BY <1>0, <3>2, ElementOfSeq
    <3>4. published[k].cid \in Clients /\ cidSocket[published[k].cid] # noSocket
      <4>1. published[k].cid \in Clients /\ published[k].sock \in Sockets
        BY <3>3 DEF Pendings
      <4>2. DOMAIN published = 1 .. Len(published)
        BY <1>0, LenProperties
      <4>3. published[k].sock = cidSocket[published[k].cid]
        BY <3>2, <4>2 DEF OneConnection
      <4> QED
        BY <4>1, <4>3, ServerAssumption
    <3>5. (i \in 1 .. Len(responses) /\ responses'[i] = responses[i]) \/ responses'[i] = published[k].cid
      BY <1>0, <3>1, <3>4, AppendProperties
    <3> QED
      BY <1>2, <3>4, <3>5
  <2>3. CASE UNCHANGED responses
    BY <1>2, <2>3
  <2> QED
    BY <2>1, <2>2, <2>3, Changes DEF NextSocket
<1>4. DOMAIN responses' = 1 .. Len(responses')
  BY AnswersType, LenProperties DEF AnswersOK
<1> QED
  BY <1>1, <1>3, <1>4 DEF AnswersBound

\* w is v with e at the end.
Longer(w, v, e) ==
  /\ Len(v) \in Nat /\ Len(w) = Len(v) + 1
  /\ w[Len(v) + 1] = e /\ \A i \in 1 .. Len(v) : w[i] = v[i]

LEMMA ConcatLonger ==
  ASSUME NEW p \in Seq(Answers), NEW q \in Seq(Answers), NEW r \in Seq(Answers), NEW e,
         Longer(r, q, e)
  PROVE  Longer(p \o r, p \o q, e)
<1>1. Len(r) = Len(q) + 1 /\ r[Len(q) + 1] = e /\ \A i \in 1 .. Len(q) : r[i] = q[i]
  BY DEF Longer
<1>2. Len(p) \in Nat /\ Len(q) \in Nat
  BY LenProperties
<1>3. Len(p \o q) = Len(p) + Len(q) /\ Len(p \o r) = Len(p) + Len(q) + 1
  <2>1. Len(p \o q) = Len(p) + Len(q)
    BY ConcatProperties
  <2>2. Len(p \o r) = Len(p) + Len(r)
    BY ConcatProperties
  <2> QED
    BY <1>1, <1>2, <2>1, <2>2
<1>4. \A i \in 1 .. Len(p) + Len(q) :
        (p \o q)[i] = IF i <= Len(p) THEN p[i] ELSE q[i - Len(p)]
  BY <1>2, ConcatProperties
<1>5. \A i \in 1 .. Len(p) + Len(q) + 1 :
        (p \o r)[i] = IF i <= Len(p) THEN p[i] ELSE r[i - Len(p)]
  BY <1>1, <1>2, ConcatProperties
<1>6. ASSUME NEW i \in 1 .. Len(p) + Len(q) PROVE (p \o r)[i] = (p \o q)[i]
  <2>1. CASE i <= Len(p)
    BY <1>2, <1>4, <1>5, <2>1
  <2>2. CASE ~(i <= Len(p))
    <3>1. i - Len(p) \in 1 .. Len(q) /\ i \in 1 .. Len(p) + Len(q) + 1
      BY <1>2, <2>2
    <3>2. (p \o q)[i] = q[i - Len(p)]
      BY <1>4, <2>2
    <3>3. (p \o r)[i] = r[i - Len(p)]
      BY <1>5, <2>2, <3>1
    <3> QED
      BY <1>1, <3>1, <3>2, <3>3
  <2> QED
    BY <2>1, <2>2
<1>7. (p \o r)[Len(p) + Len(q) + 1] = e
  BY <1>1, <1>2, <1>5
<1> QED
  BY <1>2, <1>3, <1>6, <1>7 DEF Longer

LEMMA NextStreams ==
  ASSUME TypeOK, UnmadeQuiet, OneOwner, BoundFrom, Fresh, Streams, [Next]_vars
  PROVE  Streams'
<1> SUFFICES ASSUME NEW c \in Clients, conn'[c] # noSocket PROVE StreamOf(c)'
  BY DEF Streams
<1>0. PICK s \in Sockets : s = conn'[c]
  BY ClientsType DEF ClientsOK
<1> DEFINE old == delivered[s] \o outbound[s]
           new == delivered'[s] \o outbound'[s]
           n == IF cidSocket[c] = s THEN outSeq[c] - 1 ELSE 0
           m == IF cidSocket'[c] = s THEN outSeq'[c] - 1 ELSE 0
<1> SUFFICES Len(new) = m /\ \A i \in 1 .. Len(new) : new[i] = [cid |-> c, seq |-> i]
  BY <1>0 DEF StreamOf, Stream, Sent
<1>a. delivered[s] \in Seq(Answers) /\ outbound[s] \in Seq(Answers)
  BY DEF TypeOK, AnswersOK
<1>1. CASE Connect(c)
  <2>1. s \notin made /\ cidSocket'[c] = cidSocket[c] /\ delivered' = delivered /\ outbound' = outbound
    BY <1>0, <1>1, Connecting
  <2>2. delivered'[s] = <<>> /\ outbound'[s] = <<>>
    BY <2>1 DEF UnmadeQuiet
  <2>3. cidSocket'[c] # s
    BY <2>1, ServerAssumption DEF UnmadeQuiet
  <2>4. Len(<<>> \o <<>>) = 0
    OBVIOUS
  <2>5. Len(new) = 0
    BY <2>2, <2>4
  <2> QED
    BY <2>3, <2>5
<1>2. CASE conn[c] = s
  <2>0. /\ Len(old) = n /\ \A i \in 1 .. Len(old) : old[i] = [cid |-> c, seq |-> i]
        /\ outSeq[c] \in Nat \ {0}
    <3>1. StreamOf(c)
      BY <1>2, ServerAssumption DEF Streams
    <3> QED
      BY <1>2, <3>1, Types DEF StreamOf, Stream, Sent
  <2>1. outSeq'[c] = outSeq[c] => m = n
    <3>1. CASE cidSocket'[c] = cidSocket[c]
      BY <3>1
    <3>2. CASE cidSocket'[c] # cidSocket[c]
      <4>1. cidSocket[c] = noSocket
        BY <3>2, BindStep
      <4> QED
        BY <4>1, ServerAssumption DEF Fresh
    <3> QED
      BY <3>1, <3>2
  <2>2. CASE UNCHANGED <<delivered[s], outbound[s], outSeq>>
    <3>1. new = old
      BY <2>2
    <3> QED
      BY <2>0, <2>1, <2>2, <3>1
  <2>3. CASE /\ UNCHANGED <<client, book, outSeq>> /\ outbound'[s] = <<>>
             /\ delivered'[s] = IF \E d \in Clients : conn[d] = s THEN delivered[s] \o outbound[s]
                                                                  ELSE delivered[s]
    <3>1. new = old \o <<>>
      BY <1>2, <2>3
    <3>2. old \o <<>> = old
      BY <1>a, ConcatProperties, ConcatEmptySeq
    <3> QED
      BY <2>0, <2>1, <2>3, <3>1, <3>2
  <2>4. ASSUME NEW d \in Clients, cidSocket[d] # noSocket, UNCHANGED <<client, book, delivered>>,
               outSeq' = [outSeq EXCEPT ![d] = @ + 1],
               outbound'[s] = IF cidSocket[d] = s
                              THEN Append(outbound[s], [cid |-> d, seq |-> outSeq[d]])
                              ELSE outbound[s]
        PROVE  Len(new) = m /\ \A i \in 1 .. Len(new) : new[i] = [cid |-> c, seq |-> i]
    <3>1. CASE cidSocket[d] = s
      <4>1. d = c
        BY <1>2, <2>4, <3>1 DEF BoundFrom
      <4>2. outSeq'[c] = outSeq[c] + 1
        BY <2>4, <4>1 DEF TypeOK, AnswersOK
      <4>3. PICK e \in Answers : e = [cid |-> c, seq |-> outSeq[c]]
        BY <2>0 DEF Answers
      <4>4. outbound'[s] = Append(outbound[s], e) /\ delivered'[s] = delivered[s]
        BY <2>4, <3>1, <4>1, <4>3
      <4>5. /\ outbound'[s] \in Seq(Answers) /\ Len(outbound'[s]) = Len(outbound[s]) + 1
            /\ outbound'[s][Len(outbound[s]) + 1] = e
            /\ \A i \in 1 .. Len(outbound[s]) : outbound'[s][i] = outbound[s][i]
        BY <1>a, <4>4, AppendProperties
      <4>6. /\ Len(new) = Len(old) + 1 /\ Len(old) \in Nat
            /\ new[Len(old) + 1] = e /\ \A i \in 1 .. Len(old) : new[i] = old[i]
        <5>1. Longer(outbound'[s], outbound[s], e)
          BY <1>a, <4>4, <4>5 DEF Longer
        <5>2. Longer(delivered[s] \o outbound'[s], delivered[s] \o outbound[s], e)
          BY <1>a, <4>5, <5>1, ConcatLonger
        <5>3. Longer(new, old, e)
          BY <4>4, <5>2
        <5> QED
          BY <5>3 DEF Longer
      <4>7. cidSocket'[c] = s /\ cidSocket[c] = s
        BY <2>4, <3>1, <4>1
      <4>8. Len(old) = outSeq[c] - 1 /\ Len(new) = m
        BY <2>0, <4>2, <4>6, <4>7
      <4>9. \A i \in 1 .. Len(new) : new[i] = [cid |-> c, seq |-> i]
        <5> HIDE DEF old, new
        <5>1. Len(old) + 1 = outSeq[c]
          BY <2>0, <4>8
        <5>2. \A i \in 1 .. Len(new) : i \in 1 .. Len(old) \/ i = Len(old) + 1
          BY <4>6
        <5> QED
          BY <2>0, <4>3, <4>6, <5>1, <5>2
      <4> QED
        BY <4>8, <4>9
    <3>2. CASE cidSocket[d] # s
      <4>1. m = n
        <5>1. CASE d = c
          BY <2>4, <3>2, <5>1
        <5>2. CASE d # c
          BY <2>1, <2>4, <5>2 DEF TypeOK, AnswersOK
        <5> QED
          BY <5>1, <5>2
      <4>2. new = old
        BY <2>4, <3>2
      <4> QED
        BY <2>0, <4>1, <4>2
    <3> QED
      BY <3>1, <3>2
  <2> QED
    BY <2>2, <2>3, <2>4, StreamStep
<1> QED
  BY <1>0, <1>1, <1>2, GatewayStep

-----------------------------------------------------------------------------
LEMMA InitSession == Init => SessionInv
<1> SUFFICES ASSUME Init PROVE SessionInv
  OBVIOUS
<1>1. /\ Len(backlog) = 0 /\ Len(recvSockets) = 0 /\ pc = "poll"
      /\ DOMAIN responses = {}
      /\ \A s \in Sockets : Len(wire[s]) = 0
      /\ \A s \in Sockets : wire[s] = <<>> /\ delivered[s] = <<>> /\ outbound[s] = <<>>
      /\ \A c \in Clients : /\ conn[c] = noSocket /\ cidSocket[c] = noSocket
                            /\ expSeq[c] = 1 /\ outSeq[c] = 1
  BY EmptySeq DEF Init
<1>2. UnmadeQuiet /\ OneOwner /\ WireFrom /\ InboxFrom /\ BoundFrom /\ Fresh /\ Streams
  BY <1>1 DEF UnmadeQuiet, OneOwner, WireFrom, InboxFrom, BoundFrom, Fresh, Streams
<1>3. WireIncreasing /\ InboxIncreasing /\ WireExpected /\ InboxExpected /\ StopsForCause
  BY <1>1 DEF WireIncreasing, InboxIncreasing, WireExpected, InboxExpected, StopsForCause,
             DownForCause, AnswersBound
<1> QED
  BY <1>2, <1>3 DEF SessionInv

LEMMA NextSession == TypeOK /\ OneConnection /\ SessionInv /\ [Next]_vars => SessionInv'
<1> SUFFICES ASSUME TypeOK, OneConnection, SessionInv, [Next]_vars PROVE SessionInv'
  OBVIOUS
<1> USE DEF SessionInv
<1>1. UnmadeQuiet' /\ OneOwner' /\ WireFrom' /\ InboxFrom' /\ BoundFrom'
  BY NextUnmade, NextOwner, NextWireFrom, NextInboxFrom, NextBoundFrom
<1>2. WireIncreasing' /\ InboxIncreasing' /\ WireExpected' /\ InboxExpected'
  BY NextWireIncreasing, NextInboxIncreasing, NextWireExpected, NextInboxExpected
<1>3. Fresh' /\ Streams' /\ StopsForCause'
  BY NextFresh, NextStreams, NextDown, NextBound DEF StopsForCause
<1> QED
  BY <1>1, <1>2, <1>3

LEMMA SessionInvariance == Spec => []SessionInv
  BY TypeCorrect, ClientsKeepOneConnection, InitSession, NextSession, PTL DEF Spec

\* However gateways lose requests, disconnect and connect again, the server ends for no
\* number it has seen before, and every response it sends has a socket to go to
\* (recvCallback(), addClientRequest(), run()).
THEOREM ServerStopsForCause == Spec => []StopsForCause
<1>1. SessionInv => StopsForCause
  BY DEF SessionInv
<1> QED
  BY <1>1, SessionInvariance, PTL

\* What is on its way to a gateway, or was delivered to it, is the responses to its own
\* client, numbered from one without a gap (run() and TCPSocket::sendAndRecv()).
THEOREM ResponsesInOrder == Spec => []AnswersInOrder
<1>1. TypeOK /\ SessionInv => AnswersInOrder
  <2> SUFFICES ASSUME TypeOK, SessionInv, NEW c \in Clients, conn[c] # noSocket
               PROVE  \A i \in DOMAIN (delivered[conn[c]] \o outbound[conn[c]]) :
                        (delivered[conn[c]] \o outbound[conn[c]])[i] = [cid |-> c, seq |-> i]
    BY DEF AnswersInOrder
  <2>1. delivered[conn[c]] \in Seq(Answers) /\ outbound[conn[c]] \in Seq(Answers)
    BY Types DEF TypeOK, AnswersOK
  <2>2. DOMAIN Stream(conn[c]) = 1 .. Len(Stream(conn[c]))
    BY <2>1, ConcatProperties, LenProperties DEF Stream
  <2>3. \A i \in DOMAIN Stream(conn[c]) : Stream(conn[c])[i] = [cid |-> c, seq |-> i]
    BY <2>2 DEF SessionInv, Streams, StreamOf
  <2> QED
    BY <2>3 DEF Stream
<1> QED
  BY <1>1, TypeCorrect, SessionInvariance, PTL
=============================================================================

---------------------------- MODULE OrderServer ----------------------------
(***************************************************************************)
(* Exchange::OrderServer with its FIFOSequencer and TCPServer (ch06/       *)
(* exchange/order_server, ch06/common/tcp_server.cpp): the thread that     *)
(* takes the clients' requests from their TCP connections, hands them to   *)
(* the matching engine in batches ordered by the time of receipt, and      *)
(* sends the responses back.                                               *)
(*                                                                         *)
(* The clients are Trading::OrderGateways: each numbers its requests from  *)
(* one; a client that reconnects is a new process with a new socket.  What *)
(* it sends before its connection is made is lost (TCPSocket::sendAndRecv  *)
(* drops what ::send() does not take).  A request is its client, number    *)
(* and arrival; the matching engine answers every request once, to any     *)
(* client it has heard of.                                                 *)
(***************************************************************************)
EXTENDS Integers, Sequences

CONSTANTS
  Clients,      \* client ids
  Sockets,      \* the connections that may be made, one TCPSocket each
  noSocket,     \* nullptr
  MaxSeq,       \* a gateway sends no more requests than this
  MaxTime,      \* the clock of the receive times stops here: no more parts of requests arrive
  Splitting,    \* the clients whose requests may arrive in two parts
  SortLimit,    \* std::sort() keeps the order of equal elements up to this length
  PendingSize,  \* ME_MAX_PENDING_REQUESTS
  MaxAnswers    \* the matching engine takes no more requests than this

ASSUME ServerAssumption ==
  /\ noSocket \notin Sockets
  /\ MaxSeq \in Nat /\ MaxTime \in Nat /\ SortLimit \in Nat /\ PendingSize \in Nat
  /\ MaxAnswers \in Nat
  /\ Splitting \subseteq Clients

VARIABLES
  conn,         \* the socket of each client's gateway
  made,         \* the sockets whose connection is made
  sent,         \* next_outgoing_seq_num_ - 1 of each gateway
  now,          \* the kernel's clock
  wire,         \* what each socket has received and the server has not read
  backlog,      \* the connections the server has not accepted
  recvSockets,  \* receive_sockets_
  pc,           \* what the thread does: "poll", "recv", "callback", "respond", "down"
  turn,         \* the index into receive_sockets_
  recv,         \* something was read in this round
  inbox,        \* the whole requests in inbound_data_ of the socket being read
  rxTime,       \* the receive time of that read
  cidSocket,    \* cid_tcp_socket_
  expSeq,       \* cid_next_exp_seq_num_
  outSeq,       \* cid_next_outgoing_seq_num_
  pending,      \* the first pending_size_ entries of pending_client_requests_
  published,    \* all that was written to incoming_requests_
  consumed,     \* how many of them the matching engine took
  responses,    \* the clients of the elements of outgoing_responses_
  outbound,     \* outbound_data_ of each socket
  delivered     \* the responses each socket took to its client

client == <<conn, made, sent, now>>
net == <<wire, backlog>>
reader == <<recvSockets, turn, recv, inbox, rxTime>>
book == <<cidSocket, expSeq, pending>>
engine == <<published, consumed>>
answer == <<outSeq, responses, outbound, delivered>>
vars == <<client, net, reader, pc, book, engine, answer>>

-----------------------------------------------------------------------------
(***************************************************************************)
(* The clients and the network.                                            *)
(***************************************************************************)
\* The sockets that no gateway but c's has, and whose connection is not made.
Unused(c) == {s \in Sockets \ made : \A d \in Clients \ {c} : conn[d] # s}

\* A gateway starts (again): its requests are numbered from one.  Which of the unused
\* sockets it gets makes no difference.
Connect(c) ==
  /\ Unused(c) # {}
  /\ conn' = [conn EXCEPT ![c] = CHOOSE s \in Unused(c) : TRUE]
  /\ sent' = [sent EXCEPT ![c] = 0]
  /\ UNCHANGED <<made, now, net, reader, pc, book, engine, answer>>

\* The connection is made and waits to be accepted.
Establish(c) ==
  /\ conn[c] \in Sockets \ made
  /\ made' = made \union {conn[c]}
  /\ backlog' = Append(backlog, conn[c])
  /\ UNCHANGED <<conn, sent, now, wire, reader, pc, book, engine, answer>>

\* The kernel stamps what arrives.
Tick == now < MaxTime /\ now' = now + 1

Arrival(c, part) == [cid |-> c, seq |-> sent[c] + 1, sock |-> conn[c], at |-> now', part |-> part]

\* No request of socket s has arrived in part.
Whole(s) == \A i \in DOMAIN wire[s] : wire[s][i].part = "none"

\* OrderGateway::run(): a request is sent.
Count(c) == sent[c] < MaxSeq /\ sent' = [sent EXCEPT ![c] = @ + 1]

\* It arrives, whole or its first part ...
SendRequest(c, part) ==
  /\ conn[c] \in made
  /\ part # "none" => c \in Splitting
  /\ Whole(conn[c])
  /\ Count(c)
  /\ Tick
  /\ wire' = [wire EXCEPT ![conn[c]] = Append(@, Arrival(c, part))]
  /\ UNCHANGED <<conn, made, backlog, reader, pc, book, engine, answer>>

\* ... or is lost while there is no connection.
LoseRequest(c) ==
  /\ conn[c] \in Sockets \ made
  /\ Count(c)
  /\ UNCHANGED <<conn, made, now, net, reader, pc, book, engine, answer>>

\* The rest of a request arrives.
Complete(s) ==
  /\ ~Whole(s)
  /\ Tick
  /\ wire' = [wire EXCEPT ![s][Len(wire[s])].part = "none", ![s][Len(wire[s])].at = now']
  /\ UNCHANGED <<conn, made, sent, backlog, reader, pc, book, engine, answer>>

-----------------------------------------------------------------------------
(***************************************************************************)
(* TCPServer::poll() and sendAndRecv().                                    *)
(***************************************************************************)
\* Every connection that waits is accepted; a socket is never removed.
Poll ==
  /\ pc = "poll"
  /\ recvSockets' = recvSockets \o backlog
  /\ backlog' = <<>>
  /\ turn' = 1 /\ recv' = FALSE
  /\ pc' = "recv"
  /\ UNCHANGED <<client, wire, inbox, rxTime, book, engine, answer>>

Socket == recvSockets[turn]

\* recvmsg() finds bytes it has not read yet.
Readable(s) == wire[s] # <<>> /\ wire[s][Len(wire[s])].part # "read"

\* Mutant of WholeRequests: the last request waits for more bytes, and is overwritten.
WholeRequestsButLast(s) == SubSeq(wire[s], 1, Len(wire[s]) - 1)

\* The requests of socket s that are whole, and the part of one that is left.
WholeRequests(s) == IF Whole(s) THEN wire[s] ELSE SubSeq(wire[s], 1, Len(wire[s]) - 1)
LeftOver(s) == IF Whole(s) THEN <<>> ELSE <<[wire[s][Len(wire[s])] EXCEPT !.part = "read"]>>

\* All bytes that have arrived are read; their receive time is that of the last.
ReadSocket ==
  /\ pc = "recv" /\ turn <= Len(recvSockets)
  /\ Readable(Socket)
  /\ inbox' = WholeRequests(Socket)
  /\ wire' = [wire EXCEPT ![Socket] = LeftOver(Socket)]
  /\ rxTime' = wire[Socket][Len(wire[Socket])].at
  /\ recv' = TRUE
  /\ pc' = "callback"
  /\ UNCHANGED <<client, backlog, recvSockets, turn, book, engine, answer>>

\* ::send(): what is in the send buffer goes to the client, if it is still there.
Sends(s) ==
  /\ delivered' = [delivered EXCEPT ![s] = IF \E c \in Clients : conn[c] = s
                                           THEN @ \o outbound[s] ELSE @]
  /\ outbound' = [outbound EXCEPT ![s] = <<>>]

\* The read of this socket is over, or found nothing.
NextSocket ==
  /\ \/ pc = "recv" /\ turn <= Len(recvSockets) /\ ~Readable(Socket)
     \/ pc = "callback" /\ inbox = <<>>
  /\ Sends(Socket)
  /\ turn' = turn + 1
  /\ pc' = "recv"
  /\ UNCHANGED <<client, net, recvSockets, recv, inbox, rxTime, book, engine, outSeq, responses>>

-----------------------------------------------------------------------------
(***************************************************************************)
(* OrderServer::recvCallback(), a request at a time.                       *)
(***************************************************************************)
Request == Head(inbox)

\* Mutant of Binding: the last socket counts.
BindingToLast(c) == Socket

\* The socket of a client is that of its first request.
Binding(c) == IF cidSocket[c] = noSocket THEN Socket ELSE cidSocket[c]

Bind(c) == cidSocket' = [cidSocket EXCEPT ![c] = Binding(c)]

\* FIFOSequencer::addClientRequest() notes the receive time.
Pended(r) == Append(pending, [cid |-> r.cid, seq |-> r.seq, sock |-> r.sock, at |-> r.at, rx |-> rxTime])

\* A request from another socket than the client's is logged and dropped.
DropForeign ==
  /\ pc = "callback" /\ inbox # <<>>
  /\ Binding(Request.cid) # Socket
  /\ inbox' = Tail(inbox)
  /\ UNCHANGED <<client, net, recvSockets, turn, recv, rxTime, pc, book, engine, answer>>

\* log() is called with an argument too many: FATAL.
WrongNumber ==
  /\ pc = "callback" /\ inbox # <<>>
  /\ Binding(Request.cid) = Socket /\ Request.seq # expSeq[Request.cid]
  /\ Bind(Request.cid)
  /\ pc' = "down"
  /\ UNCHANGED <<client, net, reader, expSeq, pending, engine, answer>>

Counted(c) == expSeq' = [expSeq EXCEPT ![c] = @ + 1]

Expected ==
  /\ pc = "callback" /\ inbox # <<>>
  /\ Binding(Request.cid) = Socket /\ Request.seq = expSeq[Request.cid]
  /\ Bind(Request.cid)
  /\ Counted(Request.cid)

Room == Len(pending) < PendingSize

TakeRequest ==
  /\ Expected
  /\ Room
  /\ pending' = Pended(Request)
  /\ inbox' = Tail(inbox)
  /\ UNCHANGED <<client, net, recvSockets, turn, recv, rxTime, pc, engine, answer>>

\* FATAL: too many pending requests.
TooMany ==
  /\ Expected
  /\ ~Room
  /\ pc' = "down"
  /\ UNCHANGED <<client, net, reader, pending, engine, answer>>

-----------------------------------------------------------------------------
\* Mutant of Before: the order of equal receive times is not kept.
BeforeByTime(q, i, j) == q[i].rx <= q[j].rx

\* Entry i of q may be placed before entry j.
Before(q, i, j) == q[i].rx < q[j].rx \/ (q[i].rx = q[j].rx /\ (i < j \/ Len(q) > SortLimit))

\* The arrangements of q that std::sort() may leave.
Sorted(q) ==
  {[i \in DOMAIN q |-> q[p[i]]] : p \in {o \in [DOMAIN q -> DOMAIN q] :
     \A i, j \in DOMAIN q : i < j => o[i] # o[j] /\ Before(q, o[i], o[j])}}

\* FIFOSequencer::sequenceAndPublish(): pending_size_ stays as it is.
Publish ==
  /\ recv /\ pending # <<>>
  /\ pending' \in Sorted(pending)
  /\ published' = published \o pending'

PublishNothing ==
  /\ ~recv \/ pending = <<>>
  /\ UNCHANGED <<pending, published>>

RecvFinishedCallback == Publish \/ PublishNothing

\* Every socket has been read.  send_sockets_ is empty: EPOLLOUT is not asked for.
RecvFinished ==
  /\ pc = "recv" /\ turn > Len(recvSockets)
  /\ RecvFinishedCallback
  /\ pc' = "respond"
  /\ UNCHANGED <<client, net, reader, cidSocket, expSeq, consumed, answer>>

-----------------------------------------------------------------------------
(***************************************************************************)
(* The responses: the second half of OrderServer::run().                   *)
(***************************************************************************)
\* Mutant of Answered: the number is not counted.
AnsweredSame(c) ==
  /\ outbound' = [outbound EXCEPT ![cidSocket[c]] = Append(@, [cid |-> c, seq |-> outSeq[c]])]
  /\ outSeq' = outSeq

Answered(c) ==
  /\ outbound' = [outbound EXCEPT ![cidSocket[c]] = Append(@, [cid |-> c, seq |-> outSeq[c]])]
  /\ outSeq' = [outSeq EXCEPT ![c] = @ + 1]

Respond ==
  /\ pc = "respond" /\ responses # <<>>
  /\ cidSocket[Head(responses)] # noSocket
  /\ Answered(Head(responses))
  /\ responses' = Tail(responses)
  /\ UNCHANGED <<client, net, reader, pc, book, engine, delivered>>

RespondEnds ==
  /\ pc = "respond" /\ responses = <<>>
  /\ pc' = "poll"
  /\ UNCHANGED <<client, net, reader, book, engine, answer>>

\* The matching engine takes a request and answers it, or another client it knows.
Engine ==
  /\ consumed < Len(published) /\ consumed < MaxAnswers
  /\ consumed' = consumed + 1
  /\ \E i \in 1 .. consumed + 1 : responses' = Append(responses, published[i].cid)
  /\ UNCHANGED <<client, net, reader, pc, book, published, outSeq, outbound, delivered>>

-----------------------------------------------------------------------------
Init ==
  /\ conn = [c \in Clients |-> noSocket] /\ made = {}
  /\ sent = [c \in Clients |-> 0] /\ now = 0
  /\ wire = [s \in Sockets |-> <<>>] /\ backlog = <<>>
  /\ recvSockets = <<>> /\ turn = 1 /\ recv = FALSE /\ inbox = <<>> /\ rxTime = 0
  /\ pc = "poll"
  /\ cidSocket = [c \in Clients |-> noSocket]
  /\ expSeq = [c \in Clients |-> 1] /\ outSeq = [c \in Clients |-> 1]
  /\ pending = <<>> /\ published = <<>> /\ consumed = 0
  /\ responses = <<>>
  /\ outbound = [s \in Sockets |-> <<>>] /\ delivered = [s \in Sockets |-> <<>>]

Server ==
  \/ Poll \/ ReadSocket \/ NextSocket
  \/ DropForeign \/ WrongNumber \/ TakeRequest \/ TooMany
  \/ RecvFinished \/ Respond \/ RespondEnds

Environment ==
  \/ \E c \in Clients :
       \/ Connect(c) \/ Establish(c) \/ LoseRequest(c)
       \/ \E part \in {"none", "unread"} : SendRequest(c, part)
  \/ \E s \in Sockets : Complete(s)
  \/ Engine

Next == Server \/ Environment

Spec == Init /\ [][Next]_vars

\* The thread of the server is scheduled again and again.
FairSpec == Spec /\ WF_vars(Server)

-----------------------------------------------------------------------------
Arrivals == [cid : Clients, seq : 1 .. MaxSeq, sock : Sockets, at : 0 .. MaxTime,
             part : {"none", "unread", "read"}]
Pendings == [cid : Clients, seq : 1 .. MaxSeq, sock : Sockets, at : 0 .. MaxTime, rx : 0 .. MaxTime]
Answers == [cid : Clients, seq : Nat \ {0}]

\* The type invariant, a part for each of the groups of variables.
ClientsOK ==
  /\ conn \in [Clients -> Sockets \union {noSocket}] /\ made \in SUBSET Sockets
  /\ sent \in [Clients -> 0 .. MaxSeq] /\ now \in 0 .. MaxTime
WireOK == wire \in [Sockets -> Seq(Arrivals)]
ReaderOK ==
  /\ backlog \in Seq(Sockets) /\ recvSockets \in Seq(Sockets)
  /\ turn \in 1 .. Len(recvSockets) + 1
  /\ pc \in {"poll", "recv", "callback", "respond", "down"}
  /\ pc = "callback" => turn <= Len(recvSockets)
RecvOK == recv \in BOOLEAN
InboxOK == inbox \in Seq(Arrivals) /\ rxTime \in 0 .. MaxTime
BookOK ==
  /\ cidSocket \in [Clients -> Sockets \union {noSocket}]
  /\ expSeq \in [Clients -> 1 .. MaxSeq + 1]
PendingOK == pending \in Seq(Pendings) /\ Len(pending) <= PendingSize
EngineOK == published \in Seq(Pendings) /\ consumed \in 0 .. Len(published)
AnswersOK ==
  /\ outSeq \in [Clients -> Nat \ {0}] /\ responses \in Seq(Clients)
  /\ outbound \in [Sockets -> Seq(Answers)] /\ delivered \in [Sockets -> Seq(Answers)]
TypeOK ==
  ClientsOK /\ WireOK /\ ReaderOK /\ RecvOK /\ InboxOK /\ BookOK /\ PendingOK /\ EngineOK /\ AnswersOK

\* However clients disconnect and reconnect, all requests of a client that get to the
\* sequencer or the matching engine came over one connection, the one its responses go
\* to (recvCallback() binds the client to a socket and never unbinds it).
OneConnection ==
  \A q \in {pending, published} : \A i \in DOMAIN q : q[i].sock = cidSocket[q[i].cid]

\* However often the sequencer sorts, from whichever sockets its requests came, two requests
\* of one client change places only when they have the same receive time, which is when they
\* were read at once, and more requests are pending than std::sort() keeps in the order they
\* have (FIFOSequencer::sequenceAndPublish()).
ClientOrderKept ==
  \A i, j \in DOMAIN pending :
    i < j /\ pending[i].cid = pending[j].cid =>
      \/ pending[i].seq < pending[j].seq
      \/ pending[i].rx = pending[j].rx /\ Len(pending) > SortLimit

\* The server ends only for a full sequencer or for a gap in a client's numbers, never
\* for a number it has seen (the FATAL of addClientRequest() and the one log() raises for
\* recvCallback()), and never for a response without a socket: every client that is
\* answered has one (the ASSERT of run()).
DownForCause ==
  pc = "down" => \/ Len(pending) = PendingSize
                 \/ Request.seq > expSeq[Request.cid]
AnswersBound == \A i \in DOMAIN responses : cidSocket[responses[i]] # noSocket
StopsForCause == DownForCause /\ AnswersBound

\* A gateway that is connected gets the responses to its client, and no others, without
\* a gap in their numbers (run() and TCPSocket::sendAndRecv()).
AnswersInOrder ==
  \A c \in Clients :
    LET s == conn[c]
    IN  s # noSocket =>
          \A i \in DOMAIN (delivered[s] \o outbound[s]) :
            (delivered[s] \o outbound[s])[i] = [cid |-> c, seq |-> i]

\* A request that arrived whole over the connection its client has, or is about to get,
\* is published, unless the server ends or another connection of the client comes first.
Heard(c, s, n) ==
  /\ cidSocket[c] \in {noSocket, s}
  /\ \E i \in DOMAIN wire[s] : wire[s][i].cid = c /\ wire[s][i].seq = n /\ wire[s][i].part = "none"
Done(c, s, n) ==
  \/ \E i \in DOMAIN published : published[i].cid = c /\ published[i].seq = n /\ published[i].sock = s
  \/ pc = "down"
  \/ cidSocket[c] \notin {noSocket, s}
RequestsPublished ==
  \A c \in Clients, s \in Sockets, n \in 1 .. MaxSeq : Heard(c, s, n) ~> Done(c, s, n)

-----------------------------------------------------------------------------
(***************************************************************************)
(* What order_server.h:32 says of the sequencer: it is "responsible for    *)
(* ensuring incoming client requests are processed in the order in which   *)
(* they are received".                                                     *)
(***************************************************************************)
\* order_server.h:32, of which it is a part: a request is processed once, when its turn has come,
\* and is not given to the matching engine again.
ProcessedOnce == \A i, j \in DOMAIN published : i # j => published[i] # published[j]
=============================================================================

------------------------ MODULE MarketDataPublisher ------------------------
(***************************************************************************)
(* Exchange::MarketDataPublisher and its SnapshotSynthesizer (ch06/        *)
(* exchange/market_data), with the sending half of McastSocket (ch06/      *)
(* common/mcast_socket.cpp).  The publisher's thread takes the matching    *)
(* engine's updates from a ring, numbers them, writes them to the          *)
(* multicast stream and passes them on to the synthesizer's thread, which  *)
(* keeps a copy of the books and publishes it from time to time.           *)
(*                                                                         *)
(* The atomic steps of the two queues are those of module LFQueue; here    *)
(* matters when a slot of the first ring is given back and when it is      *)
(* read.  The matching engine is at most MaxBacklog elements ahead.        *)
(***************************************************************************)
EXTENDS UpdateLog, FiniteSets, SequencesExt

CONSTANTS
  QueueSize,   \* ME_MAX_MARKET_UPDATES, the slots of the ring
  MaxBacklog,  \* the engine writes when fewer elements are in the ring
  MaxOrderIds, \* ME_MAX_ORDER_IDS, the size of a ticker's map and of the pool of orders
  noUpdate     \* what a slot holds before it is first written

ASSUME PublisherAssumption ==
  /\ QueueSize \in Nat \ {0} /\ MaxBacklog \in 0 .. QueueSize
  /\ MaxOrderIds \in Nat \ {0}
  /\ noUpdate \notin Updates

Slots == 0 .. QueueSize - 1
NextSlot(i) == (i + 1) % QueueSize

VARIABLES
  ring,      \* the slots of outgoing_md_updates_
  nextWrite, \* its next_write_index_
  nextRead,  \* its next_read_index_
  num,       \* its num_elements
  pc,        \* the publisher: "loop", or "copy" after updateReadIndex()
  slot,      \* the slot market_update points to
  incSeq,    \* next_inc_seq_num_
  buffer,    \* outbound_data_ of incremental_socket_
  stream,    \* what incremental_socket_ has sent
  snapQueue, \* snapshot_md_updates_
  orders,    \* ticker_orders_, the quantity of each order, 0 for nullptr
  sides,     \* the side_ of each of them, "INVALID" for nullptr
  lastInc,   \* last_inc_seq_num_
  failed,    \* an ASSERT or at() of addToSnapshot() ended the exchange
  snapshot   \* the messages of the last snapshot built

engine == <<log, ring, nextWrite>>
socket == <<buffer, stream>>
publisher == <<nextRead, pc, slot, incSeq, socket>>
synthesizer == <<orders, sides, lastInc, failed, snapshot>>
vars == <<engine, num, publisher, snapQueue, synthesizer>>

-----------------------------------------------------------------------------
\* MatchingEngine::sendMarketUpdate().
SendMarketUpdate(u) ==
  /\ num < MaxBacklog
  /\ SendUpdate(u)
  /\ ring' = [ring EXCEPT ![nextWrite] = u]
  /\ nextWrite' = NextSlot(nextWrite)
  /\ num' = num + 1
  /\ UNCHANGED <<publisher, snapQueue, synthesizer>>

\* McastSocket::send().
Buffered(message) == Append(buffer, message)

\* Mutant of Waiting: an update that is alone in the ring is left there.
WaitingBehind == num > 1

\* run() finds an update in the ring.
Waiting == num > 0

\* run(), first half of the loop: the number and the address of the update, the bytes of
\* the pointer, go to the send buffer; then the slot is given back.
Number ==
  /\ pc = "loop" /\ Waiting
  /\ buffer' = Buffered([seq |-> incSeq, data |-> "address"])
  /\ slot' = nextRead
  /\ nextRead' = NextSlot(nextRead)
  /\ num' = num - 1
  /\ pc' = "copy"
  /\ UNCHANGED <<engine, incSeq, stream, snapQueue, synthesizer>>

\* Mutants of Copied and Numbered: the element now next is copied, and the number is not
\* counted.
CopiedNext == ring[nextRead]
NumberedSame == incSeq

Copied == ring[slot]
Numbered == incSeq + 1

\* Second half: the slot is read and passed to the synthesizer.
Copy ==
  /\ pc = "copy"
  /\ snapQueue' = Append(snapQueue, [seq |-> incSeq, update |-> Copied])
  /\ incSeq' = Numbered
  /\ pc' = "loop"
  /\ UNCHANGED <<engine, num, nextRead, slot, buffer, stream, synthesizer>>

\* McastSocket::sendAndRecv(): next_rcv_valid_index_ bytes of the send buffer are sent;
\* a socket that only sends has received none.
RcvValidIndex == 0
SendAndRecv ==
  /\ pc = "loop" /\ ~Waiting /\ buffer # <<>>
  /\ stream' = stream \o SubSeq(buffer, 1, RcvValidIndex)
  /\ buffer' = <<>>
  /\ UNCHANGED <<engine, num, nextRead, pc, slot, incSeq, snapQueue, synthesizer>>

-----------------------------------------------------------------------------
\* Mutant of Apply: a modified order keeps its quantity.
ApplyNoModify(u) ==
  CASE u.type = "ADD"    -> [orders EXCEPT ![u.order] = u.qty]
    [] u.type = "CANCEL" -> [orders EXCEPT ![u.order] = 0]
    [] OTHER             -> orders

Apply(u) ==
  CASE u.type \in {"ADD", "MODIFY"} -> [orders EXCEPT ![u.order] = u.qty]
    [] u.type = "CANCEL"            -> [orders EXCEPT ![u.order] = 0]
    [] u.type = "TRADE"             -> orders

ApplySide(u) ==
  CASE u.type = "ADD"    -> [sides EXCEPT ![u.order] = u.side]
    [] u.type = "CANCEL" -> [sides EXCEPT ![u.order] = "INVALID"]
    [] OTHER             -> sides

\* at() finds the order's place, the ids begin at 0.
InMap(u) == u.type # "TRADE" => u.order[2] < MaxOrderIds

\* The one pool for the orders of all tickers asserts that a block is left free.
Allocates(book) == Cardinality({o \in Orders : book[o] # 0}) + 1 < MaxOrderIds

\* The ASSERTs of addToSnapshot(), at() and allocate().  An order is found at the place of
\* its own id, where it was put; that id need not be compared.
Asserted(m) ==
  /\ InMap(m.update)
  /\ m.update.type = "ADD" => orders[m.update.order] = 0 /\ Allocates(orders)
  /\ m.update.type \in {"MODIFY", "CANCEL"} =>
       orders[m.update.order] # 0 /\ sides[m.update.order] = m.update.side
  /\ m.seq = lastInc + 1

\* addToSnapshot(), for the next element of the queue.
AddToSnapshot ==
  /\ ~failed /\ snapQueue # <<>>
  /\ IF Asserted(Head(snapQueue))
     THEN /\ orders' = Apply(Head(snapQueue).update)
          /\ sides' = ApplySide(Head(snapQueue).update)
          /\ lastInc' = Head(snapQueue).seq
          /\ snapQueue' = Tail(snapQueue)
          /\ UNCHANGED failed
     ELSE failed' = TRUE /\ UNCHANGED <<orders, sides, lastInc, snapQueue>>
  /\ UNCHANGED <<engine, num, publisher, snapshot>>

\* Mutant of OrdersOf: the first order of a ticker is left out.
OrdersOfRest(t) ==
  LET ids == SetToSortSeq({i \in OrderIds : orders[<<t, i>>] # 0}, <)
  IN  [k \in 1 .. Len(ids) - 1 |->
         [type |-> "ADD", order |-> <<t, ids[k + 1]>>, side |-> sides[<<t, ids[k + 1]>>],
          qty |-> orders[<<t, ids[k + 1]>>]]]

\* The orders of ticker t, by order id.
OrdersOf(t) ==
  LET ids == SetToSortSeq({i \in OrderIds : orders[<<t, i>>] # 0}, <)
  IN  [k \in DOMAIN ids |-> [type |-> "ADD", order |-> <<t, ids[k]>>, side |-> sides[<<t, ids[k]>>],
                             qty |-> orders[<<t, ids[k]>>]]]

\* publishSnapshot(), when the queue is empty and a minute has passed.
PublishSnapshot ==
  /\ ~failed /\ snapQueue = <<>>
  /\ LET tickers == SetToSortSeq(Tickers, <)
         body == FlattenSeq([k \in DOMAIN tickers |->
                   <<[type |-> "CLEAR", ticker |-> tickers[k]]>> \o OrdersOf(tickers[k])])
     IN  snapshot' = <<[type |-> "SNAPSHOT_START", last |-> lastInc]>> \o body
                       \o <<[type |-> "SNAPSHOT_END", last |-> lastInc]>>
  /\ UNCHANGED <<engine, num, publisher, snapQueue, orders, sides, lastInc, failed>>

-----------------------------------------------------------------------------
Init ==
  /\ log = <<>> /\ ring = [i \in Slots |-> noUpdate] /\ nextWrite = 0
  /\ nextRead = 0 /\ num = 0 /\ pc = "loop" /\ slot = 0
  /\ incSeq = 1 /\ buffer = <<>> /\ stream = <<>>
  /\ snapQueue = <<>>
  /\ orders = EmptyBook /\ sides = [o \in Orders |-> "INVALID"] /\ lastInc = 0 /\ failed = FALSE /\ snapshot = <<>>

Publisher == Number \/ Copy \/ SendAndRecv
Next == (\E u \in Updates : SendMarketUpdate(u)) \/ Publisher \/ AddToSnapshot \/ PublishSnapshot

Spec == Init /\ [][Next]_vars

\* Both threads run.
FairSpec == Spec /\ WF_vars(Publisher) /\ WF_vars(AddToSnapshot)

-----------------------------------------------------------------------------
Numbereds == [seq : 1 .. MaxUpdates, update : Updates]

\* The type invariant.
TypeOK ==
  /\ log \in Seq(Updates) /\ Len(log) <= MaxUpdates
  /\ ring \in [Slots -> Updates \union {noUpdate}]
  /\ nextWrite \in Slots /\ nextRead \in Slots /\ num \in 0 .. QueueSize
  /\ pc \in {"loop", "copy"} /\ slot \in Slots /\ incSeq \in 1 .. MaxUpdates + 1
  /\ buffer \in Seq([seq : 1 .. MaxUpdates, data : {"address"}]) /\ stream = <<>>
  /\ snapQueue \in Seq(Numbereds)
  /\ orders \in Books /\ sides \in [Orders -> Sides \union {"INVALID"}] /\ lastInc \in 0 .. MaxUpdates /\ failed \in BOOLEAN
  /\ snapshot \in Seq([type : {"SNAPSHOT_START", "SNAPSHOT_END"}, last : 0 .. MaxUpdates]
                        \union [type : {"CLEAR"}, ticker : Tickers]
                        \union [type : {"ADD"}, order : Orders, side : Sides, qty : Qtys])

\* The synthesizer gets every update under its own number, although the publisher reads
\* the slot after it gave it back, as long as the engine stays a slot short of a whole
\* ring ahead (MarketDataPublisher::run()).
NumberedRight == \A i \in DOMAIN snapQueue : snapQueue[i].update = log[snapQueue[i].seq]

\* An update that addToSnapshot() cannot apply to book b: its order has left the book, its
\* id is beyond the map, or it takes the last block of the pool.
Unfit(b, u) ==
  \/ u.type \in {"MODIFY", "CANCEL"} /\ b[u.order] = 0
  \/ ~InMap(u)
  \/ u.type = "ADD" /\ ~Allocates(b)

\* When an assertion ends the exchange, the update the engine sent next is one that the
\* engine's own book could not take at that point.  It is never the publisher's doing: no
\* update is lost, repeated, misnumbered or read from a slot written anew, no order
\* added twice and none found on the other side.
FailsForCause == failed => lastInc < Len(log) /\ Unfit(BookAfter(log, lastInc), log[lastInc + 1])

\* The books of the synthesizer are a copy of those of the engine.
IsReplica == INSTANCE BookReplica WITH view <- orders, pos <- lastInc
ImplementsReplica == IsReplica!Spec

\* The last snapshot built, read from its beginning over whatever books there were, leaves
\* those of the engine after the number of updates it states, at both its ends.
SnapshotShowsBook ==
  LET Concerns(m, o) == \/ m.type = "CLEAR" /\ m.ticker = o[1]
                        \/ m.type = "ADD" /\ m.order = o
      Shown(o) == LET m == Last(SelectSeq(snapshot, LAMBDA w : Concerns(w, o)))
                  IN  IF m.type = "ADD" THEN m.qty ELSE 0
  IN  snapshot # <<>> =>
        /\ Last(snapshot).last = Head(snapshot).last
        /\ [o \in Orders |-> Shown(o)] = BookAfter(log, Head(snapshot).last)

\* Every update the engine sends reaches the synthesizer, unless it ended the exchange.
ReachesSnapshot == \A n \in 1 .. MaxUpdates : Len(log) >= n ~> lastInc >= n \/ failed
=============================================================================

------------------------- MODULE MarketDataConsumer -------------------------
(***************************************************************************)
(* Trading::MarketDataConsumer (ch06/trading/market_data): reads the       *)
(* exchange's incremental updates from one multicast stream, passes them   *)
(* to the trade engine while their numbers follow each other, and once     *)
(* they do not, recovers from the snapshots on a second stream.            *)
(*                                                                         *)
(* The streams are datagrams: the incremental ones may be lost, repeated   *)
(* or overtaken, those of a snapshot lost, and the consumer subscribes to  *)
(* the second stream at any moment, as the constants allow.  The exchange  *)
(* is what module MarketDataPublisher is meant to send.                    *)
(***************************************************************************)
EXTENDS UpdateLog, FiniteSets, SequencesExt

CONSTANTS
  MaxSnapshots,  \* the exchange publishes no more snapshots than this
  Faults,        \* what may happen to an update: "lose", "repeat", "overtake"
  SnapshotLoss,  \* whether a message of a snapshot may be lost
  JoinMidway     \* whether a subscription may begin in the middle of a snapshot

ASSUME ConsumerAssumption ==
  /\ MaxSnapshots \in Nat
  /\ Faults \subseteq {"lose", "repeat", "overtake"}
  /\ SnapshotLoss \in BOOLEAN /\ JoinMidway \in BOOLEAN
  /\ IsFiniteSet(Tickers) /\ IsFiniteSet(OrderIds)

VARIABLES
  inFlight,    \* the numbers of the updates on the way to the consumer
  feed,        \* the messages of the current snapshot still to be sent, each with its number
  snapshots,   \* snapshots begun
  tuned,       \* the consumer gets the messages of the current snapshot
  loop,        \* the thread in run(): "none", "runs" or "left"
  exp,         \* next_exp_inc_seq_inc_
  inRecovery,  \* in_recovery_, and the subscription to the snapshot stream
  snapQueued,  \* snapshot_queued_msgs_
  view,        \* the books, as the updates passed to the trade engine leave them
  passed       \* what was passed: <<"inc", n>>, or <<"sync", n>> for a snapshot

exchange == <<log, snapshots>>
consumerVars == <<exchange, inFlight, feed, tuned, loop, exp, inRecovery, snapQueued, view, passed>>

NoMessages == <<>>

-----------------------------------------------------------------------------
(***************************************************************************)
(* The exchange and the network.                                           *)
(***************************************************************************)
Publish(u) ==
  /\ SendUpdate(u)
  /\ inFlight' = inFlight \union {Len(log) + 1}
  /\ UNCHANGED <<snapshots, feed, tuned, loop, exp, inRecovery, snapQueued, view, passed>>

Lose(n) ==
  /\ "lose" \in Faults /\ n \in inFlight
  /\ inFlight' = inFlight \ {n}
  /\ UNCHANGED <<exchange, feed, tuned, loop, exp, inRecovery, snapQueued, view, passed>>

\* The messages of a snapshot of book b after n updates.  START and END carry n; the
\* others have it in the model so that one can tell snapshots apart.
Contents(b, n) ==
  {[type |-> t, last |-> n] : t \in {"START", "END"}}
    \union {[type |-> "CLEAR", last |-> n, ticker |-> t] : t \in Tickers}
    \union {[type |-> "ADD", last |-> n, order |-> o, qty |-> b[o]] : o \in {p \in Orders : b[p] # 0}}

\* Between START and END they are sent by tickers, the CLEAR of one before its orders and
\* these by their ids.
Place(m) ==
  CASE m.type = "START" -> <<-1, -1>> [] m.type = "CLEAR" -> <<m.ticker, -1>> [] m.type = "ADD" -> m.order
Precedes(m, w) ==
  /\ m.type # "END"
  /\ w.type # "END" => \/ Place(m)[1] < Place(w)[1]
                       \/ Place(m)[1] = Place(w)[1] /\ Place(m)[2] < Place(w)[2]

\* The snapshots there may be, one, with the number of each message.
Snapshots(b, n) ==
  LET C == Contents(b, n)
  IN {s \in [0 .. Cardinality(C) - 1 -> C] :
        Range(s) = C /\ \A i, j \in DOMAIN s : i < j => Precedes(s[i], s[j])}

StartSnapshot ==
  /\ feed = <<>> /\ snapshots < MaxSnapshots
  /\ \E s \in Snapshots(BookAfter(log, Len(log)), Len(log)) :
       feed' = [k \in 1 .. Cardinality(DOMAIN s) |-> <<k - 1, s[k - 1]>>]
  /\ snapshots' = snapshots + 1
  /\ tuned' = TRUE
  /\ UNCHANGED <<log, inFlight, loop, exp, inRecovery, snapQueued, view, passed>>

\* The next message of the snapshot does not reach the consumer.
Missed ==
  /\ feed # <<>>
  /\ ~inRecovery \/ ~tuned \/ SnapshotLoss
  /\ feed' = Tail(feed)
  /\ UNCHANGED <<exchange, inFlight, tuned, loop, exp, inRecovery, snapQueued, view, passed>>

-----------------------------------------------------------------------------
(***************************************************************************)
(* run(), and recvCallback() for a message from the incremental stream.    *)
(***************************************************************************)
Start ==
  /\ loop = "none"
  /\ loop' = "runs"
  /\ UNCHANGED <<exchange, inFlight, feed, tuned, exp, inRecovery, snapQueued, view, passed>>

\* stop(); the thread goes through what it has read and leaves the loop.
Stop ==
  /\ loop = "runs"
  /\ loop' = "left"
  /\ UNCHANGED <<exchange, inFlight, feed, tuned, exp, inRecovery, snapQueued, view, passed>>

\* Update n, or the one the network lets overtake it, is read.
Arrives(n) ==
  /\ loop = "runs" /\ UNCHANGED loop
  /\ n \in inFlight
  /\ "overtake" \in Faults \/ \A k \in inFlight : n <= k
  /\ inFlight' \in {inFlight \ {n}} \union (IF "repeat" \in Faults THEN {inFlight} ELSE {})

\* Mutant of InSequence: an update that is late is taken too.
InSequenceOrLate(n) == ~inRecovery /\ n <= exp

InSequence(n) == ~inRecovery /\ n = exp

\* Not in recovery, and the number is expected: on to the trade engine.
Forward(n) ==
  /\ Arrives(n) /\ InSequence(n)
  /\ exp' = exp + 1
  /\ view' = Effect(view, log[n])
  /\ passed' = Append(passed, <<"inc", n>>)
  /\ UNCHANGED <<exchange, feed, tuned, inRecovery, snapQueued>>

\* McastSocket::join() and leave(): what is sent in between arrives.
Join == tuned' = (JoinMidway \/ feed = <<>>)
Leave == tuned' = FALSE

\* startSnapshotSync(): both queues are cleared and the snapshot stream is joined;
\* queueMessage() then finds no snapshot.
StartRecovery(n) ==
  /\ Arrives(n) /\ ~inRecovery /\ ~InSequence(n)
  /\ inRecovery' = TRUE
  /\ snapQueued' = NoMessages
  /\ Join
  /\ UNCHANGED <<exchange, feed, exp, view, passed>>

\* queueMessage() for an update: it is not queued, checkSnapshotSync() is called.
QueueIncremental(n) ==
  /\ Arrives(n) /\ inRecovery
  /\ UNCHANGED <<exchange, feed>>

\* The messages queued are numbered from 0 without a gap.
Numbers0 == DOMAIN snapQueued = 0 .. Cardinality(DOMAIN snapQueued) - 1

\* checkSnapshotSync() finds START at the front of the queue.
First == snapQueued[CHOOSE k \in DOMAIN snapQueued : \A j \in DOMAIN snapQueued : k <= j]
LastMessage == snapQueued[CHOOSE k \in DOMAIN snapQueued : \A j \in DOMAIN snapQueued : k >= j]
Contiguous == First.type = "START" /\ Numbers0
Complete == DOMAIN snapQueued # {} /\ Contiguous /\ LastMessage.type = "END"

\* checkSnapshotSync(): nothing queued, or no END yet.
KeepWaiting(n) ==
  /\ QueueIncremental(n)
  /\ DOMAIN snapQueued # {} => Contiguous /\ LastMessage.type # "END"
  /\ UNCHANGED <<tuned, exp, inRecovery, snapQueued, view, passed>>

\* checkSnapshotSync(): no START, or a gap; what was queued is dropped.
DropSnapshot(n) ==
  /\ QueueIncremental(n)
  /\ DOMAIN snapQueued # {} /\ ~Contiguous
  /\ snapQueued' = NoMessages
  /\ UNCHANGED <<tuned, exp, inRecovery, view, passed>>

\* The events of the snapshot, one after the other: the last one that concerns an order
\* says how the order is left.
Rebuilt ==
  LET Concerns(m, o) == \/ m.type = "CLEAR" /\ m.ticker = o[1]
                        \/ m.type = "ADD" /\ m.order = o
      Said(o) == {k \in DOMAIN snapQueued : Concerns(snapQueued[k], o)}
  IN [o \in Orders |-> IF Said(o) = {} THEN view[o]
                       ELSE LET m == snapQueued[Max(Said(o))]
                            IN IF m.type = "ADD" THEN m.qty ELSE 0]

\* Mutant of Resume: the update the snapshot ends with is expected again.
ResumeAtLast == LastMessage.last

Resume == LastMessage.last + 1

\* checkSnapshotSync(): the snapshot is complete.  incremental_queued_msgs_ is empty, so
\* nothing follows the snapshot; update n is not looked at.
Recover(n) ==
  /\ QueueIncremental(n)
  /\ Complete
  /\ exp' = Resume
  /\ view' = Rebuilt
  /\ passed' = Append(passed, <<"sync", LastMessage.last>>)
  /\ inRecovery' = FALSE
  /\ snapQueued' = NoMessages
  /\ Leave

-----------------------------------------------------------------------------
\* queueMessage() clears the queue when a number comes a second time.
Kept(k) == IF k \in DOMAIN snapQueued THEN NoMessages ELSE snapQueued

\* recvCallback() and queueMessage() for a message of a snapshot, in recovery.
QueueSnapshot ==
  /\ loop = "runs" /\ feed # <<>> /\ inRecovery /\ tuned
  /\ LET k == Head(feed)[1]
     IN  snapQueued' = [j \in DOMAIN Kept(k) \union {k} |->
                          IF j = k THEN Head(feed)[2] ELSE snapQueued[j]]
  /\ feed' = Tail(feed)
  /\ UNCHANGED <<exchange, inFlight, tuned, loop, exp, inRecovery, view, passed>>

-----------------------------------------------------------------------------
ConsumerInit ==
  /\ log = <<>> /\ inFlight = {} /\ feed = <<>> /\ snapshots = 0 /\ tuned = FALSE
  /\ loop = "none"
  /\ exp = 1 /\ inRecovery = FALSE
  /\ snapQueued = NoMessages
  /\ view = EmptyBook /\ passed = <<>>

ConsumerNext ==
  \/ \E u \in Updates : Publish(u)
  \/ StartSnapshot \/ Missed \/ QueueSnapshot
  \/ Start \/ Stop
  \/ \E n \in 1 .. MaxUpdates :
       \/ Lose(n)
       \/ Forward(n) \/ StartRecovery(n) \/ KeepWaiting(n) \/ DropSnapshot(n) \/ Recover(n)

ConsumerSpec == ConsumerInit /\ [][ConsumerNext]_consumerVars

-----------------------------------------------------------------------------
Messages ==
  LET Lasts == 0 .. MaxUpdates
  IN  [type : {"START", "END"}, last : Lasts]
        \union [type : {"CLEAR"}, last : Lasts, ticker : Tickers]
        \union [type : {"ADD"}, last : Lasts, order : Orders, qty : Qtys]

\* The type invariant.
ConsumerTypeOK ==
  /\ log \in Seq(Updates) /\ inFlight \subseteq 1 .. Len(log) /\ Len(log) <= MaxUpdates
  /\ feed \in Seq(Nat \X Messages) /\ snapshots \in 0 .. MaxSnapshots
  /\ loop \in {"none", "runs", "left"} /\ tuned \in BOOLEAN /\ inRecovery \in BOOLEAN
  /\ exp \in 1 .. Len(log) + 1
  /\ DOMAIN snapQueued \subseteq Nat /\ \A k \in DOMAIN snapQueued : snapQueued[k] \in Messages
  /\ view \in Books
  /\ passed \in Seq({"inc", "sync"} \X (0 .. MaxUpdates))

\* Whatever is lost, repeated or overtaken on either stream, an update is passed to the
\* trade engine only right after the one before it, or after the snapshot that ends with
\* the one before it (recvCallback() and checkSnapshotSync()).
NoGapPassed ==
  \A i \in DOMAIN passed :
    passed[i][1] = "inc" =>
      IF i = 1 THEN passed[i][2] = 1 ELSE passed[i][2] = passed[i - 1][2] + 1

\* The code tells the messages of two snapshots apart only by their numbers: the end of
\* one it joined midway and the beginning of the next may pass for a whole one.  The
\* condition leaves out what follows when they do.
SnapshotsUnmixed ==
  Complete' => \A j, k \in DOMAIN snapQueued' : snapQueued'[j].last = snapQueued'[k].last

\* While no recovery takes the messages of two snapshots for one, the trade engine's
\* books are a copy of those of the exchange, in recovery and out of it, whatever the
\* streams lose, repeat or reorder.
ViewIsReplica == INSTANCE BookReplica WITH pos <- exp - 1
ConsumerImplementsReplica == ViewIsReplica!Spec
=============================================================================

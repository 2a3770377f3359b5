------------------------------- MODULE LFQueue -------------------------------
(***************************************************************************)
(* Common::LFQueue<T> (ch06/common/lf_queue.h): the ring buffer through    *)
(* which the threads of the exchange hand each other requests, responses,  *)
(* market updates and log elements.                                        *)
(*                                                                         *)
(* A producer gets the address of a slot, writes the slot and publishes    *)
(* it; the consumer gets the address of a slot, reads it and gives it      *)
(* back.  Each access of an atomic counter is a step of its own, and so is *)
(* each access of a slot, which is not atomic.                             *)
(*                                                                         *)
(* Nothing in the code keeps a producer from a full queue: MaxBacklog is   *)
(* how far the consumer falls behind at most.                              *)
(***************************************************************************)
EXTENDS Integers, Sequences

CONSTANTS
  Producers,   \* the threads that write to the queue
  Messages,    \* the messages they write
  noMessage,   \* T(), what a slot holds before it is first written
  QueueSize,   \* store_.size()
  MaxBacklog   \* a producer starts to write when fewer elements are in the queue

ASSUME QueueAssumption ==
  /\ QueueSize \in Nat \ {0}
  /\ MaxBacklog \in Nat
  /\ noMessage \notin Messages

Slots == 0 .. QueueSize - 1

VARIABLES
  store,      \* store_
  nextWrite,  \* next_write_index_
  nextRead,   \* next_read_index_
  num,        \* num_elements
  ppc,        \* a producer: "idle", "write" (it has a slot), "load" and "store" (the two
              \* halves of the update of next_write_index_), "count"
  at,         \* the value of next_write_index_ a producer loaded last
  msg,        \* the message a producer is sending
  cpc,        \* the consumer: "idle", "read" (it has a slot), "advance", "uncount"
  got         \* the message the consumer read last

vars == <<store, nextWrite, nextRead, num, ppc, at, msg, cpc, got>>

NextSlot(i) == (i + 1) % QueueSize

-----------------------------------------------------------------------------
\* Mutant of GetSlot: the producer takes the slot after a full ring.
GetSlotWhenFull(p, m) ==
  /\ ppc[p] = "idle"
  /\ num <= MaxBacklog
  /\ at' = [at EXCEPT ![p] = nextWrite]
  /\ msg' = [msg EXCEPT ![p] = m]
  /\ ppc' = [ppc EXCEPT ![p] = "write"]
  /\ UNCHANGED <<store, nextWrite, nextRead, num, cpc, got>>

\* getNextToWriteTo(): the producer gets a slot for message m.
GetSlot(p, m) ==
  /\ ppc[p] = "idle"
  /\ num < MaxBacklog
  /\ at' = [at EXCEPT ![p] = nextWrite]
  /\ msg' = [msg EXCEPT ![p] = m]
  /\ ppc' = [ppc EXCEPT ![p] = "write"]
  /\ UNCHANGED <<store, nextWrite, nextRead, num, cpc, got>>

\* The caller writes the slot.
WriteSlot(p) ==
  /\ ppc[p] = "write"
  /\ store' = [store EXCEPT ![at[p]] = msg[p]]
  /\ ppc' = [ppc EXCEPT ![p] = "load"]
  /\ UNCHANGED <<nextWrite, nextRead, num, at, msg, cpc, got>>

\* updateWriteIndex(): next_write_index_ is loaded ...
LoadIndex(p) ==
  /\ ppc[p] = "load"
  /\ at' = [at EXCEPT ![p] = nextWrite]
  /\ ppc' = [ppc EXCEPT ![p] = "store"]
  /\ UNCHANGED <<store, nextWrite, nextRead, num, msg, cpc, got>>

\* ... and its successor is stored ...
StoreIndex(p) ==
  /\ ppc[p] = "store"
  /\ nextWrite' = NextSlot(at[p])
  /\ ppc' = [ppc EXCEPT ![p] = "count"]
  /\ UNCHANGED <<store, nextRead, num, at, msg, cpc, got>>

\* ... and num_elements grows.
CountUp(p) ==
  /\ ppc[p] = "count"
  /\ num' = num + 1
  /\ msg' = [msg EXCEPT ![p] = noMessage]
  /\ ppc' = [ppc EXCEPT ![p] = "idle"]
  /\ UNCHANGED <<store, nextWrite, nextRead, at, cpc, got>>

-----------------------------------------------------------------------------

\* Mutant of GetRead: the last element is left in the queue.
GetReadLeavesOne ==
  /\ cpc = "idle"
  /\ num > 1
  /\ cpc' = "read"
  /\ UNCHANGED <<store, nextWrite, nextRead, num, ppc, at, msg, got>>

\* getNextToRead() returns the address of slot nextRead, not nullptr.
GetRead ==
  /\ cpc = "idle"
  /\ num > 0
  /\ cpc' = "read"
  /\ UNCHANGED <<store, nextWrite, nextRead, num, ppc, at, msg, got>>

\* Mutant of ReadSlot: the slot after next_read_index_ is read.
ReadSlotAhead ==
  /\ cpc = "read"
  /\ got' = store[NextSlot(nextRead)]
  /\ cpc' = "advance"
  /\ UNCHANGED <<store, nextWrite, nextRead, num, ppc, at, msg>>

\* The caller reads the slot.
ReadSlot ==
  /\ cpc = "read"
  /\ got' = store[nextRead]
  /\ cpc' = "advance"
  /\ UNCHANGED <<store, nextWrite, nextRead, num, ppc, at, msg>>

\* updateReadIndex(): next_read_index_ advances, unless the ASSERT fails ...
Advance ==
  /\ cpc = "advance"
  /\ num # 0
  /\ nextRead' = NextSlot(nextRead)
  /\ cpc' = "uncount"
  /\ UNCHANGED <<store, nextWrite, num, ppc, at, msg, got>>

\* ... and num_elements shrinks.
CountDown ==
  /\ cpc = "uncount"
  /\ num' = num - 1
  /\ cpc' = "idle"
  /\ UNCHANGED <<store, nextWrite, nextRead, ppc, at, msg, got>>

-----------------------------------------------------------------------------
Init ==
  /\ store = [i \in Slots |-> noMessage]
  /\ nextWrite = 0 /\ nextRead = 0 /\ num = 0
  /\ ppc = [p \in Producers |-> "idle"]
  /\ at = [p \in Producers |-> 0]
  /\ msg = [p \in Producers |-> noMessage]
  /\ cpc = "idle"
  /\ got = noMessage

Produce(p) ==
  \/ \E m \in Messages : GetSlot(p, m)
  \/ WriteSlot(p) \/ LoadIndex(p) \/ StoreIndex(p) \/ CountUp(p)

Consume == GetRead \/ ReadSlot \/ Advance \/ CountDown

Next == Consume \/ \E p \in Producers : Produce(p)

Spec == Init /\ [][Next]_vars

\* The consumer polls the queue forever.
FairSpec == Spec /\ WF_vars(Consume)

-----------------------------------------------------------------------------
TypeOK ==
  /\ store \in [Slots -> Messages \cup {noMessage}]
  /\ nextWrite \in Slots /\ nextRead \in Slots /\ num \in Nat
  /\ ppc \in [Producers -> {"idle", "write", "load", "store", "count"}]
  /\ at \in [Producers -> Slots]
  /\ msg \in [Producers -> Messages \cup {noMessage}]
  /\ cpc \in {"idle", "read", "advance", "uncount"}
  /\ got \in Messages \cup {noMessage}

\* The accesses of the slots are ordered: no producer writes the slot the consumer
\* reads, nor a slot another producer writes.
NoDataRace ==
  /\ \A p \in Producers : ppc[p] = "write" /\ cpc = "read" => at[p] # nextRead
  /\ \A p, q \in Producers : ppc[p] = "write" /\ ppc[q] = "write" /\ p # q => at[p] # at[q]

\* "Read an invalid element" (lf_queue.h:35): the ASSERT of updateReadIndex() never
\* fails, whatever the producers did since getNextToRead() found an element.
ReadsValidElement == cpc = "advance" => num # 0

\* How many messages were published and not read, and the slot of the first.
Unread      == IF cpc \in {"advance", "uncount"} THEN num - 1 ELSE num
FirstUnread == IF cpc = "advance" THEN NextSlot(nextRead) ELSE nextRead
Chan        == [i \in 1 .. Unread |-> store[(FirstUnread + i - 1) % QueueSize]]

Channel == INSTANCE FifoChannel WITH offered <- msg, chan <- Chan

\* The consumer reads the messages in the order in which they were published, each
\* of them once and as it was written.
IsFifoChannel == Channel!Spec

\* A published message is read.
Delivered == \A m \in Messages : (\E i \in DOMAIN Chan : Chan[i] = m) ~> got = m
=============================================================================

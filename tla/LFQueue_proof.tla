---------------------------- MODULE LFQueue_proof ----------------------------
(***************************************************************************)
(* Theorems about LFQueue, for every size of the ring: the ASSERT of       *)
(* updateReadIndex() never fails, and with one producer that never finds   *)
(* the ring full the queue is free of data races and a FIFO channel.       *)
(***************************************************************************)
EXTENDS LFQueue, SequenceTheorems, TLAPS

-----------------------------------------------------------------------------
\* The remainder of the ring's indices.
LEMMA Wrap ==
  ASSUME NEW k \in Nat
  PROVE  /\ k < QueueSize => k % QueueSize = k
         /\ k >= QueueSize /\ k < 2 * QueueSize => k % QueueSize = k - QueueSize
         /\ k % QueueSize \in Slots
<1>1. k % QueueSize \in Slots
  BY QueueAssumption DEF Slots
<1>2. k < QueueSize => k % QueueSize = k
  BY QueueAssumption
<1>3. ASSUME k >= QueueSize, k < 2 * QueueSize
      PROVE  k % QueueSize = k - QueueSize
  <2>1. k - QueueSize \in Nat /\ k - QueueSize < QueueSize
    BY <1>3, QueueAssumption
  <2>2. \A n \in Nat \ {0}, x \in Nat : x < n => (x + n) % n = x
    OBVIOUS
  <2>3. ((k - QueueSize) + QueueSize) % QueueSize = k - QueueSize
    BY <2>1, <2>2, QueueAssumption
  <2>4. (k - QueueSize) + QueueSize = k
    BY QueueAssumption
  <2>5. QED
    BY <2>3, <2>4
<1>4. QED
  BY <1>1, <1>2, <1>3

\* The slot after slot i.
LEMMA NextSlotWraps ==
  ASSUME NEW i \in Slots
  PROVE  /\ NextSlot(i) \in Slots
         /\ NextSlot(i) = IF i + 1 = QueueSize THEN 0 ELSE i + 1
<1>1. i + 1 \in Nat /\ i + 1 <= QueueSize
  BY QueueAssumption DEF Slots
<1>2. QED
  BY <1>1, Wrap, QueueAssumption DEF NextSlot

-----------------------------------------------------------------------------
\* While the consumer works on an element, the counter has not forgotten it.
Counted == cpc # "idle" => num > 0

LEMMA InitTypes == Init => TypeOK /\ Counted
BY QueueAssumption DEF Init, TypeOK, Counted, Slots

\* Every step keeps the types and the consumer's element counted.
LEMMA NextTypes == TypeOK /\ Counted /\ [Next]_vars => TypeOK' /\ Counted'
<1> SUFFICES ASSUME TypeOK, Counted, [Next]_vars PROVE TypeOK' /\ Counted'
  OBVIOUS
<1> USE DEF TypeOK, Counted
<1>1. ASSUME NEW p \in Producers, NEW m \in Messages, GetSlot(p, m) PROVE TypeOK' /\ Counted'
  BY <1>1 DEF GetSlot
<1>2. ASSUME NEW p \in Producers, WriteSlot(p) PROVE TypeOK' /\ Counted'
  BY <1>2 DEF WriteSlot
<1>3. ASSUME NEW p \in Producers, LoadIndex(p) PROVE TypeOK' /\ Counted'
  BY <1>3 DEF LoadIndex
<1>4. ASSUME NEW p \in Producers, StoreIndex(p) PROVE TypeOK' /\ Counted'
  BY <1>4, NextSlotWraps DEF StoreIndex
<1>5. ASSUME NEW p \in Producers, CountUp(p) PROVE TypeOK' /\ Counted'
  BY <1>5 DEF CountUp
<1>6. CASE GetRead
  BY <1>6 DEF GetRead
<1>7. CASE ReadSlot
  BY <1>7 DEF ReadSlot
<1>8. CASE Advance
  BY <1>8, NextSlotWraps DEF Advance
<1>9. CASE CountDown
  BY <1>9 DEF CountDown
<1>10. CASE UNCHANGED vars
  BY <1>10 DEF vars
<1>11. QED
  BY <1>1, <1>2, <1>3, <1>4, <1>5, <1>6, <1>7, <1>8, <1>9, <1>10 DEF Next, Produce, Consume

\* The indices stay in the ring and the counter does not go below zero, whatever the
\* number of producers and however far the consumer falls behind.
THEOREM TypeCorrect == Spec => []TypeOK
<1>1. Spec => [](TypeOK /\ Counted)
  BY InitTypes, NextTypes, PTL DEF Spec
<1>2. QED
  BY <1>1, PTL

\* The ASSERT of updateReadIndex() never fails.
THEOREM AssertHolds == Spec => []ReadsValidElement
<1>1. Spec => [](TypeOK /\ Counted)
  BY InitTypes, NextTypes, PTL DEF Spec
<1>2. TypeOK /\ Counted => ReadsValidElement
  BY DEF TypeOK, Counted, ReadsValidElement
<1>3. QED
  BY <1>1, <1>2, PTL

-----------------------------------------------------------------------------
\* One producer, which never finds the ring full.

\* The elements from the read index to the tail.
Behind == IF cpc = "uncount" THEN num - 1 ELSE num

\* Slot i is where the next element goes.
IsTail(i) == i = nextRead + Behind \/ i = nextRead + Behind - QueueSize

\* Where producer p stands: the write index is the tail unless its update is half
\* done, and what was written stays in the slot until it is counted.
Ring(p) ==
  /\ num <= QueueSize
  /\ ppc[p] = "idle" => IsTail(nextWrite) /\ msg[p] = noMessage
  /\ ppc[p] # "idle" => num < QueueSize /\ IsTail(at[p]) /\ msg[p] \in Messages
  /\ ppc[p] \in {"write", "load", "store"} => nextWrite = at[p]
  /\ ppc[p] = "count" => nextWrite = NextSlot(at[p])
  /\ ppc[p] \in {"load", "store", "count"} => store[at[p]] = msg[p]

RingInv(p) == TypeOK /\ Counted /\ Ring(p)

LEMMA InitRing ==
  ASSUME NEW p, Producers = {p}
  PROVE  Init => RingInv(p)
<1>1. Init => Ring(p)
  BY QueueAssumption DEF Init, Ring, IsTail, Behind
<1>2. QED
  BY <1>1, InitTypes DEF RingInv

\* Every step keeps the ring.
LEMMA NextRing ==
  ASSUME NEW p, Producers = {p}, MaxBacklog <= QueueSize
  PROVE  RingInv(p) /\ [Next]_vars => RingInv(p)'
<1> SUFFICES ASSUME RingInv(p), [Next]_vars PROVE Ring(p)'
  BY NextTypes DEF RingInv
<1> USE DEF RingInv
<1>0. /\ nextRead \in Nat /\ nextRead < QueueSize /\ num \in Nat /\ nextWrite \in Nat
      /\ nextWrite < QueueSize /\ at[p] \in Nat /\ at[p] < QueueSize
      /\ QueueSize \in Nat \ {0} /\ MaxBacklog \in Nat /\ nextRead \in Slots /\ at[p] \in Slots
      /\ ppc \in [Producers -> {"idle", "write", "load", "store", "count"}]
      /\ at \in [Producers -> Slots] /\ msg \in [Producers -> Messages \cup {noMessage}]
      /\ store \in [Slots -> Messages \cup {noMessage}]
  BY QueueAssumption DEF TypeOK, Slots
<1>1. ASSUME NEW m \in Messages, GetSlot(p, m) PROVE Ring(p)'
  BY <1>0, <1>1 DEF GetSlot, Ring, IsTail, Behind
<1>2. CASE WriteSlot(p)
  BY <1>0, <1>2 DEF WriteSlot, Ring, IsTail, Behind
<1>3. CASE LoadIndex(p)
  BY <1>0, <1>3 DEF LoadIndex, Ring, IsTail, Behind
<1>4. CASE StoreIndex(p)
  BY <1>0, <1>4 DEF StoreIndex, Ring, IsTail, Behind
<1>5. CASE CountUp(p)
  <2>1. /\ num' = num + 1 /\ msg'[p] = noMessage /\ ppc'[p] = "idle"
        /\ nextWrite' = NextSlot(at[p]) /\ IsTail(at[p]) /\ num < QueueSize
        /\ UNCHANGED <<nextRead, cpc>>
    BY <1>0, <1>5 DEF CountUp, Ring
  <2>2. NextSlot(at[p]) = IF at[p] + 1 = QueueSize THEN 0 ELSE at[p] + 1
    BY <1>0, NextSlotWraps
  <2>3. IsTail(nextWrite)'
    BY <1>0, <2>1, <2>2 DEF IsTail, Behind, Counted
  <2>4. QED
    BY <1>0, <2>1, <2>3 DEF Ring
<1>6. CASE GetRead
  BY <1>0, <1>6 DEF GetRead, Ring, IsTail, Behind
<1>7. CASE ReadSlot
  BY <1>0, <1>7 DEF ReadSlot, Ring, IsTail, Behind
<1>8. CASE Advance
  <2>1. /\ nextRead' = NextSlot(nextRead) /\ cpc = "advance" /\ cpc' = "uncount" /\ num > 0
        /\ UNCHANGED <<store, nextWrite, num, ppc, at, msg>>
    BY <1>8 DEF Advance, Counted
  <2>2. NextSlot(nextRead) = IF nextRead + 1 = QueueSize THEN 0 ELSE nextRead + 1
    BY <1>0, NextSlotWraps
  <2>3. \A i \in Slots : IsTail(i) => (IsTail(i))'
    BY <1>0, <2>1, <2>2 DEF IsTail, Behind, Slots
  <2>4. (ppc[p] = "idle" => IsTail(nextWrite)') /\ (ppc[p] # "idle" => IsTail(at[p])')
    BY <2>1, <2>3 DEF Ring, TypeOK, IsTail, Behind
  <2>5. QED
    BY <2>1, <2>4 DEF Ring, NextSlot
<1>9. CASE CountDown
  BY <1>0, <1>9 DEF CountDown, Ring, IsTail, Behind, Counted
<1>10. CASE UNCHANGED vars
  BY <1>10 DEF vars, Ring, IsTail, Behind, NextSlot
<1>11. QED
  BY <1>1, <1>2, <1>3, <1>4, <1>5, <1>6, <1>7, <1>8, <1>9, <1>10 DEF Next, Produce, Consume

\* The slot being written is none of those that are waiting or being read.
LEMMA WriteSlotFree ==
  ASSUME NEW p, Producers = {p}, RingInv(p), ppc[p] = "write", cpc # "uncount",
         NEW k \in 0 .. num - 1
  PROVE  at[p] # (nextRead + k) % QueueSize
<1>1. /\ nextRead \in Nat /\ nextRead < QueueSize /\ num \in Nat /\ QueueSize \in Nat \ {0}
      /\ num < QueueSize /\ at[p] \in Nat /\ at[p] < QueueSize
      /\ (at[p] = nextRead + num \/ at[p] = nextRead + num - QueueSize)
  BY QueueAssumption DEF RingInv, Ring, TypeOK, Slots, IsTail, Behind
<1>2. (nextRead + k) % QueueSize = IF nextRead + k < QueueSize THEN nextRead + k
                                                               ELSE nextRead + k - QueueSize
  BY <1>1, Wrap
<1>3. QED
  BY <1>1, <1>2

\* With one producer and a backlog the ring can hold, no slot is written while it is
\* read.
THEOREM RaceFree ==
  ASSUME NEW p, Producers = {p}, MaxBacklog <= QueueSize
  PROVE  Spec => []NoDataRace
<1>1. Init => RingInv(p)
  BY InitRing
<1>2. RingInv(p) /\ [Next]_vars => RingInv(p)'
  BY NextRing
<1>3. RingInv(p) => NoDataRace
  <2> SUFFICES ASSUME RingInv(p), ppc[p] = "write", cpc = "read" PROVE at[p] # nextRead
    BY DEF NoDataRace
  <2>1. nextRead \in Nat /\ nextRead < QueueSize /\ num \in Nat /\ num > 0
    BY QueueAssumption DEF RingInv, TypeOK, Counted, Slots
  <2>2. at[p] # (nextRead + 0) % QueueSize
    BY <2>1, WriteSlotFree
  <2>3. QED
    BY <2>1, <2>2, Wrap
<1>4. QED
  BY <1>1, <1>2, <1>3, PTL DEF Spec

-----------------------------------------------------------------------------
\* The queue is a FIFO channel.

Values == Messages \cup {noMessage}

\* The n messages from slot h on.
Content(st, h, n) == [i \in 1 .. n |-> st[(h + i - 1) % QueueSize]]

LEMMA ContentIsSeq ==
  ASSUME NEW st \in [Slots -> Values], NEW h \in Slots, NEW n \in Nat
  PROVE  /\ Content(st, h, n) \in Seq(Values)
         /\ Len(Content(st, h, n)) = n
         /\ \A i \in 1 .. n : Content(st, h, n)[i] = st[(h + i - 1) % QueueSize]
<1>1. \A i \in 1 .. n : st[(h + i - 1) % QueueSize] \in Values
  <2> SUFFICES ASSUME NEW i \in 1 .. n PROVE st[(h + i - 1) % QueueSize] \in Values
    OBVIOUS
  <2>1. h + i - 1 \in Nat
    BY QueueAssumption DEF Slots
  <2>2. QED
    BY <2>1, Wrap
<1>2. Content(st, h, n) \in [1 .. n -> Values]
  BY <1>1 DEF Content
<1>3. QED
  BY <1>2 DEF Content

\* One more message is the message appended.
LEMMA ContentGrows ==
  ASSUME NEW st \in [Slots -> Values], NEW h \in Slots, NEW n \in Nat
  PROVE  Content(st, h, n + 1) = Append(Content(st, h, n), st[(h + n) % QueueSize])
<1> DEFINE m == st[(h + n) % QueueSize]
<1>1. m \in Values
  <2>1. h + n \in Nat
    BY QueueAssumption DEF Slots
  <2>2. QED
    BY <2>1, Wrap
<1>2. /\ Content(st, h, n) \in Seq(Values) /\ Len(Content(st, h, n)) = n
      /\ \A i \in 1 .. n : Content(st, h, n)[i] = st[(h + i - 1) % QueueSize]
  BY ContentIsSeq
<1>3. /\ Content(st, h, n + 1) \in Seq(Values) /\ Len(Content(st, h, n + 1)) = n + 1
      /\ \A i \in 1 .. n + 1 : Content(st, h, n + 1)[i] = st[(h + i - 1) % QueueSize]
  <2>1. n + 1 \in Nat
    OBVIOUS
  <2>2. QED
    BY <2>1, ContentIsSeq
<1> DEFINE app == Append(Content(st, h, n), m)
<1>4. /\ app \in Seq(Values) /\ Len(app) = n + 1
      /\ \A i \in 1 .. n : app[i] = Content(st, h, n)[i]
      /\ app[n + 1] = m
  BY <1>1, <1>2, AppendProperties
<1>5. \A i \in 1 .. n + 1 : app[i] = Content(st, h, n + 1)[i]
  <2> SUFFICES ASSUME NEW i \in 1 .. n + 1 PROVE app[i] = Content(st, h, n + 1)[i]
    OBVIOUS
  <2>1. CASE i = n + 1
    <3>1. h + i - 1 = h + n
      BY <2>1 DEF Slots
    <3>2. QED
      BY <1>3, <1>4, <2>1, <3>1
  <2>2. CASE i # n + 1
    <3>1. i \in 1 .. n
      BY <2>2
    <3>2. QED
      BY <1>2, <1>3, <1>4, <3>1
  <2>3. QED
    BY <2>1, <2>2
<1> HIDE DEF app
<1>6. Content(st, h, n + 1) = app
  BY <1>3, <1>4, <1>5, SeqEqual
<1>7. QED
  BY <1>6 DEF app

\* Without its first message the content starts one slot later.
LEMMA ContentShrinks ==
  ASSUME NEW st \in [Slots -> Values], NEW h \in Slots, NEW n \in 1 .. QueueSize
  PROVE  /\ Content(st, h, n) # <<>>
         /\ Head(Content(st, h, n)) = st[h]
         /\ Content(st, NextSlot(h), n - 1) = Tail(Content(st, h, n))
<1> DEFINE c == Content(st, h, n)
           d == Content(st, NextSlot(h), n - 1)
<1>1. /\ c \in Seq(Values) /\ Len(c) = n
      /\ \A i \in 1 .. n : c[i] = st[(h + i - 1) % QueueSize]
  BY ContentIsSeq
<1>2. /\ d \in Seq(Values) /\ Len(d) = n - 1
      /\ \A i \in 1 .. n - 1 : d[i] = st[(NextSlot(h) + i - 1) % QueueSize]
  <2>1. n - 1 \in Nat /\ NextSlot(h) \in Slots
    BY NextSlotWraps
  <2>2. QED
    BY <2>1, ContentIsSeq
<1>3. \A i \in 1 .. n - 1 : (NextSlot(h) + i - 1) % QueueSize = (h + (i + 1) - 1) % QueueSize
  <2> SUFFICES ASSUME NEW i \in 1 .. n - 1
               PROVE  (NextSlot(h) + i - 1) % QueueSize = (h + (i + 1) - 1) % QueueSize
    OBVIOUS
  <2>1. h \in Nat /\ QueueSize \in Nat \ {0} /\ i - 1 \in Nat
    BY QueueAssumption DEF Slots
  <2>2. CASE h + 1 = QueueSize
    <3>1. NextSlot(h) = 0
      BY <2>2, NextSlotWraps
    <3>2. (i - 1) % QueueSize = i - 1
      BY <2>1, Wrap
    <3>3. (h + (i + 1) - 1) % QueueSize = (h + (i + 1) - 1) - QueueSize
      BY <2>1, <2>2, Wrap
    <3>4. NextSlot(h) + i - 1 = i - 1
      BY <2>1, <3>1
    <3>5. QED
      BY <2>1, <2>2, <3>2, <3>3, <3>4
  <2>3. CASE h + 1 # QueueSize
    <3>1. NextSlot(h) = h + 1
      BY <2>3, NextSlotWraps
    <3>2. NextSlot(h) + i - 1 = h + (i + 1) - 1
      BY <2>1, <3>1
    <3>3. QED
      BY <3>2
  <2>4. QED
    BY <2>2, <2>3
<1> HIDE DEF c, d
<1>4. c # <<>> /\ Head(c) = c[1] /\ Tail(c) \in Seq(Values) /\ Len(Tail(c)) = n - 1
      /\ \A i \in 1 .. n - 1 : Tail(c)[i] = c[i + 1]
  BY <1>1, HeadTailProperties, EmptySeq
<1>5. c[1] = st[h]
  <2>1. h + 1 - 1 = h /\ h \in Nat /\ h < QueueSize /\ 1 \in 1 .. n
    BY QueueAssumption DEF Slots
  <2>2. h % QueueSize = h
    BY <2>1, Wrap
  <2>3. QED
    BY <1>1, <2>1, <2>2
<1>6. \A i \in 1 .. n - 1 : Tail(c)[i] = d[i]
  <2> SUFFICES ASSUME NEW i \in 1 .. n - 1 PROVE Tail(c)[i] = d[i]
    OBVIOUS
  <2>1. i + 1 \in 1 .. n
    OBVIOUS
  <2>2. c[i + 1] = st[(h + (i + 1) - 1) % QueueSize]
    BY <1>1, <2>1
  <2>3. QED
    BY <1>2, <1>3, <1>4, <2>2
<1>7. d = Tail(c)
  BY <1>2, <1>4, <1>6, SeqEqual
<1>8. QED
  BY <1>4, <1>5, <1>7 DEF c, d

\* The bounds of what is unread.
LEMMA UnreadBounds ==
  ASSUME NEW p, Producers = {p}, RingInv(p)
  PROVE  /\ Unread \in Nat /\ Unread <= QueueSize /\ FirstUnread \in Slots
         /\ store \in [Slots -> Values] /\ Chan = Content(store, FirstUnread, Unread)
         /\ cpc = "read" => Unread = num /\ FirstUnread = nextRead
<1>1. num \in Nat /\ num <= QueueSize /\ (cpc # "idle" => num > 0) /\ nextRead \in Slots
      /\ store \in [Slots -> Values]
  BY DEF RingInv, TypeOK, Counted, Ring, Values
<1>2. NextSlot(nextRead) \in Slots
  BY <1>1, NextSlotWraps
<1>3. QED
  BY <1>1, <1>2, QueueAssumption DEF Unread, FirstUnread, Chan, Content

\* The new message stands right behind the unread ones.
LEMMA TailFollows ==
  ASSUME NEW p, Producers = {p}, RingInv(p), ppc[p] # "idle"
  PROVE  (FirstUnread + Unread) % QueueSize = at[p]
<1>1. /\ nextRead \in Nat /\ nextRead < QueueSize /\ num \in Nat /\ QueueSize \in Nat \ {0}
      /\ num < QueueSize /\ at[p] \in Nat /\ at[p] < QueueSize /\ nextRead \in Slots
      /\ (cpc # "idle" => num > 0) /\ (cpc \in {"idle", "read", "advance", "uncount"})
      /\ IsTail(at[p])
  BY QueueAssumption DEF RingInv, Ring, TypeOK, Slots, Counted
<1>2. NextSlot(nextRead) = IF nextRead + 1 = QueueSize THEN 0 ELSE nextRead + 1
  BY <1>1, NextSlotWraps
<1>3. /\ FirstUnread + Unread \in Nat
      /\ \/ FirstUnread + Unread = at[p]
         \/ FirstUnread + Unread = at[p] + QueueSize
  BY <1>1, <1>2 DEF FirstUnread, Unread, IsTail, Behind
<1>4. QED
  BY <1>1, <1>3, Wrap

\* The empty queue is the empty channel.
LEMMA InitChannel ==
  ASSUME NEW p, Producers = {p}
  PROVE  Init => Channel!Init
<1> SUFFICES ASSUME Init PROVE Channel!Init
  OBVIOUS
<1>1. Unread = 0
  BY DEF Init, Unread
<1>2. Chan = <<>>
  BY <1>1 DEF Chan
<1>3. QED
  BY <1>2 DEF Init, Channel!Init

\* Every step of the queue is a step of the channel or leaves it alone.
LEMMA NextChannel ==
  ASSUME NEW p, Producers = {p}, MaxBacklog <= QueueSize
  PROVE  RingInv(p) /\ [Next]_vars => [Channel!Next]_<<msg, Chan, got>>
<1> SUFFICES ASSUME RingInv(p), [Next]_vars PROVE [Channel!Next]_<<msg, Chan, got>>
  OBVIOUS
<1>0. /\ Unread \in Nat /\ Unread <= QueueSize /\ FirstUnread \in Slots
      /\ store \in [Slots -> Values] /\ Chan = Content(store, FirstUnread, Unread)
      /\ cpc = "read" => Unread = num /\ FirstUnread = nextRead
      /\ num \in Nat /\ nextRead \in Slots /\ (cpc # "idle" => num > 0)
      /\ ppc[p] = "idle" => msg[p] = noMessage
      /\ ppc[p] # "idle" => msg[p] \in Messages
      /\ ppc[p] \in {"load", "store", "count"} => store[at[p]] = msg[p]
      /\ Chan' = Content(store', FirstUnread', Unread')
  BY UnreadBounds DEF RingInv, TypeOK, Counted, Ring, Chan, Content
<1>1. ASSUME NEW m \in Messages, GetSlot(p, m) PROVE Channel!Offer(p)
  BY <1>0, <1>1 DEF GetSlot, Channel!Offer, Chan, Unread, FirstUnread
<1>2. CASE WriteSlot(p)
  <2>1. /\ ppc[p] = "write" /\ store' = [store EXCEPT ![at[p]] = msg[p]]
        /\ UNCHANGED <<nextRead, num, msg, cpc, got>>
    BY <1>2 DEF WriteSlot
  <2>2. Unread' = Unread /\ FirstUnread' = FirstUnread
    BY <2>1 DEF Unread, FirstUnread
  <2>3. ASSUME NEW i \in 1 .. Unread
        PROVE  at[p] # (FirstUnread + i - 1) % QueueSize
    <3>1. /\ nextRead \in Nat /\ nextRead < QueueSize /\ QueueSize \in Nat \ {0}
          /\ num < QueueSize /\ at[p] \in Nat /\ at[p] < QueueSize /\ IsTail(at[p])
          /\ FirstUnread \in Nat /\ FirstUnread < QueueSize
          /\ cpc \in {"idle", "read", "advance", "uncount"}
      BY <1>0, <2>1, QueueAssumption DEF RingInv, Ring, TypeOK, Slots
    <3>2. NextSlot(nextRead) = IF nextRead + 1 = QueueSize THEN 0 ELSE nextRead + 1
      BY <1>0, NextSlotWraps
    <3>3. /\ Unread < QueueSize
          /\ \/ FirstUnread + Unread = at[p]
             \/ FirstUnread + Unread = at[p] + QueueSize
      BY <1>0, <3>1, <3>2 DEF FirstUnread, Unread, IsTail, Behind
    <3>4. FirstUnread + i - 1 \in Nat /\ FirstUnread + i - 1 < 2 * QueueSize
      BY <1>0, <3>1
    <3>5. (FirstUnread + i - 1) % QueueSize = IF FirstUnread + i - 1 < QueueSize
            THEN FirstUnread + i - 1 ELSE FirstUnread + i - 1 - QueueSize
      BY <1>0, <3>1, <3>4, Wrap
    <3>6. QED
      BY <1>0, <3>1, <3>3, <3>5
  <2>4. \A i \in 1 .. Unread : (FirstUnread + i - 1) % QueueSize \in Slots
    <3> SUFFICES ASSUME NEW i \in 1 .. Unread PROVE (FirstUnread + i - 1) % QueueSize \in Slots
      OBVIOUS
    <3>1. FirstUnread + i - 1 \in Nat
      BY <1>0, QueueAssumption DEF Slots
    <3>2. QED
      BY <3>1, Wrap
  <2>5. \A i \in 1 .. Unread : store'[(FirstUnread + i - 1) % QueueSize]
                               = store[(FirstUnread + i - 1) % QueueSize]
    BY <1>0, <2>1, <2>3, <2>4
  <2>6. Chan' = Chan
    BY <2>2, <2>5 DEF Chan
  <2>7. QED
    BY <2>1, <2>6
<1>3. CASE LoadIndex(p)
  BY <1>3 DEF LoadIndex, Chan, Unread, FirstUnread
<1>4. CASE StoreIndex(p)
  BY <1>4 DEF StoreIndex, Chan, Unread, FirstUnread
<1>5. CASE CountUp(p)
  <2>1. /\ ppc[p] = "count" /\ num' = num + 1 /\ msg' = [msg EXCEPT ![p] = noMessage]
        /\ UNCHANGED <<store, nextRead, cpc, got>>
    BY <1>5 DEF CountUp
  <2>2. Unread' = Unread + 1 /\ FirstUnread' = FirstUnread
    BY <1>0, <2>1 DEF Unread, FirstUnread
  <2>3. store[(FirstUnread + Unread) % QueueSize] = msg[p]
    BY <1>0, <2>1, TailFollows
  <2>4. Chan' = Append(Chan, msg[p])
    BY <1>0, <2>1, <2>2, <2>3, ContentGrows
  <2>5. msg[p] # noMessage
    BY <1>0, <2>1, QueueAssumption
  <2>6. Channel!Send(p)
    BY <2>1, <2>4, <2>5 DEF Channel!Send
  <2>7. QED
    BY <2>6 DEF Channel!Next
<1>6. CASE GetRead
  BY <1>6 DEF GetRead, Chan, Unread, FirstUnread
<1>7. CASE ReadSlot
  <2>1. /\ cpc = "read" /\ cpc' = "advance" /\ got' = store[nextRead]
        /\ UNCHANGED <<store, nextRead, num, msg>>
    BY <1>7 DEF ReadSlot
  <2>2. Unread = num /\ FirstUnread = nextRead /\ Unread \in 1 .. QueueSize
    BY <1>0, <2>1, QueueAssumption
  <2>3. Unread' = Unread - 1 /\ FirstUnread' = NextSlot(FirstUnread)
    BY <2>1, <2>2 DEF Unread, FirstUnread, NextSlot
  <2>4. /\ Chan # <<>> /\ Head(Chan) = store[nextRead] /\ Chan' = Tail(Chan)
    BY <1>0, <2>1, <2>2, <2>3, ContentShrinks
  <2>5. Channel!Receive
    BY <2>1, <2>4 DEF Channel!Receive
  <2>6. QED
    BY <2>5 DEF Channel!Next
<1>8. CASE Advance
  BY <1>8 DEF Advance, Chan, Unread, FirstUnread
<1>9. CASE CountDown
  BY <1>9 DEF CountDown, Chan, Unread, FirstUnread
<1>10. CASE UNCHANGED vars
  BY <1>10 DEF vars, Chan, Unread, FirstUnread, NextSlot
<1>11. QED
  BY <1>1, <1>2, <1>3, <1>4, <1>5, <1>6, <1>7, <1>8, <1>9, <1>10
     DEF Next, Produce, Consume, Channel!Next

\* With one producer and a backlog the ring can hold, the queue implements a FIFO
\* channel: no message is lost, duplicated, reordered or torn.
THEOREM ImplementsFifoChannel ==
  ASSUME NEW p, Producers = {p}, MaxBacklog <= QueueSize
  PROVE  Spec => IsFifoChannel
<1>1. Init => RingInv(p)
  BY InitRing
<1>2. RingInv(p) /\ [Next]_vars => RingInv(p)'
  BY NextRing
<1>3. Init => Channel!Init
  BY InitChannel
<1>4. RingInv(p) /\ [Next]_vars => [Channel!Next]_<<msg, Chan, got>>
  BY NextChannel
<1>5. QED
  BY <1>1, <1>2, <1>3, <1>4, PTL DEF Spec, IsFifoChannel, Channel!Spec

=============================================================================

-------------------------- MODULE MarketData_proof --------------------------
(***************************************************************************)
(* Proofs about the market data: the publisher and its synthesizer         *)
(* (MarketDataPublisher), and the consumer (MarketDataConsumer), for every *)
(* size of the rings and books, every exchange and every network.          *)
(***************************************************************************)
EXTENDS MarketDataPublisher, MarketDataConsumer, SequenceTheorems, FiniteSetTheorems,
        WellFoundedInduction, TLAPS

-----------------------------------------------------------------------------
(***************************************************************************)
(* Numbers, and the books after the updates of a list.                     *)
(***************************************************************************)
LEMMA LeastOf ==
  ASSUME NEW R, IsWellFoundedOn(R, Nat), NEW T, T \subseteq Nat, T # {}
  PROVE  \E x \in T : \A y \in T : ~ (<<y, x>> \in R)
  BY WFMin, Zenon

\* A set of numbers that has 0, and with each number the next, has them all.
LEMMA SetInduction ==
  ASSUME NEW T \in SUBSET Nat, 0 \in T, \A n \in T : n + 1 \in T
  PROVE  \A n \in Nat : n \in T
<1> SUFFICES ASSUME Nat \ T # {} PROVE FALSE
  OBVIOUS
<1> DEFINE R == OpToRel(<, Nat)
           U == Nat \ T
<1>1. IsWellFoundedOn(R, Nat)
  BY NatLessThanWellFounded
<1>2. \A x, y \in Nat : y < x => <<y, x>> \in R
  BY DEF OpToRel
<1>3. U \subseteq Nat /\ U # {}
  OBVIOUS
<1> HIDE DEF R, U
<1>4. PICK x \in U : \A y \in U : ~ (<<y, x>> \in R)
  BY <1>1, <1>3, LeastOf
<1>5. x \in Nat /\ x # 0 /\ x \notin T
  BY <1>4 DEF U
<1>6. x - 1 \in Nat /\ x - 1 < x /\ (x - 1) + 1 = x
  BY <1>5
<1>7. x - 1 \in U
  BY <1>5, <1>6 DEF U
<1> QED
  BY <1>2, <1>4, <1>5, <1>6, <1>7

\* b[i] is the book after i updates of l, for i up to n.
IsBooks(b, l, n) == b = [i \in 0 .. n |-> IF i = 0 THEN EmptyBook ELSE Effect(b[i - 1], l[i])]

LEMMA BooksExist ==
  ASSUME NEW l, NEW n \in Nat
  PROVE  \E b : IsBooks(b, l, n)
<1> DEFINE T == {k \in Nat : \E b : IsBooks(b, l, k)}
<1>1. 0 \in T
  <2> DEFINE b == [i \in 0 .. 0 |-> EmptyBook]
  <2>1. IsBooks(b, l, 0)
    BY DEF IsBooks
  <2> QED
    BY <2>1
<1>2. ASSUME NEW k \in T PROVE k + 1 \in T
  <2>1. PICK b : IsBooks(b, l, k)
    OBVIOUS
  <2> DEFINE c == [i \in 0 .. k + 1 |-> IF i = k + 1 THEN Effect(b[k], l[i]) ELSE b[i]]
  <2>2. \A i \in 0 .. k + 1 : c[i] = IF i = 0 THEN EmptyBook ELSE Effect(c[i - 1], l[i])
    <3> SUFFICES ASSUME NEW i \in 0 .. k + 1
                 PROVE  c[i] = IF i = 0 THEN EmptyBook ELSE Effect(c[i - 1], l[i])
      OBVIOUS
    <3>1. CASE i = k + 1
      <4>1. i # 0 /\ i - 1 = k /\ k \in 0 .. k + 1 /\ k # k + 1
        BY <3>1
      <4> QED
        BY <3>1, <4>1
    <3>2. CASE i # k + 1
      <4>1. i \in 0 .. k /\ c[i] = b[i] /\ (i # 0 => i - 1 \in 0 .. k + 1 /\ i - 1 # k + 1)
        BY <3>2
      <4> QED
        BY <2>1, <3>2, <4>1 DEF IsBooks
    <3> QED
      BY <3>1, <3>2
  <2>3. IsBooks(c, l, k + 1)
    <3> HIDE DEF c
    <3>1. c = [i \in 0 .. k + 1 |-> c[i]]
      BY DEF c
    <3> QED
      BY <2>2, <3>1 DEF IsBooks
  <2> HIDE DEF c
  <2> QED
    BY <2>3
<1> HIDE DEF T
<1>3. \A k \in Nat : k \in T
  BY <1>1, <1>2, SetInduction DEF T
<1> QED
  BY <1>3 DEF T

LEMMA BookAfterIs ==
  ASSUME NEW l, NEW n \in Nat
  PROVE  \E b : IsBooks(b, l, n) /\ BookAfter(l, n) = b[n]
<1> DEFINE b == CHOOSE f : f = [i \in 0 .. n |-> IF i = 0 THEN EmptyBook ELSE Effect(f[i - 1], l[i])]
<1>1. IsBooks(b, l, n)
  BY BooksExist DEF IsBooks
<1>2. BookAfter(l, n) = b[n]
  BY DEF BookAfter
<1> QED
  BY <1>1, <1>2

LEMMA DivMod ==
  ASSUME NEW Q \in Nat \ {0}, NEW a \in Nat
  PROVE  \E k \in Nat : a = Q * k + (a % Q) /\ a % Q \in 0 .. Q - 1
<1>1. a \div Q \in Nat
  BY Z3
<1>2. a % Q \in 0 .. Q - 1
  BY Z3
<1>3. a = Q * (a \div Q) + (a % Q)
  BY Z3
<1> QED
  BY <1>1, <1>2, <1>3

LEMMA ModIs ==
  ASSUME NEW Q \in Nat \ {0}, NEW k \in Nat, NEW r \in 0 .. Q - 1
  PROVE  (Q * k + r) % Q = r
  BY Z3

LEMMA ModNext ==
  ASSUME NEW Q \in Nat \ {0}, NEW a \in Nat
  PROVE  (a + 1) % Q = ((a % Q) + 1) % Q
<1> DEFINE r == a % Q
<1>1. PICK k \in Nat : a = Q * k + r /\ r \in 0 .. Q - 1
  BY DivMod
<1>2. CASE r + 1 < Q
  <2>1. r + 1 \in 0 .. Q - 1
    BY <1>1, <1>2
  <2>2. (Q * k + (r + 1)) % Q = r + 1
    BY <2>1, ModIs
  <2>3. (r + 1) % Q = r + 1
    <3> HIDE DEF r
    <3> QED
      BY <2>1, Z3
  <2>4. a + 1 = Q * k + (r + 1)
    <3> HIDE DEF r
    <3> DEFINE m == Q * k
    <3>1. m \in Nat
      BY Z3
    <3> HIDE DEF m
    <3> QED
      BY <1>1, <3>1 DEF m
  <2> QED
    BY <2>2, <2>3, <2>4
<1>3. CASE r + 1 = Q
  <2>1. (Q * (k + 1) + 0) % Q = 0
    BY ModIs
  <2>2. Q % Q = 0
    BY Z3
  <2>3. a + 1 = Q * (k + 1) + 0
    <3> HIDE DEF r
    <3> QED
      BY <1>1, <1>3, Z3
  <2> QED
    BY <2>1, <2>2, <2>3, <1>3
<1> QED
  BY <1>1, <1>2, <1>3

LEMMA ModDiffers ==
  ASSUME NEW Q \in Nat \ {0}, NEW a \in Nat, NEW b \in Nat, a < b, b < a + Q
  PROVE  a % Q # b % Q
<1> SUFFICES ASSUME a % Q = b % Q PROVE FALSE
  OBVIOUS
<1> DEFINE r == a % Q
<1>1. PICK k \in Nat : a = Q * k + r /\ r \in 0 .. Q - 1
  BY DivMod
<1>2. PICK m \in Nat : b = Q * m + r
  BY DivMod
<1> HIDE DEF r
<1>3. CASE m <= k
  <2>1. Q * m <= Q * k
    BY <1>3, Z3
  <2> QED
    BY <2>1, <1>1, <1>2, Z3
<1>4. CASE k + 1 <= m
  <2>1. Q * (k + 1) <= Q * m
    BY <1>4, Z3
  <2>2. Q * (k + 1) = Q * k + Q
    BY Z3
  <2> QED
    BY <2>1, <2>2, <1>1, <1>2, Z3
<1> QED
  BY <1>3, <1>4, Z3

LEMMA ModIn ==
  ASSUME NEW Q \in Nat \ {0}, NEW a \in Nat
  PROVE  a % Q \in 0 .. Q - 1
  BY Z3

\* The books of two lists of updates are the same as far as the lists are.
LEMMA SameBooks ==
  ASSUME NEW l1, NEW l2, NEW n1 \in Nat, NEW n2 \in Nat, NEW b1, NEW b2,
         IsBooks(b1, l1, n1), IsBooks(b2, l2, n2),
         NEW m \in Nat, m <= n1, m <= n2, \A i \in 1 .. m : l1[i] = l2[i]
  PROVE  b1[m] = b2[m]
<1> DEFINE T == {k \in Nat : k <= m => b1[k] = b2[k]}
<1>1. \A i \in 0 .. m : /\ b1[i] = IF i = 0 THEN EmptyBook ELSE Effect(b1[i - 1], l1[i])
                        /\ b2[i] = IF i = 0 THEN EmptyBook ELSE Effect(b2[i - 1], l2[i])
  <2> SUFFICES ASSUME NEW i \in 0 .. m
               PROVE  /\ b1[i] = IF i = 0 THEN EmptyBook ELSE Effect(b1[i - 1], l1[i])
                      /\ b2[i] = IF i = 0 THEN EmptyBook ELSE Effect(b2[i - 1], l2[i])
    OBVIOUS
  <2>1. i \in 0 .. n1 /\ i \in 0 .. n2
    OBVIOUS
  <2>2. b1[i] = IF i = 0 THEN EmptyBook ELSE Effect(b1[i - 1], l1[i])
    BY <2>1 DEF IsBooks
  <2>3. b2[i] = IF i = 0 THEN EmptyBook ELSE Effect(b2[i - 1], l2[i])
    BY <2>1 DEF IsBooks
  <2> QED
    BY <2>2, <2>3
<1>2. 0 \in T
  BY <1>1
<1>3. ASSUME NEW k \in T PROVE k + 1 \in T
  <2> SUFFICES ASSUME k + 1 <= m PROVE b1[k + 1] = b2[k + 1]
    OBVIOUS
  <2>1. b1[k] = b2[k]
    OBVIOUS
  <2>2. k + 1 \in 0 .. m /\ k + 1 # 0 /\ (k + 1) - 1 = k /\ k + 1 \in 1 .. m
    OBVIOUS
  <2>3. l1[k + 1] = l2[k + 1]
    BY <2>2
  <2>4. b1[k + 1] = Effect(b1[k], l1[k + 1]) /\ b2[k + 1] = Effect(b2[k], l2[k + 1])
    BY <1>1, <2>2
  <2> QED
    BY <2>1, <2>3, <2>4
<1> HIDE DEF T
<1>4. \A k \in Nat : k \in T
  BY <1>2, <1>3, SetInduction DEF T
<1> QED
  BY <1>4 DEF T

LEMMA BookAfterSame ==
  ASSUME NEW l1, NEW l2, NEW n \in Nat, \A i \in 1 .. n : l1[i] = l2[i]
  PROVE  BookAfter(l1, n) = BookAfter(l2, n)
<1>1. PICK b1 : IsBooks(b1, l1, n) /\ BookAfter(l1, n) = b1[n]
  BY BookAfterIs
<1>2. PICK b2 : IsBooks(b2, l2, n) /\ BookAfter(l2, n) = b2[n]
  BY BookAfterIs
<1>3. IsBooks(b1, l1, n) /\ IsBooks(b2, l2, n) /\ n <= n
  BY <1>1, <1>2
<1>4. b1[n] = b2[n]
  BY <1>3, SameBooks, SMTT(60)
<1> QED
  BY <1>1, <1>2, <1>4

LEMMA BookAfterNone == \A l : BookAfter(l, 0) = EmptyBook
<1> SUFFICES ASSUME NEW l PROVE BookAfter(l, 0) = EmptyBook
  OBVIOUS
<1>1. PICK b : IsBooks(b, l, 0) /\ BookAfter(l, 0) = b[0]
  BY BookAfterIs
<1>2. b[0] = EmptyBook
  BY <1>1 DEF IsBooks
<1> QED
  BY <1>1, <1>2

LEMMA BookAfterNext ==
  ASSUME NEW l, NEW n \in Nat
  PROVE  BookAfter(l, n + 1) = Effect(BookAfter(l, n), l[n + 1])
<1>1. PICK b : IsBooks(b, l, n) /\ BookAfter(l, n) = b[n]
  BY BookAfterIs
<1>2. PICK c : IsBooks(c, l, n + 1) /\ BookAfter(l, n + 1) = c[n + 1]
  BY BookAfterIs
<1>3. n + 1 \in 0 .. n + 1 /\ n + 1 # 0 /\ (n + 1) - 1 = n /\ n <= n + 1
  OBVIOUS
<1>4. c[n + 1] = Effect(c[n], l[n + 1])
  BY <1>2, <1>3 DEF IsBooks
<1>5. c[n] = b[n]
  BY <1>1, <1>2, <1>3, SameBooks
<1> QED
  BY <1>1, <1>2, <1>4, <1>5

\* What is appended to a list changes none of the books before it.
LEMMA BookAfterAppend ==
  ASSUME NEW S, NEW l \in Seq(S), NEW u \in S, NEW n \in 0 .. Len(l)
  PROVE  BookAfter(Append(l, u), n) = BookAfter(l, n)
<1>1. \A i \in 1 .. n : Append(l, u)[i] = l[i]
  BY AppendProperties
<1>2. n \in Nat
  BY LenProperties
<1> QED
  BY <1>1, <1>2, BookAfterSame, Zenon

\* The books after a list of updates are books.
LEMMA BooksTyped ==
  ASSUME NEW l \in Seq(Updates)
  PROVE  \A n \in 0 .. Len(l) : BookAfter(l, n) \in Books
<1> DEFINE T == {k \in Nat : k <= Len(l) => BookAfter(l, k) \in Books}
<1>1. 0 \in T
  BY BookAfterNone DEF EmptyBook, Books
<1>2. ASSUME NEW k \in T PROVE k + 1 \in T
  <2> SUFFICES ASSUME k + 1 <= Len(l) PROVE BookAfter(l, k + 1) \in Books
    OBVIOUS
  <2> DEFINE b == BookAfter(l, k)
             u == l[k + 1]
  <2>1. b \in Books /\ u \in Updates
    BY LenProperties
  <2>2. BookAfter(l, k + 1) = Effect(b, u)
    BY BookAfterNext
  <2> HIDE DEF b, u
  <2>3. Effect(b, u) \in Books
    <3>1. CASE u.type = "ADD" \/ (u.type = "MODIFY" /\ b[u.order] # 0)
      <4>1. u.qty \in Qtys
        BY <2>1, <3>1 DEF Updates
      <4>2. Effect(b, u) = [b EXCEPT ![u.order] = u.qty]
        BY <3>1 DEF Effect
      <4> QED
        BY <2>1, <4>1, <4>2 DEF Books
    <3>2. CASE u.type = "CANCEL"
      <4>1. Effect(b, u) = [b EXCEPT ![u.order] = 0]
        BY <3>2 DEF Effect
      <4> QED
        BY <2>1, <4>1 DEF Books
    <3>3. CASE ~(u.type = "ADD" \/ (u.type = "MODIFY" /\ b[u.order] # 0)) /\ u.type # "CANCEL"
      <4>1. Effect(b, u) = b
        BY <3>3 DEF Effect
      <4> QED
        BY <2>1, <4>1
    <3> QED
      BY <3>1, <3>2, <3>3
  <2> QED
    BY <2>2, <2>3
<1> HIDE DEF T
<1>3. \A k \in Nat : k \in T
  BY <1>1, <1>2, SetInduction DEF T
<1> QED
  BY <1>3, LenProperties DEF T

-----------------------------------------------------------------------------
(***************************************************************************)
(* The publisher.  While the ring keeps a slot that the engine may not     *)
(* write, the slot the publisher still reads after giving it back is not   *)
(* written to.                                                             *)
(***************************************************************************)
\* The updates the publisher has taken from the ring.
Taken == Len(log) - num

\* The indices of the ring, the number of the update in hand and where it is.
Places ==
  /\ log \in Seq(Updates) /\ num \in 0 .. MaxBacklog /\ num <= Len(log)
  /\ nextWrite = Len(log) % QueueSize /\ nextRead = Taken % QueueSize
  /\ \/ pc = "loop" /\ incSeq = Taken + 1
     \/ pc = "copy" /\ incSeq = Taken /\ Taken > 0 /\ slot = (Taken - 1) % QueueSize

\* The updates not yet copied are in their slots.
InRing ==
  /\ ring \in [Slots -> Updates \union {noUpdate}]
  /\ \A j \in incSeq .. Len(log) : ring[(j - 1) % QueueSize] = log[j]

\* The queue of the synthesizer has the next updates under their numbers.
Queued ==
  /\ snapQueue \in Seq([seq : Nat, update : Updates])
  /\ lastInc \in Nat /\ lastInc + Len(snapQueue) + 1 = incSeq
  /\ \A i \in 1 .. Len(snapQueue) :
       snapQueue[i] = [seq |-> lastInc + i, update |-> log[lastInc + i]]

\* Update i of list l adds order o on side s.
Adds(l, i, o, s) == i \in DOMAIN l /\ l[i].type = "ADD" /\ l[i].order = o /\ l[i].side = s

\* No order is added twice, and one that is modified or cancelled was added on that side.
AddedOnce ==
  /\ \A i, j \in DOMAIN log :
       log[i].type = "ADD" /\ log[j].type = "ADD" /\ log[i].order = log[j].order => i = j
  /\ \A i \in DOMAIN log :
       log[i].type \in {"MODIFY", "CANCEL"} => \E j : Adds(log, j, log[i].order, log[i].side)

\* The copy is the book after the updates applied, and its orders are on the sides they
\* were added on.
Copies ==
  /\ orders = BookAfter(log, lastInc)
  /\ sides \in [Orders -> Sides \union {"INVALID"}]
  /\ \A o \in Orders : orders[o] # 0 => \E j : Adds(log, j, o, sides[o])

PublisherInv == Places /\ InRing /\ Queued /\ AddedOnce /\ Copies /\ FailsForCause

LEMMA InitInv == Init => PublisherInv
<1> SUFFICES ASSUME Init PROVE PublisherInv
  OBVIOUS
<1>1. /\ log = <<>> /\ log \in Seq(Updates) /\ Len(log) = 0
      /\ snapQueue = <<>> /\ Len(snapQueue) = 0 /\ snapQueue \in Seq([seq : Nat, update : Updates])
      /\ num = 0 /\ nextWrite = 0 /\ nextRead = 0 /\ pc = "loop" /\ incSeq = 1
      /\ lastInc = 0 /\ failed = FALSE /\ orders = EmptyBook
      /\ sides = [o \in Orders |-> "INVALID"]
      /\ ring \in [Slots -> Updates \union {noUpdate}]
  BY DEF Init
<1>2. 0 % QueueSize = 0 /\ 0 - 0 = 0 /\ 0 \in 0 .. MaxBacklog
  BY PublisherAssumption, Z3
<1>3. Places
  BY <1>1, <1>2 DEF Places, Taken
<1>4. InRing /\ Queued /\ AddedOnce /\ FailsForCause
  BY <1>1 DEF InRing, Queued, AddedOnce, FailsForCause
<1>5. Copies
  BY <1>1, BookAfterNone DEF Copies, EmptyBook
<1> QED
  BY <1>3, <1>4, <1>5 DEF PublisherInv

\* What the invariant says of the numbers.
LEMMA Numbers ==
  ASSUME PublisherInv
  PROVE  /\ log \in Seq(Updates) /\ Len(log) \in Nat /\ num \in Nat /\ num <= MaxBacklog
         /\ MaxBacklog \in Nat /\ QueueSize \in Nat \ {0} /\ Taken = Len(log) - num
         /\ Taken \in Nat /\ incSeq \in 1 .. Len(log) + 1
         /\ incSeq >= Len(log) - num
         /\ Len(snapQueue) \in Nat /\ lastInc \in 0 .. Len(log)
         /\ lastInc + Len(snapQueue) + 1 = incSeq
<1>1. log \in Seq(Updates) /\ snapQueue \in Seq([seq : Nat, update : Updates])
  BY DEF PublisherInv, Places, Queued
<1>2. Len(log) \in Nat /\ Len(snapQueue) \in Nat
  BY <1>1, LenProperties
<1>3. MaxBacklog \in Nat /\ QueueSize \in Nat \ {0}
  BY PublisherAssumption
<1>4. num \in Nat /\ num <= MaxBacklog /\ num <= Len(log)
  BY <1>3 DEF PublisherInv, Places
<1>5. Taken = Len(log) - num
  BY DEF Taken
<1>6. incSeq = Taken + 1 \/ (incSeq = Taken /\ Taken > 0)
  BY DEF PublisherInv, Places
<1>7. lastInc \in Nat /\ lastInc + Len(snapQueue) + 1 = incSeq
  BY DEF PublisherInv, Queued
<1> QED
  BY <1>1, <1>2, <1>3, <1>4, <1>5, <1>6, <1>7

\* What the engine sends keeps to ids it has not used and to sides it has used them on.
LEMMA SendAddedOnce ==
  ASSUME log \in Seq(Updates), AddedOnce, NEW u \in Updates, SendUpdate(u)
  PROVE  /\ AddedOnce'
         /\ \A i, o, s : Adds(log, i, o, s) => Adds(log', i, o, s)
<1> DEFINE n == Len(log)
<1>1. log' = Append(log, u) /\ MaySend(log, u)
  BY DEF SendUpdate
<1>2. /\ DOMAIN log = 1 .. n /\ n \in Nat /\ DOMAIN log' = 1 .. n + 1
      /\ log'[n + 1] = u /\ \A i \in 1 .. n : log'[i] = log[i] /\ log[i] \in Updates
  BY <1>1, AppendProperties, LenProperties, ElementOfSeq
<1> HIDE DEF n
<1>3. \A i, o, s : Adds(log, i, o, s) => Adds(log', i, o, s)
  BY <1>2 DEF Adds
<1>4. ASSUME NEW i \in 1 .. n, log[i].type = "ADD", u.type = "ADD" PROVE log[i].order # u.order
  <2>1. log[i].order \in Tickers \X OrderIds /\ u.order \in Tickers \X OrderIds
    BY <1>2, <1>4 DEF Updates, Orders
  <2>2. log[i].order[1] = u.order[1] => log[i].order[2] < u.order[2]
    BY <1>1, <1>2, <1>4 DEF MaySend
  <2>3. u.order[2] \in Nat
    BY <2>1, UpdatesAssumption
  <2> QED
    BY <2>2, <2>3
<1>5. ASSUME NEW i \in DOMAIN log', NEW j \in DOMAIN log', log'[i].type = "ADD", log'[j].type = "ADD",
             log'[i].order = log'[j].order
      PROVE  i = j
  <2>1. CASE i \in 1 .. n /\ j \in 1 .. n
    BY <2>1, <1>2, <1>5 DEF AddedOnce
  <2>2. CASE i \in 1 .. n /\ j = n + 1
    BY <2>2, <1>2, <1>4, <1>5
  <2>3. CASE i = n + 1 /\ j \in 1 .. n
    BY <2>3, <1>2, <1>4, <1>5
  <2> QED
    BY <2>1, <2>2, <2>3, <1>2
<1>6. ASSUME NEW i \in DOMAIN log', log'[i].type \in {"MODIFY", "CANCEL"}
      PROVE  \E j : Adds(log', j, log'[i].order, log'[i].side)
  <2>1. CASE i \in 1 .. n
    <3>1. PICK j : Adds(log, j, log[i].order, log[i].side)
      BY <2>1, <1>2, <1>6 DEF AddedOnce
    <3> QED
      BY <3>1, <2>1, <1>2 DEF Adds
  <2>2. CASE i = n + 1
    <3>1. PICK j \in DOMAIN log : log[j].type = "ADD" /\ log[j].order = u.order /\ log[j].side = u.side
      BY <2>2, <1>1, <1>2, <1>6 DEF MaySend
    <3> QED
      BY <3>1, <2>2, <1>2 DEF Adds
  <2> QED
    BY <2>1, <2>2, <1>2
<1> QED
  BY <1>3, <1>5, <1>6 DEF AddedOnce

LEMMA SendInv ==
  ASSUME MaxBacklog < QueueSize, PublisherInv, NEW u \in Updates, SendMarketUpdate(u)
  PROVE  PublisherInv'
<1> DEFINE n == Len(log)
<1>1. /\ log \in Seq(Updates) /\ n \in Nat /\ num \in Nat /\ num < MaxBacklog
      /\ MaxBacklog \in Nat /\ QueueSize \in Nat \ {0}
      /\ Taken = n - num /\ Taken \in Nat /\ incSeq \in 1 .. n + 1 /\ incSeq >= n - num
      /\ Len(snapQueue) \in Nat /\ lastInc \in 0 .. n /\ lastInc + Len(snapQueue) + 1 = incSeq
  BY Numbers DEF SendMarketUpdate
<1>2. /\ log' = Append(log, u) /\ num' = num + 1 /\ nextWrite' = (nextWrite + 1) % QueueSize
      /\ ring' = [ring EXCEPT ![nextWrite] = u]
      /\ SendUpdate(u)
      /\ UNCHANGED <<nextRead, pc, slot, incSeq, snapQueue, orders, sides, lastInc, failed>>
  BY DEF SendMarketUpdate, SendUpdate, NextSlot, publisher, synthesizer, socket
<1>3. /\ log' \in Seq(Updates) /\ Len(log') = n + 1 /\ log'[n + 1] = u
      /\ \A i \in 1 .. n : log'[i] = log[i]
  BY <1>1, <1>2, AppendProperties
<1>4. \A i \in 0 .. n : BookAfter(log', i) = BookAfter(log, i)
  BY <1>1, <1>2, BookAfterAppend
<1> HIDE DEF n
<1>5. Taken' = Taken
  BY <1>1, <1>2, <1>3 DEF Taken, n
<1>6. nextWrite = n % QueueSize /\ n % QueueSize \in Slots
  <2>1. n % QueueSize \in 0 .. QueueSize - 1
    BY <1>1, ModIn
  <2> QED
    BY <2>1 DEF PublisherInv, Places, n, Slots
<1>7. Places'
  <2>1. nextWrite' = Len(log') % QueueSize
    BY <1>1, <1>2, <1>3, <1>6, ModNext
  <2>2. num' \in 0 .. MaxBacklog /\ num' <= Len(log')
    <3>1. num + 1 \in 0 .. MaxBacklog /\ num + 1 <= n + 1
      BY <1>1
    <3> QED
      BY <3>1, <1>2, <1>3
  <2> QED
    BY <2>1, <2>2, <1>2, <1>3, <1>5 DEF PublisherInv, Places
<1>8. InRing'
  <2>1. ring \in [Slots -> Updates \union {noUpdate}]
    BY DEF PublisherInv, InRing
  <2>2. ring' \in [Slots -> Updates \union {noUpdate}]
    BY <2>1, <1>2
  <2>3. ASSUME NEW j \in incSeq .. n + 1 PROVE ring'[(j - 1) % QueueSize] = log'[j]
    <3>1. CASE j = n + 1
      <4>1. j - 1 = n
        BY <3>1, <1>1
      <4> QED
        BY <3>1, <4>1, <1>2, <1>3, <1>6, <2>1
    <3>2. CASE j # n + 1
      <4>1. j \in incSeq .. n /\ j \in 1 .. n /\ j - 1 \in Nat /\ j - 1 < n /\ n < (j - 1) + QueueSize
        BY <3>2, <1>1
      <4>2. (j - 1) % QueueSize # n % QueueSize /\ (j - 1) % QueueSize \in 0 .. QueueSize - 1
        BY <4>1, <1>1, ModDiffers, ModIn
      <4>3. ring[(j - 1) % QueueSize] = log[j]
        BY <4>1 DEF PublisherInv, InRing, n
      <4>4. ring'[(j - 1) % QueueSize] = ring[(j - 1) % QueueSize]
        BY <4>2, <1>2, <1>6, <2>1 DEF Slots
      <4> QED
        BY <4>1, <4>3, <4>4, <1>3
    <3> QED
      BY <3>1, <3>2
  <2> QED
    BY <2>2, <2>3, <1>2, <1>3 DEF InRing
<1>9. Queued'
  <2>1. \A i \in 1 .. Len(snapQueue) : lastInc + i \in 1 .. n
    BY <1>1
  <2>2. \A i \in 1 .. Len(snapQueue) : log'[lastInc + i] = log[lastInc + i]
    BY <2>1, <1>3
  <2> QED
    BY <2>2, <1>2 DEF PublisherInv, Queued
<1>10. AddedOnce' /\ \A i, o, t : Adds(log, i, o, t) => Adds(log', i, o, t)
  BY <1>1, <1>2, SendAddedOnce DEF PublisherInv
<1>11. Copies'
  BY <1>1, <1>2, <1>4, <1>10 DEF PublisherInv, Copies
<1>12. FailsForCause'
  <2> SUFFICES ASSUME failed PROVE lastInc < n + 1 /\ Unfit(BookAfter(log', lastInc), log'[lastInc + 1])
    BY <1>2, <1>3 DEF FailsForCause
  <2>1. lastInc < n /\ Unfit(BookAfter(log, lastInc), log[lastInc + 1])
    BY DEF PublisherInv, FailsForCause, n
  <2>2. lastInc + 1 \in 1 .. n
    BY <2>1, <1>1
  <2> QED
    BY <2>1, <2>2, <1>1, <1>3, <1>4
<1> QED
  BY <1>7, <1>8, <1>9, <1>10, <1>11, <1>12 DEF PublisherInv

LEMMA NumberInv == ASSUME PublisherInv, Number PROVE PublisherInv'
<1> DEFINE n == Len(log)
<1>1. /\ n \in Nat /\ num \in Nat /\ num <= MaxBacklog /\ num > 0
      /\ MaxBacklog \in Nat /\ QueueSize \in Nat \ {0}
      /\ Taken = n - num /\ Taken \in Nat /\ pc = "loop" /\ incSeq = Taken + 1
      /\ nextRead = Taken % QueueSize
  BY Numbers DEF Number, Waiting, PublisherInv, Places
<1>2. /\ num' = num - 1 /\ nextRead' = (nextRead + 1) % QueueSize /\ slot' = nextRead /\ pc' = "copy"
      /\ UNCHANGED <<log, ring, nextWrite, incSeq, snapQueue, orders, sides, lastInc, failed>>
  BY DEF Number, NextSlot, engine, synthesizer
<1>3. n' = n
  BY <1>2
<1> HIDE DEF n
<1>4. Taken' = Taken + 1
  BY <1>1, <1>2, <1>3 DEF Taken, n
<1>5. Places'
  <2>1. nextRead' = (Taken + 1) % QueueSize
    BY <1>1, <1>2, ModNext
  <2>2. num' \in 0 .. MaxBacklog /\ num' <= n' /\ (Taken + 1) - 1 = Taken /\ Taken + 1 > 0
    BY <1>1, <1>2, <1>3
  <2> QED
    BY <2>1, <2>2, <1>1, <1>2, <1>3, <1>4 DEF PublisherInv, Places, n
<1>6. InRing' /\ Queued'
  BY <1>2 DEF PublisherInv, InRing, Queued
<1>7. AddedOnce' /\ Copies' /\ FailsForCause'
  BY <1>2 DEF PublisherInv, AddedOnce, Copies, Adds, FailsForCause
<1> QED
  BY <1>5, <1>6, <1>7 DEF PublisherInv

LEMMA CopyInv == ASSUME PublisherInv, Copy PROVE PublisherInv'
<1> DEFINE n == Len(log)
           m == Len(snapQueue)
           S == [seq : Nat, update : Updates]
           x == [seq |-> incSeq, update |-> log[incSeq]]
<1>1. /\ log \in Seq(Updates) /\ n \in Nat /\ num \in Nat /\ QueueSize \in Nat \ {0}
      /\ Taken = n - num /\ Taken \in Nat /\ Taken > 0 /\ incSeq = Taken
      /\ slot = (incSeq - 1) % QueueSize
      /\ m \in Nat /\ lastInc \in Nat /\ lastInc + m + 1 = incSeq
  BY Numbers DEF Copy, PublisherInv, Places
<1>2. /\ snapQueue' = Append(snapQueue, [seq |-> incSeq, update |-> ring[slot]])
      /\ incSeq' = incSeq + 1 /\ pc' = "loop"
      /\ UNCHANGED <<log, ring, nextWrite, num, nextRead, slot, orders, sides, lastInc, failed>>
  BY DEF Copy, Copied, Numbered, engine, synthesizer
<1>3. n' = n /\ Taken' = Taken
  BY <1>2 DEF Taken
<1>4. snapQueue \in Seq(S)
  BY DEF PublisherInv, Queued
<1> HIDE DEF n, m
<1>5. incSeq \in 1 .. n
  BY <1>1
<1>6. ring[slot] = log[incSeq]
  <2>1. incSeq \in incSeq .. n
    BY <1>5
  <2> QED
    BY <2>1, <1>1 DEF PublisherInv, InRing, n
<1>7. x \in S
  <2>1. log[incSeq] \in Updates
    BY <1>1, <1>5, ElementOfSeq DEF n
  <2> QED
    BY <2>1, <1>5
<1>8. snapQueue' = Append(snapQueue, x)
  BY <1>2, <1>6
<1> HIDE DEF x, S
<1>9. /\ snapQueue' \in Seq(S) /\ Len(snapQueue') = m + 1 /\ snapQueue'[m + 1] = x
      /\ \A i \in 1 .. m : snapQueue'[i] = snapQueue[i]
  BY <1>4, <1>7, <1>8, AppendProperties DEF m
<1>10. Places'
  BY <1>1, <1>2, <1>3 DEF PublisherInv, Places, n
<1>11. InRing'
  BY <1>1, <1>2, <1>3 DEF PublisherInv, InRing, n
<1>12. Queued'
  <2>1. lastInc' + Len(snapQueue') + 1 = incSeq'
    <3>1. lastInc + (m + 1) + 1 = incSeq + 1
      BY <1>1
    <3> QED
      BY <3>1, <1>2, <1>9
  <2>2. ASSUME NEW i \in 1 .. m + 1
        PROVE  snapQueue'[i] = [seq |-> lastInc + i, update |-> log[lastInc + i]]
    <3>1. CASE i = m + 1
      <4>1. lastInc + i = incSeq
        BY <3>1, <1>1
      <4> QED
        BY <3>1, <4>1, <1>9 DEF x
    <3>2. CASE i # m + 1
      <4>1. i \in 1 .. m
        BY <3>2, <1>1
      <4> QED
        BY <4>1, <1>9 DEF PublisherInv, Queued, m
    <3> QED
      BY <3>1, <3>2
  <2> QED
    BY <2>1, <2>2, <1>1, <1>2, <1>9 DEF Queued, S
<1>13. AddedOnce' /\ Copies' /\ FailsForCause'
  BY <1>2 DEF PublisherInv, AddedOnce, Copies, Adds, FailsForCause
<1> QED
  BY <1>10, <1>11, <1>12, <1>13 DEF PublisherInv

\* The synthesizer has the next update at the head of its queue.
LEMMA NextOfQueue ==
  ASSUME PublisherInv, snapQueue # <<>>
  PROVE  /\ lastInc + 1 \in 1 .. Len(log) /\ lastInc \in Nat
         /\ Head(snapQueue) = [seq |-> lastInc + 1, update |-> log[lastInc + 1]]
         /\ log[lastInc + 1] \in Updates
<1> DEFINE n == Len(log)
           m == Len(snapQueue)
<1>1. /\ log \in Seq(Updates) /\ n \in Nat /\ incSeq \in 1 .. n + 1
      /\ m \in Nat /\ lastInc \in 0 .. n /\ lastInc + m + 1 = incSeq
  BY Numbers
<1>2. snapQueue \in Seq([seq : Nat, update : Updates])
  BY DEF PublisherInv, Queued
<1>3. Head(snapQueue) = snapQueue[1] /\ m # 0
  BY <1>2, HeadTailProperties, EmptySeq
<1> HIDE DEF n, m
<1>4. 1 \in 1 .. m /\ lastInc + 1 \in 1 .. n /\ (lastInc + 1) - 1 = lastInc /\ lastInc \in Nat
  BY <1>1, <1>3
<1>5. snapQueue[1] = [seq |-> lastInc + 1, update |-> log[lastInc + 1]]
  BY <1>4 DEF PublisherInv, Queued, m
<1>6. log[lastInc + 1] \in Updates
  BY <1>1, <1>4, ElementOfSeq DEF n
<1> QED
  BY <1>3, <1>4, <1>5, <1>6 DEF n

\* An assertion fails for an update that its book cannot take, and for no other reason: an
\* order that was added once is found on the side that every update of it names.
LEMMA HeadFits ==
  ASSUME PublisherInv, snapQueue # <<>>, ~Unfit(orders, log[lastInc + 1]),
         log[lastInc + 1].type = "ADD" => orders[log[lastInc + 1].order] = 0
  PROVE  Asserted(Head(snapQueue))
<1> DEFINE u == log[lastInc + 1]
<1>1. /\ Head(snapQueue) = [seq |-> lastInc + 1, update |-> u] /\ u \in Updates
      /\ lastInc + 1 \in DOMAIN log
  BY NextOfQueue, LenProperties DEF PublisherInv, Places
<1>2. u.type \in {"MODIFY", "CANCEL"} => \E j : Adds(log, j, u.order, u.side)
  BY <1>1 DEF PublisherInv, AddedOnce
<1> HIDE DEF u
<1>3. Head(snapQueue).seq = lastInc + 1 /\ Head(snapQueue).update = u
  BY <1>1
<1>4. ~Unfit(orders, u) /\ (u.type = "ADD" => orders[u.order] = 0)
  BY DEF u
<1>5. ASSUME u.type \in {"MODIFY", "CANCEL"} PROVE orders[u.order] # 0 /\ sides[u.order] = u.side
  <2>1. orders[u.order] # 0
    BY <1>4, <1>5 DEF Unfit
  <2>2. u.order \in Orders
    BY <1>1, <1>5 DEF Updates
  <2>3. PICK j : Adds(log, j, u.order, u.side)
    BY <1>2, <1>5
  <2>4. PICK i : Adds(log, i, u.order, sides[u.order])
    BY <2>1, <2>2 DEF PublisherInv, Copies
  <2>5. i = j
    BY <2>3, <2>4 DEF PublisherInv, AddedOnce, Adds
  <2> QED
    BY <2>1, <2>3, <2>4, <2>5 DEF Adds
<1> QED
  BY <1>3, <1>4, <1>5 DEF Asserted, Unfit

\* An order rests only after it was added.
LEMMA RestingAdded ==
  ASSUME NEW l \in Seq(Updates)
  PROVE  \A n \in 0 .. Len(l) : \A o \in Orders :
           BookAfter(l, n)[o] # 0 => \E j \in 1 .. n : l[j].type = "ADD" /\ l[j].order = o
<1> DEFINE P(k) == \A o \in Orders :
                     BookAfter(l, k)[o] # 0 => \E j \in 1 .. k : l[j].type = "ADD" /\ l[j].order = o
           T == {k \in Nat : k <= Len(l) => P(k)}
<1>1. 0 \in T
  BY BookAfterNone DEF EmptyBook
<1>2. ASSUME NEW k \in T PROVE k + 1 \in T
  <2> SUFFICES ASSUME k + 1 <= Len(l), NEW o \in Orders, BookAfter(l, k + 1)[o] # 0
               PROVE  \E j \in 1 .. k + 1 : l[j].type = "ADD" /\ l[j].order = o
    OBVIOUS
  <2> DEFINE b == BookAfter(l, k)
             u == l[k + 1]
  <2>1. b \in Books /\ u \in Updates /\ Len(l) \in Nat
    BY BooksTyped, LenProperties, ElementOfSeq
  <2>2. BookAfter(l, k + 1) = Effect(b, u)
    BY BookAfterNext
  <2>3. P(k)
    BY <2>1
  <2> HIDE DEF b, u, P
  <2>4. (u.type = "ADD" /\ u.order = o) \/ b[o] # 0
    BY <2>1, <2>2 DEF Effect, Books
  <2>5. CASE u.type = "ADD" /\ u.order = o
    BY <2>5 DEF u
  <2>6. CASE b[o] # 0
    <3>1. PICK j \in 1 .. k : l[j].type = "ADD" /\ l[j].order = o
      BY <2>3, <2>6 DEF P, b
    <3>2. j \in 1 .. k + 1
      OBVIOUS
    <3> QED
      BY <3>1, <3>2
  <2> QED
    BY <2>4, <2>5, <2>6
<1> HIDE DEF T
<1>3. \A k \in Nat : k \in T
  BY <1>1, <1>2, SetInduction DEF T
<1> QED
  BY <1>3, LenProperties DEF T

\* An order that is added does not rest yet.
LEMMA HeadIsNew ==
  ASSUME PublisherInv, snapQueue # <<>>, log[lastInc + 1].type = "ADD"
  PROVE  orders[log[lastInc + 1].order] = 0
<1> DEFINE u == log[lastInc + 1]
<1>1. /\ log \in Seq(Updates) /\ Len(log) \in Nat /\ DOMAIN log = 1 .. Len(log)
      /\ u \in Updates /\ lastInc + 1 \in 1 .. Len(log) /\ lastInc \in 0 .. Len(log)
  BY NextOfQueue, Numbers, LenProperties
<1>2. u.order \in Orders
  BY <1>1 DEF Updates
<1>3. ASSUME NEW j \in 1 .. lastInc, log[j].type = "ADD", log[j].order = u.order PROVE FALSE
  <2>1. j \in DOMAIN log /\ lastInc + 1 \in DOMAIN log /\ j # lastInc + 1
    BY <1>1
  <2> QED
    BY <2>1, <1>3 DEF PublisherInv, AddedOnce
<1> HIDE DEF u
<1>4. orders = BookAfter(log, lastInc)
  BY DEF PublisherInv, Copies
<1> QED
  BY <1>1, <1>2, <1>3, <1>4, RestingAdded DEF u

\* What addToSnapshot() does to the copy, when its assertions hold.
LEMMA Added ==
  ASSUME PublisherInv, AddToSnapshot, Asserted(Head(snapQueue))
  PROVE  /\ lastInc' = lastInc + 1 /\ orders' = BookAfter(log, lastInc + 1)
         /\ lastInc' \in 0 .. Len(log)
         /\ snapQueue' = Tail(snapQueue)
         /\ sides' = ApplySide(log[lastInc + 1]) /\ ~failed
         /\ UNCHANGED <<log, ring, nextWrite, num, nextRead, pc, slot, incSeq, failed>>
<1> DEFINE u == log[lastInc + 1]
<1>1. snapQueue # <<>> /\ ~failed
  BY DEF AddToSnapshot
<1>2. /\ Head(snapQueue) = [seq |-> lastInc + 1, update |-> u] /\ lastInc \in Nat
      /\ u \in Updates /\ lastInc + 1 \in 1 .. Len(log)
  BY <1>1, NextOfQueue
<1>4. orders = BookAfter(log, lastInc)
  BY DEF PublisherInv, Copies
<1>5. BookAfter(log, lastInc + 1) = Effect(orders, u)
  BY <1>2, <1>4, BookAfterNext
<1> HIDE DEF u
<1>6. Head(snapQueue).seq = lastInc + 1 /\ Head(snapQueue).update = u
  BY <1>2
<1>7. Apply(u) = Effect(orders, u)
  <2>1. u.type \in {"ADD", "MODIFY", "CANCEL", "TRADE"}
    BY <1>2 DEF Updates
  <2>2. u.type = "MODIFY" => orders[u.order] # 0
    BY <1>6 DEF Asserted
  <2> QED
    BY <2>1, <2>2 DEF Apply, Effect
<1>8. /\ orders' = Apply(u) /\ sides' = ApplySide(u) /\ lastInc' = lastInc + 1
      /\ snapQueue' = Tail(snapQueue)
      /\ UNCHANGED failed /\ UNCHANGED <<engine, num, publisher>>
  BY <1>6 DEF AddToSnapshot
<1>9. lastInc + 1 \in 0 .. Len(log)
  BY <1>2
<1> QED
  BY <1>1, <1>5, <1>7, <1>8, <1>9 DEF engine, publisher, u

\* The sides of the copy after an update is applied.
LEMMA AddedSides ==
  ASSUME PublisherInv, AddToSnapshot, Asserted(Head(snapQueue))
  PROVE  /\ sides' \in [Orders -> Sides \union {"INVALID"}]
         /\ \A o \in Orders : orders'[o] # 0 => \E j : Adds(log, j, o, sides'[o])
<1> DEFINE u == log[lastInc + 1]
           b == orders
<1>1. /\ orders' = Effect(b, u) /\ sides' = ApplySide(u) /\ b \in Books
      /\ u \in Updates /\ lastInc + 1 \in DOMAIN log
  <2>1. snapQueue # <<>>
    BY DEF AddToSnapshot
  <2>2. /\ log \in Seq(Updates) /\ lastInc \in 0 .. Len(log) /\ lastInc \in Nat
        /\ orders = BookAfter(log, lastInc)
    BY Numbers DEF PublisherInv, Copies
  <2>3. u \in Updates /\ lastInc + 1 \in DOMAIN log
    BY <2>1, <2>2, NextOfQueue, LenProperties
  <2> QED
    BY <2>2, <2>3, Added, BookAfterNext, BooksTyped
<1>2. /\ sides \in [Orders -> Sides \union {"INVALID"}]
      /\ \A o \in Orders : b[o] # 0 => \E j : Adds(log, j, o, sides[o])
  BY DEF PublisherInv, Copies
<1>3. u.type = "ADD" => Adds(log, lastInc + 1, u.order, u.side)
  BY <1>1 DEF Adds
<1> HIDE DEF u, b
<1>4. CASE u.type = "ADD"
  <2>1. u.order \in Orders /\ u.side \in Sides
    BY <1>1, <1>4 DEF Updates
  <2>2. sides' = [sides EXCEPT ![u.order] = u.side] /\ orders' = [b EXCEPT ![u.order] = u.qty]
    BY <1>1, <1>4 DEF Effect, ApplySide
  <2>3. ASSUME NEW o \in Orders, orders'[o] # 0 PROVE \E j : Adds(log, j, o, sides'[o])
    <3>1. CASE o = u.order
      BY <3>1, <1>2, <1>3, <1>4, <2>1, <2>2
    <3>2. CASE o # u.order
      <4>1. sides'[o] = sides[o] /\ orders'[o] = b[o]
        BY <3>2, <1>1, <1>2, <2>2 DEF Books
      <4> QED
        BY <4>1, <2>3, <1>2
    <3> QED
      BY <3>1, <3>2
  <2> QED
    BY <1>2, <2>1, <2>2, <2>3
<1>5. CASE u.type = "CANCEL"
  <2>1. u.order \in Orders
    BY <1>1, <1>5 DEF Updates
  <2>2. sides' = [sides EXCEPT ![u.order] = "INVALID"] /\ orders' = [b EXCEPT ![u.order] = 0]
    BY <1>1, <1>5 DEF Effect, ApplySide
  <2>3. ASSUME NEW o \in Orders, orders'[o] # 0 PROVE \E j : Adds(log, j, o, sides'[o])
    <3>1. o # u.order
      BY <2>1, <2>2, <2>3, <1>1 DEF Books
    <3>2. sides'[o] = sides[o] /\ orders'[o] = b[o]
      BY <3>1, <1>1, <1>2, <2>2 DEF Books
    <3> QED
      BY <3>2, <2>3, <1>2
  <2> QED
    BY <1>2, <2>1, <2>2, <2>3
<1>6. CASE u.type \notin {"ADD", "CANCEL"}
  <2>1. sides' = sides
    BY <1>1, <1>6 DEF ApplySide
  <2>2. ASSUME NEW o \in Orders, orders'[o] # 0 PROVE b[o] # 0
    BY <2>2, <1>1, <1>6 DEF Effect, Books
  <2> QED
    BY <1>2, <2>1, <2>2
<1> QED
  BY <1>4, <1>5, <1>6

LEMMA AddInv ==
  ASSUME PublisherInv, AddToSnapshot, Asserted(Head(snapQueue))
  PROVE  PublisherInv'
<1> DEFINE m == Len(snapQueue)
           S == [seq : Nat, update : Updates]
<1>1. /\ lastInc' = lastInc + 1 /\ orders' = BookAfter(log, lastInc + 1)
      /\ snapQueue' = Tail(snapQueue) /\ ~failed
      /\ UNCHANGED <<log, ring, nextWrite, num, nextRead, pc, slot, incSeq, failed>>
  BY Added
<1>2. m \in Nat /\ lastInc \in Nat /\ lastInc + m + 1 = incSeq /\ incSeq \in Nat
  BY Numbers
<1>3. snapQueue \in Seq(S) /\ snapQueue # <<>>
  BY DEF AddToSnapshot, PublisherInv, Queued
<1>4. /\ snapQueue' \in Seq(S) /\ Len(snapQueue') = m - 1 /\ m # 0
      /\ \A i \in 1 .. m - 1 : snapQueue'[i] = snapQueue[i + 1]
  BY <1>1, <1>3, HeadTailProperties, EmptySeq
<1> HIDE DEF m, S
<1>5. Places' /\ InRing'
  BY <1>1 DEF PublisherInv, Places, InRing, Taken
<1>6. AddedOnce' /\ FailsForCause'
  BY <1>1 DEF PublisherInv, AddedOnce, Adds, FailsForCause
<1>7. Copies'
  BY <1>1, AddedSides DEF Copies, Adds
<1>8. Queued'
  <2>1. lastInc' \in Nat /\ lastInc' + Len(snapQueue') + 1 = incSeq'
    BY <1>1, <1>2, <1>4
  <2>2. ASSUME NEW i \in 1 .. m - 1
        PROVE  snapQueue'[i] = [seq |-> lastInc' + i, update |-> log'[lastInc' + i]]
    <3>1. i + 1 \in 1 .. m /\ lastInc + (i + 1) = lastInc' + i
      BY <1>1, <1>2
    <3>2. snapQueue[i + 1] = [seq |-> lastInc + (i + 1), update |-> log[lastInc + (i + 1)]]
      BY <3>1 DEF PublisherInv, Queued, m
    <3> QED
      BY <3>1, <3>2, <1>1, <1>4
  <2> QED
    BY <2>1, <2>2, <1>4 DEF Queued, S
<1> QED
  BY <1>5, <1>6, <1>7, <1>8 DEF PublisherInv

\* The assertion that fails does so for a cause.
LEMMA FailInv ==
  ASSUME PublisherInv, AddToSnapshot, ~Asserted(Head(snapQueue))
  PROVE  PublisherInv' /\ UNCHANGED <<log, orders, lastInc>>
<1>1. /\ snapQueue # <<>>
      /\ UNCHANGED <<log, ring, nextWrite, num, nextRead, pc, slot, incSeq, snapQueue, orders, sides, lastInc>>
  BY DEF AddToSnapshot, engine, publisher
<1>2. Unfit(orders, log[lastInc + 1])
  BY <1>1, HeadFits, HeadIsNew
<1>3. orders = BookAfter(log, lastInc) /\ lastInc \in Nat /\ Len(log) \in Nat /\ lastInc + 1 \in 1 .. Len(log)
  BY <1>1, Numbers, NextOfQueue DEF PublisherInv, Copies
<1>4. lastInc < Len(log)
  BY <1>3
<1>5. FailsForCause'
  BY <1>1, <1>2, <1>3, <1>4 DEF FailsForCause, Unfit, InMap, Allocates
<1> QED
  BY <1>1, <1>5 DEF PublisherInv, Places, InRing, Queued, AddedOnce, Adds, Copies, Taken

LEMMA Invariant == ASSUME MaxBacklog < QueueSize PROVE Spec => []PublisherInv
<1>1. PublisherInv /\ [Next]_vars => PublisherInv'
  <2> SUFFICES ASSUME PublisherInv, [Next]_vars PROVE PublisherInv'
    OBVIOUS
  <2>1. ASSUME NEW u \in Updates, SendMarketUpdate(u) PROVE PublisherInv'
    BY <2>1, SendInv
  <2>2. CASE Number
    BY <2>2, NumberInv
  <2>3. CASE Copy
    BY <2>3, CopyInv
  <2>4. CASE AddToSnapshot
    BY <2>4, AddInv, FailInv
  <2>5. CASE SendAndRecv \/ PublishSnapshot \/ UNCHANGED vars
    <3>1. UNCHANGED <<log, ring, nextWrite, num, nextRead, pc, slot, incSeq, snapQueue, orders, sides, lastInc, failed>>
      BY <2>5 DEF SendAndRecv, PublishSnapshot, vars, engine, publisher, synthesizer, socket
    <3> QED
      BY <3>1 DEF PublisherInv, Places, InRing, Queued, AddedOnce, Adds, Copies, FailsForCause, Taken
  <2> QED
    BY <2>1, <2>2, <2>3, <2>4, <2>5 DEF Next, Publisher
<1> QED
  BY InitInv, <1>1, PTL DEF Spec

\* The synthesizer gets every update under its own number, in spite of the pointer that is
\* sent in its place and read after the slot was given back, as long as the engine is never
\* a whole ring ahead (MarketDataPublisher::run()).
THEOREM NumbersKept == ASSUME MaxBacklog < QueueSize PROVE Spec => []NumberedRight
<1>1. PublisherInv => NumberedRight
  <2> SUFFICES ASSUME PublisherInv, NEW i \in DOMAIN snapQueue
               PROVE  snapQueue[i].update = log[snapQueue[i].seq]
    BY DEF NumberedRight
  <2>1. i \in 1 .. Len(snapQueue)
    BY LenProperties DEF PublisherInv, Queued
  <2>2. snapQueue[i] = [seq |-> lastInc + i, update |-> log[lastInc + i]]
    BY <2>1 DEF PublisherInv, Queued
  <2> QED
    BY <2>2
<1> QED
  BY Invariant, <1>1, PTL

\* When an ASSERT, at() or the pool ends the exchange in addToSnapshot(), the next update of
\* the engine is one of an order that left its book, has an id beyond the map or takes the
\* last block of the pool.  No number out of order, no order added twice and no order on
\* the other side is ever the cause.
THEOREM OnlyUnfitUpdatesFail == ASSUME MaxBacklog < QueueSize PROVE Spec => []FailsForCause
<1>1. PublisherInv => FailsForCause
  BY DEF PublisherInv
<1> QED
  BY Invariant, <1>1, PTL

\* The operators of the abstract module are those of this one.
LEMMA SameOperators ==
  /\ \A l, n : IsReplica!BookAfter(l, n) = BookAfter(l, n)
  /\ \A l, u : IsReplica!MaySend(l, u) = MaySend(l, u)
  /\ IsReplica!Updates = Updates
  /\ IsReplica!EmptyBook = EmptyBook
<1>1. IsReplica!EmptyBook = EmptyBook
  BY DEF IsReplica!EmptyBook, EmptyBook, IsReplica!Orders, Orders
<1>2. \A l, n : IsReplica!BookAfter(l, n) = BookAfter(l, n)
  BY DEF IsReplica!BookAfter, BookAfter, IsReplica!Effect, Effect, IsReplica!EmptyBook, EmptyBook, IsReplica!Orders, Orders
<1>3. \A l, u : IsReplica!MaySend(l, u) = MaySend(l, u)
  BY DEF IsReplica!MaySend, MaySend
<1>4. IsReplica!Updates = Updates
  BY DEF IsReplica!Updates, Updates, IsReplica!Orders, Orders
<1> QED
  BY <1>1, <1>2, <1>3, <1>4

\* The synthesizer's books are at every moment the engine's books after some number of its
\* updates: sendMarketUpdate() publishes one, addToSnapshot() moves the copy on by one, and
\* everything else leaves both as they are.
THEOREM CopyIsReplica == ASSUME MaxBacklog < QueueSize PROVE Spec => ImplementsReplica
<1>1. Init => IsReplica!Init
  BY SameOperators DEF Init, IsReplica!Init
<1>2. PublisherInv /\ [Next]_vars => [IsReplica!Next]_<<log, orders, lastInc>>
  <2> SUFFICES ASSUME PublisherInv, [Next]_vars PROVE [IsReplica!Next]_<<log, orders, lastInc>>
    OBVIOUS
  <2>1. ASSUME NEW u \in Updates, SendMarketUpdate(u) PROVE IsReplica!Publish
    <3>1. /\ MaySend(log, u) /\ log' = Append(log, u)
          /\ UNCHANGED <<orders, lastInc>>
      BY <2>1 DEF SendMarketUpdate, SendUpdate, synthesizer
    <3> QED
      BY <3>1, SameOperators DEF IsReplica!Publish
  <2>2. CASE AddToSnapshot /\ Asserted(Head(snapQueue))
    <3>1. lastInc' \in 0 .. Len(log) /\ orders' = BookAfter(log, lastInc') /\ UNCHANGED log
      BY <2>2, Added
    <3>2. IsReplica!Move
      BY <3>1, SameOperators DEF IsReplica!Move
    <3> QED
      BY <3>2 DEF IsReplica!Next
  <2>3. CASE (Number \/ Copy \/ SendAndRecv \/ PublishSnapshot \/ UNCHANGED vars)
             \/ (AddToSnapshot /\ ~Asserted(Head(snapQueue)))
    <3>1. UNCHANGED <<log, orders, lastInc>>
      BY <2>3, FailInv DEF Number, Copy, SendAndRecv, PublishSnapshot, vars, engine, synthesizer
    <3> QED
      BY <3>1
  <2> QED
    BY <2>1, <2>2, <2>3 DEF Next, Publisher, IsReplica!Next
<1> QED
  BY <1>1, <1>2, Invariant, PTL DEF Spec, ImplementsReplica, IsReplica!Spec

-----------------------------------------------------------------------------
(***************************************************************************)
(* The consumer.                                                           *)
(***************************************************************************)
\* The number expected is the one after what was passed last.
ExpectsNext ==
  /\ \E S : passed \in Seq(S)
  /\ exp = IF passed = <<>> THEN 1 ELSE passed[Len(passed)][2] + 1

Following == ExpectsNext /\ NoGapPassed

LEMMA InitFollows == ConsumerInit => Following
<1> SUFFICES ASSUME ConsumerInit PROVE Following
  OBVIOUS
<1>1. passed = <<>> /\ passed \in Seq({}) /\ exp = 1
  BY DEF ConsumerInit
<1> QED
  BY <1>1 DEF Following, ExpectsNext, NoGapPassed

\* The steps that pass something: an update is the next one, and after either the update
\* that follows it is expected.
LEMMA PassFollows ==
  ASSUME Following, NEW kind, NEW n, passed' = Append(passed, <<kind, n>>), exp' = n + 1,
         kind = "inc" => n = exp
  PROVE  Following'
<1>1. PICK S : passed \in Seq(S)
  BY DEF Following, ExpectsNext
<1> DEFINE x == <<kind, n>>
           T == S \union {x}
           l == Len(passed)
<1>2. passed \in Seq(T) /\ x \in T
  BY <1>1
<1>3. /\ passed' \in Seq(T) /\ Len(passed') = l + 1 /\ l \in Nat
      /\ \A i \in 1 .. l : passed'[i] = passed[i]
      /\ passed'[l + 1] = x
      /\ DOMAIN passed' = 1 .. l + 1 /\ DOMAIN passed = 1 .. l
      /\ passed' # <<>> /\ (passed = <<>> <=> l = 0)
  BY <1>2
<1>4. ExpectsNext'
  BY <1>3 DEF ExpectsNext
<1>5. ASSUME NEW i \in 1 .. l + 1, passed'[i][1] = "inc"
      PROVE  IF i = 1 THEN passed'[i][2] = 1 ELSE passed'[i][2] = passed'[i - 1][2] + 1
  <2>1. CASE i = l + 1
    <3>1. passed'[i][2] = exp
      BY <2>1, <1>3, <1>5
    <3>2. CASE l = 0
      BY <3>1, <3>2, <2>1, <1>3 DEF Following, ExpectsNext
    <3>3. CASE l # 0
      <4>1. i # 1 /\ i - 1 = l /\ l \in 1 .. l
        BY <3>3, <2>1, <1>3
      <4> QED
        BY <4>1, <3>1, <3>3, <1>3 DEF Following, ExpectsNext
    <3> QED
      BY <3>2, <3>3
  <2>2. CASE i # l + 1
    <3>1. i \in 1 .. l /\ (i # 1 => i - 1 \in 1 .. l)
      BY <2>2, <1>3
    <3> QED
      BY <3>1, <1>3, <1>5 DEF Following, NoGapPassed
  <2> QED
    BY <2>1, <2>2
<1>6. NoGapPassed'
  BY <1>3, <1>5 DEF NoGapPassed
<1> QED
  BY <1>4, <1>6 DEF Following

LEMMA NextFollows == Following /\ [ConsumerNext]_consumerVars => Following'
<1> SUFFICES ASSUME Following, [ConsumerNext]_consumerVars PROVE Following'
  OBVIOUS
<1>1. ASSUME NEW n \in 1 .. MaxUpdates, Forward(n) PROVE Following'
  BY <1>1, PassFollows DEF Forward, InSequence
<1>2. ASSUME NEW n \in 1 .. MaxUpdates, Recover(n) PROVE Following'
  <2>1. /\ passed' = Append(passed, <<"sync", LastMessage.last>>)
        /\ exp' = LastMessage.last + 1
    BY <1>2 DEF Recover, Resume
  <2> QED
    BY <2>1, PassFollows
<1>3. CASE UNCHANGED <<passed, exp>>
  BY <1>3 DEF Following, ExpectsNext, NoGapPassed
<1>4. \/ \E n \in 1 .. MaxUpdates : Forward(n) \/ Recover(n)
      \/ UNCHANGED <<passed, exp>>
  BY DEF ConsumerNext, consumerVars, Publish, StartSnapshot, Missed, QueueSnapshot, Lose,
         Start, Stop, StartRecovery, KeepWaiting, DropSnapshot
<1> QED
  BY <1>1, <1>2, <1>3, <1>4

\* However the two streams lose, repeat or reorder messages, and mix those of several
\* snapshots, an update is passed on only as the successor of what was passed before it
\* (recvCallback(), checkSnapshotSync()).
THEOREM UpdatesFollow == ConsumerSpec => []NoGapPassed
<1>1. Following => NoGapPassed
  BY DEF Following
<1> QED
  BY InitFollows, NextFollows, <1>1, PTL DEF ConsumerSpec

-----------------------------------------------------------------------------
(***************************************************************************)
(* The consumer's books, while the snapshots are not mixed.                *)
(***************************************************************************)
LEMMA FiniteContents ==
  ASSUME NEW b, NEW n
  PROVE  Cardinality(Contents(b, n)) \in Nat
<1> DEFINE Ends == {[type |-> t, last |-> n] : t \in {"START", "END"}}
           Clears == {[type |-> "CLEAR", last |-> n, ticker |-> t] : t \in Tickers}
           Rest == {p \in Orders : b[p] # 0}
           AddMessages == {[type |-> "ADD", last |-> n, order |-> o, qty |-> b[o]] : o \in Rest}
           end == [t \in {"START", "END"} |-> [type |-> t, last |-> n]]
           clear == [t \in Tickers |-> [type |-> "CLEAR", last |-> n, ticker |-> t]]
           add == [o \in Rest |-> [type |-> "ADD", last |-> n, order |-> o, qty |-> b[o]]]
<1>1. IsFiniteSet(Ends)
  <2>1. end \in Surjection({"START", "END"}, Ends)
    BY Zenon DEF Surjection
  <2>2. {"START", "END"} = {"START"} \union {"END"}
    OBVIOUS
  <2>3. IsFiniteSet({"START", "END"})
    <3>1. IsFiniteSet({"START"})
      BY FS_Singleton, Zenon
    <3>2. IsFiniteSet({"START"} \union {"END"})
      BY <3>1, FS_AddElement, Zenon
    <3> QED
      BY <3>2, <2>2
  <2> HIDE DEF end, Ends
  <2> QED
    BY <2>1, <2>3, FS_Surjection
<1>2. IsFiniteSet(Clears)
  <2>1. clear \in Surjection(Tickers, Clears)
    BY Zenon DEF Surjection
  <2> HIDE DEF clear, Clears
  <2> QED
    BY <2>1, FS_Surjection, ConsumerAssumption
<1>3. IsFiniteSet(AddMessages)
  <2>1. IsFiniteSet(Orders)
    BY FS_Product, ConsumerAssumption DEF Orders
  <2>2. IsFiniteSet(Rest)
    BY <2>1, FS_Subset
  <2>3. add \in Surjection(Rest, AddMessages)
    BY Zenon DEF Surjection
  <2> HIDE DEF add, AddMessages, Rest
  <2> QED
    BY <2>2, <2>3, FS_Surjection
<1>4. Contents(b, n) = (Ends \union Clears) \union AddMessages
  BY DEF Contents
<1> HIDE DEF Ends, Clears, AddMessages
<1> QED
  BY <1>1, <1>2, <1>3, <1>4, FS_Union, FS_CardinalityType

\* Of two messages of a snapshot at most one comes before the other.
LEMMA PrecedesOneWay ==
  ASSUME NEW b, NEW n, NEW v \in Contents(b, n), NEW w \in Contents(b, n), Precedes(v, w)
  PROVE  ~Precedes(w, v)
<1>1. v.type # "END"
  BY DEF Precedes
<1>2. CASE w.type = "END"
  BY <1>2 DEF Precedes
<1>3. CASE w.type # "END"
  <2>1. \A m \in Contents(b, n) : m.type # "END" => Place(m) \in Int \X Int
    <3> SUFFICES ASSUME NEW m \in Contents(b, n), m.type # "END" PROVE Place(m) \in Int \X Int
      OBVIOUS
    <3>1. CASE m.type = "START"
      BY <3>1 DEF Place
    <3>2. CASE m.type = "CLEAR"
      <4>1. m.ticker \in Tickers
        BY <3>2 DEF Contents
      <4>2. \A t \in Tickers : t \in Int
        BY UpdatesAssumption
      <4>3. m.ticker \in Int
        BY <4>1, <4>2, Zenon
      <4> QED
        BY <3>2, <4>3 DEF Place
    <3>3. CASE m.type = "ADD"
      <4>1. m.order \in Orders
        BY <3>3 DEF Contents
      <4> QED
        BY <3>3, <4>1, UpdatesAssumption DEF Place, Orders
    <3> QED
      BY <3>1, <3>2, <3>3 DEF Contents
  <2> DEFINE p == Place(v)
             q == Place(w)
  <2>2. p \in Int \X Int /\ q \in Int \X Int
    BY <1>1, <1>3, <2>1
  <2>3. p[1] < q[1] \/ (p[1] = q[1] /\ p[2] < q[2])
    BY <1>3 DEF Precedes
  <2> HIDE DEF p, q
  <2>4. ~(q[1] < p[1] \/ (q[1] = p[1] /\ q[2] < p[2]))
    BY <2>2, <2>3
  <2> QED
    BY <2>4, <1>1 DEF p, q, Precedes
<1> QED
  BY <1>2, <1>3

\* There is one snapshot of a book.
LEMMA OneSnapshot ==
  ASSUME NEW b, NEW n, NEW s \in Snapshots(b, n), NEW t \in Snapshots(b, n)
  PROVE  s = t
<1> DEFINE C == Contents(b, n)
           c == Cardinality(C)
           D == 0 .. c - 1
<1>1. c \in Nat
  BY FiniteContents
<1>2. /\ s \in [D -> C] /\ (\A m \in C : \E i \in D : s[i] = m)
      /\ \A i, j \in D : i < j => Precedes(s[i], s[j])
  BY DEF Snapshots, Range
<1>3. /\ t \in [D -> C] /\ (\A m \in C : \E i \in D : t[i] = m)
      /\ \A i, j \in D : i < j => Precedes(t[i], t[j])
  BY DEF Snapshots, Range
<1>4. \A v, w \in C : Precedes(v, w) => ~Precedes(w, v)
  BY PrecedesOneWay
<1> HIDE DEF C
<1> DEFINE T == {k \in Nat : \A i \in D : i < k => s[i] = t[i]}
<1>5. 0 \in T
  BY <1>1
<1>6. ASSUME NEW k \in T PROVE k + 1 \in T
  <2> SUFFICES ASSUME k \in D PROVE s[k] = t[k]
    BY <1>1
  <2>1. PICK j \in D : t[j] = s[k]
    BY <1>2, <1>3
  <2>2. PICK i \in D : s[i] = t[k]
    BY <1>2, <1>3
  <2>3. CASE j < k
    <3>1. s[j] = s[k] /\ Precedes(s[j], s[k]) /\ s[k] \in C
      BY <2>1, <2>3, <1>2
    <3> QED
      BY <3>1, <1>4
  <2>4. CASE i < k
    <3>1. t[i] = t[k] /\ Precedes(t[i], t[k]) /\ t[k] \in C
      BY <2>2, <2>4, <1>3
    <3> QED
      BY <3>1, <1>4
  <2>5. CASE k < j /\ k < i
    <3>1. Precedes(s[k], s[i]) /\ Precedes(t[k], t[j])
      BY <2>5, <1>2, <1>3
    <3>2. Precedes(s[k], t[k]) /\ Precedes(t[k], s[k])
      BY <3>1, <2>1, <2>2
    <3> QED
      BY <3>2, <1>2, <1>3, <1>4
  <2> QED
    BY <1>1, <2>1, <2>2, <2>3, <2>4, <2>5
<1> HIDE DEF T
<1>7. c \in T
  BY <1>1, <1>5, <1>6, SetInduction DEF T
<1>8. \A i \in D : s[i] = t[i]
  BY <1>1, <1>7 DEF T
<1> QED
  <2>1. s = [i \in D |-> s[i]] /\ t = [i \in D |-> t[i]]
    BY <1>2, <1>3
  <2> QED
    BY <2>1, <1>8, Zenon

\* What a snapshot leaves is the book it was made of, whatever was there before.
LEMMA SnapshotRebuilds ==
  ASSUME NEW b \in Books, NEW n, snapQueued \in Snapshots(b, n)
  PROVE  Rebuilt = b
<1> DEFINE C == Contents(b, n)
           D == DOMAIN snapQueued
           Concerns(m, o) == \/ m.type = "CLEAR" /\ m.ticker = o[1]
                             \/ m.type = "ADD" /\ m.order = o
           Said(o) == {k \in D : Concerns(snapQueued[k], o)}
           left(o) == LET m == snapQueued[Max(Said(o))] IN IF m.type = "ADD" THEN m.qty ELSE 0
<1>1. /\ D \subseteq Int
      /\ \A i \in D : snapQueued[i] \in C
      /\ \A m \in C : \E i \in D : snapQueued[i] = m
      /\ \A i, j \in D : i < j => Precedes(snapQueued[i], snapQueued[j])
  BY DEF Snapshots, Range
<1>2. \A v, w \in C : Precedes(v, w) => ~Precedes(w, v)
  BY PrecedesOneWay
<1>3. ASSUME NEW o \in Orders, NEW i \in D, Concerns(snapQueued[i], o),
             \A j \in D : j > i => ~Concerns(snapQueued[j], o)
      PROVE  Said(o) # {} /\ Max(Said(o)) = i
  <2>1. i \in Said(o) /\ \A j \in Said(o) : i >= j
    BY <1>1, <1>3
  <2>2. \A j \in Said(o) : (\A k \in Said(o) : j >= k) => j = i
    BY <1>1, <2>1
  <2> HIDE DEF Said
  <2> QED
    BY <2>1, <2>2 DEF Max
<1>4. ASSUME NEW o \in Orders PROVE Said(o) # {} /\ left(o) = b[o]
  <2>1. o[1] \in Tickers /\ o[2] \in OrderIds /\ o = <<o[1], o[2]>>
    BY DEF Orders
  <2>2. o[1] \in Int /\ o[2] \in Nat
    BY <2>1, UpdatesAssumption
  <2> DEFINE a == [type |-> "ADD", last |-> n, order |-> o, qty |-> b[o]]
             c == [type |-> "CLEAR", last |-> n, ticker |-> o[1]]
  <2>3. c \in C
    BY <2>1 DEF Contents
  <2>4. \A m \in C : Concerns(m, o) => m = a \/ m = c
    BY DEF Contents
  <2>5. Place(c) = <<o[1], -1>> /\ Place(a) = o
    BY DEF Place
  <2>6. ~Precedes(a, c)
    BY <2>2, <2>5 DEF Precedes
  <2>7. CASE b[o] # 0
    <3>1. a \in C
      BY <2>7 DEF Contents
    <3>2. PICK i \in D : snapQueued[i] = a
      BY <3>1, <1>1
    <3>3. \A j \in D : j > i => ~Concerns(snapQueued[j], o)
      <4> SUFFICES ASSUME NEW j \in D, j > i, Concerns(snapQueued[j], o) PROVE FALSE
        OBVIOUS
      <4>1. Precedes(a, snapQueued[j])
        BY <1>1, <3>2
      <4>2. snapQueued[j] = a \/ snapQueued[j] = c
        BY <1>1, <2>4
      <4> QED
        BY <4>1, <4>2, <2>6, <3>1, <1>2
    <3>4. Concerns(snapQueued[i], o)
      BY <3>2
    <3>5. Said(o) # {} /\ Max(Said(o)) = i
      BY <1>3, <3>3, <3>4
    <3> HIDE DEF Said
    <3> QED
      BY <3>2, <3>5
  <2>8. CASE b[o] = 0
    <3>1. PICK i \in D : snapQueued[i] = c
      BY <2>3, <1>1
    <3>2. \A m \in C : Concerns(m, o) => m = c
      BY <2>8, <2>4 DEF Contents
    <3>3. \A j \in D : j > i => ~Concerns(snapQueued[j], o)
      <4> SUFFICES ASSUME NEW j \in D, j > i, Concerns(snapQueued[j], o) PROVE FALSE
        OBVIOUS
      <4>1. Precedes(c, snapQueued[j])
        BY <1>1, <3>1
      <4>2. snapQueued[j] = c
        BY <1>1, <3>2
      <4> QED
        BY <4>1, <4>2, <2>3, <1>2
    <3>4. Concerns(snapQueued[i], o)
      BY <3>1
    <3>5. Said(o) # {} /\ Max(Said(o)) = i
      BY <1>3, <3>3, <3>4
    <3> HIDE DEF Said
    <3> QED
      BY <3>1, <3>5, <2>8
  <2> QED
    BY <2>7, <2>8
<1>5. Rebuilt = [o \in Orders |-> IF Said(o) = {} THEN view[o] ELSE left(o)]
  BY DEF Rebuilt
<1> HIDE DEF Said, left
<1>6. Rebuilt = [o \in Orders |-> b[o]]
  BY <1>4, <1>5
<1> QED
  BY <1>6 DEF Books

-----------------------------------------------------------------------------
\* Message m under number k is one of a snapshot of the books after some of the updates of l.
OfSnapshot(l, k, m) ==
  \E n \in 0 .. Len(l) : \E s \in Snapshots(BookAfter(l, n), n) : k \in DOMAIN s /\ s[k] = m

Unmixed == Complete => \A j, k \in DOMAIN snapQueued : snapQueued[j].last = snapQueued[k].last

\* What the consumer rests on: it shows the books as they were before the update it expects, and
\* what it has of snapshots was sent.
Shows ==
  /\ log \in Seq(Updates) /\ inFlight \subseteq 1 .. Len(log)
  /\ exp \in 1 .. Len(log) + 1 /\ view = BookAfter(log, exp - 1)

Heard ==
  /\ \E S : feed \in Seq(S)
  /\ \A i \in DOMAIN feed : OfSnapshot(log, feed[i][1], feed[i][2])
  /\ IsFiniteSet(DOMAIN snapQueued)
  /\ snapQueued = [k \in DOMAIN snapQueued |-> snapQueued[k]]
  /\ \A k \in DOMAIN snapQueued : OfSnapshot(log, k, snapQueued[k])

ConsumerInv == Shows /\ Heard /\ Unmixed

\* A complete queue, not mixed, is a snapshot.
LEMMA WholeSnapshot ==
  ASSUME ConsumerInv, Complete
  PROVE  LET n == LastMessage.last
         IN n \in 0 .. Len(log) /\ snapQueued \in Snapshots(BookAfter(log, n), n)
<1> DEFINE D == DOMAIN snapQueued
           d == Cardinality(D)
           n == LastMessage.last
           b == BookAfter(log, n)
<1>1. d \in Nat /\ D = 0 .. d - 1 /\ D # {}
  BY FS_CardinalityType DEF ConsumerInv, Heard, Complete, Contiguous, Numbers0
<1>2. d > 0 /\ d - 1 \in D
  BY <1>1
<1>3. LastMessage = snapQueued[d - 1]
  <2>1. \A k \in D : (\A j \in D : k >= j) <=> k = d - 1
    BY <1>1, <1>2
  <2> HIDE DEF D, d
  <2>2. (CHOOSE k \in D : \A j \in D : k >= j) = d - 1
    BY <1>2, <2>1
  <2> QED
    BY <2>2 DEF LastMessage, D
<1>4. ASSUME NEW k \in D
      PROVE  n \in 0 .. Len(log) /\ \E s \in Snapshots(b, n) : k \in DOMAIN s /\ s[k] = snapQueued[k]
  <2>1. PICK i \in 0 .. Len(log) : \E s \in Snapshots(BookAfter(log, i), i) : k \in DOMAIN s /\ s[k] = snapQueued[k]
    BY DEF ConsumerInv, Heard, OfSnapshot
  <2>2. PICK s \in Snapshots(BookAfter(log, i), i) : k \in DOMAIN s /\ s[k] = snapQueued[k]
    BY <2>1
  <2>3. s[k] \in Contents(BookAfter(log, i), i)
    BY <2>2 DEF Snapshots
  <2>4. snapQueued[k].last = i
    BY <2>2, <2>3 DEF Contents
  <2>5. snapQueued[k].last = n
    BY <1>2, <1>3 DEF ConsumerInv, Unmixed
  <2> QED
    BY <2>2, <2>4, <2>5
<1>5. PICK s \in Snapshots(b, n) : d - 1 \in DOMAIN s /\ s[d - 1] = snapQueued[d - 1]
  BY <1>2, <1>4
<1> HIDE DEF b, n
<1>6. ASSUME NEW k \in D PROVE k \in DOMAIN s /\ s[k] = snapQueued[k]
  <2>1. PICK t \in Snapshots(b, n) : k \in DOMAIN t /\ t[k] = snapQueued[k]
    BY <1>4
  <2>2. t = s
    BY OneSnapshot
  <2> QED
    BY <2>1, <2>2
<1> DEFINE c == Cardinality(Contents(b, n))
<1>7. c \in Nat
  BY FiniteContents
<1>8. /\ s \in [0 .. c - 1 -> Contents(b, n)]
      /\ \A i, j \in 0 .. c - 1 : i < j => Precedes(s[i], s[j])
  BY DEF Snapshots
<1> HIDE DEF c
<1>9. d - 1 = c - 1
  <2>1. d - 1 \in 0 .. c - 1
    BY <1>5, <1>8
  <2>2. s[d - 1].type = "END"
    BY <1>3, <1>5 DEF Complete
  <2>3. ASSUME d - 1 < c - 1 PROVE FALSE
    <3>1. d \in 0 .. c - 1 /\ d - 1 < d
      BY <1>1, <1>7, <2>3
    <3>2. Precedes(s[d - 1], s[d])
      BY <1>8, <2>1, <3>1
    <3> QED
      BY <2>2, <3>2 DEF Precedes
  <2> QED
    BY <1>1, <1>7, <2>1, <2>3
<1>10. snapQueued = s
  <2>1. DOMAIN s = D
    BY <1>1, <1>8, <1>9
  <2>2. s = [k \in D |-> s[k]]
    BY <1>8, <2>1
  <2>3. snapQueued = [k \in D |-> snapQueued[k]]
    BY DEF ConsumerInv, Heard
  <2> HIDE DEF D
  <2>4. [k \in D |-> s[k]] = [k \in D |-> snapQueued[k]]
    BY <1>6, Zenon
  <2> QED
    BY <2>2, <2>3, <2>4, Zenon
<1>11. n \in 0 .. Len(log)
  BY <1>2, <1>4
<1> QED
  BY <1>10, <1>11 DEF n, b

\* What was sent of a snapshot stays so when the exchange goes on.
LEMMA OfSnapshotKept ==
  ASSUME log \in Seq(Updates), log' = log \/ \E u \in Updates : log' = Append(log, u)
  PROVE  \A k, m : OfSnapshot(log, k, m) => OfSnapshot(log', k, m)
<1> SUFFICES ASSUME NEW k, NEW m, OfSnapshot(log, k, m)
             PROVE  \E n \in 0 .. Len(log') : \E s \in Snapshots(BookAfter(log', n), n) : k \in DOMAIN s /\ s[k] = m
  BY Zenon DEF OfSnapshot
<1>1. PICK n \in 0 .. Len(log) : \E s \in Snapshots(BookAfter(log, n), n) : k \in DOMAIN s /\ s[k] = m
  BY DEF OfSnapshot
<1>2. n \in 0 .. Len(log') /\ BookAfter(log', n) = BookAfter(log, n)
  <2>1. CASE log' = log
    BY <2>1
  <2>2. ASSUME NEW u \in Updates, log' = Append(log, u) PROVE n \in 0 .. Len(log') /\ BookAfter(log', n) = BookAfter(log, n)
    BY <2>2, BookAfterAppend, AppendProperties
  <2> QED
    BY <2>1, <2>2
<1> QED
  BY <1>1, <1>2

\* The next message of a snapshot, and those after it, were sent.
LEMMA FeedShrinks ==
  ASSUME Heard, feed # <<>>
  PROVE  /\ OfSnapshot(log, Head(feed)[1], Head(feed)[2])
         /\ \E S : Tail(feed) \in Seq(S)
         /\ \A i \in DOMAIN Tail(feed) : OfSnapshot(log, Tail(feed)[i][1], Tail(feed)[i][2])
<1>1. PICK S : feed \in Seq(S)
  BY DEF Heard
<1>2. /\ Head(feed) = feed[1] /\ 1 \in DOMAIN feed
      /\ Tail(feed) \in Seq(S)
      /\ \A i \in DOMAIN Tail(feed) : i + 1 \in DOMAIN feed /\ Tail(feed)[i] = feed[i + 1]
  BY <1>1
<1> QED
  BY <1>2 DEF Heard

LEMMA ConsumerInitInv == ConsumerInit => ConsumerInv
<1> SUFFICES ASSUME ConsumerInit PROVE ConsumerInv
  OBVIOUS
<1>1. log = <<>> /\ log \in Seq(Updates) /\ Len(log) = 0 /\ exp = 1 /\ inFlight = {} /\ view = EmptyBook
  BY DEF ConsumerInit
<1>2. view = BookAfter(log, exp - 1)
  BY <1>1, BookAfterNone
<1>3. Shows
  BY <1>1, <1>2 DEF Shows
<1>4. feed = <<>> /\ DOMAIN feed = {} /\ \E S : feed \in Seq(S)
  <2>1. feed = <<>> /\ feed \in Seq({})
    BY DEF ConsumerInit
  <2> QED
    BY <2>1
<1>5. snapQueued = <<>> /\ DOMAIN snapQueued = {} /\ IsFiniteSet({})
  BY FS_EmptySet DEF ConsumerInit, NoMessages
<1>6. Heard
  BY <1>4, <1>5 DEF Heard
<1>7. Unmixed
  BY <1>5 DEF Unmixed
<1> QED
  BY <1>3, <1>6, <1>7 DEF ConsumerInv

LEMMA ConsumerNextInv == ConsumerInv /\ [ConsumerNext /\ SnapshotsUnmixed]_consumerVars => ConsumerInv'
<1> SUFFICES ASSUME ConsumerInv, [ConsumerNext /\ SnapshotsUnmixed]_consumerVars PROVE ConsumerInv'
  OBVIOUS
<1> USE DEF ConsumerInv
<1>1. Unmixed'
  <2>1. CASE SnapshotsUnmixed
    BY <2>1 DEF SnapshotsUnmixed, Unmixed
  <2>2. CASE UNCHANGED consumerVars
    BY <2>2 DEF consumerVars, Unmixed, Complete, Contiguous, First, LastMessage, Numbers0
  <2> QED
    BY <2>1, <2>2
<1>2. ASSUME NEW u \in Updates, Publish(u) PROVE Shows' /\ Heard'
  <2>1. /\ log' = Append(log, u) /\ inFlight' = inFlight \union {Len(log) + 1}
        /\ UNCHANGED <<feed, exp, snapQueued, view>>
    BY <1>2 DEF Publish, SendUpdate
  <2>2. log \in Seq(Updates) /\ log' \in Seq(Updates) /\ Len(log') = Len(log) + 1 /\ Len(log) \in Nat
    BY <2>1 DEF Shows
  <2>3. view' = BookAfter(log', exp' - 1)
    <3>1. exp - 1 \in 0 .. Len(log)
      BY <2>2 DEF Shows
    <3> QED
      BY <2>1, <2>2, <3>1, BookAfterAppend DEF Shows
  <2>4. Shows'
    <3> DEFINE h == Len(log)
    <3>1. inFlight \subseteq 1 .. h /\ exp \in 1 .. h + 1 /\ h \in Nat
      BY <2>2 DEF Shows
    <3>2. Len(log') = h + 1 /\ inFlight' = inFlight \union {h + 1} /\ exp' = exp
      BY <2>1, <2>2
    <3> HIDE DEF h
    <3>3. inFlight' \subseteq 1 .. Len(log') /\ exp' \in 1 .. Len(log') + 1
      BY <3>1, <3>2
    <3> QED
      BY <2>2, <2>3, <3>3 DEF Shows
  <2>5. \A k, m : OfSnapshot(log, k, m) => OfSnapshot(log', k, m)
    BY <2>1, <2>2, OfSnapshotKept
  <2>6. Heard'
    BY <2>1, <2>5 DEF Heard
  <2> QED
    BY <2>4, <2>6
<1>3. ASSUME UNCHANGED log PROVE \A k, m : OfSnapshot(log, k, m) => OfSnapshot(log', k, m)
  BY <1>3, OfSnapshotKept DEF Shows
<1>4. ASSUME UNCHANGED <<log, exp, view>>, inFlight' \subseteq inFlight PROVE Shows'
  BY <1>4 DEF Shows
<1>5. ASSUME UNCHANGED <<log, feed>>, snapQueued' = snapQueued \/ snapQueued' = NoMessages PROVE Heard'
  <2>1. /\ \E S : feed' \in Seq(S)
        /\ \A i \in DOMAIN feed' : OfSnapshot(log', feed'[i][1], feed'[i][2])
    BY <1>3, <1>5 DEF Heard
  <2>2. CASE snapQueued' = snapQueued
    BY <1>3, <1>5, <2>1, <2>2 DEF Heard
  <2>3. CASE snapQueued' = NoMessages
    <3>1. DOMAIN snapQueued' = {} /\ IsFiniteSet({}) /\ snapQueued' = <<>>
      BY <2>3, FS_EmptySet DEF NoMessages
    <3>2. snapQueued' = [k \in DOMAIN snapQueued' |-> snapQueued'[k]]
      BY <3>1
    <3> QED
      BY <2>1, <3>1, <3>2 DEF Heard
  <2> QED
    BY <1>5, <2>2, <2>3
<1>6. ASSUME StartSnapshot PROVE Shows' /\ Heard'
  <2>1. UNCHANGED <<log, inFlight, exp, snapQueued, view>>
    BY <1>6 DEF StartSnapshot
  <2>2. Shows'
    BY <1>4, <2>1
  <2> DEFINE b == BookAfter(log, Len(log))
  <2>3. PICK s \in Snapshots(b, Len(log)) : feed' = [k \in 1 .. Cardinality(DOMAIN s) |-> <<k - 1, s[k - 1]>>]
    BY <1>6 DEF StartSnapshot
  <2>4. Len(log) \in 0 .. Len(log)
    BY DEF Shows
  <2> DEFINE c == Cardinality(Contents(b, Len(log)))
  <2>5. c \in Nat
    BY FiniteContents
  <2>6. DOMAIN s = 0 .. c - 1
    BY DEF Snapshots
  <2>7. Cardinality(DOMAIN s) = c
    <3> HIDE DEF c
    <3>1. Cardinality(0 .. c - 1) = IF 0 <= c - 1 THEN c - 1 - 0 + 1 ELSE 0
      BY <2>5, FS_Interval
    <3> QED
      BY <2>5, <2>6, <3>1
  <2> HIDE DEF b, c
  <2>8. DOMAIN feed' = 1 .. c /\ \A i \in 1 .. c : feed'[i] = <<i - 1, s[i - 1]>> /\ i - 1 \in DOMAIN s
    BY <2>3, <2>5, <2>6, <2>7
  <2>9. \A i \in DOMAIN feed' : OfSnapshot(log', feed'[i][1], feed'[i][2])
    BY <2>1, <2>4, <2>8 DEF OfSnapshot, b
  <2>10. feed' \in Seq({feed'[i] : i \in 1 .. c})
    <3>1. feed' = [i \in 1 .. c |-> feed'[i]]
      BY <2>3, <2>7
    <3> QED
      BY <2>5, <3>1
  <2>11. Heard'
    <3>1. \A j \in DOMAIN snapQueued' : OfSnapshot(log', j, snapQueued'[j])
      BY <2>1, <1>3 DEF Heard
    <3>2. \A i \in DOMAIN feed' : OfSnapshot(log', feed'[i][1], feed'[i][2])
      BY <2>1, <2>9, <1>3
    <3>3. \E S : feed' \in Seq(S)
      BY <2>10
    <3> QED
      BY <2>1, <3>1, <3>2, <3>3 DEF Heard
  <2> QED
    BY <2>2, <2>11
<1>7. ASSUME Missed PROVE Shows' /\ Heard'
  <2>1. UNCHANGED <<log, inFlight, exp, snapQueued, view>> /\ feed # <<>> /\ feed' = Tail(feed)
    BY <1>7 DEF Missed, exchange
  <2>2. Heard'
    BY <1>3, <2>1, FeedShrinks DEF Heard
  <2>3. Shows'
    BY <1>4, <2>1
  <2> QED
    BY <2>2, <2>3
<1>8. ASSUME QueueSnapshot PROVE Shows' /\ Heard'
  <2> DEFINE k == Head(feed)[1]
             D == DOMAIN Kept(k)
  <2>1. /\ UNCHANGED <<log, inFlight, exp, view>> /\ feed # <<>> /\ feed' = Tail(feed)
        /\ snapQueued' = [j \in D \union {k} |-> IF j = k THEN Head(feed)[2] ELSE snapQueued[j]]
    BY <1>8 DEF QueueSnapshot, exchange
  <2>2. D \subseteq DOMAIN snapQueued /\ IsFiniteSet(D)
    <3>1. D = DOMAIN snapQueued \/ D = {}
      BY DEF Kept, NoMessages
    <3> QED
      BY <3>1, FS_EmptySet DEF Heard
  <2> HIDE DEF D
  <2>3. IsFiniteSet(D \union {k})
    BY <2>2, FS_AddElement
  <2>4. /\ OfSnapshot(log, k, Head(feed)[2])
        /\ \A j \in D : OfSnapshot(log, j, snapQueued[j])
    BY <2>1, <2>2, FeedShrinks DEF Heard
  <2> HIDE DEF k
  <2>5. /\ DOMAIN snapQueued' = D \union {k}
        /\ snapQueued' = [j \in DOMAIN snapQueued' |-> snapQueued'[j]]
        /\ \A j \in DOMAIN snapQueued' : OfSnapshot(log', j, snapQueued'[j])
    BY <2>1, <2>4
  <2>6. Heard'
    BY <1>3, <2>1, <2>3, <2>5, FeedShrinks DEF Heard
  <2>7. Shows'
    BY <1>4, <2>1
  <2> QED
    BY <2>6, <2>7
<1>9. ASSUME Start \/ Stop \/ UNCHANGED consumerVars PROVE Shows' /\ Heard'
  <2>1. UNCHANGED <<log, inFlight, feed, exp, snapQueued, view>>
    BY <1>9 DEF Start, Stop, consumerVars, exchange
  <2>2. Shows'
    BY <1>4, <2>1
  <2>3. Heard'
    BY <1>5, <2>1
  <2> QED
    BY <2>2, <2>3
<1>10. ASSUME NEW n, Arrives(n) PROVE inFlight' \subseteq inFlight /\ n \in 1 .. Len(log)
  BY <1>10 DEF Arrives, Shows
<1>11. ASSUME NEW n \in 1 .. MaxUpdates, Lose(n) PROVE Shows' /\ Heard'
  BY <1>11, <1>4, <1>5 DEF Lose, exchange
<1>12. ASSUME NEW n \in 1 .. MaxUpdates, Forward(n) PROVE Shows' /\ Heard'
  <2>1. /\ UNCHANGED <<log, feed, snapQueued>> /\ exp = n /\ exp' = exp + 1 /\ view' = Effect(view, log[n])
        /\ inFlight' \subseteq inFlight /\ n \in 1 .. Len(log)
    BY <1>10, <1>12 DEF Forward, InSequence, exchange
  <2>2. view' = BookAfter(log, n)
    <3>1. n - 1 \in Nat /\ (n - 1) + 1 = n /\ view = BookAfter(log, n - 1)
      BY <2>1 DEF Shows
    <3> QED
      BY <2>1, <3>1, BookAfterNext
  <2>3. Len(log) \in Nat /\ exp' \in 1 .. Len(log) + 1 /\ exp' - 1 = n
    BY <2>1 DEF Shows
  <2>4. Shows'
    BY <2>1, <2>2, <2>3 DEF Shows
  <2> QED
    BY <1>5, <2>1, <2>4
<1>13. ASSUME NEW n \in 1 .. MaxUpdates, StartRecovery(n) \/ KeepWaiting(n) \/ DropSnapshot(n) PROVE Shows' /\ Heard'
  <2>1. /\ Arrives(n) /\ UNCHANGED <<log, feed, exp, view>>
        /\ snapQueued' = snapQueued \/ snapQueued' = NoMessages
    BY <1>13 DEF StartRecovery, KeepWaiting, DropSnapshot, QueueIncremental, exchange
  <2> QED
    BY <1>4, <1>5, <1>10, <2>1
<1>14. ASSUME NEW n \in 1 .. MaxUpdates, Recover(n) PROVE Shows' /\ Heard'
  <2> DEFINE i == LastMessage.last
  <2>1. /\ Arrives(n) /\ UNCHANGED <<log, feed>> /\ snapQueued' = NoMessages /\ Complete
        /\ exp' = i + 1 /\ view' = Rebuilt
    BY <1>14 DEF Recover, QueueIncremental, Resume, exchange
  <2>2. i \in 0 .. Len(log) /\ snapQueued \in Snapshots(BookAfter(log, i), i)
    BY <2>1, WholeSnapshot
  <2> HIDE DEF i
  <2>3. view' = BookAfter(log, i)
    <3>1. BookAfter(log, i) \in Books
      BY <2>2, BooksTyped DEF Shows
    <3> QED
      BY <2>1, <2>2, <3>1, SnapshotRebuilds
  <2>4. Len(log) \in Nat /\ exp' \in 1 .. Len(log) + 1 /\ exp' - 1 = i
    BY <2>1, <2>2 DEF Shows
  <2>5. Shows'
    BY <1>10, <2>1, <2>3, <2>4 DEF Shows
  <2> QED
    BY <1>5, <2>1, <2>5
<1>15. Shows' /\ Heard'
  BY <1>2, <1>6, <1>7, <1>8, <1>9, <1>11, <1>12, <1>13, <1>14 DEF ConsumerNext
<1> QED
  BY <1>1, <1>15

LEMMA SameReplica ==
  /\ \A l, n : ViewIsReplica!BookAfter(l, n) = BookAfter(l, n)
  /\ \A l, u : ViewIsReplica!MaySend(l, u) = MaySend(l, u)
  /\ ViewIsReplica!Updates = Updates
  /\ ViewIsReplica!EmptyBook = EmptyBook
<1>1. ViewIsReplica!EmptyBook = EmptyBook
  BY DEF ViewIsReplica!EmptyBook, EmptyBook, ViewIsReplica!Orders, Orders
<1>2. \A l, n : ViewIsReplica!BookAfter(l, n) = BookAfter(l, n)
  BY DEF ViewIsReplica!BookAfter, BookAfter, ViewIsReplica!Effect, Effect,
         ViewIsReplica!EmptyBook, EmptyBook, ViewIsReplica!Orders, Orders
<1>3. \A l, u : ViewIsReplica!MaySend(l, u) = MaySend(l, u)
  BY DEF ViewIsReplica!MaySend, MaySend
<1>4. ViewIsReplica!Updates = Updates
  BY DEF ViewIsReplica!Updates, Updates, ViewIsReplica!Orders, Orders
<1> QED
  BY <1>1, <1>2, <1>3, <1>4

\* As long as no recovery takes the messages of two snapshots for one, the trade engine's
\* books are at every moment those of the exchange after some number of its updates:
\* recvCallback() passes the next one on, checkSnapshotSync() rebuilds them out of a snapshot,
\* whatever the two streams lose, repeat or reorder.
THEOREM ConsumerIsReplica ==
  ConsumerInit /\ [][ConsumerNext /\ SnapshotsUnmixed]_consumerVars => ConsumerImplementsReplica
<1>1. ConsumerInit => ViewIsReplica!Init
  BY SameReplica DEF ConsumerInit, ViewIsReplica!Init
<1>2. ConsumerInv /\ ConsumerInv' /\ [ConsumerNext /\ SnapshotsUnmixed]_consumerVars
        => [ViewIsReplica!Next]_<<log, view, exp - 1>>
  <2> SUFFICES ASSUME ConsumerInv, ConsumerInv', [ConsumerNext /\ SnapshotsUnmixed]_consumerVars
               PROVE  [ViewIsReplica!Next]_<<log, view, exp - 1>>
    OBVIOUS
  <2>1. ASSUME NEW u \in Updates, Publish(u) PROVE ViewIsReplica!Publish
    <3>1. MaySend(log, u) /\ log' = Append(log, u) /\ UNCHANGED <<view, exp>>
      BY <2>1 DEF Publish, SendUpdate
    <3> QED
      BY <3>1, SameReplica DEF ViewIsReplica!Publish
  <2>2. CASE UNCHANGED log
    <3>1. Len(log) \in Nat /\ exp' \in 1 .. Len(log) + 1 /\ view' = BookAfter(log, exp' - 1)
      <4>1. log' \in Seq(Updates) /\ exp' \in 1 .. Len(log') + 1 /\ view' = BookAfter(log', exp' - 1)
        BY DEF ConsumerInv, Shows
      <4> QED
        BY <2>2, <4>1
    <3>2. ViewIsReplica!Move
      <4> DEFINE h == Len(log)
                 e == exp'
      <4>0. h \in Nat /\ e \in 1 .. h + 1
        BY <3>1
      <4> HIDE DEF h, e
      <4>1. e - 1 \in 0 .. h
        BY <4>0
      <4>2. view' = ViewIsReplica!BookAfter(log, exp' - 1)
        BY <3>1, SameReplica, Zenon
      <4> QED
        BY <2>2, <4>1, <4>2 DEF ViewIsReplica!Move, h, e
    <3> QED
      BY <3>2 DEF ViewIsReplica!Next
  <2>3. (\E u \in Updates : Publish(u)) \/ UNCHANGED log
    BY DEF ConsumerNext, consumerVars, exchange, StartSnapshot, Missed, QueueSnapshot, Start, Stop, Lose,
           Forward, StartRecovery, KeepWaiting, DropSnapshot, Recover, QueueIncremental
  <2> QED
    BY <2>1, <2>2, <2>3 DEF ViewIsReplica!Next
<1> QED
  BY <1>1, <1>2, ConsumerInitInv, ConsumerNextInv, PTL DEF ConsumerImplementsReplica, ViewIsReplica!Spec
=============================================================================

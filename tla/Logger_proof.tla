---------------------------- MODULE Logger_proof ----------------------------
(***************************************************************************)
(* Proofs about Logger and LogFormat, for every backlog, every format and  *)
(* every number of arguments.                                              *)
(***************************************************************************)
EXTENDS LogFormat, SequenceTheorems, FiniteSetTheorems, TLAPS

\* Where the thread and the destructor are, and what that says of the queue: between two
\* visits the thread has taken what it wrote, and it ends only after running_ was reset,
\* which the destructor does when the queue is empty.
Places ==
  /\ flusher = "pop" => written = popped + 1
  /\ flusher # "pop" => popped = written
  /\ (dtor \in {"none", "wait"}) <=> running
  /\ dtor \in {"join", "closed"} => popped = logged
  /\ dtor = "closed" => flushed = written /\ flusher = "done"

IInv == TypeOK /\ Places

LEMMA InitIInv == Init => IInv
  BY DEF Init, IInv, TypeOK, Places

LEMMA NextIInv == IInv /\ [Next]_vars => IInv'
<1> SUFFICES ASSUME IInv, [Next]_vars PROVE IInv'
  OBVIOUS
<1> USE DEF IInv, TypeOK, Places, size
<1>1. CASE PushValue
  BY <1>1 DEF PushValue
<1>2. CASE TestRunning
  BY <1>2 DEF TestRunning
<1>3. CASE Write
  BY <1>3 DEF Write
<1>4. CASE Pop
  BY <1>4 DEF Pop
<1>5. CASE Flush
  BY <1>5 DEF Flush
<1>6. CASE Destroy
  BY <1>6 DEF Destroy
<1>7. CASE Stop
  <2>1. popped = logged /\ flusher # "pop"
    BY <1>7 DEF Stop
  <2>2. TypeOK'
    BY <1>7 DEF Stop
  <2>3. Places'
    BY <1>7, <2>1 DEF Stop
  <2> QED
    BY <2>2, <2>3
<1>8. CASE Close
  BY <1>8 DEF Close
<1>9. CASE UNCHANGED vars
  BY <1>9 DEF vars
<1> QED
  BY <1>1, <1>2, <1>3, <1>4, <1>5, <1>6, <1>7, <1>8, <1>9
  DEF Next, FlushQueue, Destructor

LEMMA Invariance == Spec => []IInv
  BY InitIInv, NextIInv, PTL DEF Spec

\* Nothing is written that was not logged, or flushed that was not written, and an element
\* leaves the queue only after it was written.
THEOREM TypeCorrect == Spec => []TypeOK
<1>1. IInv => TypeOK
  BY DEF IInv
<1> QED
  BY Invariance, <1>1, PTL

\* A closed log file holds all that was logged (~Logger()).
THEOREM ClosedIsFlushed == Spec => []FlushedWhenClosed
<1>1. IInv => FlushedWhenClosed
  BY DEF IInv, TypeOK, Places, FlushedWhenClosed
<1> QED
  BY Invariance, <1>1, PTL

-----------------------------------------------------------------------------
(***************************************************************************)
(* A call of log(), while the thread runs (LogFormat).  The invariant says *)
(* what was read of the format, and counts what was written for it: a      *)
(* place for an argument is found where the last % sign of an odd run is,  *)
(* because an even number of % signs was read before it.                   *)
(***************************************************************************)
Characters == {"%", "c"}
LogElements == [char : Characters \union {""}, arg : Nat]

CallTyped ==
  /\ format \in Seq(Characters) /\ s \in Seq(Characters)
  /\ numArgs \in Nat /\ args \in Seq(Nat)
  /\ out \in Seq(LogElements)
  /\ result \in {"none", "returned", "FATAL"}

\* How much of the format was read, and how many arguments were taken.
Read == Len(format) - Len(s)
Taken == numArgs - Len(args)

\* What is left are the last characters and the last arguments.
RestLeft ==
  /\ Len(s) <= Len(format) /\ \A i \in 1 .. Len(s) : s[i] = format[Read + i]
  /\ Len(args) <= numArgs /\ \A i \in 1 .. Len(args) : args[i] = Taken + i

\* A run of % signs begins behind a and reaches to n.
RunFrom(a, n) == (\A j \in a + 1 .. n : format[j] = "%") /\ (a = 0 \/ format[a] # "%")

\* Before place n + 1 there is an even number of % signs in a row.
EvenTo(n) ==
  \E a \in 0 .. n : RunFrom(a, n) /\ (n - a) % 2 = 0

\* The places for arguments and the % signs among the first n characters.
PlacesTo(n) == {i \in RunEnds : i <= n /\ RunLength(i) % 2 = 1}
PercentsTo(n) == {i \in 1 .. n : format[i] = "%"}

Counted ==
  /\ Cardinality(PlacesTo(Read)) = Taken
  /\ Cardinality(ArgsOut(Len(out))) = Taken
  /\ \A i \in ArgsOut(Len(out)) : out[i].arg = Cardinality(ArgsOut(i))
  /\ 2 * Cardinality(PercentsOut) = Cardinality(PercentsTo(Read)) - Taken

CallInv ==
  /\ CallTyped /\ RestLeft /\ Counted
  /\ s # <<>> /\ s[1] = "%" => EvenTo(Read)
  /\ result = "returned" => s = <<>> /\ args = <<>>
  /\ result = "FATAL" => numArgs # Placeholders

\* The run of % signs that ends at i has one length.
LEMMA RunIs ==
  ASSUME NEW i \in Nat, NEW a \in 0 .. i - 1, RunFrom(a, i)
  PROVE  RunLength(i) = i - a
<1> DEFINE P(m) == /\ \A j \in i - m + 1 .. i : format[j] = "%"
                   /\ m = i \/ format[i - m] # "%"
<1>1. ASSUME NEW m \in 1 .. i, P(m)
      PROVE  m = i - a
  <2>1. CASE a < i - m
    <3>1. i - m \in a + 1 .. i /\ m # i
      BY <2>1
    <3> QED
      BY <1>1, <3>1 DEF RunFrom
  <2>2. CASE i - m < a
    <3>1. a \in i - m + 1 .. i /\ a # 0
      BY <2>2
    <3> QED
      BY <1>1, <3>1 DEF RunFrom
  <2> QED
    BY <2>1, <2>2
<1>2. i - a \in 1 .. i /\ P(i - a)
  <2>1. i - a \in 1 .. i /\ i - (i - a) = a
    OBVIOUS
  <2> QED
    BY <2>1 DEF RunFrom
<1>3. RunLength(i) = CHOOSE m \in 1 .. i : P(m)
  BY DEF RunLength
<1> HIDE DEF P
<1> QED
  BY <1>1, <1>2, <1>3

LEMMA FiniteTo ==
  ASSUME NEW n \in Nat, CallTyped
  PROVE  /\ IsFiniteSet(PlacesTo(n)) /\ IsFiniteSet(PercentsTo(n))
         /\ PlacesTo(n) \subseteq 1 .. n /\ PercentsTo(n) \subseteq 1 .. n
<1>1. IsFiniteSet(1 .. n)
  BY FS_Interval
<1>2. Len(format) \in Nat /\ DOMAIN format = 1 .. Len(format)
  BY LenProperties DEF CallTyped
<1>3. PlacesTo(n) \subseteq 1 .. n /\ PercentsTo(n) \subseteq 1 .. n
  BY <1>2 DEF PlacesTo, PercentsTo, RunEnds
<1> QED
  BY <1>1, <1>3, FS_Subset

\* What another character, an escape and the place for an argument add.
LEMMA CharAdds ==
  ASSUME CallTyped, NEW n \in Nat, n + 1 <= Len(format), format[n + 1] # "%"
  PROVE  PlacesTo(n + 1) = PlacesTo(n) /\ PercentsTo(n + 1) = PercentsTo(n) /\ EvenTo(n + 1)
<1>1. Len(format) \in Nat /\ DOMAIN format = 1 .. Len(format)
  BY LenProperties DEF CallTyped
<1>2. PlacesTo(n + 1) = PlacesTo(n)
  BY <1>1 DEF PlacesTo, RunEnds
<1>3. PercentsTo(n + 1) = PercentsTo(n)
  BY DEF PercentsTo
<1>4. n + 1 \in 0 .. n + 1 /\ ((n + 1) - (n + 1)) % 2 = 0 /\ RunFrom(n + 1, n + 1)
  BY DEF RunFrom
<1> QED
  BY <1>2, <1>3, <1>4 DEF EvenTo

LEMMA EscapeAdds ==
  ASSUME CallTyped, NEW n \in Nat, NEW m \in Nat, m = n + 1, m + 1 <= Len(format),
         format[m] = "%", format[m + 1] = "%", EvenTo(n)
  PROVE  /\ PlacesTo(m + 1) = PlacesTo(n)
         /\ Cardinality(PercentsTo(m + 1)) = Cardinality(PercentsTo(n)) + 2
         /\ EvenTo(m + 1)
<1>1. Len(format) \in Nat /\ DOMAIN format = 1 .. Len(format)
  BY LenProperties DEF CallTyped
<1>2. PICK a \in 0 .. n : RunFrom(a, n) /\ (n - a) % 2 = 0
  BY DEF EvenTo
<1>3. RunFrom(a, m + 1)
  <2>1. \A j \in a + 1 .. m + 1 : j \in a + 1 .. n \/ j = m \/ j = m + 1
    OBVIOUS
  <2> QED
    BY <1>2, <2>1 DEF RunFrom
<1>4. ((m + 1) - a) % 2 = 0 /\ a \in 0 .. m + 1 /\ a \in 0 .. (m + 1) - 1 /\ m + 1 \in Nat
  BY <1>2
<1>5. EvenTo(m + 1)
  BY <1>3, <1>4 DEF EvenTo
<1>6. RunLength(m + 1) % 2 # 1
  BY <1>3, <1>4, RunIs
<1>7. m \notin RunEnds
  <2>1. m # Len(format)
    <3>1. Len(format) \in Nat
      BY <1>1
    <3> QED
      BY ONLY <3>1, m \in Nat, m + 1 <= Len(format)
  <2> QED
    BY ONLY <2>1, format[m + 1] = "%" DEF RunEnds
<1>8. PlacesTo(m + 1) = PlacesTo(n)
  <2>1. \A k \in Nat : PlacesTo(k) \subseteq RunEnds
    BY DEF PlacesTo
  <2>2. RunEnds \subseteq Nat
    BY ONLY <1>1 DEF RunEnds
  <2>3. ASSUME NEW i \in RunEnds
        PROVE  i \in PlacesTo(m + 1) <=> i \in PlacesTo(n)
    <3>1. i <= m + 1 <=> i <= n \/ i = m \/ i = m + 1
      BY <2>2
    <3> QED
      BY <1>6, <1>7, <3>1 DEF PlacesTo
  <2> QED
    BY <1>4, <2>1, <2>3
<1>9. Cardinality(PercentsTo(m + 1)) = Cardinality(PercentsTo(n)) + 2
  <2> DEFINE p == PercentsTo(n)
             q == p \union {m}
             r == q \union {m + 1}
  <2>1. PercentsTo(m + 1) = r
    BY DEF PercentsTo
  <2>2. m \notin p /\ m + 1 \notin q
    BY DEF PercentsTo
  <2>3. IsFiniteSet(p) /\ Cardinality(p) \in Nat
    BY FiniteTo, FS_CardinalityType
  <2> HIDE DEF p
  <2>4. IsFiniteSet(q) /\ Cardinality(q) = Cardinality(p) + 1
    BY <2>2, <2>3, FS_AddElement
  <2> HIDE DEF q
  <2>5. Cardinality(r) = Cardinality(q) + 1
    BY <2>2, <2>4, FS_AddElement
  <2> HIDE DEF r
  <2>6. Cardinality(r) = Cardinality(p) + 2
    BY <2>3, <2>4, <2>5
  <2> QED
    BY <2>1, <2>6 DEF p
<1> QED
  BY <1>5, <1>8, <1>9

LEMMA PlaceAdds ==
  ASSUME CallTyped, NEW n \in Nat, NEW m \in Nat, m = n + 1, m <= Len(format),
         format[m] = "%", m = Len(format) \/ format[m + 1] # "%", EvenTo(n)
  PROVE  /\ Cardinality(PlacesTo(m)) = Cardinality(PlacesTo(n)) + 1
         /\ Cardinality(PercentsTo(m)) = Cardinality(PercentsTo(n)) + 1
<1>1. Len(format) \in Nat /\ DOMAIN format = 1 .. Len(format)
  BY LenProperties DEF CallTyped
<1>2. PICK a \in 0 .. n : RunFrom(a, n) /\ (n - a) % 2 = 0
  BY DEF EvenTo
<1>3. (m - a) % 2 = 1 /\ a \in 0 .. m - 1
  BY <1>2
<1>4. RunFrom(a, m)
  <2>1. \A j \in a + 1 .. m : j \in a + 1 .. n \/ j = m
    OBVIOUS
  <2> QED
    BY <1>2, <2>1 DEF RunFrom
<1>5. RunLength(m) % 2 = 1
  BY <1>3, <1>4, RunIs
<1>6. m \in RunEnds
  <2>1. m \in DOMAIN format
    BY ONLY <1>1, n \in Nat, m \in Nat, m = n + 1, m <= Len(format)
  <2> QED
    BY ONLY <2>1, format[m] = "%", m = Len(format) \/ format[m + 1] # "%" DEF RunEnds
<1>7. PlacesTo(m) = PlacesTo(n) \union {m}
  <2>1. \A k \in Nat : PlacesTo(k) \subseteq RunEnds
    BY DEF PlacesTo
  <2>2. RunEnds \subseteq Nat
    BY ONLY <1>1 DEF RunEnds
  <2>3. ASSUME NEW i \in RunEnds
        PROVE  i \in PlacesTo(m) <=> i \in PlacesTo(n) \union {m}
    <3>1. i <= m <=> i <= n \/ i = m
      BY <2>2
    <3> QED
      BY <1>5, <3>1 DEF PlacesTo
  <2> QED
    BY <1>6, <2>1, <2>3
<1>8. PercentsTo(m) = PercentsTo(n) \union {m}
  BY DEF PercentsTo
<1>9. m \notin PlacesTo(n) /\ m \notin PercentsTo(n)
  BY FiniteTo
<1> QED
  BY <1>7, <1>8, <1>9, FiniteTo, FS_AddElement

\* What an element adds to those written.
ArgsIn(o, n) == {i \in 1 .. n : o[i].arg # 0}
PercentsIn(o) == {i \in 1 .. Len(o) : o[i].char = "%"}
Adds(p, o, e) ==
  /\ p \in Seq(LogElements) /\ Len(p) = Len(o) + 1 /\ p[Len(p)] = e
  /\ \A i \in 1 .. Len(o) : p[i] = o[i] /\ ArgsIn(p, i) = ArgsIn(o, i)
  /\ ArgsIn(p, Len(p)) = IF e.arg = 0 THEN ArgsIn(o, Len(o)) ELSE ArgsIn(o, Len(o)) \union {Len(p)}
  /\ Cardinality(ArgsIn(p, Len(p)))
       = Cardinality(ArgsIn(o, Len(o))) + IF e.arg = 0 THEN 0 ELSE 1
  /\ Cardinality(PercentsIn(p)) = Cardinality(PercentsIn(o)) + IF e.char = "%" THEN 1 ELSE 0

LEMMA ElementAdds ==
  ASSUME NEW o \in Seq(LogElements), NEW e \in LogElements
  PROVE  Adds(Append(o, e), o, e)
<1> DEFINE p == Append(o, e)
           n == Len(o)
<1>1. /\ n \in Nat /\ p \in Seq(LogElements) /\ Len(p) = n + 1 /\ p[n + 1] = e
      /\ \A i \in 1 .. n : p[i] = o[i]
  BY AppendProperties, LenProperties
<1> HIDE DEF p, n
<1>2. \A i \in 1 .. n : ArgsIn(p, i) = ArgsIn(o, i)
  BY <1>1 DEF ArgsIn
<1>3. ArgsIn(p, n + 1) = IF e.arg = 0 THEN ArgsIn(o, n) ELSE ArgsIn(o, n) \union {n + 1}
  <2>1. \A i \in 1 .. n + 1 : i \in 1 .. n \/ i = n + 1
    BY <1>1
  <2> QED
    BY <1>1, <2>1 DEF ArgsIn
<1>4. PercentsIn(p) = IF e.char = "%" THEN PercentsIn(o) \union {n + 1} ELSE PercentsIn(o)
  <2>1. \A i \in 1 .. n + 1 : i \in 1 .. n \/ i = n + 1
    BY <1>1
  <2> QED
    BY <1>1, <2>1 DEF PercentsIn, n
<1>5. /\ IsFiniteSet(ArgsIn(o, n)) /\ n + 1 \notin ArgsIn(o, n)
      /\ IsFiniteSet(PercentsIn(o)) /\ n + 1 \notin PercentsIn(o)
  <2>1. ArgsIn(o, n) \subseteq 1 .. n /\ PercentsIn(o) \subseteq 1 .. n
    BY DEF ArgsIn, PercentsIn, n
  <2>2. IsFiniteSet(1 .. n) /\ n + 1 \notin 1 .. n
    BY <1>1, FS_Interval
  <2> QED
    BY <2>1, <2>2, FS_Subset
<1>6. /\ Cardinality(ArgsIn(o, n)) \in Nat /\ Cardinality(PercentsIn(o)) \in Nat
  BY <1>5, FS_CardinalityType
<1>7. Cardinality(ArgsIn(p, n + 1)) = Cardinality(ArgsIn(o, n)) + IF e.arg = 0 THEN 0 ELSE 1
  <2>1. Cardinality(ArgsIn(o, n) \union {n + 1}) = Cardinality(ArgsIn(o, n)) + 1
    BY <1>5, FS_AddElement
  <2> QED
    BY <1>3, <1>6, <2>1
<1>8. Cardinality(PercentsIn(p)) = Cardinality(PercentsIn(o)) + IF e.char = "%" THEN 1 ELSE 0
  <2>1. Cardinality(PercentsIn(o) \union {n + 1}) = Cardinality(PercentsIn(o)) + 1
    BY <1>5, FS_AddElement
  <2> QED
    BY <1>4, <1>6, <2>1
<1> QED
  BY <1>1, <1>2, <1>3, <1>7, <1>8 DEF Adds, p, n

\* The format does not change, and with it nothing that is said of it.
LEMMA FormatKept ==
  ASSUME format' = format
  PROVE  /\ PlacesTo(Read)' = PlacesTo(Read') /\ PercentsTo(Read)' = PercentsTo(Read')
         /\ EvenTo(Read)' <=> EvenTo(Read')
         /\ Placeholders' = Placeholders
<1>1. \A i : RunLength(i)' = RunLength(i)
  BY DEF RunLength
<1>2. RunEnds' = RunEnds
  BY DEF RunEnds
<1> QED
  BY <1>1, <1>2 DEF PlacesTo, PercentsTo, EvenTo, RunFrom, Placeholders

LEMMA InitCallInv == LogInit => CallInv
<1> SUFFICES ASSUME LogInit PROVE CallInv
  OBVIOUS
<1>1. format \in Seq(Characters) /\ numArgs \in Nat /\ s = format
      /\ args = [i \in 1 .. numArgs |-> i] /\ out = <<>> /\ result = "none"
  <2>1. PICK n \in 0 .. MaxLength : format \in [1 .. n -> Characters]
    BY DEF LogInit, Formats, Characters
  <2>2. n \in Nat
    BY FormatAssumption
  <2> QED
    BY <2>1, <2>2, SeqDef, FormatAssumption DEF LogInit
<1>2. args \in Seq(Nat) /\ Len(args) = numArgs /\ \A i \in 1 .. numArgs : args[i] = i
  <2>1. args \in [1 .. numArgs -> Nat]
    BY <1>1
  <2> QED
    BY <1>1, <2>1, SeqDef, LenProperties
<1>3. CallTyped
  BY <1>1, <1>2, EmptySeq DEF CallTyped
<1>4. Len(format) \in Nat /\ Len(out) = 0
  BY <1>1, LenProperties, EmptySeq
<1>5. Read = 0 /\ Taken = 0
  BY <1>1, <1>2, <1>4 DEF Read, Taken
<1>6. RestLeft
  BY <1>1, <1>2, <1>4, <1>5 DEF RestLeft
<1>7. PlacesTo(0) = {} /\ PercentsTo(0) = {} /\ ArgsOut(0) = {} /\ PercentsOut = {}
  <2>1. PlacesTo(0) = {} /\ PercentsTo(0) = {}
    BY <1>3, FiniteTo
  <2> QED
    BY <1>1, <2>1 DEF ArgsOut, PercentsOut
<1>8. Counted
  <2>1. Cardinality(PlacesTo(Read)) = 0 /\ Cardinality(PercentsTo(Read)) = 0
        /\ Cardinality(PercentsOut) = 0 /\ ArgsOut(Len(out)) = {}
    BY <1>4, <1>5, <1>7, FS_EmptySet
  <2> QED
    BY <1>5, <2>1, FS_EmptySet DEF Counted
<1>9. EvenTo(Read)
  <2>1. RunFrom(0, 0) /\ 0 \in 0 .. 0 /\ (0 - 0) % 2 = 0
    BY DEF RunFrom
  <2> QED
    BY <1>5, <2>1 DEF EvenTo
<1> QED
  BY <1>1, <1>3, <1>6, <1>8, <1>9 DEF CallInv

\* What is left when a character, an escape or an argument was taken.
LEMMA RestAfter ==
  ASSUME CallInv, s # <<>>, NEW d \in {1, 2}, d <= Len(s),
         format' = format, s' \in Seq(Characters), Len(s') = Len(s) - d,
         \A i \in 1 .. Len(s') : s'[i] = s[i + d]
  PROVE  /\ Read \in Nat /\ Read + d <= Len(format) /\ Read' = Read + d
         /\ Len(s') <= Len(format') /\ \A i \in 1 .. Len(s') : s'[i] = format'[Read' + i]
         /\ \A i \in 1 .. d : format[Read + i] = s[i]
         /\ Read + d < Len(format) => Len(s') > 0 /\ s'[1] = format[Read + d + 1]
<1>1. Len(format) \in Nat /\ Len(s) \in Nat /\ Len(s') \in Nat
  BY LenProperties DEF CallInv, CallTyped
<1>2. Len(s) <= Len(format) /\ \A i \in 1 .. Len(s) : s[i] = format[Read + i]
  BY DEF CallInv, RestLeft
<1>3. Read = Len(format) - Len(s) /\ Read' = Len(format) - Len(s')
  BY DEF Read
<1>4. Read \in Nat /\ Read + d <= Len(format) /\ Read' = Read + d
  BY <1>1, <1>2, <1>3
<1>5. ASSUME NEW i \in 1 .. Len(s') PROVE s'[i] = format'[Read' + i]
  <2>1. i + d \in 1 .. Len(s) /\ Read + (i + d) = Read' + i
    BY <1>1, <1>4
  <2> QED
    BY <1>2, <2>1
<1>6. \A i \in 1 .. d : format[Read + i] = s[i]
  BY <1>1, <1>2
<1>7. ASSUME Read + d < Len(format)
      PROVE  Len(s') > 0 /\ s'[1] = format[Read + d + 1]
  <2>1. Len(s') > 0
    BY <1>1, <1>2, <1>3, <1>7
  <2> QED
    BY <1>1, <1>4, <1>5, <2>1
<1> QED
  BY <1>1, <1>2, <1>4, <1>5, <1>6, <1>7

LEMMA CountedAfter ==
  ASSUME CallInv, NEW e \in LogElements, out' = Append(out, e),
         NEW c \in {0, 1}, e.char = "%" <=> c = 1,
         NEW t \in {0, 1}, e.arg = IF t = 1 THEN Taken + 1 ELSE 0, Taken' = Taken + t,
         Cardinality(PlacesTo(Read)') = Cardinality(PlacesTo(Read)) + t,
         Cardinality(PercentsTo(Read)')
           = Cardinality(PercentsTo(Read)) + 2 * c + t
  PROVE  Counted' /\ out' \in Seq(LogElements)
<1>1. out \in Seq(LogElements) /\ Counted /\ Taken \in Nat
  <2>1. Len(args) \in Nat /\ numArgs \in Nat /\ Len(args) <= numArgs
    BY LenProperties DEF CallInv, CallTyped, RestLeft
  <2> QED
    BY <2>1 DEF CallInv, CallTyped, Taken
<1>2. Adds(out', out, e)
  BY <1>1, ElementAdds
<1>3. Len(out) \in Nat /\ DOMAIN out = 1 .. Len(out) /\ DOMAIN out' = 1 .. Len(out')
  BY <1>1, <1>2, LenProperties DEF Adds
<1>4. /\ \A i : ArgsOut(i) = ArgsIn(out, i) /\ ArgsOut(i)' = ArgsIn(out', i)
      /\ PercentsOut = PercentsIn(out) /\ PercentsOut' = PercentsIn(out')
  BY <1>3 DEF ArgsOut, ArgsIn, PercentsOut, PercentsIn
<1>5. /\ Cardinality(ArgsIn(out, Len(out))) = Taken
      /\ \A i \in ArgsIn(out, Len(out)) : out[i].arg = Cardinality(ArgsIn(out, i))
      /\ 2 * Cardinality(PercentsIn(out)) = Cardinality(PercentsTo(Read)) - Taken
      /\ Cardinality(PlacesTo(Read)) = Taken
  BY <1>1, <1>4 DEF Counted
<1>6. /\ Cardinality(PercentsIn(out)) \in Nat /\ Cardinality(PercentsTo(Read)) \in Nat
  <2>1. PercentsIn(out) \subseteq 1 .. Len(out) /\ IsFiniteSet(1 .. Len(out))
    <3>1. Len(out) \in Nat
      BY <1>3
    <3> QED
      BY ONLY <3>1, FS_Interval DEF PercentsIn
  <2>2. Read \in Nat
    BY LenProperties DEF CallInv, CallTyped, RestLeft, Read
  <2> QED
    BY <2>1, <2>2, FiniteTo, FS_Subset, FS_CardinalityType DEF CallInv
<1>7. Cardinality(ArgsIn(out', Len(out'))) = Taken'
  BY <1>1, <1>2, <1>5 DEF Adds
<1>8. ASSUME NEW i \in ArgsIn(out', Len(out'))
      PROVE  out'[i].arg = Cardinality(ArgsIn(out', i))
  <2>1. CASE i = Len(out')
    <3>1. e.arg # 0
      BY <1>2, <2>1 DEF Adds, ArgsIn
    <3> QED
      BY <1>2, <1>7, <2>1, <3>1 DEF Adds
  <2>2. CASE i # Len(out')
    <3>1. i \in 1 .. Len(out) /\ i \in ArgsIn(out, Len(out))
      BY <1>2, <1>3, <2>2 DEF Adds, ArgsIn
    <3> QED
      BY <1>2, <1>5, <3>1 DEF Adds
  <2> QED
    BY <2>1, <2>2
<1>9. 2 * Cardinality(PercentsIn(out')) = Cardinality(PercentsTo(Read)') - Taken'
  <2>1. Cardinality(PercentsIn(out')) = Cardinality(PercentsIn(out)) + c
    BY <1>2, <1>6 DEF Adds
  <2> QED
    BY <1>1, <1>5, <1>6, <2>1
<1>10. Cardinality(PlacesTo(Read)') = Taken'
  BY <1>5
<1>11. \A i \in ArgsOut(Len(out))' : out'[i].arg = Cardinality(ArgsOut(i)')
  BY <1>4, <1>8
<1> QED
  BY <1>2, <1>4, <1>7, <1>9, <1>10, <1>11 DEF Counted, Adds

\* A character or an escape is written.
LEMMA PushCharCallInv ==
  ASSUME CallInv, PushChar
  PROVE  CallInv'
<1>1. /\ result = "none" /\ s # <<>> /\ ~ Placeholder /\ out' = Append(out, Char(s[1]))
      /\ s' = IF Escape THEN SubSeq(s, 3, Len(s)) ELSE Tail(s)
      /\ format' = format /\ numArgs' = numArgs /\ args' = args /\ result' = result
  BY DEF PushChar
<1>2. /\ format \in Seq(Characters) /\ s \in Seq(Characters) /\ Len(s) \in Nat \ {0}
      /\ Len(format) \in Nat
  BY <1>1, EmptySeq, LenProperties DEF CallInv, CallTyped
<1>3. s[1] \in Characters /\ Char(s[1]) \in LogElements
      /\ Char(s[1]).char = s[1] /\ Char(s[1]).arg = 0
  <2>1. s[1] \in Characters
    BY <1>2, ElementOfSeq
  <2> QED
    BY <2>1 DEF Char, LogElement, LogElements
<1> DEFINE n == Read
<1>4. Taken' = Taken + 0 /\ Taken \in Nat
  BY <1>1, LenProperties DEF Taken, CallInv, CallTyped, RestLeft
<1>6. /\ format' = format /\ out' = Append(out, Char(s[1])) /\ CallTyped /\ n \in Nat
      /\ Cardinality(PlacesTo(n)) \in Nat /\ Cardinality(PercentsTo(n)) \in Nat
  <2>1. n \in Nat /\ CallTyped
    BY <1>2 DEF Read, CallInv, RestLeft
  <2> QED
    BY <1>1, <2>1, FiniteTo, FS_CardinalityType
<1>5. CASE Escape
  <2>1. Len(s) >= 2 /\ s[1] = "%" /\ s[2] = "%"
    BY <1>2, <1>5 DEF Escape
  <2>2. /\ s' \in Seq(Characters) /\ Len(s') = Len(s) - 2
        /\ \A i \in 1 .. Len(s') : s'[i] = s[i + 2]
    <3>1. s' = SubSeq(s, 3, Len(s)) /\ \A i \in 3 .. Len(s) : s[i] \in Characters
      BY <1>1, <1>2, <1>5, ElementOfSeq
    <3>2. /\ s' \in Seq(Characters) /\ Len(s') = IF 3 <= Len(s) THEN Len(s) - 3 + 1 ELSE 0
          /\ \A i \in 1 .. Len(s) - 3 + 1 : s'[i] = s[3 + i - 1]
      BY <1>2, <3>1, SubSeqProperties
    <3>3. Len(s') = Len(s) - 2
      <4>1. Len(s) \in Nat /\ Len(s) >= 2
        BY <1>2, <2>1
      <4>2. Len(s') = IF 3 <= Len(s) THEN Len(s) - 3 + 1 ELSE 0
        BY <3>2
      <4>3. \A l \in Nat : l >= 2 => (IF 3 <= l THEN l - 3 + 1 ELSE 0) = l - 2
        OBVIOUS
      <4> QED
        BY <4>1, <4>2, <4>3
    <3>4. ASSUME NEW i \in 1 .. Len(s') PROVE s'[i] = s[i + 2]
      <4>1. i \in 1 .. Len(s) - 3 + 1 /\ i + 2 = 3 + i - 1
        BY <1>2, <3>3
      <4> QED
        BY ONLY <3>2, <4>1
    <3> QED
      BY <3>2, <3>3, <3>4
  <2>3. /\ n \in Nat /\ n + 2 <= Len(format) /\ Read' = n + 2
        /\ Len(s') <= Len(format') /\ \A i \in 1 .. Len(s') : s'[i] = format'[Read' + i]
        /\ \A i \in 1 .. 2 : format[n + i] = s[i]
    BY <1>1, <1>2, <2>1, <2>2, RestAfter
  <2>4. EvenTo(n)
    BY <1>1, <2>1 DEF CallInv
  <2> HIDE DEF n
  <2>5. format[n + 1] = "%" /\ format[(n + 1) + 1] = "%" /\ (n + 1) + 1 <= Len(format)
        /\ (n + 1) + 1 = n + 2 /\ n + 1 \in Nat /\ CallTyped
    BY <2>1, <2>3 DEF CallInv
  <2>6. /\ PlacesTo((n + 1) + 1) = PlacesTo(n) /\ EvenTo((n + 1) + 1)
        /\ Cardinality(PercentsTo((n + 1) + 1)) = Cardinality(PercentsTo(n)) + 2
    BY <2>3, <2>4, <2>5, EscapeAdds
  <2>7. PlacesTo(Read') = PlacesTo(n) /\ EvenTo(Read')
        /\ Cardinality(PercentsTo(Read')) = Cardinality(PercentsTo(n)) + 2
    BY <2>3, <2>5, <2>6
  <2>8. /\ Cardinality(PlacesTo(Read)') = Cardinality(PlacesTo(Read)) + 0
        /\ Cardinality(PercentsTo(Read)') = Cardinality(PercentsTo(Read)) + 2 * 1 + 0
    BY <1>6, <2>7, FormatKept DEF n
  <2>9. Counted' /\ out' \in Seq(LogElements)
    BY <1>3, <1>4, <1>6, <2>1, <2>8, CountedAfter
  <2>10. CallTyped' /\ RestLeft'
    BY <1>1, <1>6, <2>2, <2>3, <2>9 DEF CallInv, CallTyped, RestLeft, Taken
  <2>11. EvenTo(Read)'
    BY <1>6, <2>7, FormatKept
  <2> QED
    BY <1>1, <2>9, <2>10, <2>11 DEF CallInv
<1>7. CASE ~ Escape
  <2>1. s[1] # "%"
    BY <1>1, <1>7 DEF Placeholder
  <2>2. /\ s' \in Seq(Characters) /\ Len(s') = Len(s) - 1
        /\ \A i \in 1 .. Len(s') : s'[i] = s[i + 1]
    BY <1>1, <1>2, <1>7, HeadTailProperties
  <2>3. /\ n + 1 <= Len(format) /\ Read' = n + 1
        /\ Len(s') <= Len(format') /\ \A i \in 1 .. Len(s') : s'[i] = format'[Read' + i]
        /\ \A i \in 1 .. 1 : format[n + i] = s[i]
    BY <1>1, <1>2, <2>2, RestAfter
  <2> HIDE DEF n
  <2>4. format[n + 1] # "%"
    BY <2>1, <2>3
  <2>5. /\ PlacesTo(Read') = PlacesTo(n) /\ PercentsTo(Read') = PercentsTo(n) /\ EvenTo(Read')
    BY <1>6, <2>3, <2>4, CharAdds
  <2>6. /\ Cardinality(PlacesTo(Read)') = Cardinality(PlacesTo(Read)) + 0
        /\ Cardinality(PercentsTo(Read)') = Cardinality(PercentsTo(Read)) + 2 * 0 + 0
    BY <1>6, <2>5, FormatKept DEF n
  <2>7. Counted' /\ out' \in Seq(LogElements)
    BY <1>3, <1>4, <1>6, <2>1, <2>6, CountedAfter
  <2>8. CallTyped' /\ RestLeft'
    BY <1>1, <1>6, <2>2, <2>3, <2>7 DEF CallInv, CallTyped, RestLeft, Taken
  <2>9. EvenTo(Read)'
    BY <1>6, <2>5, FormatKept
  <2> QED
    BY <1>1, <2>7, <2>8, <2>9 DEF CallInv
<1> QED
  BY <1>5, <1>7

\* An argument is written.
LEMMA PushArgumentCallInv ==
  ASSUME CallInv, PushArgument
  PROVE  CallInv'
<1> DEFINE n == Read
           e == Arg(Head(args))
<1>1. /\ result = "none" /\ Placeholder /\ args # <<>> /\ out' = Append(out, e)
      /\ s' = Tail(s) /\ args' = Tail(args)
      /\ format' = format /\ numArgs' = numArgs /\ result' = result
  BY DEF PushArgument
<1>2. /\ format \in Seq(Characters) /\ s \in Seq(Characters) /\ Len(s) \in Nat \ {0}
      /\ Len(format) \in Nat /\ args \in Seq(Nat) /\ Len(args) \in Nat \ {0}
      /\ s # <<>> /\ s[1] = "%" /\ CallTyped
  BY <1>1, EmptySeq, LenProperties DEF CallInv, CallTyped, Placeholder
<1>3. /\ args' \in Seq(Nat) /\ Len(args') = Len(args) - 1
      /\ \A i \in 1 .. Len(args') : args'[i] = args[i + 1]
  BY <1>1, <1>2, HeadTailProperties
<1>4. numArgs \in Nat /\ Len(args) <= numArgs /\ Taken \in Nat
      /\ \A i \in 1 .. Len(args) : args[i] = Taken + i
  BY <1>2 DEF CallInv, CallTyped, RestLeft, Taken
<1>5. Taken' = Taken + 1 /\ Len(args') <= numArgs'
  BY <1>1, <1>2, <1>3, <1>4 DEF Taken
<1>6. \A i \in 1 .. Len(args') : args'[i] = Taken' + i
  <2> SUFFICES ASSUME NEW i \in 1 .. Len(args') PROVE args'[i] = Taken' + i
    OBVIOUS
  <2>1. i + 1 \in 1 .. Len(args) /\ Taken + (i + 1) = Taken' + i
    BY <1>2, <1>3, <1>4, <1>5
  <2> QED
    BY <1>3, <1>4, <2>1
<1>7. Head(args) = Taken + 1
  BY <1>2, <1>4
<1>8. e \in LogElements /\ e.arg = Taken + 1 /\ e.char = ""
  BY <1>4, <1>7 DEF Arg, LogElement, LogElements
<1> HIDE DEF e
<1>9. /\ s' \in Seq(Characters) /\ Len(s') = Len(s) - 1
      /\ \A i \in 1 .. Len(s') : s'[i] = s[i + 1]
  BY <1>1, <1>2, HeadTailProperties
<1>10. /\ n \in Nat /\ n + 1 <= Len(format) /\ Read' = n + 1
       /\ Len(s') <= Len(format') /\ \A i \in 1 .. Len(s') : s'[i] = format'[Read' + i]
       /\ \A i \in 1 .. 1 : format[n + i] = s[i]
  <2>1. s # <<>> /\ 1 <= Len(s) /\ format' = format
    BY <1>1, <1>2
  <2> QED
    BY <1>9, <2>1, RestAfter
<1>11. s' # <<>> => s'[1] # "%"
  <2>1. ~ (Len(s) > 1 /\ s[2] = "%")
    BY <1>1, <1>2 DEF Placeholder, Escape
  <2>2. s' # <<>> => Len(s') \in Nat \ {0}
    BY <1>9, EmptySeq
  <2>3. s' # <<>> => Len(s) > 1 /\ s'[1] = s[1 + 1]
    BY <1>2, <1>9, <2>2
  <2> QED
    BY <2>1, <2>3
<1>12. EvenTo(n)
  BY <1>1, <1>2 DEF CallInv
<1> HIDE DEF n
<1> DEFINE m == n + 1
<1>13. m \in Nat /\ m <= Len(format) /\ format[m] = "%" /\ Read' = m
  BY <1>2, <1>10
<1>14. m = Len(format) \/ format[m + 1] # "%"
  <2> SUFFICES ASSUME m # Len(format) PROVE format[m + 1] # "%"
    OBVIOUS
  <2>1. Len(s) = Len(format) - n
    BY <1>2 DEF n, Read
  <2>2. Len(s') > 0
    BY <1>2, <1>9, <1>10, <2>1
  <2>3. s' # <<>>
    BY <1>9, <2>2, EmptySeq
  <2>4. Len(s') \in Nat
    BY <1>9, LenProperties
  <2>5. 1 \in 1 .. Len(s')
    BY ONLY <2>2, <2>4
  <2>6. s'[1] = format[m + 1]
    BY <1>1, <1>10, <2>5
  <2> QED
    BY <1>11, <2>3, <2>6
<1>15. /\ Cardinality(PlacesTo(Read')) = Cardinality(PlacesTo(n)) + 1
       /\ Cardinality(PercentsTo(Read')) = Cardinality(PercentsTo(n)) + 1
  BY <1>2, <1>10, <1>12, <1>13, <1>14, PlaceAdds
<1>16. Cardinality(PercentsTo(n)) \in Nat
  BY <1>2, <1>10, FiniteTo, FS_CardinalityType
<1>17. /\ Cardinality(PlacesTo(Read)') = Cardinality(PlacesTo(Read)) + 1
       /\ Cardinality(PercentsTo(Read)') = Cardinality(PercentsTo(Read)) + 2 * 0 + 1
  <2>1. PlacesTo(Read)' = PlacesTo(Read') /\ PercentsTo(Read)' = PercentsTo(Read')
    BY <1>1, FormatKept
  <2>2. Cardinality(PlacesTo(Read)') = Cardinality(PlacesTo(Read)) + 1
    BY <1>15, <2>1 DEF n
  <2>3. Cardinality(PercentsTo(n)) + 2 * 0 + 1 = Cardinality(PercentsTo(n)) + 1
    BY ONLY <1>16
  <2> QED
    BY <1>15, <2>1, <2>2, <2>3 DEF n
<1>18. Counted' /\ out' \in Seq(LogElements)
  <2>1. (e.char = "%" <=> 0 = 1) /\ e.arg = IF 1 = 1 THEN Taken + 1 ELSE 0
    <3>1. e.char # "%"
      BY ONLY <1>8
    <3>2. e.arg = Taken + 1
      BY ONLY <1>8
    <3> QED
      BY ONLY <3>1, <3>2
  <2>2. e \in LogElements /\ out' = Append(out, e) /\ Taken' = Taken + 1
    BY <1>1, <1>5, <1>8
  <2> QED
    BY <1>17, <2>1, <2>2, CountedAfter
<1>19. CallTyped' /\ RestLeft'
  BY <1>1, <1>2, <1>3, <1>4, <1>5, <1>6, <1>9, <1>10, <1>18 DEF CallInv, CallTyped, RestLeft
<1> QED
  BY <1>1, <1>11, <1>18, <1>19 DEF CallInv

\* What is said of a call that writes nothing in a step.
LEMMA CallKept ==
  ASSUME CallInv, UNCHANGED <<format, numArgs, s, args, out>>
  PROVE  /\ RestLeft' /\ Counted' /\ (s' # <<>> /\ s'[1] = "%" => EvenTo(Read)')
<1>1. Read' = Read /\ Taken' = Taken
  BY DEF Read, Taken
<1>2. RestLeft'
  BY <1>1 DEF CallInv, RestLeft
<1>3. /\ PlacesTo(Read)' = PlacesTo(Read) /\ PercentsTo(Read)' = PercentsTo(Read)
      /\ EvenTo(Read)' <=> EvenTo(Read)
  BY <1>1, FormatKept
<1>4. (\A i : ArgsOut(i)' = ArgsOut(i)) /\ PercentsOut' = PercentsOut
  BY DEF ArgsOut, PercentsOut
<1>5. Counted'
  BY <1>1, <1>3, <1>4 DEF CallInv, Counted
<1> QED
  BY <1>2, <1>3, <1>5 DEF CallInv

\* The places for arguments are those among all the characters.
LEMMA AllPlaces ==
  ASSUME CallTyped
  PROVE  /\ Len(format) \in Nat /\ DOMAIN format = 1 .. Len(format)
         /\ Placeholders = Cardinality(PlacesTo(Len(format)))
         /\ Percents = Cardinality(PercentsTo(Len(format)))
<1>1. Len(format) \in Nat /\ DOMAIN format = 1 .. Len(format)
  BY LenProperties DEF CallTyped
<1>2. \A i \in RunEnds : i <= Len(format)
  BY <1>1 DEF RunEnds
<1>3. PlacesTo(Len(format)) = {i \in RunEnds : RunLength(i) % 2 = 1}
  BY <1>2 DEF PlacesTo
<1>4. PercentsTo(Len(format)) = {i \in DOMAIN format : format[i] = "%"}
  BY <1>1 DEF PercentsTo
<1> QED
  BY <1>1, <1>3, <1>4 DEF Placeholders, Percents

\* A place for which no argument is left makes them more than the arguments.
LEMMA MissingArgsCallInv ==
  ASSUME CallInv, MissingArgs
  PROVE  CallInv'
<1> DEFINE n == Read
<1>1. /\ Placeholder /\ args = <<>> /\ result' = "FATAL" /\ s # <<>> /\ s[1] = "%" /\ ~ Escape
      /\ UNCHANGED <<format, numArgs, s, args, out>>
  BY DEF MissingArgs, Placeholder
<1>2. /\ format \in Seq(Characters) /\ Len(s) \in Nat \ {0} /\ CallTyped
      /\ Len(s) <= Len(format) /\ \A i \in 1 .. Len(s) : s[i] = format[n + i]
  BY <1>1, EmptySeq, LenProperties DEF CallInv, CallTyped, RestLeft
<1>3. Len(format) \in Nat /\ n = Len(format) - Len(s) /\ EvenTo(n)
  BY <1>1, <1>2, LenProperties DEF CallInv, Read
<1>4. Cardinality(PlacesTo(n)) = numArgs /\ numArgs \in Nat
  BY <1>1, EmptySeq DEF CallInv, CallTyped, Counted, Taken
<1> HIDE DEF n
<1> DEFINE m == n + 1
<1>5. n \in Nat /\ m \in Nat /\ m <= Len(format) /\ format[m] = "%"
  BY <1>1, <1>2, <1>3
<1>6. m = Len(format) \/ format[m + 1] # "%"
  <2> SUFFICES ASSUME m # Len(format) PROVE format[m + 1] # "%"
    OBVIOUS
  <2>1. Len(s) > 1 /\ 2 \in 1 .. Len(s) /\ m + 1 = n + 2
    BY <1>2, <1>3, <1>5
  <2>2. s[2] # "%"
    BY <1>1, <2>1 DEF Escape
  <2> QED
    BY <1>2, <2>1, <2>2
<1> HIDE DEF m
<1>7. Cardinality(PlacesTo(m)) = numArgs + 1
  BY <1>2, <1>3, <1>4, <1>5, <1>6, PlaceAdds DEF m
<1>8. PlacesTo(m) \subseteq PlacesTo(Len(format))
  <2>1. RunEnds \subseteq Nat
    BY <1>2, AllPlaces DEF RunEnds
  <2>2. \A i \in Nat : i <= m => i <= Len(format)
    BY <1>3, <1>5
  <2> QED
    BY <2>1, <2>2 DEF PlacesTo
<1>9. IsFiniteSet(PlacesTo(Len(format)))
  BY <1>2, <1>3, FiniteTo
<1>10. /\ Cardinality(PlacesTo(m)) <= Cardinality(PlacesTo(Len(format)))
       /\ Cardinality(PlacesTo(Len(format))) \in Nat
  BY <1>8, <1>9, FS_Subset, FS_CardinalityType
<1>11. Placeholders # numArgs
  BY <1>2, <1>4, <1>7, <1>10, AllPlaces
<1> QED
  BY <1>1, <1>11, CallKept, FormatKept DEF CallInv, CallTyped

\* At the end of the format all the places were read.
LEMMA EndCounts ==
  ASSUME CallInv, s = <<>>
  PROVE  /\ Read = Len(format) /\ Placeholders = Taken
         /\ Len(args) \in Nat /\ numArgs \in Nat
<1>1. Len(s) = 0 /\ CallTyped /\ Len(args) \in Nat /\ numArgs \in Nat
  BY EmptySeq, LenProperties DEF CallInv, CallTyped
<1>2. Read = Len(format)
  BY <1>1, AllPlaces DEF Read
<1> QED
  BY <1>1, <1>2, AllPlaces DEF CallInv, Counted

LEMMA AtEndCallInv ==
  ASSUME CallInv, AtEnd
  PROVE  CallInv'
<1>1. /\ s = <<>> /\ result' = IF args # <<>> THEN "FATAL" ELSE "returned"
      /\ UNCHANGED <<format, numArgs, s, args, out>>
  BY DEF AtEnd
<1>2. args # <<>> => Len(args) # 0
  BY EmptySeq DEF CallInv, CallTyped
<1>3. args # <<>> => numArgs # Placeholders
  BY <1>1, <1>2, EndCounts DEF Taken
<1> QED
  BY <1>1, <1>3, CallKept, FormatKept DEF CallInv, CallTyped

LEMMA InitLogInv == LogInit => IInv /\ CallInv
  BY InitIInv, InitCallInv DEF LogInit

LEMMA NextLogInv == IInv /\ CallInv /\ [LogNext]_logVars => IInv' /\ CallInv'
<1> SUFFICES ASSUME IInv, CallInv, [LogNext]_logVars PROVE IInv' /\ CallInv'
  OBVIOUS
<1>1. [Next]_vars
  <2>1. LogNext => [Next]_vars
    BY DEF LogNext, PushChar, PushArgument, MissingArgs, AtEnd, LoggerThread, LoggerEnds,
           LoggerDestroyed, Next
  <2> QED
    BY <2>1 DEF logVars, vars
<1>2. IInv'
  BY <1>1, NextIInv
<1>3. ASSUME UNCHANGED <<format, numArgs, s, args, out, result>> PROVE CallInv'
  <2>1. UNCHANGED <<format, numArgs, s, args, out>> /\ result' = result
    BY <1>3
  <2>2. RestLeft' /\ Counted' /\ (s' # <<>> /\ s'[1] = "%" => EvenTo(Read)')
    BY <2>1, CallKept
  <2>3. Placeholders' = Placeholders
    BY <2>1, FormatKept
  <2> QED
    BY <2>1, <2>2, <2>3 DEF CallInv, CallTyped
<1>4. CASE LoggerThread \/ LoggerEnds \/ LoggerDestroyed \/ UNCHANGED logVars
  <2>1. UNCHANGED <<format, numArgs, s, args, out, result>>
    BY <1>4 DEF LoggerThread, LoggerEnds, LoggerDestroyed, logVars, callVars
  <2> QED
    BY <1>2, <1>3, <2>1
<1>5. CASE PushChar \/ PushArgument \/ MissingArgs \/ AtEnd
  BY <1>2, <1>5, PushCharCallInv, PushArgumentCallInv, MissingArgsCallInv, AtEndCallInv
<1> QED
  BY <1>2, <1>4, <1>5 DEF LogNext

LEMMA LogInvariance == LogSpec => [](IInv /\ CallInv)
  BY InitLogInv, NextLogInv, PTL DEF LogSpec

\* "missing args to log()", "Extra args provided to log()": the process ends when and only
\* when the arguments are not as many as the odd runs of % signs, whatever the format.
THEOREM FitOrEnd == LogSpec => []FitsOrFatal
<1>1. CallInv => FitsOrFatal
  <2> SUFFICES ASSUME CallInv PROVE FitsOrFatal
    OBVIOUS
  <2>1. ASSUME result = "returned" PROVE numArgs = Placeholders
    <3>1. s = <<>> /\ Len(args) = 0
      BY <2>1, EmptySeq DEF CallInv
    <3> QED
      BY <3>1, EndCounts DEF Taken
  <2>2. result = "FATAL" => numArgs # Placeholders
    BY DEF CallInv
  <2> QED
    BY <2>1, <2>2 DEF FitsOrFatal
<1> QED
  BY LogInvariance, <1>1, PTL

\* A call that returns has written each argument once, in their order, and one % sign of each
\* escape, and has pushed them while the logger's thread emptied the queue.
THEOREM AllWritten == LogSpec => []WritesAll
<1>1. CallInv => WritesAll
  <2> SUFFICES ASSUME CallInv, result = "returned"
               PROVE  /\ Cardinality(ArgsOut(Len(out))) = numArgs
                      /\ \A i \in ArgsOut(Len(out)) : out[i].arg = Cardinality(ArgsOut(i))
                      /\ 2 * Cardinality(PercentsOut) = Percents - numArgs
    BY DEF WritesAll
  <2>1. s = <<>> /\ Len(args) = 0 /\ CallTyped
    BY EmptySeq DEF CallInv
  <2>2. Read = Len(format) /\ Taken = numArgs
    BY <2>1, EndCounts DEF Taken
  <2>3. Percents = Cardinality(PercentsTo(Read))
    BY <2>1, <2>2, AllPlaces
  <2> QED
    BY <2>2, <2>3 DEF CallInv, Counted
<1> QED
  BY LogInvariance, <1>1, PTL

\* The file of a logger closed after calls of log() holds all they pushed.
THEOREM CallsFlushed == LogSpec => []FlushedWhenClosed
<1>1. IInv => FlushedWhenClosed
  BY DEF IInv, TypeOK, Places, FlushedWhenClosed
<1> QED
  BY LogInvariance, <1>1, PTL
=============================================================================

------------------------ MODULE ExchangeProcess_proof ------------------------
(***************************************************************************)
(* Proofs about ExchangeProcess, for every number of requests and every    *)
(* length of the queues.  main() makes each thing before what needs it     *)
(* (StartupOrder), the handler undoes them in an order that leaves no      *)
(* thread without what it uses (ShutdownOrder), and the invariant relates  *)
(* what exists to how far the two have come.                               *)
(***************************************************************************)
EXTENDS ExchangeProcess, SequenceTheorems, TLAPS

-----------------------------------------------------------------------------
\* The inductive invariant.

\* The steps of main() and of the handler for a component.
NewAt(t) == CASE t = "engine" -> 1 [] t \in {"publisher", "synthesizer"} -> 14 [] t = "server" -> 19
RunAt(t) == CASE t = "engine" -> 2 [] t = "publisher" -> 15 [] t = "synthesizer" -> 17
              [] t = "server" -> 20
ThreadAt(t) == CASE t = "engine" -> 3 [] t = "publisher" -> 16 [] t = "synthesizer" -> 18
                 [] t = "server" -> 34
StopAt(t) == CASE t = "engine" -> 1 [] t \in {"publisher", "synthesizer"} -> 5 [] t = "server" -> 9
SleepAt(t) == CASE t = "engine" -> 2 [] t \in {"publisher", "synthesizer"} -> 6 [] t = "server" -> 10
FreeAt(t) == CASE t = "engine" -> 4 [] t = "synthesizer" -> 7 [] t = "publisher" -> 8
               [] t = "server" -> 11

\* What exists, runs and has begun follows from how far main() and the handler are.
InStep ==
  \A t \in Threads :
    /\ run[t] <=> mainPc > RunAt(t) /\ handler <= StopAt(t)
    /\ t \in built <=> mainPc > NewAt(t) /\ handler <= FreeAt(t)
    /\ at[t] # "none" <=> mainPc > ThreadAt(t)

\* A thread leaves when it is told to, and has left once the handler slept for it.
Leaving ==
  \A t \in Threads :
    /\ at[t] = "left" => ~ run[t]
    /\ handler > SleepAt(t) => at[t] \in {"none", "left"}

\* While the process runs, every call main() made went well.
CallsWell ==
  exited = "no" =>
    \A j \in 1 .. mainPc - 1 : \A s \in Startup[j].of \intersect Sockets :
      Startup[j].op \in called[s]

\* What TypeOK says of called, with its domain.
CalledWhole == called = [s \in Sockets |-> called[s]]

IInv == TypeOK /\ CalledWhole /\ InStep /\ Leaving /\ CallsWell
-----------------------------------------------------------------------------
\* The steps of main() and of the handler.

LEMMA CallsOf ==
  /\ Len(Calls("incremental")) = 5 /\ DOMAIN Calls("incremental") = 1 .. 5
  /\ Len(Calls("snapshot")) = 5 /\ DOMAIN Calls("snapshot") = 1 .. 5
  /\ Len(Calls("listener")) = 13 /\ DOMAIN Calls("listener") = 1 .. 13
  BY DEF Calls, CreateSocket, CfgOf, Cfg, When, SetNonBlocking, GetIfaceIP, SetNoDelay,
         SetSOTimestamp

\* No call of the kernel has the name of another step.
LEMMA CallNames ==
  ASSUME NEW s \in Sockets, NEW i \in DOMAIN Calls(s)
  PROVE  Calls(s)[i] \notin {"new", "run", "thread"}
<1> USE DEF Calls, CreateSocket, CfgOf, Cfg, When, SetNonBlocking, GetIfaceIP, SetNoDelay,
            SetSOTimestamp
<1>1. CASE s = "listener"
  <2>1. \A k \in 1 .. 13 : Calls("listener")[k] \notin {"new", "run", "thread"}
    OBVIOUS
  <2> QED
    BY ONLY <1>1, <2>1, CallsOf, i \in DOMAIN Calls(s)
<1>2. CASE s # "listener"
  BY <1>2 DEF Sockets
<1> QED
  BY <1>1, <1>2

\* The steps that are not calls for a socket, and those that are.
Building == {Step(op, t) : op \in {"new", "run", "thread"}, t \in SUBSET Threads}
Calling == UNION {{Step(Calls(s)[i], {s}) : i \in DOMAIN Calls(s)} : s \in Sockets}
Steps == Building \union Calling

\* A sequence of steps opens socket s from its step k + 1 on.
OpensAt(steps, k, s) ==
  \A i \in 1 .. Len(Calls(s)) : steps[k + i] = Step(Calls(s)[i], {s})

LEMMA OpeningSteps ==
  ASSUME NEW s \in Sockets
  PROVE  /\ Opening(s) \in Seq(Steps)
         /\ Len(Opening(s)) = Len(Calls(s))
         /\ OpensAt(Opening(s), 0, s)
<1>1. \A i \in DOMAIN Calls(s) : Step(Calls(s)[i], {s}) \in Steps
  BY DEF Steps, Calling
<1>2. Opening(s) \in [DOMAIN Calls(s) -> Steps]
  BY <1>1 DEF Opening
<1>3. Len(Calls(s)) \in Nat /\ DOMAIN Calls(s) = 1 .. Len(Calls(s))
  BY CallsOf DEF Sockets
<1>4. Opening(s) \in Seq(Steps)
  BY <1>2, <1>3, SeqDef
<1>5. DOMAIN Opening(s) = 1 .. Len(Calls(s))
  BY <1>3 DEF Opening
<1>6. Len(Opening(s)) = Len(Calls(s))
  BY <1>3, <1>4, <1>5, LenProperties
<1>7. \A i \in 1 .. Len(Calls(s)) : Opening(s)[0 + i] = Step(Calls(s)[i], {s})
  BY <1>3 DEF Opening
<1> QED
  BY <1>4, <1>6, <1>7 DEF OpensAt

LEMMA StepSteps ==
  ASSUME NEW t \in SUBSET Threads, NEW op \in {"new", "run", "thread"}
  PROVE  Step(op, t) \in Steps /\ <<Step(op, t)>> \in Seq(Steps)
  BY DEF Steps, Building

\* The steps ab are the m steps of a and then the n steps of b.
Joined(ab, a, m, b, n) ==
  /\ ab \in Seq(Steps) /\ Len(ab) = m + n
  /\ \A i \in 1 .. m : ab[i] = a[i]
  /\ \A i \in 1 .. n : ab[m + i] = b[i]

LEMMA Join ==
  ASSUME NEW m \in Nat, NEW n \in Nat,
         NEW a \in Seq(Steps), NEW b \in Seq(Steps), Len(a) = m, Len(b) = n
  PROVE  Joined(a \o b, a, m, b, n)
<1>1. /\ a \o b \in Seq(Steps) /\ Len(a \o b) = m + n
      /\ \A i \in 1 .. m + n : (a \o b)[i] = IF i <= m THEN a[i] ELSE b[i - m]
  BY ConcatProperties
<1>2. ASSUME NEW i \in 1 .. n
      PROVE  (a \o b)[m + i] = b[i]
  <2>1. m + i \in 1 .. m + n /\ ~ (m + i <= m) /\ (m + i) - m = i
    OBVIOUS
  <2> QED
    BY <1>1, <2>1
<1>3. \A i \in 1 .. m : (a \o b)[i] = a[i]
  BY <1>1
<1> QED
  BY <1>1, <1>2, <1>3 DEF Joined

LEMMA NewPublisherSteps ==
  /\ NewPublisher \in Seq(Steps) /\ Len(NewPublisher) = 11
  /\ OpensAt(NewPublisher, 0, "incremental") /\ OpensAt(NewPublisher, 5, "snapshot")
  /\ NewPublisher[11] = Step("new", {"publisher", "synthesizer"})
<1> DEFINE a == Opening("incremental")
           b == NewSynthesizer
           c == <<Step("new", {"publisher", "synthesizer"})>>
<1>1. /\ a \in Seq(Steps) /\ Len(a) = 5 /\ OpensAt(a, 0, "incremental")
      /\ b \in Seq(Steps) /\ Len(b) = 5 /\ OpensAt(b, 0, "snapshot")
  BY OpeningSteps, CallsOf DEF NewSynthesizer, Sockets
<1>2. c \in Seq(Steps) /\ Len(c) = 1 /\ c[1] = Step("new", {"publisher", "synthesizer"})
  BY StepSteps DEF Threads
<1>3. NewPublisher = (a \o b) \o c
  BY DEF NewPublisher
<1> HIDE DEF a, b, c
<1>4. Joined(a \o b, a, 5, b, 5)
  BY <1>1, Join
<1>5. Joined(NewPublisher, a \o b, 10, c, 1)
  <2>1. a \o b \in Seq(Steps) /\ Len(a \o b) = 10
    BY <1>4 DEF Joined
  <2> QED
    BY <1>2, <1>3, <2>1, Join
<1>6. Len(a \o b) = 10 /\ Len(NewPublisher) = 11 /\ NewPublisher \in Seq(Steps)
  BY <1>1, <1>2, <1>4, <1>5 DEF Joined
<1>7. /\ \A i \in 1 .. 5 : NewPublisher[i] = a[i] /\ NewPublisher[5 + i] = b[i]
      /\ NewPublisher[10 + 1] = c[1]
  BY <1>1, <1>2, <1>4, <1>5, <1>6 DEF Joined
<1>8. \A i \in 1 .. 5 : 0 + i = i
  OBVIOUS
<1>9. OpensAt(NewPublisher, 0, "incremental")
  BY <1>1, <1>7, <1>8, CallsOf DEF OpensAt
<1>10. OpensAt(NewPublisher, 5, "snapshot")
  BY <1>1, <1>7, <1>8, CallsOf DEF OpensAt
<1> QED
  BY <1>2, <1>6, <1>7, <1>9, <1>10

LEMMA StartServerSteps ==
  /\ StartServer \in Seq(Steps) /\ Len(StartServer) = 15
  /\ StartServer[1] = Step("run", {"server"}) /\ OpensAt(StartServer, 1, "listener")
  /\ StartServer[15] = Step("thread", {"server"})
<1> DEFINE a == <<Step("run", {"server"})>>
           b == Opening("listener")
           c == <<Step("thread", {"server"})>>
           ab == a \o b
<1>1. b \in Seq(Steps) /\ Len(b) = 13 /\ OpensAt(b, 0, "listener")
  BY OpeningSteps, CallsOf DEF Sockets
<1>2. /\ a \in Seq(Steps) /\ Len(a) = 1 /\ a[1] = Step("run", {"server"})
      /\ c \in Seq(Steps) /\ Len(c) = 1 /\ c[1] = Step("thread", {"server"})
  BY StepSteps DEF Threads
<1>3. StartServer = ab \o c
  BY DEF StartServer
<1> HIDE DEF a, b, c, ab
<1>4. Joined(ab, a, 1, b, 13)
  BY <1>1, <1>2, Join DEF ab
<1>5. Joined(StartServer, ab, 14, c, 1)
  <2>1. ab \in Seq(Steps) /\ Len(ab) = 14
    BY <1>4 DEF Joined
  <2> QED
    BY <1>2, <1>3, <2>1, Join
<1>6. Len(ab) = 14 /\ Len(StartServer) = 15 /\ StartServer \in Seq(Steps)
  BY <1>1, <1>2, <1>4, <1>5 DEF Joined
<1>7. StartServer[1] = a[1] /\ StartServer[14 + 1] = c[1]
  <2>1. ab[1] = a[1] /\ StartServer[1] = ab[1]
    BY <1>4, <1>5 DEF Joined
  <2>2. StartServer[14 + 1] = c[1]
    BY <1>5 DEF Joined
  <2> QED
    BY <2>1, <2>2
<1>8. \A i \in 1 .. 13 : 0 + i = i
  OBVIOUS
<1>9. \A i \in 1 .. 13 : ab[1 + i] = b[i] /\ 1 + i \in 1 .. 14
  BY <1>4 DEF Joined
<1>10. \A i \in 1 .. 13 : StartServer[1 + i] = b[i]
  BY <1>5, <1>6, <1>9 DEF Joined
<1>11. OpensAt(StartServer, 1, "listener")
  BY <1>1, <1>8, <1>10, CallsOf DEF OpensAt
<1> QED
  BY <1>2, <1>6, <1>7, <1>11

LEMMA StartSteps ==
  ASSUME NEW t \in Threads
  PROVE  /\ Start(t) \in Seq(Steps) /\ Len(Start(t)) = 2
         /\ Start(t)[1] = Step("run", {t}) /\ Start(t)[2] = Step("thread", {t})
  BY StepSteps DEF Start

\* main() from its first step to its last.
StartupSteps ==
  /\ Startup \in Seq(Steps) /\ Len(Startup) = 34
  /\ Startup[1] = Step("new", {"engine"})
  /\ Startup[2] = Step("run", {"engine"}) /\ Startup[3] = Step("thread", {"engine"})
  /\ OpensAt(Startup, 3, "incremental") /\ OpensAt(Startup, 8, "snapshot")
  /\ Startup[14] = Step("new", {"publisher", "synthesizer"})
  /\ Startup[15] = Step("run", {"publisher"}) /\ Startup[16] = Step("thread", {"publisher"})
  /\ Startup[17] = Step("run", {"synthesizer"}) /\ Startup[18] = Step("thread", {"synthesizer"})
  /\ Startup[19] = Step("new", {"server"}) /\ Startup[20] = Step("run", {"server"})
  /\ OpensAt(Startup, 20, "listener") /\ Startup[34] = Step("thread", {"server"})

LEMMA StartupIs == StartupSteps
<1> DEFINE a == New("engine")
           b == Start("engine")
           c == NewPublisher
           d == Start("publisher")
           e == Start("synthesizer")
           f == New("server")
           g == StartServer
           ab == a \o b
           ac == ab \o c
           de == d \o e
           ae == ac \o de
           af == ae \o f
           ag == af \o g
<1>1. /\ a \in Seq(Steps) /\ Len(a) = 1 /\ a[1] = Step("new", {"engine"})
      /\ f \in Seq(Steps) /\ Len(f) = 1 /\ f[1] = Step("new", {"server"})
  BY StepSteps DEF New, Threads
<1>2. /\ b \in Seq(Steps) /\ Len(b) = 2 /\ d \in Seq(Steps) /\ Len(d) = 2
      /\ e \in Seq(Steps) /\ Len(e) = 2
      /\ b[1] = Step("run", {"engine"}) /\ b[2] = Step("thread", {"engine"})
      /\ d[1] = Step("run", {"publisher"}) /\ d[2] = Step("thread", {"publisher"})
      /\ e[1] = Step("run", {"synthesizer"}) /\ e[2] = Step("thread", {"synthesizer"})
  BY StartSteps DEF Threads
<1>3. /\ c \in Seq(Steps) /\ Len(c) = 11
      /\ \A i \in 1 .. 5 : c[0 + i] = Step(Calls("incremental")[i], {"incremental"})
      /\ \A i \in 1 .. 5 : c[5 + i] = Step(Calls("snapshot")[i], {"snapshot"})
      /\ c[11] = Step("new", {"publisher", "synthesizer"})
  BY NewPublisherSteps, CallsOf DEF OpensAt
<1>4. /\ g \in Seq(Steps) /\ Len(g) = 15
      /\ g[1] = Step("run", {"server"}) /\ g[15] = Step("thread", {"server"})
      /\ \A i \in 1 .. 13 : g[1 + i] = Step(Calls("listener")[i], {"listener"})
  BY StartServerSteps, CallsOf DEF OpensAt
<1>5. Startup = ag
  BY DEF Startup, StartPublisher, StartSynthesizer
<1> HIDE DEF a, b, c, d, e, f, g, ab, ac, de, ae, af, ag
<1>6. Joined(ab, a, 1, b, 2) /\ ab \in Seq(Steps) /\ Len(ab) = 3
  <2>1. Joined(ab, a, 1, b, 2)
    BY <1>1, <1>2, Join DEF ab
  <2> QED
    BY <2>1 DEF Joined
<1>7. Joined(ac, ab, 3, c, 11) /\ ac \in Seq(Steps) /\ Len(ac) = 14
  <2>1. Joined(ac, ab, 3, c, 11)
    BY <1>3, <1>6, Join DEF ac
  <2> QED
    BY <2>1 DEF Joined
<1>8. Joined(de, d, 2, e, 2) /\ de \in Seq(Steps) /\ Len(de) = 4
  <2>1. Joined(de, d, 2, e, 2)
    BY <1>2, Join DEF de
  <2> QED
    BY <2>1 DEF Joined
<1>9. Joined(ae, ac, 14, de, 4) /\ ae \in Seq(Steps) /\ Len(ae) = 18
  <2>1. Joined(ae, ac, 14, de, 4)
    BY <1>7, <1>8, Join DEF ae
  <2> QED
    BY <2>1 DEF Joined
<1>10. Joined(af, ae, 18, f, 1) /\ af \in Seq(Steps) /\ Len(af) = 19
  <2>1. Joined(af, ae, 18, f, 1)
    BY <1>1, <1>9, Join DEF af
  <2> QED
    BY <2>1 DEF Joined
<1>11. Joined(ag, af, 19, g, 15) /\ ag \in Seq(Steps) /\ Len(ag) = 34
  <2>1. Joined(ag, af, 19, g, 15)
    BY <1>4, <1>10, Join DEF ag
  <2> QED
    BY <2>1 DEF Joined
\* Where the parts lie.
<1>12. \A i \in 1 .. 18 : ag[i] = ae[i]
  <2>1. \A i \in 1 .. 18 : af[i] = ae[i]
    BY <1>10 DEF Joined
  <2>2. \A i \in 1 .. 19 : ag[i] = af[i]
    BY <1>11 DEF Joined
  <2> QED
    BY <2>1, <2>2
<1>13. /\ \A i \in 1 .. 14 : ag[i] = ac[i]
       /\ \A i \in 1 .. 4 : ag[14 + i] = de[i]
  <2>1. \A i \in 1 .. 14 : ae[i] = ac[i]
    BY <1>9 DEF Joined
  <2>2. \A i \in 1 .. 4 : ae[14 + i] = de[i]
    BY <1>9 DEF Joined
  <2> QED
    BY <1>12, <2>1, <2>2
<1>14. ag[19] = f[1]
  <2>1. af[18 + 1] = f[1]
    BY <1>10 DEF Joined
  <2>2. ag[18 + 1] = af[18 + 1]
    BY <1>11 DEF Joined
  <2> QED
    BY <2>1, <2>2
<1>15. \A i \in 1 .. 15 : ag[19 + i] = g[i]
  BY <1>4, <1>10, <1>11 DEF Joined
<1>16. \A i \in 1 .. 3 : ac[i] = ab[i]
  BY <1>6, <1>7 DEF Joined
<1>17. \A i \in 1 .. 11 : ac[3 + i] = c[i]
  BY <1>3, <1>6, <1>7 DEF Joined
<1>18. ab[1] = a[1] /\ ab[1 + 1] = b[1] /\ ab[1 + 2] = b[2]
  BY <1>1, <1>2, <1>6 DEF Joined
<1>19. de[1] = d[1] /\ de[2] = d[2] /\ de[2 + 1] = e[1] /\ de[2 + 2] = e[2]
  BY <1>2, <1>8 DEF Joined
\* What is there.
<1>20. \A i \in 1 .. 11 : ag[3 + i] = c[i]
  BY <1>13, <1>17
<1>21. \A i \in 1 .. 5 : /\ ag[3 + i] = c[0 + i] /\ ag[8 + i] = c[5 + i]
                         /\ 0 + i = i /\ 3 + (5 + i) = 8 + i
  <2> SUFFICES ASSUME NEW i \in 1 .. 5
               PROVE  ag[3 + i] = c[0 + i] /\ ag[8 + i] = c[5 + i]
    OBVIOUS
  <2>1. 0 + i = i /\ 3 + (5 + i) = 8 + i /\ i \in 1 .. 11 /\ 5 + i \in 1 .. 11
    OBVIOUS
  <2> QED
    BY <1>20, <2>1
<1>22. \A i \in 1 .. 13 : ag[20 + i] = g[1 + i]
  <2> SUFFICES ASSUME NEW i \in 1 .. 13 PROVE ag[20 + i] = g[1 + i]
    OBVIOUS
  <2>1. 19 + (1 + i) = 20 + i /\ 1 + i \in 1 .. 15
    OBVIOUS
  <2> QED
    BY <1>15, <2>1
<1>23. OpensAt(ag, 3, "incremental") /\ OpensAt(ag, 8, "snapshot")
  BY <1>3, <1>21, CallsOf DEF OpensAt
<1>24. OpensAt(ag, 20, "listener")
  BY <1>4, <1>22, CallsOf DEF OpensAt
<1>25. /\ ag[1] = a[1] /\ ag[2] = b[1] /\ ag[3] = b[2] /\ ag[3 + 11] = c[11]
       /\ ag[14 + 1] = d[1] /\ ag[14 + 2] = d[2] /\ ag[14 + 3] = e[1] /\ ag[14 + 4] = e[2]
       /\ ag[19 + 1] = g[1] /\ ag[19 + 15] = g[15]
  BY <1>13, <1>15, <1>16, <1>18, <1>19, <1>20
<1> QED
  BY <1>1, <1>2, <1>3, <1>4, <1>5, <1>11, <1>14, <1>23, <1>24, <1>25 DEF StartupSteps

\* A step of main() makes a component at its place, or calls for a socket.
Makes(i) ==
  /\ Startup[i].op \in {"new", "run", "thread"} /\ Startup[i].of \subseteq Threads
  /\ \A t \in Threads :
       /\ Startup[i].op = "new" /\ t \in Startup[i].of <=> i = NewAt(t)
       /\ Startup[i].op = "run" /\ t \in Startup[i].of <=> i = RunAt(t)
       /\ Startup[i].op = "thread" /\ t \in Startup[i].of <=> i = ThreadAt(t)
CallsFor(i, s) ==
  /\ \E k \in DOMAIN Calls(s) : Startup[i] = Step(Calls(s)[k], {s})
  /\ \A t \in Threads : i \notin {NewAt(t), RunAt(t), ThreadAt(t)}

LEMMA StartupOrder ==
  /\ Len(Startup) = 34 /\ DOMAIN Startup = 1 .. 34
  /\ \A i \in 1 .. 34 : Makes(i) \/ \E s \in Sockets : CallsFor(i, s)
<1>1. StartupSteps
  BY StartupIs
<1>2. Len(Startup) = 34 /\ DOMAIN Startup = 1 .. 34
  BY <1>1, LenProperties DEF StartupSteps
<1>3. ASSUME NEW i \in {1, 2, 3, 14, 15, 16, 17, 18, 19, 20, 34}
      PROVE  Makes(i)
  <2> USE DEF Makes, Step, Threads, NewAt, RunAt, ThreadAt
  <2>1. Makes(1) /\ Makes(2) /\ Makes(3)
    BY <1>1 DEF StartupSteps
  <2>2. Makes(14)
    BY <1>1 DEF StartupSteps
  <2>3. Makes(15) /\ Makes(16) /\ Makes(17) /\ Makes(18)
    BY <1>1 DEF StartupSteps
  <2>4. Makes(19) /\ Makes(20) /\ Makes(34)
    BY <1>1 DEF StartupSteps
  <2> HIDE DEF Makes, Step, Threads, NewAt, RunAt, ThreadAt
  <2> QED
    BY <1>3, <2>1, <2>2, <2>3, <2>4
<1>4. ASSUME NEW s \in Sockets, NEW k \in 0 .. 20, NEW j \in DOMAIN Calls(s),
             OpensAt(Startup, k, s), \A t \in Threads : k + j \notin {NewAt(t), RunAt(t), ThreadAt(t)}
      PROVE  CallsFor(k + j, s)
  BY <1>4, CallsOf DEF OpensAt, CallsFor, Sockets
<1>5. ASSUME NEW i \in 4 .. 8 PROVE CallsFor(i, "incremental")
  <2>1. i - 3 \in DOMAIN Calls("incremental") /\ 3 + (i - 3) = i
    BY CallsOf
  <2>2. \A t \in Threads : i \notin {NewAt(t), RunAt(t), ThreadAt(t)}
    BY DEF Threads, NewAt, RunAt, ThreadAt
  <2> QED
    BY <1>1, <1>4, <2>1, <2>2 DEF StartupSteps, Sockets
<1>6. ASSUME NEW i \in 9 .. 13 PROVE CallsFor(i, "snapshot")
  <2>1. i - 8 \in DOMAIN Calls("snapshot") /\ 8 + (i - 8) = i
    BY CallsOf
  <2>2. \A t \in Threads : i \notin {NewAt(t), RunAt(t), ThreadAt(t)}
    BY DEF Threads, NewAt, RunAt, ThreadAt
  <2> QED
    BY <1>1, <1>4, <2>1, <2>2 DEF StartupSteps, Sockets
<1>7. ASSUME NEW i \in 21 .. 33 PROVE CallsFor(i, "listener")
  <2>1. i - 20 \in DOMAIN Calls("listener") /\ 20 + (i - 20) = i
    BY CallsOf
  <2>2. \A t \in Threads : i \notin {NewAt(t), RunAt(t), ThreadAt(t)}
    BY DEF Threads, NewAt, RunAt, ThreadAt
  <2>3. OpensAt(Startup, 20, "listener") /\ "listener" \in Sockets /\ 20 \in 0 .. 20
    BY <1>1 DEF StartupSteps, Sockets
  <2>4. \A t \in Threads : 20 + (i - 20) \notin {NewAt(t), RunAt(t), ThreadAt(t)}
    BY <2>1, <2>2
  <2>5. CallsFor(20 + (i - 20), "listener")
    BY <1>4, <2>1, <2>3, <2>4
  <2> QED
    BY <2>1, <2>5
<1>8. ASSUME NEW i \in 1 .. 34 PROVE Makes(i) \/ \E s \in Sockets : CallsFor(i, s)
  <2>1. \/ i \in {1, 2, 3, 14, 15, 16, 17, 18, 19, 20, 34}
        \/ i \in 4 .. 8 \/ i \in 9 .. 13 \/ i \in 21 .. 33
    OBVIOUS
  <2> QED
    BY <1>3, <1>5, <1>6, <1>7, <2>1 DEF Sockets
<1> QED
  BY <1>2, <1>8

\* The steps of the handler, each for its components.
LEMMA ShutdownOrder ==
  /\ Len(Shutdown) = 11 /\ DOMAIN Shutdown = 1 .. 11
  /\ \A h \in 1 .. 11 :
       /\ Shutdown[h] = Step(Shutdown[h].op, Shutdown[h].of)
       /\ Shutdown[h].of \subseteq Threads
       /\ Shutdown[h].op = "books" => h = 3
       /\ \A t \in Threads :
            /\ Shutdown[h].op = "stop" /\ t \in Shutdown[h].of <=> h = StopAt(t)
            /\ Shutdown[h].op = "sleep" /\ t \in Shutdown[h].of <=> h = SleepAt(t)
            /\ Shutdown[h].op = "free" /\ t \in Shutdown[h].of <=> h = FreeAt(t)
<1> USE DEF Shutdown, DeleteEngine, DeletePublisher, DeleteServer, Stop, StopPublisher,
            StopSynthesizer
<1>1. Len(Shutdown) = 11 /\ DOMAIN Shutdown = 1 .. 11
  OBVIOUS
<1>2. /\ Shutdown[1] = Step("stop", {"engine"}) /\ Shutdown[2] = Step("sleep", {"engine"})
      /\ Shutdown[3] = Step("books", {"engine"}) /\ Shutdown[4] = Step("free", {"engine"})
      /\ Shutdown[5] = Step("stop", {"publisher", "synthesizer"})
      /\ Shutdown[6] = Step("sleep", {"publisher", "synthesizer"})
      /\ Shutdown[7] = Step("free", {"synthesizer"}) /\ Shutdown[8] = Step("free", {"publisher"})
      /\ Shutdown[9] = Step("stop", {"server"}) /\ Shutdown[10] = Step("sleep", {"server"})
      /\ Shutdown[11] = Step("free", {"server"})
  OBVIOUS
<1> HIDE DEF Shutdown
<1>3. ASSUME NEW h \in 1 .. 11
      PROVE  /\ Shutdown[h] = Step(Shutdown[h].op, Shutdown[h].of)
             /\ Shutdown[h].of \subseteq Threads
             /\ Shutdown[h].op = "books" => h = 3
             /\ \A t \in Threads :
                  /\ Shutdown[h].op = "stop" /\ t \in Shutdown[h].of <=> h = StopAt(t)
                  /\ Shutdown[h].op = "sleep" /\ t \in Shutdown[h].of <=> h = SleepAt(t)
                  /\ Shutdown[h].op = "free" /\ t \in Shutdown[h].of <=> h = FreeAt(t)
  BY <1>2 DEF Step, Threads, StopAt, SleepAt, FreeAt
<1> QED
  BY <1>1, <1>3

-----------------------------------------------------------------------------
\* The invariant holds at first, and every step keeps it.

LEMMA PlacesTyped ==
  ASSUME IInv
  PROVE  mainPc \in 1 .. 35 /\ mainPc \in Nat /\ handler \in 0 .. 12
<1>1. mainPc \in 1 .. Len(Startup) + 1 /\ handler \in 0 .. Len(Shutdown) + 1
  BY DEF IInv, TypeOK
<1> QED
  BY <1>1, StartupOrder, ShutdownOrder

LEMMA InitIInv == Init => IInv
<1> SUFFICES ASSUME Init PROVE IInv
  OBVIOUS
<1>1. TypeOK
  BY StartupOrder, ShutdownOrder, EmptySeq DEF Init, TypeOK, Sockets
<1>2. InStep
  BY DEF Init, InStep, Threads, RunAt, NewAt, ThreadAt, StopAt, FreeAt
<1>3. Leaving /\ CallsWell /\ CalledWhole
  BY DEF Init, Leaving, CallsWell, Threads, SleepAt, CalledWhole
<1> QED
  BY <1>1, <1>2, <1>3 DEF IInv

\* A step of main() that is not a call for a socket.
LEMMA MainMakes ==
  ASSUME IInv, Main, Makes(mainPc)
  PROVE  IInv'
<1> DEFINE s == Startup[mainPc]
<1>1. /\ mainPc \in 1 .. 34 /\ mainPc' = mainPc + 1 /\ handler = 0 /\ handler' = 0
      /\ exited = "no" /\ exited' = exited /\ called' = called
      /\ UNCHANGED <<requests, responses, updates, snapshots, resting, sent>>
  BY StartupOrder DEF Main, Makes, queues
<1>2. /\ built' = IF s.op = "new" THEN built \union s.of ELSE built
      /\ run' = IF s.op = "run" THEN [t \in Threads |-> t \in s.of \/ run[t]] ELSE run
      /\ at' = IF s.op = "thread" THEN CreateAndStartThread(s.of) ELSE at
  BY DEF Main
<1>3. TypeOK'
  <2>1. built' \subseteq Threads
    BY <1>2 DEF IInv, TypeOK, Makes
  <2>2. run' \in [Threads -> BOOLEAN]
    BY <1>2 DEF IInv, TypeOK, InStep
  <2>3. at' \in [Threads -> {"none", "test", "work", "answer", "left"}]
    BY <1>2 DEF IInv, TypeOK, CreateAndStartThread
  <2>4. mainPc' \in 1 .. Len(Startup) + 1 /\ handler' \in 0 .. Len(Shutdown) + 1
    BY <1>1, StartupOrder, ShutdownOrder
  <2> QED
    BY <1>1, <2>1, <2>2, <2>3, <2>4 DEF IInv, TypeOK
<1>4. ASSUME NEW t \in Threads
      PROVE  /\ run'[t] <=> mainPc' > RunAt(t) /\ handler' <= StopAt(t)
             /\ t \in built' <=> mainPc' > NewAt(t) /\ handler' <= FreeAt(t)
             /\ at'[t] # "none" <=> mainPc' > ThreadAt(t)
             /\ at'[t] \in {at[t], "test"}
  <2>1. /\ run[t] <=> mainPc > RunAt(t)
        /\ t \in built <=> mainPc > NewAt(t)
        /\ at[t] # "none" <=> mainPc > ThreadAt(t)
        /\ 0 <= StopAt(t) /\ 0 <= FreeAt(t)
        /\ RunAt(t) \in Nat /\ NewAt(t) \in Nat /\ ThreadAt(t) \in Nat
    BY <1>1 DEF IInv, InStep, StopAt, FreeAt, RunAt, NewAt, ThreadAt, Threads
  <2>2. run'[t] <=> run[t] \/ mainPc = RunAt(t)
    BY <1>2 DEF Makes, IInv, TypeOK
  <2>3. t \in built' <=> t \in built \/ mainPc = NewAt(t)
    BY <1>2 DEF Makes
  <2>4. at'[t] = IF mainPc = ThreadAt(t) THEN "test" ELSE at[t]
    BY <1>2 DEF Makes, CreateAndStartThread, IInv, TypeOK
  <2> QED
    BY <1>1, <2>1, <2>2, <2>3, <2>4
<1>5. InStep'
  BY <1>4 DEF InStep
<1>6. Leaving'
  <2>1. ASSUME NEW t \in Threads PROVE at[t] # "left" /\ ~ handler' > SleepAt(t)
    BY <1>1 DEF IInv, Leaving, InStep, SleepAt, StopAt, ThreadAt, RunAt, Threads
  <2>2. \A t \in Threads : at'[t] # "left"
    BY <1>4, <2>1
  <2> QED
    BY <2>1, <2>2 DEF Leaving
<1>7. CallsWell'
  <2>1. s.of \intersect Sockets = {}
    BY DEF Makes, Threads, Sockets
  <2> QED
    BY <1>1, <2>1 DEF IInv, CallsWell
<1>9. CalledWhole'
  BY <1>1 DEF IInv, CalledWhole
<1> QED
  BY <1>3, <1>5, <1>6, <1>7, <1>9 DEF IInv

\* A step of main() that is a call for a socket: the process may end there.
LEMMA MainCalls ==
  ASSUME IInv, Main, NEW s \in Sockets, CallsFor(mainPc, s)
  PROVE  IInv'
<1>1. /\ mainPc \in 1 .. 34 /\ mainPc' = mainPc + 1 /\ handler = 0 /\ handler' = 0
      /\ exited = "no"
      /\ UNCHANGED <<requests, responses, updates, snapshots, resting, sent>>
  BY StartupOrder DEF Main, queues
<1>2. PICK k \in DOMAIN Calls(s) : Startup[mainPc] = Step(Calls(s)[k], {s})
  BY DEF CallsFor
<1> DEFINE c == Calls(s)[k]
<1>3. Startup[mainPc].op = c /\ Startup[mainPc].of = {s} /\ c \notin {"new", "run", "thread"}
  BY <1>2, CallNames DEF Step
<1> HIDE DEF c
<1>4. UNCHANGED <<built, run, at>> /\ Call(s, c)
  BY <1>3 DEF Main
<1>5. \/ called' = [called EXCEPT ![s] = @ \union {c}] /\ exited' = exited
      \/ called' = called /\ exited' = "failure"
  BY <1>4 DEF Call
<1>6. InStep'
  <2>1. \A t \in Threads : mainPc \notin {NewAt(t), RunAt(t), ThreadAt(t)}
    BY DEF CallsFor
  <2>2. \A t \in Threads : NewAt(t) \in Nat /\ RunAt(t) \in Nat /\ ThreadAt(t) \in Nat
    BY DEF NewAt, RunAt, ThreadAt, Threads
  <2> QED
    BY <1>1, <1>4, <2>1, <2>2 DEF IInv, InStep
<1>7. Leaving'
  BY <1>1, <1>4 DEF IInv, Leaving
<1>9. CallsWell'
  <2> SUFFICES ASSUME exited' = "no", NEW j \in 1 .. mainPc' - 1,
                      NEW u \in Startup[j].of \intersect Sockets
               PROVE  Startup[j].op \in called'[u]
    BY DEF CallsWell
  <2>1. called' = [called EXCEPT ![s] = @ \union {c}]
    BY <1>5
  <2>2. CASE j = mainPc
    BY <1>3, <2>1, <2>2 DEF IInv, TypeOK, CalledWhole
  <2>3. CASE j # mainPc
    BY <1>1, <2>1, <2>3 DEF IInv, CallsWell, CalledWhole
  <2> QED
    BY <2>2, <2>3
<1>10. CalledWhole'
  BY <1>5 DEF IInv, CalledWhole
<1>11. TypeOK'
  <2>1. \A u \in Sockets : called'[u] \subseteq {Calls(u)[i] : i \in DOMAIN Calls(u)}
    <3>1. c \in {Calls(s)[i] : i \in DOMAIN Calls(s)}
      BY DEF c
    <3> QED
      BY <1>5, <3>1 DEF IInv, TypeOK, CalledWhole
  <2>2. mainPc' \in 1 .. Len(Startup) + 1 /\ handler' \in 0 .. Len(Shutdown) + 1
    BY <1>1, StartupOrder, ShutdownOrder
  <2>3. exited' \in {"no", "success", "failure"}
    BY <1>1, <1>5
  <2> QED
    BY <1>1, <1>4, <2>1, <2>2, <2>3 DEF IInv, TypeOK
<1> QED
  BY <1>6, <1>7, <1>9, <1>10, <1>11 DEF IInv

LEMMA MainIInv ==
  ASSUME IInv, Main
  PROVE  IInv'
<1>1. mainPc \in 1 .. 34
  BY StartupOrder DEF Main
<1> QED
  BY <1>1, StartupOrder, MainMakes, MainCalls

LEMMA SignalIInv ==
  ASSUME IInv, Signal
  PROVE  IInv'
<1>1. /\ handler = 0 /\ handler' = 1 /\ exited = "no"
      /\ UNCHANGED <<mainPc, run, at, built, called, exited>>
      /\ UNCHANGED <<requests, responses, updates, snapshots, resting, sent>>
  BY DEF Signal, queues
<1>2. TypeOK'
  BY <1>1, ShutdownOrder DEF IInv, TypeOK
<1>3. InStep' /\ Leaving'
  BY <1>1 DEF IInv, InStep, Leaving, StopAt, SleepAt, FreeAt, Threads
<1>4. CallsWell' /\ CalledWhole'
  BY <1>1 DEF IInv, CallsWell, CalledWhole
<1> QED
  BY <1>2, <1>3, <1>4 DEF IInv

\* A step of the handler: what it was told to stop has left before it is freed.
LEMMA HandlerIInv ==
  ASSUME IInv, Handler
  PROVE  IInv'
<1> DEFINE h == handler
           s == Shutdown[h]
           of == s.of \intersect built
<1>1. /\ h \in 1 .. 11 /\ handler' = h + 1 /\ exited = "no"
      /\ UNCHANGED <<mainPc, at, called>>
      /\ UNCHANGED <<requests, responses, updates, snapshots, resting, sent>>
  BY ShutdownOrder DEF Handler, queues
<1>2. Over(s)
  BY DEF Handler
<1>3. /\ run' = IF s.op = "stop" THEN [t \in Threads |-> t \notin of /\ run[t]] ELSE run
      /\ built' = IF s.op = "free" THEN built \ of ELSE built
      /\ exited' \in {"no", "failure"}
  BY <1>1 DEF Handler, Ends
<1>4. TypeOK'
  <2>1. run' \in [Threads -> BOOLEAN] /\ built' \subseteq Threads
    BY <1>3 DEF IInv, TypeOK
  <2>2. mainPc' \in 1 .. Len(Startup) + 1 /\ handler' \in 0 .. Len(Shutdown) + 1
    BY <1>1, ShutdownOrder DEF IInv, TypeOK
  <2> QED
    BY <1>1, <1>3, <2>1, <2>2 DEF IInv, TypeOK
<1>5. ASSUME NEW t \in Threads
      PROVE  /\ run'[t] <=> mainPc' > RunAt(t) /\ handler' <= StopAt(t)
             /\ t \in built' <=> mainPc' > NewAt(t) /\ handler' <= FreeAt(t)
             /\ at'[t] # "none" <=> mainPc' > ThreadAt(t)
  <2>1. /\ run[t] <=> mainPc > RunAt(t) /\ h <= StopAt(t)
        /\ t \in built <=> mainPc > NewAt(t) /\ h <= FreeAt(t)
        /\ at[t] # "none" <=> mainPc > ThreadAt(t)
    BY DEF IInv, InStep
  <2>2. /\ StopAt(t) \in Nat /\ FreeAt(t) \in Nat /\ RunAt(t) \in Nat /\ NewAt(t) \in Nat
        /\ NewAt(t) < RunAt(t) /\ StopAt(t) < FreeAt(t)
    BY DEF StopAt, FreeAt, RunAt, NewAt, Threads
  <2>3. /\ s.op = "stop" /\ t \in s.of <=> h = StopAt(t)
        /\ s.op = "free" /\ t \in s.of <=> h = FreeAt(t)
    BY <1>1, ShutdownOrder
  <2>4. run'[t] <=> run[t] /\ ~ (h = StopAt(t) /\ t \in built)
    BY <1>3, <2>3 DEF IInv, TypeOK
  <2>5. t \in built' <=> t \in built /\ h # FreeAt(t)
    BY <1>3, <2>3
  <2>6. mainPc \in Nat /\ mainPc' = mainPc
    BY <1>1, StartupOrder DEF IInv, TypeOK
  <2> HIDE DEF h
  <2> QED
    BY <1>1, <2>1, <2>2, <2>4, <2>5, <2>6
<1>6. InStep'
  BY <1>5 DEF InStep
\* No thread that another feeds is waited for while the other runs.
<1>7. ASSUME NEW t \in Threads, h = SleepAt(t)
      PROVE  at[t] \in {"none", "left"}
  <2>1. s.op = "sleep" /\ t \in s.of
    BY <1>1, <1>7, ShutdownOrder
  <2>2. CASE t \in built
    <3>1. ~ run[t] /\ \A f \in Feeder(t) : ~ run[f]
      BY <1>7 DEF Feeder, SleepAt, StopAt, Threads, IInv, InStep
    <3> QED
      BY <1>2, <2>1, <2>2, <3>1 DEF Over
  <2>3. CASE t \notin built
    <3>1. SleepAt(t) <= FreeAt(t) /\ NewAt(t) \in Nat /\ ThreadAt(t) \in Nat
          /\ NewAt(t) < ThreadAt(t)
      BY DEF SleepAt, FreeAt, NewAt, ThreadAt, Threads
    <3>2. ~ mainPc > NewAt(t)
      BY <1>7, <2>3, <3>1 DEF IInv, InStep
    <3>3. mainPc \in Nat
      BY PlacesTyped
    <3>4. ~ mainPc > ThreadAt(t)
      BY <3>1, <3>2, <3>3
    <3> QED
      BY <3>4 DEF IInv, InStep
  <2> QED
    BY <2>2, <2>3
<1>8. Leaving'
  <2> SUFFICES ASSUME NEW t \in Threads
               PROVE  /\ at[t] = "left" => ~ run'[t]
                      /\ handler' > SleepAt(t) => at[t] \in {"none", "left"}
    BY <1>1 DEF Leaving
  <2>1. run'[t] => run[t]
    BY <1>3 DEF IInv, TypeOK
  <2>2. SleepAt(t) \in Nat
    BY DEF SleepAt, Threads
  <2> QED
    BY <1>1, <1>7, <2>1, <2>2 DEF IInv, Leaving
<1>9. CallsWell' /\ CalledWhole'
  BY <1>1 DEF IInv, CallsWell, CalledWhole
<1> QED
  BY <1>4, <1>6, <1>8, <1>9 DEF IInv

LEMMA ExitIInv ==
  ASSUME IInv, Exit
  PROVE  IInv'
<1>1. /\ handler = 12 /\ exited' = "success"
      /\ UNCHANGED <<mainPc, handler, run, at, built, called>>
      /\ UNCHANGED <<requests, responses, updates, snapshots, resting, sent>>
  BY ShutdownOrder DEF Exit, queues
<1>2. TypeOK' /\ InStep' /\ Leaving'
  BY <1>1 DEF IInv, TypeOK, InStep, Leaving
<1>3. CallsWell' /\ CalledWhole'
  BY <1>1 DEF IInv, CallsWell, CalledWhole
<1> QED
  BY <1>2, <1>3 DEF IInv

\* A step of a thread: it leaves only when it was told to, and works only while it is in its
\* loop.
ThreadStep(t) ==
  /\ exited = "no" /\ at[t] \in {"test", "work", "answer"}
  /\ \E place \in {"test", "work", "answer", "left"} :
       /\ at' = [at EXCEPT ![t] = place]
       /\ place = "left" => ~ run[t]
  /\ exited' \in {"no", "failure"}
  /\ requests' \in Seq(RequestTypes) /\ responses' \in Seq(RequestTypes)
  /\ {updates', snapshots', resting', sent'} \subseteq Nat
  /\ UNCHANGED <<mainPc, handler, run, built, called>>

LEMMA ThreadStepIInv ==
  ASSUME IInv, NEW t \in Threads, ThreadStep(t)
  PROVE  IInv'
<1>1. PICK place \in {"test", "work", "answer", "left"} :
        at' = [at EXCEPT ![t] = place] /\ (place = "left" => ~ run[t])
  BY DEF ThreadStep
<1>2. UNCHANGED <<mainPc, handler, run, built, called>> /\ exited = "no"
      /\ at[t] \in {"test", "work", "answer"} /\ exited' \in {"no", "failure"}
  BY DEF ThreadStep
<1>3. \A u \in Threads : at'[u] = IF u = t THEN place ELSE at[u]
  BY <1>1 DEF IInv, TypeOK
<1>4. TypeOK'
  BY <1>1, <1>2 DEF IInv, TypeOK, ThreadStep
<1>5. InStep'
  BY <1>2, <1>3 DEF IInv, InStep
<1>6. Leaving'
  BY <1>1, <1>2, <1>3 DEF IInv, Leaving
<1>7. CallsWell' /\ CalledWhole'
  BY <1>2 DEF IInv, CallsWell, CalledWhole
<1> QED
  BY <1>4, <1>5, <1>6, <1>7 DEF IInv

LEMMA LoopsStep ==
  ASSUME IInv, NEW t \in Threads, Thread(t)
  PROVE  ThreadStep(t)
<1>1. requests \in Seq(RequestTypes) /\ responses \in Seq(RequestTypes)
      /\ updates \in Nat /\ snapshots \in Nat /\ resting \in Nat /\ sent \in Nat
  BY DEF IInv, TypeOK
<1>2. CASE Test(t)
  <2>1. at' = [at EXCEPT ![t] = IF run[t] THEN "work" ELSE "left"]
    BY <1>2 DEF Test, Go
  <2> QED
    BY <1>1, <1>2, <2>1 DEF Test, ThreadStep, queues
<1>3. CASE t = "engine" /\ Engine
  <2>1. CASE requests = <<>>
    BY <1>1, <1>3, <2>1 DEF Engine, Go, ThreadStep, queues
  <2>2. CASE requests # <<>>
    <3>1. Head(requests) \in RequestTypes /\ Tail(requests) \in Seq(RequestTypes)
          /\ Append(responses, Head(requests)) \in Seq(RequestTypes)
      BY <1>1, <2>2, HeadTailProperties, AppendProperties
    <3>2. Process /\ snapshots' = snapshots /\ sent' = sent
      BY <1>3, <2>2 DEF Engine
    <3>3. /\ requests' \in Seq(RequestTypes) /\ responses' \in Seq(RequestTypes)
          /\ updates' \in Nat /\ resting' \in Nat /\ exited' \in {"no", "failure"}
      <4>1. CASE Head(requests) = "INVALID"
        BY <1>1, <3>1, <3>2, <4>1 DEF Process
      <4>2. CASE Head(requests) # "INVALID"
        <5>1. PICK published \in {0, 1}, o \in {-1, 0, 1} :
                /\ resting + o >= 0 /\ updates' = updates + published
                /\ resting' = resting + o
          BY <3>2, <4>2 DEF Process
        <5>2. updates' \in Nat /\ resting' \in Nat
          BY <1>1, <5>1
        <5>3. /\ requests' = Tail(requests) /\ responses' = Append(responses, Head(requests))
              /\ exited' = exited
          BY <3>2, <4>2 DEF Process
        <5>4. exited = "no"
          BY <1>3 DEF Engine
        <5> QED
          BY <3>1, <5>2, <5>3, <5>4
      <4> QED
        BY <4>1, <4>2
    <3> QED
      BY <1>1, <1>3, <2>2, <3>2, <3>3 DEF Engine, Go, ThreadStep
  <2> QED
    BY <2>1, <2>2
<1>4. CASE t = "publisher" /\ Publisher
  <2>1. updates' \in Nat /\ snapshots' \in Nat /\ (updates' # 0 => updates # 0)
    BY <1>1, <1>4 DEF Publisher, Has
  <2>2. at' = [at EXCEPT !["publisher"] = "work"] \/ at' = [at EXCEPT !["publisher"] = "test"]
    BY <1>4 DEF Publisher, Go, IInv, TypeOK, Threads
  <2> QED
    BY <1>1, <1>4, <2>1, <2>2 DEF Publisher, ThreadStep
<1>5. CASE t = "synthesizer" /\ Synthesizer
  <2>1. snapshots' \in Nat
    BY <1>1, <1>5 DEF Synthesizer, Has
  <2>2. at' = [at EXCEPT !["synthesizer"] = "work"] \/ at' = [at EXCEPT !["synthesizer"] = "test"]
    BY <1>5 DEF Synthesizer, Go, IInv, TypeOK, Threads
  <2> QED
    BY <1>1, <1>5, <2>1, <2>2 DEF Synthesizer, ThreadStep
<1>6. CASE t = "server" /\ Poll
  <2>1. requests' \in Seq(RequestTypes) /\ sent' \in Nat
    <3>1. CASE UNCHANGED <<requests, sent>>
      BY <1>1, <3>1
    <3>2. CASE ~ UNCHANGED <<requests, sent>>
      <4>1. PICK type \in RequestTypes : requests' = Append(requests, type) /\ sent' = sent + 1
        BY <1>6, <3>2 DEF Poll
      <4> QED
        BY <1>1, <4>1, AppendProperties
    <3> QED
      BY <3>1, <3>2
  <2> QED
    BY <1>1, <1>6, <2>1 DEF Poll, Go, ThreadStep
<1>7. CASE t = "server" /\ Answer
  <2>1. responses' \in Seq(RequestTypes) /\ (responses' # <<>> => responses # <<>>)
    BY <1>1, <1>7, HeadTailProperties DEF Answer
  <2>2. at' = [at EXCEPT !["server"] = "answer"] \/ at' = [at EXCEPT !["server"] = "test"]
    BY <1>7 DEF Answer, Go, IInv, TypeOK, Threads
  <2> QED
    BY <1>1, <1>7, <2>1, <2>2 DEF Answer, ThreadStep
<1> QED
  BY <1>2, <1>3, <1>4, <1>5, <1>6, <1>7 DEF Thread

LEMMA NextIInv == IInv /\ [Next]_vars => IInv'
<1> SUFFICES ASSUME IInv, [Next]_vars PROVE IInv'
  OBVIOUS
<1>1. CASE Next
  BY <1>1, MainIInv, SignalIInv, HandlerIInv, ExitIInv, LoopsStep, ThreadStepIInv DEF Next
<1>2. CASE UNCHANGED vars
  <2>1. /\ UNCHANGED <<mainPc, handler, run, at, built, called, exited>>
        /\ UNCHANGED <<requests, responses, updates, snapshots, resting, sent>>
    BY <1>2 DEF vars, queues
  <2> QED
    BY <2>1 DEF IInv, TypeOK, CalledWhole, InStep, Leaving, CallsWell
<1> QED
  BY <1>1, <1>2

THEOREM ProcessInductive == Spec => []IInv
  BY InitIInv, NextIInv, PTL DEF Spec

\* Every variable of the exchange keeps its type: in particular no queue holds fewer than
\* no elements, and the books no fewer than no orders.
THEOREM ProcessTyped == Spec => []TypeOK
<1>1. IInv => TypeOK
  BY DEF IInv
<1> QED
  BY <1>1, ProcessInductive, PTL

-----------------------------------------------------------------------------
\* What the invariant gives.

\* No thread is in a loop of a component that was freed.
THEOREM NothingFreedInUse == Spec => []NoUseAfterFree
<1>1. IInv => NoUseAfterFree
  <2> SUFFICES ASSUME IInv, NEW t \in Threads, at[t] \in {"test", "work", "answer"}
               PROVE  t \in built
    BY DEF NoUseAfterFree
  <2>1. mainPc > ThreadAt(t) /\ ~ handler > SleepAt(t)
    BY DEF IInv, InStep, Leaving
  <2>2. /\ NewAt(t) < ThreadAt(t) /\ SleepAt(t) < FreeAt(t)
        /\ NewAt(t) \in Nat /\ ThreadAt(t) \in Nat /\ SleepAt(t) \in Nat /\ FreeAt(t) \in Nat
    BY DEF NewAt, ThreadAt, SleepAt, FreeAt, Threads
  <2>3. mainPc > NewAt(t) /\ handler <= FreeAt(t)
    BY <2>1, <2>2, PlacesTyped
  <2> QED
    BY <2>3 DEF IInv, InStep
<1> QED
  BY <1>1, ProcessInductive, PTL

\* A thread that runs finds its socket ready.
THEOREM SocketsMadeFirst == Spec => []SocketsReady
<1>1. IInv => SocketsReady
  <2> SUFFICES ASSUME IInv, exited = "no", NEW t \in Threads, at[t] # "none",
                      NEW s \in SocketOf(t), NEW k \in DOMAIN Calls(s)
               PROVE  Calls(s)[k] \in called[s]
    BY DEF SocketsReady
  <2>1. mainPc > ThreadAt(t) /\ StartupSteps
    BY StartupIs DEF IInv, InStep
  <2>2. s \in Sockets /\ k \in 1 .. Len(Calls(s)) /\ Len(Calls(s)) \in Nat
    BY CallsOf DEF SocketOf, Sockets, Threads
  <2>3. PICK p \in {3, 8, 20} : OpensAt(Startup, p, s) /\ p + Len(Calls(s)) < ThreadAt(t)
    <3>1. CASE t = "publisher"
      <4>1. s = "incremental" /\ OpensAt(Startup, 3, s) /\ 3 + 5 < ThreadAt(t)
        BY <2>1, <3>1 DEF StartupSteps, SocketOf, ThreadAt
      <4> QED
        BY <4>1, CallsOf
    <3>2. CASE t = "synthesizer"
      <4>1. s = "snapshot" /\ OpensAt(Startup, 8, s) /\ 8 + 5 < ThreadAt(t)
        BY <2>1, <3>2 DEF StartupSteps, SocketOf, ThreadAt
      <4> QED
        BY <4>1, CallsOf
    <3>3. CASE t = "server"
      <4>1. s = "listener" /\ OpensAt(Startup, 20, s) /\ 20 + 13 < ThreadAt(t)
        BY <2>1, <3>3 DEF StartupSteps, SocketOf, ThreadAt
      <4> QED
        BY <4>1, CallsOf
    <3> QED
      BY <3>1, <3>2, <3>3 DEF SocketOf, Threads
  <2>4. Startup[p + k] = Step(Calls(s)[k], {s})
    BY <2>2, <2>3 DEF OpensAt
  <2>5. p + k \in 1 .. mainPc - 1
    <3>1. ThreadAt(t) \in Nat
      BY DEF ThreadAt, Threads
    <3> QED
      BY <2>1, <2>2, <2>3, <3>1, PlacesTyped
  <2> QED
    BY <2>2, <2>4, <2>5 DEF IInv, CallsWell, Step
<1> QED
  BY <1>1, ProcessInductive, PTL
=============================================================================

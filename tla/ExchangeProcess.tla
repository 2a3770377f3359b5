--------------------------- MODULE ExchangeProcess ---------------------------
(***************************************************************************)
(* The life of the exchange (ch06/exchange/exchange_main.cpp): main()      *)
(* builds and starts the matching engine, the market data publisher with   *)
(* its snapshot synthesizer, and the order server; SIGINT may come at any  *)
(* point of this, and its handler destroys them while their threads run.   *)
(* The kernel gives the signal to the main thread, which stays in the      *)
(* handler until exit().  Any call for a socket may fail (SocketSetup).    *)
(*                                                                         *)
(* A thread is asked to end with run_ and is not joined: its object is     *)
(* freed after a sleep.  The model takes it that the sleep is longer than  *)
(* what a thread that was told to stop has left to do, unless a running    *)
(* thread gives it more: a loop over a queue that is refilled does not     *)
(* look at run_.  For any other thread a sleep ends at any time.  A queue  *)
(* holds a number of elements, or the types of the requests.  The logger   *)
(* of a component is freed with it (Logger).                               *)
(***************************************************************************)
EXTENDS SocketSetup

CONSTANTS
  RequestTypes,  \* the types of the requests clients send
  MaxRequests,   \* bound of the model on the requests clients send
  MaxBacklog     \* bound of the model on the elements of a queue

ClientRequestType == {"NEW", "CANCEL", "INVALID"}

ASSUME ProcessAssumption ==
  RequestTypes \subseteq ClientRequestType /\ MaxRequests \in Nat /\ MaxBacklog \in Nat

Threads == {"engine", "publisher", "synthesizer", "server"}

VARIABLES
  mainPc,    \* the next step of main(), an index of Startup
  handler,   \* the next step of the handler, an index of Shutdown, 0 before the signal
  run,       \* run_ of each component
  at,        \* a thread: "none", "test" (of run_), "work", "answer" (the server) or "left"
  built,     \* the components that exist
  called,    \* the calls made for each socket that went well
  requests, responses, updates, snapshots,  \* the queues between the threads
  resting,   \* the orders in the books
  sent,      \* how many requests the clients sent
  exited     \* "no", "success" or "failure"

queues == <<requests, responses, updates, snapshots>>
vars == <<mainPc, handler, run, at, built, called, queues, resting, sent, exited>>

-----------------------------------------------------------------------------
Step(op, t) == [op |-> op, of |-> t]

Opening(s) == [i \in DOMAIN Calls(s) |-> Step(Calls(s)[i], {s})]

\* The constructors.  That of the publisher opens its socket and builds the synthesizer,
\* which opens its own; what it has built is in main()'s hands once it returns.
New(t) == <<Step("new", {t})>>
NewSynthesizer == Opening("snapshot")
NewPublisher == Opening("incremental") \o NewSynthesizer \o <<Step("new", {"publisher", "synthesizer"})>>

\* start() of the engine and of the synthesizer, and those of the others: the publisher
\* starts the synthesizer, the server listens between run_ and its thread.
Start(t) == <<Step("run", {t}), Step("thread", {t})>>
StartSynthesizer == Start("synthesizer")
StartPublisher == Start("publisher") \o StartSynthesizer
StartServer == <<Step("run", {"server"})>> \o Opening("listener") \o <<Step("thread", {"server"})>>

\* main().
Startup ==
  New("engine") \o Start("engine") \o NewPublisher \o StartPublisher \o New("server") \o StartServer

\* Mutant of Call: the result is not asserted.
CallUnchecked(s, call) ==
  /\ called' \in {called, [called EXCEPT ![s] = @ \union {call}]}
  /\ UNCHANGED exited

\* A call of the kernel for socket s: it succeeds, or the process ends.
Call(s, call) ==
  \/ called' = [called EXCEPT ![s] = @ \union {call}] /\ UNCHANGED exited
  \/ exited' = "failure" /\ UNCHANGED called

\* createAndStartThread(), without a core: the thread begins within the second its creator
\* sleeps, while the names it refers to are there.
CreateAndStartThread(of) == [t \in Threads |-> IF t \in of THEN "test" ELSE at[t]]

Main ==
  /\ exited = "no" /\ handler = 0 /\ mainPc \in DOMAIN Startup
  /\ LET s == Startup[mainPc]
     IN /\ built' = IF s.op = "new" THEN built \union s.of ELSE built
        /\ run' = IF s.op = "run" THEN [t \in Threads |-> t \in s.of \/ run[t]] ELSE run
        /\ at' = IF s.op = "thread" THEN CreateAndStartThread(s.of) ELSE at
        /\ IF s.op \in {"new", "run", "thread"}
             THEN UNCHANGED <<called, exited>>
             ELSE \E k \in s.of : Call(k, s.op)
  /\ mainPc' = mainPc + 1
  /\ UNCHANGED <<handler, queues, resting, sent>>

Signal ==
  /\ exited = "no" /\ handler = 0
  /\ handler' = 1
  /\ UNCHANGED <<mainPc, run, at, built, called, queues, resting, sent, exited>>

\* stop(): that of the publisher stops the synthesizer too.
Stop(t) == Step("stop", {t})
StopSynthesizer == {"synthesizer"}
StopPublisher == Step("stop", {"publisher"} \union StopSynthesizer)

\* The destructors, and a mutant of that of the engine: it does not stop the thread.
DeleteEngineUnstopped ==
  <<Step("sleep", {"engine"}), Step("books", {"engine"}), Step("free", {"engine"})>>
DeleteEngine ==
  <<Stop("engine"), Step("sleep", {"engine"}), Step("books", {"engine"}),
    Step("free", {"engine"})>>
DeletePublisher ==
  <<StopPublisher, Step("sleep", {"publisher", "synthesizer"}),
    Step("free", {"synthesizer"}), Step("free", {"publisher"})>>
DeleteServer == <<Stop("server"), Step("sleep", {"server"}), Step("free", {"server"})>>

\* Mutant of Shutdown: the publisher goes before the engine.
ShutdownPublisherFirst == DeletePublisher \o DeleteEngine \o DeleteServer

\* The deletions of the handler.
Shutdown == DeleteEngine \o DeletePublisher \o DeleteServer

\* The destructor of an order book prints it, with a check that ends the process when the book
\* has an order: toString() compares the first ask with the least price there is, and the
\* first bid with the greatest.
Ends(s) == s.op = "books" /\ resting > 0

\* The thread that refills the queue a thread empties before it looks at run_.
Feeder(t) == CASE t \in {"publisher", "server"} -> {"engine"}
               [] t = "synthesizer" -> {"publisher"} [] OTHER -> {}

\* By the end of a sleep a thread that was told to stop has left, unless its feeder runs on.
Over(s) ==
  s.op = "sleep" =>
    \A t \in built : ~run[t] => at[t] \in {"none", "left"} \/ \E f \in Feeder(t) : run[f]

Handler ==
  /\ exited = "no" /\ handler \in DOMAIN Shutdown
  /\ LET s == Shutdown[handler]
         of == s.of \intersect built
     IN /\ Over(s)
        /\ IF of # {} /\ Ends(s)
             THEN exited' = "failure" /\ UNCHANGED <<run, built>>
             ELSE /\ run' = IF s.op = "stop" THEN [t \in Threads |-> t \notin of /\ run[t]] ELSE run
                  /\ built' = IF s.op = "free" THEN built \ of ELSE built
                  /\ UNCHANGED exited
  /\ handler' = handler + 1
  /\ UNCHANGED <<mainPc, at, called, queues, resting, sent>>

Exit ==
  /\ exited = "no" /\ handler = Len(Shutdown) + 1
  /\ exited' = "success"
  /\ UNCHANGED <<mainPc, handler, run, at, built, called, queues, resting, sent>>

-----------------------------------------------------------------------------
\* The loops of the threads.

Go(t, place) == at' = [at EXCEPT ![t] = place]

Test(t) ==
  /\ exited = "no" /\ at[t] = "test"
  /\ Go(t, IF run[t] THEN "work" ELSE "left")
  /\ UNCHANGED <<mainPc, handler, run, built, called, queues, resting, sent, exited>>

\* processClientRequest(): the books answer and publish, and may get or lose an order; a
\* request of another type ends the process.
Process ==
  /\ Len(responses) < MaxBacklog /\ updates < MaxBacklog
  /\ requests' = Tail(requests)
  /\ IF Head(requests) = "INVALID"
       THEN exited' = "failure" /\ UNCHANGED <<responses, updates, resting>>
       ELSE /\ responses' = Append(responses, Head(requests))
            /\ \E published \in {0, 1} : \E o \in IF published = 0 THEN {0} ELSE {-1, 0, 1} :
                 /\ resting + o >= 0
                 /\ Head(requests) = "CANCEL" => o = - published
                 /\ updates' = updates + published
                 /\ resting' = resting + o
            /\ UNCHANGED exited

\* MatchingEngine::run(), an iteration.
Engine ==
  /\ exited = "no" /\ at["engine"] = "work"
  /\ IF requests = <<>> THEN UNCHANGED <<queues, resting, exited>>
                        ELSE Process /\ UNCHANGED snapshots
  /\ Go("engine", "test")
  /\ UNCHANGED <<mainPc, handler, run, built, called, sent>>

\* The condition of the loop over a queue of n elements.
Has(n) == n > 0

\* MarketDataPublisher::run(): the loop over the updates does not look at run_.
Publisher ==
  /\ exited = "no" /\ at["publisher"] = "work"
  /\ IF Has(updates)
       THEN /\ snapshots < MaxBacklog
            /\ updates' = updates - 1 /\ snapshots' = snapshots + 1
            /\ UNCHANGED at
       ELSE Go("publisher", "test") /\ UNCHANGED <<updates, snapshots>>
  /\ UNCHANGED <<mainPc, handler, run, built, called, requests, responses, resting, sent, exited>>

\* SnapshotSynthesizer::run(), in the same way.
Synthesizer ==
  /\ exited = "no" /\ at["synthesizer"] = "work"
  /\ IF Has(snapshots)
       THEN snapshots' = snapshots - 1 /\ UNCHANGED at
       ELSE Go("synthesizer", "test") /\ UNCHANGED snapshots
  /\ UNCHANGED <<mainPc, handler, run, built, called, requests, responses, updates, resting,
                 sent, exited>>

\* OrderServer::run(): poll() and sendAndRecv() may bring a request ...
Poll ==
  /\ exited = "no" /\ at["server"] = "work"
  /\ \/ UNCHANGED <<requests, sent>>
     \/ /\ sent < MaxRequests /\ Len(requests) < MaxBacklog
        /\ \E type \in RequestTypes : requests' = Append(requests, type)
        /\ sent' = sent + 1
  /\ Go("server", "answer")
  /\ UNCHANGED <<mainPc, handler, run, built, called, responses, updates, snapshots, resting, exited>>

\* ... and the loop over the responses does not look at run_.
Answer ==
  /\ exited = "no" /\ at["server"] = "answer"
  /\ IF responses # <<>> THEN responses' = Tail(responses) /\ UNCHANGED at
                         ELSE Go("server", "test") /\ UNCHANGED responses
  /\ UNCHANGED <<mainPc, handler, run, built, called, requests, updates, snapshots, resting,
                 sent, exited>>

-----------------------------------------------------------------------------
Init ==
  /\ mainPc = 1 /\ handler = 0
  /\ run = [t \in Threads |-> FALSE]
  /\ at = [t \in Threads |-> "none"]
  /\ built = {}
  /\ called = [s \in Sockets |-> {}]
  /\ requests = <<>> /\ responses = <<>> /\ updates = 0 /\ snapshots = 0
  /\ resting = 0 /\ sent = 0
  /\ exited = "no"

Thread(t) ==
  \/ Test(t)
  \/ t = "engine" /\ Engine
  \/ t = "publisher" /\ Publisher
  \/ t = "synthesizer" /\ Synthesizer
  \/ t = "server" /\ (Poll \/ Answer)

Next == Main \/ Signal \/ Handler \/ Exit \/ \E t \in Threads : Thread(t)

Spec == Init /\ [][Next]_vars

-----------------------------------------------------------------------------
TypeOK ==
  /\ mainPc \in 1 .. Len(Startup) + 1 /\ handler \in 0 .. Len(Shutdown) + 1
  /\ run \in [Threads -> BOOLEAN]
  /\ at \in [Threads -> {"none", "test", "work", "answer", "left"}]
  /\ built \subseteq Threads
  /\ \A s \in Sockets : called[s] \subseteq {Calls(s)[i] : i \in DOMAIN Calls(s)}
  /\ requests \in Seq(RequestTypes) /\ responses \in Seq(RequestTypes)
  /\ {updates, snapshots, resting, sent} \subseteq Nat
  /\ exited \in {"no", "success", "failure"}

\* No thread is in the loop of a component that was freed: in particular the publisher,
\* the synthesizer and the server, whose loops over a queue do not look at run_, are
\* given nothing more by the time they are freed.
NoUseAfterFree ==
  exited = "no" => \A t \in Threads : at[t] \in {"test", "work", "answer"} => t \in built

\* A thread that runs finds its socket ready: every call its configuration asks for was made
\* and went well, so that no loop waits for a socket that blocks or was never bound.
SocketOf(t) == CASE t = "publisher" -> {"incremental"} [] t = "synthesizer" -> {"snapshot"}
                 [] t = "server" -> {"listener"} [] OTHER -> {}
SocketsReady ==
  exited = "no" => \A t \in Threads : at[t] # "none" =>
    \A s \in SocketOf(t) : \A i \in DOMAIN Calls(s) : Calls(s)[i] \in called[s]
=============================================================================

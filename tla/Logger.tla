------------------------------- MODULE Logger -------------------------------
(***************************************************************************)
(* Common::Logger (ch06/common/logging.h): a queue of log elements, the    *)
(* thread that writes them to a file, and the destructor, which has the    *)
(* thread empty the queue before it ends it.  The queue is first in, first *)
(* out (LFQueue), so that elements are counted: what was logged, written   *)
(* to the stream, taken from the queue and flushed to the file.            *)
(*                                                                         *)
(* A logger has one user, its component's thread, which has ended when the *)
(* destructor is called (ExchangeProcess).                                 *)
(***************************************************************************)
EXTENDS Integers

CONSTANTS
  MaxBacklog,  \* how far the logger thread falls behind, below LOG_QUEUE_SIZE
  MaxElements  \* bound of the model on the elements logged

ASSUME LoggerAssumption == MaxBacklog \in Nat /\ MaxElements \in Nat

VARIABLES
  logged, written, popped, flushed,
  running,   \* running_
  flusher,   \* flushQueue(): "test" (of running_), "drain", "pop" or "done"
  dtor       \* ~Logger(): "none", "wait", "join" or "closed"

vars == <<logged, written, popped, flushed, running, flusher, dtor>>

size == logged - popped

-----------------------------------------------------------------------------
\* log() and pushValue(): one element.
PushValue ==
  /\ dtor = "none"
  /\ size < MaxBacklog /\ logged < MaxElements
  /\ logged' = logged + 1
  /\ UNCHANGED <<written, popped, flushed, running, flusher, dtor>>

\* flushQueue(): the loop condition ...
TestRunning ==
  /\ flusher = "test"
  /\ flusher' = IF running THEN "drain" ELSE "done"
  /\ UNCHANGED <<logged, written, popped, flushed, running, dtor>>

\* ... an element is written ...
Write ==
  /\ flusher = "drain"
  /\ size > 0
  /\ written' = written + 1
  /\ flusher' = "pop"
  /\ UNCHANGED <<logged, popped, flushed, running, dtor>>

\* ... and only then leaves the queue ...
Pop ==
  /\ flusher = "pop"
  /\ popped' = popped + 1
  /\ flusher' = "drain"
  /\ UNCHANGED <<logged, written, flushed, running, dtor>>

\* ... until the queue is empty.
Flush ==
  /\ flusher = "drain"
  /\ size = 0
  /\ flushed' = written
  /\ flusher' = "test"
  /\ UNCHANGED <<logged, written, popped, running, dtor>>

-----------------------------------------------------------------------------
Destroy ==
  /\ dtor = "none"
  /\ dtor' = "wait"
  /\ UNCHANGED <<logged, written, popped, flushed, running, flusher>>

\* Mutants of Stop: it does not wait for the queue, and leaves running_ as it is.
StopAtOnce ==
  /\ dtor = "wait"
  /\ running' = FALSE
  /\ dtor' = "join"
  /\ UNCHANGED <<logged, written, popped, flushed, flusher>>

StopNot ==
  /\ dtor = "wait"
  /\ size = 0
  /\ dtor' = "join"
  /\ UNCHANGED <<logged, written, popped, flushed, running, flusher>>

\* The loop that waits for an empty queue ends.
Stop ==
  /\ dtor = "wait"
  /\ size = 0
  /\ running' = FALSE
  /\ dtor' = "join"
  /\ UNCHANGED <<logged, written, popped, flushed, flusher>>

\* join() and close(), which flushes the stream.
Close ==
  /\ dtor = "join"
  /\ flusher = "done"
  /\ flushed' = written
  /\ dtor' = "closed"
  /\ UNCHANGED <<logged, written, popped, running, flusher>>

Init ==
  /\ logged = 0 /\ written = 0 /\ popped = 0 /\ flushed = 0
  /\ running = TRUE
  /\ flusher = "test"
  /\ dtor = "none"

FlushQueue == TestRunning \/ Write \/ Pop \/ Flush
Destructor == Stop \/ Close
Next == PushValue \/ FlushQueue \/ Destroy \/ Destructor

Spec == Init /\ [][Next]_vars
-----------------------------------------------------------------------------
\* Elements are flushed, taken and written in this order, and never invented.
TypeOK ==
  /\ {logged, written, popped, flushed} \subseteq Nat
  /\ flushed <= written /\ popped <= written /\ written <= logged
  /\ running \in BOOLEAN
  /\ flusher \in {"test", "drain", "pop", "done"}
  /\ dtor \in {"none", "wait", "join", "closed"}

\* "Flushing and closing Logger" (logging.h:113): a closed file holds all that was
\* logged, wherever the logger thread was when the destructor found the queue empty.
FlushedWhenClosed == dtor = "closed" => flushed = logged

\* The destructor ends.
DestructorEnds == dtor = "wait" ~> dtor = "closed"
=============================================================================

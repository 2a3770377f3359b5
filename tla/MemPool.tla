------------------------------- MODULE MemPool -------------------------------
(***************************************************************************)
(* Common::MemPool<T> (ch06/common/mem_pool.h): a fixed array of blocks,   *)
(* each free or in use, and the index of the block the next allocate()     *)
(* hands out.  A pool belongs to one thread.                               *)
(*                                                                         *)
(* allocate() is split at the iterations of updateNextFreeIndex(), so that *)
(* the search for the next free block, and the assertion that aborts it,   *)
(* are steps of the model.  An ASSERT that fails ends the process: the     *)
(* status then names the assertion and no action is enabled.               *)
(***************************************************************************)
EXTENDS MemPoolIndex

VARIABLES
  isFree,         \* [Blocks -> BOOLEAN]: ObjectBlock::is_free_
  nextFreeIndex,  \* next_free_index_
  initialIndex,   \* the local initial_free_index of updateNextFreeIndex
  status          \* "idle", "scan", or the assertion that ended the process

vars == <<isFree, nextFreeIndex, initialIndex, status>>

Aborts == {"outOfSpace", "blockInUse", "blockAlreadyFree"}

\* The blocks an owner holds a pointer to.
InUse == {b \in Blocks : ~isFree[b]}

Init ==
  /\ isFree = [b \in Blocks |-> TRUE]
  /\ nextFreeIndex = 0
  /\ initialIndex = 0
  /\ status = "idle"

-----------------------------------------------------------------------------
\* Mutant of Allocate: it returns without the search for the next free block.
AllocateWithoutSearch ==
  /\ status = "idle"
  /\ isFree' = [isFree EXCEPT ![nextFreeIndex] = FALSE]
  /\ status' = IF isFree[nextFreeIndex] THEN "idle" ELSE "blockInUse"
  /\ UNCHANGED <<nextFreeIndex, initialIndex>>

\* allocate() up to the call of updateNextFreeIndex().
Allocate ==
  /\ status = "idle"
  /\ IF isFree[nextFreeIndex]
       THEN /\ isFree' = [isFree EXCEPT ![nextFreeIndex] = FALSE]
            /\ initialIndex' = nextFreeIndex
            /\ status' = "scan"
       ELSE /\ status' = "blockInUse"
            /\ UNCHANGED <<isFree, initialIndex>>
  /\ UNCHANGED nextFreeIndex

\* Mutant of ScanStep: the search does not notice that it went round.
ScanStepForever ==
  /\ status = "scan"
  /\ ~isFree[nextFreeIndex]
  /\ nextFreeIndex' = NextIndex(nextFreeIndex)
  /\ UNCHANGED <<isFree, initialIndex, status>>

\* One iteration of the loop of updateNextFreeIndex().
ScanStep ==
  /\ status = "scan"
  /\ ~isFree[nextFreeIndex]
  /\ nextFreeIndex' = NextIndex(nextFreeIndex)
  /\ status' = IF nextFreeIndex' = initialIndex THEN "outOfSpace" ELSE "scan"
  /\ UNCHANGED <<isFree, initialIndex>>

\* The loop ends at a free block and allocate() returns.
ScanDone ==
  /\ status = "scan"
  /\ isFree[nextFreeIndex]
  /\ status' = "idle"
  /\ UNCHANGED <<isFree, nextFreeIndex, initialIndex>>

\* deallocate(elem) for any block of the pool.
Deallocate(b) ==
  /\ status = "idle"
  /\ IF isFree[b]
       THEN status' = "blockAlreadyFree" /\ UNCHANGED isFree
       ELSE isFree' = [isFree EXCEPT ![b] = TRUE] /\ UNCHANGED status
  /\ UNCHANGED <<nextFreeIndex, initialIndex>>

Scan == ScanStep \/ ScanDone

Next ==
  \/ Allocate
  \/ Scan
  \/ \E b \in Blocks : Deallocate(b)

Spec == Init /\ [][Next]_vars

\* allocate() runs to completion on its thread once it was called.
FairSpec == Spec /\ WF_vars(Scan)

-----------------------------------------------------------------------------
\* Every variable keeps to the values its C++ declaration allows.
TypeOK ==
  /\ isFree \in [Blocks -> BOOLEAN]
  /\ nextFreeIndex \in Blocks
  /\ initialIndex \in Blocks
  /\ status \in {"idle", "scan"} \cup Aborts

\* Between two calls next_free_index_ names a free block: this is why the
\* assertion of allocate() on is_free_ (mem_pool.h:46) never fires, however
\* allocations and deallocations are ordered.
NextBlockFree == status = "idle" => isFree[nextFreeIndex]

\* During the search every block passed so far, from the block just handed
\* out up to the one before next_free_index_, is in use, and an abort of the
\* search (mem_pool.h:30) happens only when every block is in use.
SearchCoversUsed ==
  /\ status = "scan" =>
       \A b \in Blocks :
         Distance(initialIndex, b) < Distance(initialIndex, nextFreeIndex) => ~isFree[b]
  /\ status = "scan" => ~isFree[initialIndex]
  /\ status = "outOfSpace" => InUse = Blocks

\* The search ends at the first free block, in circular order, after the block
\* just handed out.  The components that own pools rely on it: they replace
\* the search by FirstFree.
SearchEndsAtFirstFree ==
  (status = "scan" /\ isFree[nextFreeIndex]) => nextFreeIndex = FirstFree(InUse, initialIndex)

\* A call of allocate() returns or aborts: the search of updateNextFreeIndex()
\* does not go round for ever.
SearchEnds == status = "scan" ~> status # "scan"

\* The pool seen by its owner: blocks taken and returned, and the two ways it
\* may end the process.  A failed assertion on is_free_ maps to no health of the
\* abstract pool.
Health ==
  IF status \in {"idle", "scan"} THEN "up"
  ELSE IF status = "outOfSpace" THEN "exhausted"
  ELSE IF status = "blockAlreadyFree" THEN "misused" ELSE "broken"

Pool == INSTANCE BlockPool WITH taken <- InUse, health <- Health

\* MemPool implements BlockPool.
PoolSpec == Pool!Spec
=============================================================================

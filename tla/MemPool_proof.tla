---------------------------- MODULE MemPool_proof ----------------------------
(***************************************************************************)
(* Theorems about MemPool, for pools of every size.                        *)
(***************************************************************************)
EXTENDS MemPool, TLAPS

\* NextIndex stays inside the store.
LEMMA NextIndexInBlocks ==
  ASSUME NEW i \in Blocks
  PROVE  NextIndex(i) \in Blocks
BY NumElemsAssumption DEF NextIndex, Blocks

\* One NextIndex step away from i adds one to the distance from s, until the
\* step comes back to s; it does so from the block at the greatest distance.
LEMMA DistanceStep ==
  ASSUME NEW s \in Blocks, NEW i \in Blocks
  PROVE  /\ NextIndex(i) # s => Distance(s, NextIndex(i)) = Distance(s, i) + 1
         /\ NextIndex(i) = s => \A b \in Blocks : b # i => Distance(s, b) < Distance(s, i)
BY NumElemsAssumption DEF NextIndex, Distance, Blocks

\* Two blocks at the same distance from s are the same block.
LEMMA DistanceInjective ==
  ASSUME NEW s \in Blocks, NEW i \in Blocks, NEW j \in Blocks, Distance(s, i) = Distance(s, j)
  PROVE  i = j
BY NumElemsAssumption DEF Distance, Blocks

\* Distances are natural numbers.
LEMMA DistanceNat ==
  ASSUME NEW s \in Blocks, NEW i \in Blocks
  PROVE  Distance(s, i) \in Nat
BY NumElemsAssumption DEF Distance, Blocks

\* The inductive invariant: the search invariant is what makes the next block
\* free when the search ends.
IInv == TypeOK /\ NextBlockFree /\ SearchCoversUsed

\* A fresh pool satisfies the inductive invariant.
LEMMA InitIInv == Init => IInv
BY NumElemsAssumption
   DEF Init, IInv, TypeOK, NextBlockFree, SearchCoversUsed, Blocks, Aborts

\* Every step of allocate(), of its search and of deallocate() preserves it.
LEMMA NextIInv == IInv /\ [Next]_vars => IInv'
<1> SUFFICES ASSUME IInv, [Next]_vars PROVE IInv'
  OBVIOUS
<1> USE DEF IInv, TypeOK, NextBlockFree, SearchCoversUsed, InUse, Aborts
<1>1. CASE Allocate
  <2>1. initialIndex' = nextFreeIndex' => 
           \A b \in Blocks : ~(Distance(initialIndex', b) < Distance(initialIndex', nextFreeIndex'))
    <3>1. \A b \in Blocks : Distance(nextFreeIndex, nextFreeIndex) <= Distance(nextFreeIndex, b)
      BY NumElemsAssumption DEF Distance, Blocks
    <3>2. QED
      BY <3>1, <1>1, DistanceNat DEF Allocate
  <2>2. QED
    BY <2>1, <1>1 DEF Allocate
<1>2. CASE ScanStep
  <2>1. nextFreeIndex' \in Blocks
    BY <1>2, NextIndexInBlocks DEF ScanStep
  <2>2. CASE nextFreeIndex' = initialIndex
    <3>1. \A b \in Blocks : b # nextFreeIndex =>
             Distance(initialIndex, b) < Distance(initialIndex, nextFreeIndex)
      BY <1>2, <2>2, DistanceStep DEF ScanStep
    <3>2. \A b \in Blocks : ~isFree[b]
      BY <1>2, <3>1 DEF ScanStep
    <3>3. QED
      BY <1>2, <2>1, <2>2, <3>2 DEF ScanStep
  <2>3. CASE nextFreeIndex' # initialIndex
    <3>1. Distance(initialIndex, nextFreeIndex') = Distance(initialIndex, nextFreeIndex) + 1
      BY <1>2, <2>3, DistanceStep DEF ScanStep
    <3>2. ASSUME NEW b \in Blocks, Distance(initialIndex, b) < Distance(initialIndex, nextFreeIndex')
          PROVE  ~isFree[b]
      <4>1. \/ Distance(initialIndex, b) < Distance(initialIndex, nextFreeIndex)
            \/ Distance(initialIndex, b) = Distance(initialIndex, nextFreeIndex)
        BY <3>1, <3>2, DistanceNat
      <4>2. QED
        BY <4>1, <1>2, DistanceInjective DEF ScanStep
    <3>3. QED
      BY <1>2, <2>1, <2>3, <3>2 DEF ScanStep
  <2>4. QED
    BY <2>2, <2>3
<1>3. CASE ScanDone
  BY <1>3 DEF ScanDone
<1>4. ASSUME NEW b \in Blocks, Deallocate(b)
      PROVE  IInv'
  BY <1>4 DEF Deallocate
<1>5. CASE UNCHANGED vars
  BY <1>5 DEF vars
<1>6. QED
  BY <1>1, <1>2, <1>3, <1>4, <1>5 DEF Next, Scan

\* Every variable keeps to the values its C++ declaration allows, in a pool of any size.
THEOREM TypeCorrect == Spec => []TypeOK
<1>1. IInv => TypeOK
  BY DEF IInv
<1>2. QED
  BY InitIInv, NextIInv, <1>1, PTL DEF Spec

\* next_free_index_ names a free block between two calls, so the assertion of
\* allocate() on is_free_ (mem_pool.h:46) never fires, in a pool of any size.
THEOREM NextBlockAlwaysFree == Spec => []NextBlockFree
<1>1. IInv => NextBlockFree
  BY DEF IInv
<1>2. QED
  BY InitIInv, NextIInv, <1>1, PTL DEF Spec

\* The search passes over blocks in use only, and "Memory Pool out of space."
\* (mem_pool.h:30) ends the process only when every block is in use.
THEOREM SearchSound == Spec => []SearchCoversUsed
<1>1. IInv => SearchCoversUsed
  BY DEF IInv
<1>2. QED
  BY InitIInv, NextIInv, <1>1, PTL DEF Spec

\* The search of updateNextFreeIndex() computes FirstFree, the operator that
\* stands for it in the models of the pools' owners.
THEOREM SearchComputesFirstFree == Spec => []SearchEndsAtFirstFree
<1>1. IInv => SearchEndsAtFirstFree
  <2> SUFFICES ASSUME IInv, status = "scan", isFree[nextFreeIndex]
               PROVE  nextFreeIndex = FirstFree(InUse, initialIndex)
    BY DEF SearchEndsAtFirstFree
  <2> DEFINE Nearest(j) ==
        \A k \in Blocks \ InUse : Distance(initialIndex, j) <= Distance(initialIndex, k)
  <2>1. nextFreeIndex \in Blocks \ InUse /\ initialIndex \in Blocks
    BY DEF IInv, TypeOK, InUse
  <2>2. Nearest(nextFreeIndex)
    BY <2>1, DistanceNat DEF IInv, SearchCoversUsed, InUse
  <2>3. ASSUME NEW j \in Blocks \ InUse, Nearest(j)
        PROVE  j = nextFreeIndex
    <3>1. Distance(initialIndex, j) = Distance(initialIndex, nextFreeIndex)
      BY <2>1, <2>2, <2>3, DistanceNat
    <3>2. QED
      BY <3>1, <2>1, DistanceInjective
  <2>4. QED
    BY <2>1, <2>2, <2>3 DEF FirstFree
<1>2. QED
  BY InitIInv, NextIInv, <1>1, PTL DEF Spec

\* MemPool implements BlockPool: whatever its owner does, it is handed only
\* blocks it does not hold, keeps those it holds until it returns them, and the
\* pool ends the process only when every block is taken or on a double release.
THEOREM ImplementsBlockPool == Spec => PoolSpec
<1>1. Init => Pool!Init
  BY DEF Init, Pool!Init, InUse, Health
<1>2. IInv /\ [Next]_vars => [Pool!Next]_<<InUse, Health>>
  <2> SUFFICES ASSUME IInv, [Next]_vars PROVE [Pool!Next]_<<InUse, Health>>
    OBVIOUS
  <2> USE DEF IInv, TypeOK, Aborts
  <2>1. CASE Allocate
    <3>1. isFree[nextFreeIndex] /\ nextFreeIndex \in Blocks
      BY <2>1 DEF Allocate, NextBlockFree
    <3>2. InUse' = InUse \cup {nextFreeIndex} /\ nextFreeIndex \notin InUse
      BY <2>1, <3>1 DEF Allocate, InUse
    <3>3. Health = "up" /\ Health' = "up"
      BY <2>1, <3>1 DEF Allocate, Health
    <3>4. QED
      BY <3>1, <3>2, <3>3 DEF Pool!Next, Pool!Take
  <2>2. CASE ScanStep
    <3>1. InUse' = InUse /\ Health = "up"
      BY <2>2 DEF ScanStep, InUse, Health
    <3>2. CASE status' = "scan"
      BY <3>1, <3>2 DEF Health
    <3>3. CASE status' = "outOfSpace"
      <4>1. InUse = Blocks
        BY <3>1, <3>3, NextIInv DEF SearchCoversUsed, InUse
      <4>2. Health' = "exhausted"
        BY <3>3 DEF Health
      <4>3. QED
        BY <3>1, <4>1, <4>2 DEF Pool!Next, Pool!Exhaust
    <3>4. QED
      BY <2>2, <3>2, <3>3 DEF ScanStep
  <2>3. CASE ScanDone
    BY <2>3 DEF ScanDone, InUse, Health
  <2>4. ASSUME NEW b \in Blocks, Deallocate(b)
        PROVE  [Pool!Next]_<<InUse, Health>>
    <3>1. CASE isFree[b]
      <4>1. InUse' = InUse /\ b \notin InUse /\ Health = "up" /\ Health' = "misused"
        BY <2>4, <3>1 DEF Deallocate, InUse, Health
      <4>2. QED
        BY <4>1 DEF Pool!Next, Pool!Misuse
    <3>2. CASE ~isFree[b]
      <4>1. InUse' = InUse \ {b} /\ b \in InUse /\ Health = "up" /\ Health' = "up"
        BY <2>4, <3>2 DEF Deallocate, InUse, Health
      <4>2. QED
        BY <4>1 DEF Pool!Next, Pool!Release
    <3>3. QED
      BY <3>1, <3>2
  <2>5. CASE UNCHANGED vars
    BY <2>5 DEF vars, InUse, Health
  <2>6. QED
    BY <2>1, <2>2, <2>3, <2>4, <2>5 DEF Next, Scan
<1>3. QED
  BY <1>1, <1>2, InitIInv, NextIInv, PTL DEF Spec, PoolSpec, Pool!Spec
=============================================================================

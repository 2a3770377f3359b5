----------------------------- MODULE MemPoolIndex -----------------------------
(***************************************************************************)
(* Index arithmetic of Common::MemPool<T> (ch06/common/mem_pool.h), shared *)
(* by the step-by-step model of the pool and by the components that own    *)
(* pools and see allocate() and deallocate() as single steps.              *)
(***************************************************************************)
EXTENDS Integers

CONSTANT NumElems      \* store_.size(), the num_elems of the constructor

ASSUME NumElemsAssumption == NumElems \in Nat \ {0}

Blocks == 0 .. NumElems - 1

\* ++next_free_index_, wrapping to 0 at the end of the store.
NextIndex(i) == IF i + 1 = NumElems THEN 0 ELSE i + 1

\* The number of NextIndex steps from block i to block j.
Distance(i, j) == IF i <= j THEN j - i ELSE j - i + NumElems

\* The free block updateNextFreeIndex() stops at when it starts at i while the
\* blocks of used are taken.  It stops at one unless every block is taken.
FirstFree(used, i) ==
  CHOOSE j \in Blocks \ used : \A k \in Blocks \ used : Distance(i, j) <= Distance(i, k)
=============================================================================

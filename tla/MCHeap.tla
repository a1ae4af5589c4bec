-------------------------------- MODULE MCHeap --------------------------------
(***************************************************************************)
(* Instances of Heap with few names.                                       *)
(***************************************************************************)
EXTENDS HeapProperties, TLC

CONSTANTS v1, p1, t1, r1, r2

MCVars == <<v1>>
MCParams == <<p1>>
NoParams == <<>>
MCTmps == <<t1>>
MCRefs == <<r1>>
MCTwoRefs == <<r1, r2>>
AnyBlock == Permutations(Blocks)
=============================================================================

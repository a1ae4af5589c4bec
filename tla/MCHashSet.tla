----------------------------- MODULE MCHashSet -----------------------------
(* Four keys that share buckets while the set is small, two elements each. *)
EXTENDS HashSetInvariant

CONSTANTS k1, k2, k3, k4

MCKeys  == {k1, k2, k3, k4}
MCData  == MCKeys \X {1, 2}
MCKeyOf == [d \in MCData |-> d[1]]
MCHash  == [k \in MCKeys |-> CASE k = k1 -> 0 [] k = k2 -> 2 [] k = k3 -> 4 [] k = k4 -> 5]
=============================================================================

------------------------------- MODULE KeyMap -------------------------------
(* What a hash set promises: at most one element for each key, the one     *)
(* that was put there last.                                                *)
CONSTANTS
  Keys,    \* what f_cmp and f_hash look at
  Data,    \* elements
  KeyOf,   \* the key of each element
  NoData   \* no element

VARIABLE map

MapInit == map = [k \in Keys |-> NoData]

Put(d)    == map' = [map EXCEPT ![KeyOf[d]] = d]
Remove(k) == map[k] # NoData /\ map' = [map EXCEPT ![k] = NoData]
Clear     == map' = [k \in Keys |-> NoData]

MapNext ==
  \/ \E d \in Data : Put(d)
  \/ \E k \in Keys : Remove(k)
  \/ Clear

MapSpec == MapInit /\ [][MapNext]_map
=============================================================================

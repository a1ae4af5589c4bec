-------------------------- MODULE MergeInvariant --------------------------
(* Why merging is right: the inductive invariant of MirBuild.              *)
EXTENDS MirBuild

MergeTypeOK ==
  /\ IsGraph(sub)
  /\ bbs \in Seq(B) /\ new_bbs \in Seq(B)
  /\ je \in [B -> B \cup {Null}] /\ next \in [B -> B \cup {Null}]
  /\ code \in [B -> Seq(B)]
  /\ preds \in [B -> [B -> Nat]]
  /\ deleted \in SUBSET B
  /\ pos \in [B -> B \X Nat]

(* No block is looked at twice, none that is freed.                        *)
Once ==
  /\ \A i, k \in 1 .. Len(bbs) : bbs[i] = bbs[k] => i = k
  /\ \A i \in 1 .. Len(bbs) : bbs[i] \notin deleted

(* A block that still exists never jumps to one that was freed: there is a *)
(* label for every jump of the generated code (inst_bb.c:1405-1440).       *)
NoDangling == \A p \in Live : je[p] \notin deleted /\ next[p] \notin deleted

(* Whoever jumps to a block is on its list of predecessors.                *)
PredsComplete == \A p \in Live, b \in B : je[p] = b \/ next[p] = b => preds[b][p] > 0

(* A block keeps its kind of jump, and blocks without conditions still     *)
(* form no loop.                                                           *)
KindKept ==
  \A p \in Live : /\ (je[p] = Null) <=> (sub.je[p] = Null)
                  /\ (next[p] = Null) <=> (sub.next[p] = Null)

Ranked == \A p \in Live : IsNext(je, next, p) => sub.rank[next[p]] < sub.rank[p]

(* Where the contents of block b of the source end in the block it is in.  *)
EndOf(b) == pos[b][2] + Len(Own(b))

(* The block of the source that follows b without a condition comes right  *)
(* behind it in the same block.                                            *)
Inside(b) == IsNext(sub.je, sub.next, b) /\ pos[sub.next[b]] = <<pos[b][1], EndOf(b)>>

(* Block b of the source ends the block it is in, and the jumps of both    *)
(* lead to the same places.                                                *)
SameJump(jump, gjump, b) ==
  /\ (jump[pos[b][1]] = Null) <=> (gjump[b] = Null)
  /\ gjump[b] # Null => pos[gjump[b]] = <<jump[pos[b][1]], 0>>

Outside(b) ==
  /\ EndOf(b) = Len(code[pos[b][1]])
  /\ SameJump(je, sub.je, b)
  /\ SameJump(next, sub.next, b)

(* Every block of the source, the unreachable ones as well, is somewhere:  *)
(* its contents are there, and what follows it follows it there.           *)
Faithful ==
  \A b \in B :
    /\ pos[b][1] \in Live
    /\ EndOf(b) <= Len(code[pos[b][1]])
    /\ ~sub.empty[b] => code[pos[b][1]][EndOf(b)] = b
    /\ Inside(b) \/ Outside(b)

MergeInv ==
  /\ MergeTypeOK
  /\ Once
  /\ NoDangling
  /\ PredsComplete
  /\ KindKept
  /\ Ranked
  /\ Faithful

(* Freed blocks stay in the lists of predecessors until the end of the     *)
(* pass; none of them is written to (merge_bb.c:153-157).                  *)
FreedUntouched ==
  [][\A b \in deleted : je'[b] = je[b] /\ next'[b] = next[b] /\ code'[b] = code[b]]_vars
===========================================================================

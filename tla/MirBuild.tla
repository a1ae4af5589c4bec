------------------------------ MODULE MirBuild ------------------------------
(***************************************************************************)
(* compiler/mir_build for one subroutine.  merge_bb.c merges blocks that   *)
(* only lead to another block into it; mir_build.c calls it when the       *)
(* statements have been lowered to blocks, unless an error was found.  The *)
(* pass over a program is one such pass after the other.                   *)
(***************************************************************************)
EXTENDS Integers, Sequences

CONSTANTS
  Subs,  \* subroutines: their blocks as lower_hir.c leaves them
  Null   \* the pointer to no block

(* A block jumps to je when its condition holds and to next otherwise, or  *)
(* without a condition (jz_ref and next_ref are one field), or ends the    *)
(* subroutine. rank is not in the code: it says that blocks without        *)
(* conditions form no loop.                                                *)
IsNext(je, next, b) == je[b] = Null /\ next[b] # Null

IsGraph(g) ==
  LET B == DOMAIN g.je
  IN  /\ Null \notin B
      /\ g.je \in [B -> B \cup {Null}]
      /\ g.next \in [B -> B \cup {Null}]
      /\ \A b \in B : g.next[b] = Null => g.je[b] = Null
      /\ g.empty \in [B -> BOOLEAN]
      /\ g.bbs \in Seq(B)
      /\ \A i, k \in 1 .. Len(g.bbs) : g.bbs[i] = g.bbs[k] => i = k
      /\ g.rank \in [B -> Nat]
      /\ \A b \in B : IsNext(g.je, g.next, b) => g.rank[g.next[b]] < g.rank[b]

ASSUME SubsAssumption == \A s \in Subs : IsGraph(s)

VARIABLES
  sub,      \* the subroutine as it was
  bbs,      \* sub->defined.bbs: blocks still to look at
  new_bbs,  \* blocks that stay
  je,       \* jmp.je_ref
  next,     \* jmp.next_ref, jmp.jz_ref
  code,     \* stmts and hir_exprs: the blocks of the source they come from
  preds,    \* ctx->preds: how often a block is listed as a predecessor of another
  deleted,  \* ctx->deleted: blocks that have been freed
  pos       \* not in the code: where each block of the source has got to

vars == <<sub, bbs, new_bbs, je, next, code, preds, deleted, pos>>

B    == DOMAIN sub.je
Live == B \ deleted

(* What a block holds before anything is merged into it.                   *)
Own(b) == IF sub.empty[b] THEN <<>> ELSE <<b>>

(* How many of the jumps of a block go to another.                         *)
Jumps(p, b) == (IF je[p] = b THEN 1 ELSE 0) + (IF next[p] = b THEN 1 ELSE 0)

(* mir_ctx_get_preds, called for every block: a jump is listed once.       *)
MergeInit ==
  /\ sub \in Subs
  /\ bbs = sub.bbs
  /\ new_bbs = <<>>
  /\ je = sub.je
  /\ next = sub.next
  /\ code = [b \in B |-> Own(b)]
  /\ preds = [b \in B |-> [p \in B |-> Jumps(p, b)]]
  /\ deleted = {}
  /\ pos = [b \in B |-> <<b, 0>>]

-----------------------------------------------------------------------------
(* list_mir_bb_ref_size(preds) <= 1                                        *)
AtMostOnePred(b) ==
  \E p \in B : preds[b][p] <= 1 /\ \A q \in B \ {p} : preds[b][q] = 0

(* A mutant: whoever else needs the next block is not asked.               *)
CanMergeAlways(cur) == IsNext(je, next, cur)

(* mir_ctx_can_merge_with                                                  *)
CanMerge(cur) ==
  /\ IsNext(je, next, cur)
  /\ code[cur] = <<>> \/ AtMostOnePred(next[cur])

(* A mutant: freed predecessors are updated as well.                       *)
AllPreds(cur) == {p \in B : preds[cur][p] > 0}

(* The predecessors of a block that are not freed yet.                     *)
LivePreds(cur) == {p \in B : preds[cur][p] > 0 /\ p \notin deleted}

(* A jump to cur becomes one to nxt, in the predecessors that are updated. *)
Redirect(jump, ps, cur, nxt) ==
  [p \in B |-> IF p \in ps /\ jump[p] = cur THEN nxt ELSE jump[p]]

(* The predecessors of nxt after the jumps from ps to cur were led to it.  *)
Inherit(ps, cur, nxt) ==
  [p \in B |-> preds[nxt][p] + (IF p \in ps THEN Jumps(p, cur) ELSE 0)]

(* A block is in front of the list and stays.                              *)
Keep ==
  /\ bbs # <<>>
  /\ ~CanMerge(Head(bbs))
  /\ new_bbs' = Append(new_bbs, Head(bbs))
  /\ bbs' = Tail(bbs)
  /\ UNCHANGED <<sub, je, next, code, preds, deleted, pos>>

(* mir_ctx_bb_merge_block: the jumps to the block in front of the list are *)
(* led to the next one, which gets its contents; then the block is freed.  *)
Merge ==
  /\ bbs # <<>>
  /\ LET cur == Head(bbs)
         nxt == next[cur]
         ps  == LivePreds(cur)
     IN  /\ CanMerge(cur)
         /\ je' = Redirect(je, ps, cur, nxt)
         /\ next' = Redirect(next, ps, cur, nxt)
         /\ preds' = [preds EXCEPT ![nxt] = Inherit(ps, cur, nxt)]
         /\ code' = [code EXCEPT ![nxt] = code[cur] \o @, ![cur] = <<>>]
         /\ deleted' = deleted \cup {cur}
         /\ pos' = [b \in B |->
                      CASE pos[b][1] = cur -> <<nxt, pos[b][2]>>
                        [] pos[b][1] = nxt -> <<nxt, Len(code[cur]) + pos[b][2]>>
                        [] OTHER           -> pos[b]]
         /\ bbs' = Tail(bbs)
  /\ UNCHANGED <<sub, new_bbs>>

-----------------------------------------------------------------------------
(* mir_build.c                                                             *)
VARIABLE stage   \* how far mir_build has come

buildVars == <<vars, stage>>

Init == MergeInit /\ stage = "lowered"

(* The exceptions of lower_hir.c are counted before merge_bb.c is called.  *)
Refuse ==
  /\ stage = "lowered" /\ sub.error
  /\ stage' = "refused"
  /\ UNCHANGED vars

StartMerging ==
  /\ stage = "lowered" /\ ~sub.error
  /\ stage' = "merging"
  /\ UNCHANGED vars

MergeStep == stage = "merging" /\ (Keep \/ Merge) /\ UNCHANGED stage

Finish ==
  /\ stage = "merging" /\ bbs = <<>>
  /\ stage' = "built"
  /\ UNCHANGED vars

Next == Refuse \/ StartMerging \/ MergeStep \/ Finish

Spec == Init /\ [][Next]_buildVars
=============================================================================

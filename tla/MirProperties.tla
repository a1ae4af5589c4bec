--------------------------- MODULE MirProperties ---------------------------
(* What compiling the statements of a subroutine to blocks promises.       *)
EXTENDS MergeInvariant, SequencesExt

CONSTANTS
  MaxTrace,                \* how many expressions and outcomes are compared
  Variables, Subroutines,  \* the names in expressions
  Starts                   \* states in which expressions are evaluated

L == INSTANCE LowerHir

(* What the blocks do when they are executed from the i-th content of      *)
(* block b: inst_bb.c evaluates the contents, then jumps to je if the      *)
(* condition holds and to next if it does not.                             *)
RECURSIVE BlockTraces(_, _, _)
BlockTraces(b, i, n) ==
  LET Prefixed(e, T) == {<<e>> \o t : t \in T}
  IN CASE n <= 0            -> {<<>>}
       [] i <= Len(code[b]) -> Prefixed(sub.expr[code[b][i]], BlockTraces(b, i + 1, n - 1))
       [] je[b] # Null      -> Prefixed(L!Holds, BlockTraces(je[b], 1, n - 1))
                               \cup Prefixed(L!Fails, BlockTraces(next[b], 1, n - 1))
       [] next[b] # Null    -> BlockTraces(next[b], 1, n)
       [] OTHER             -> {<<>>}

(* The body of the subroutine begins with its first block.                 *)
BodyAt == pos[sub.bbs[1]]

(* The generated code is entered at the block that is emitted first        *)
(* (cg_inst_bbs goes through the list in its order).                       *)
EntryIsBody == BodyAt = <<Head(new_bbs), 0>>

(* The expressions of the subroutine.                                      *)
Evaluated == {sub.expr[b] : b \in {x \in DOMAIN sub.expr : ~sub.empty[x]}}

Meaningless == L!StrayBreak(sub.body) \/ \E e \in Evaluated : L!Invalid(e)

-----------------------------------------------------------------------------
(* After lowering and after every merge the blocks evaluate the            *)
(* expressions of the statements in an order that the statements allow,    *)
(* and in every such order: break, return and loops go where they should   *)
(* (lower_hir.c:1158-1418, merge_bb.c:131-200). A subroutine with a break  *)
(* outside of its loops (lower_hir.c:1286-1304) or an expression without   *)
(* meaning (lower_hir.c:608, 748, 963) is refused, and no other is.        *)
SameTraces ==
  /\ stage = "refused" => Meaningless
  /\ stage \in {"merging", "built"} => ~Meaningless
  /\ ~sub.error =>
       BlockTraces(BodyAt[1], BodyAt[2] + 1, MaxTrace)
         = L!StatementTraces(<<sub.body>>, MaxTrace)

(* From a state, the statements give the value of the expression and       *)
(* change variables, arrays, objects and the outside as it does.           *)
SameMeaning(s, e) ==
  LET meant   == L!Eval(s, e)
      lowered == L!Lower(e)
      done    == FoldLeft(L!Execute, s, lowered.c.stmts)
  IN  /\ L!Content(done, lowered.ret) = meant.v
      /\ \A x \in DOMAIN s.vals : done.vals[x] = meant.s.vals[x]
      /\ done.heap = meant.s.heap
      /\ done.out = meant.s.out

(* Between the making of a reference and its last use nothing happens that *)
(* could free what it points into.                                         *)
Uses(stmt, ref) ==
  ref \in Range(stmt.args) \/ (stmt.op = "assign_value" /\ stmt.ret = ref)
Harmless(stmt) == stmt.op \in {"deref", "op"}
UsedAtOnce(stmts) ==
  \A i, j \in DOMAIN stmts :
     stmts[i].op \in {"index_ref", "member_ref"} /\ i < j /\ Uses(stmts[j], stmts[i].ret)
       => \A k \in i + 1 .. j - 1 : Harmless(stmts[k]) \/ Uses(stmts[k], stmts[i].ret)

(* The statements that an expression is lowered to do what it means: the   *)
(* operands are evaluated in order, once each; an assignment reaches the   *)
(* place meant, through references to elements of elements, and not a copy *)
(* of it; methods get their objects (lower_hir.c:591-1137). Left out are   *)
(* expressions that name a variable and change it later, before it is      *)
(* read: lower_hir.c:947 leaves them the new value. No reference waits     *)
(* while something else is evaluated.                                      *)
ExpressionsRight ==
  stage = "lowered" =>
    \A e \in Evaluated :
      ~L!Invalid(e) =>
        /\ UsedAtOnce(L!Lower(e).c.stmts)
        /\ ~L!ReadsLate(e) => \A s \in Starts : SameMeaning(s, e)

(* Nobody keeps the block that a subroutine begins with: what is first in  *)
(* the list is executed first, so merging must leave the beginning of the  *)
(* body in front (merge_bb.c:232-243). It does unless the body begins with *)
(* a repeat that is left by a break before anything is evaluated.          *)
EntryKept == stage = "built" /\ ~L!BreaksFirst(<<sub.body>>) => EntryIsBody

(* The same of every subroutine. merge_bb.c:233 supposes that a pointer to *)
(* the first block may be redundant.                                       *)
EntryAlwaysKept == stage = "built" => EntryIsBody
===========================================================================

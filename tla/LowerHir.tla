----------------------------- MODULE LowerHir -----------------------------
(* The control flow that compiler/mir_build/lower_hir.c gives the          *)
(* statements of a subroutine. A context c has the fields of mir_ctx that  *)
(* matter: the list of blocks, their jumps and contents, the scopes that   *)
(* break can leave (their last blocks) and whether an error was reported.  *)
(* Every operator returns the context and the first and last block of the  *)
(* statement (mir_bb_seq). An expression becomes statements of its block.  *)
EXTENDS Statements, Expressions, TLC

-----------------------------------------------------------------------------
(* Expressions: the statements that are made of one, and what they do. A   *)
(* context c has the statements of the block, the number of temporaries,   *)
(* and whether an error was reported. A result r is mir_expr_r: the        *)
(* context, the value ret that the expression is in, the object of a       *)
(* member, and whether ret is a reference (ref) that is assigned through.  *)

Result(c, ret, obj, ref) == [c |-> c, ret |-> ret, obj |-> obj, ref |-> ref]

(* mir_exception_add_error, and an empty result.                           *)
None       == <<"none">>
Refused(c) == Result([c EXCEPT !.error = TRUE], None, <<>>, FALSE)

Emit(c, stmt) == [c EXCEPT !.stmts = Append(@, stmt)]

(* A statement whose value goes to a new temporary.                        *)
Tmp(n) == <<"tmp", n>>
ToTmp(c, op, args, what) ==
  Result([Emit(c, [op |-> op, ret |-> Tmp(c.tmps + 1), args |-> args, what |-> what])
            EXCEPT !.tmps = @ + 1], Tmp(c.tmps + 1), <<>>, FALSE)

AssignValue(c, to, from) ==
  Emit(c, [op |-> "assign_value", ret |-> to, args |-> <<from>>, what |-> None])

DefineDeref(r) == ToTmp(r.c, "deref", <<r.ret>>, None)
Dereferenced(r) == IF r.ref THEN DefineDeref(r) ELSE r

RECURSIVE DefineExpr(_, _, _)

(* Operands one after the other.                                           *)
DefineAll(c, es) ==
  LET Next(r, e) == LET now == DefineExpr(r.c, e, FALSE)
                    IN  [c |-> now.c, rets |-> Append(r.rets, now.ret)]
  IN  FoldLeft(Next, [c |-> c, rets |-> <<>>], es)

DefineGeneric(c, op, es) ==
  LET all == DefineAll(c, es) IN ToTmp(all.c, "op", all.rets, op)

(* ++ and --: the reference is kept for the result.                        *)
DefineStep(c, e) ==
  LET first == DefineExpr(c, e.first, TRUE)
      deref == Dereferenced(first)
      ret   == ToTmp(deref.c, "op", <<deref.ret>>, e.op)
  IN  [ret EXCEPT !.c = AssignValue(ret.c, first.ret, ret.ret)]

DefineUnary(c, e) ==
  CASE ~IsStep(e)                        -> DefineGeneric(c, e.op, <<e.first>>)
    [] IsStep(e) /\ Assignable(e.first)  -> DefineStep(c, e)
    [] IsStep(e) /\ ~Assignable(e.first) -> Refused(c)

DefineAssign(c, e, lvalue) ==
  LET from  == DefineExpr(c, e.second, FALSE)
      to    == DefineExpr(from.c, e.first, TRUE)
      done  == [to EXCEPT !.c = AssignValue(to.c, to.ret, from.ret)]
      deref == IF lvalue THEN done ELSE Dereferenced(done)
  IN  Result(deref.c, deref.ret, <<>>, FALSE)

DefineMember(c, e, lvalue) ==
  LET obj == DefineExpr(c, e.first, FALSE)
      ret == ToTmp(obj.c, IF lvalue THEN "member_ref" ELSE "member", <<obj.ret>>, e.second.value)
  IN  Result(ret.c, ret.ret, <<obj.ret>>, lvalue)

DefineBinary(c, e, lvalue) ==
  CASE IsMember(e) /\ IsString(e.second)   -> DefineMember(c, e, lvalue)
    [] IsAssign(e) /\ Assignable(e.first)  -> DefineAssign(c, e, lvalue)
    [] IsMember(e) /\ ~IsString(e.second)  -> Refused(c)
    [] IsAssign(e) /\ ~Assignable(e.first) -> Refused(c)
    [] OTHER -> DefineGeneric(c, e.op, <<e.first, e.second>>)

(* A variable is its own result.                                           *)
DefineId(c, e) ==
  CASE e.id \in Variables   -> Result(c, Variable(e.id), <<>>, FALSE)
    [] e.id \in Subroutines -> ToTmp(c, "assign_sub", <<>>, <<"callable", e.id>>)
    [] OTHER                -> Refused(c)

(* A subroutine that is named is called directly, everything else as a     *)
(* value, with the object in front if it is a member.                      *)
DefineCall(c, e) ==
  LET args   == DefineAll(c, e.args)
      callee == DefineExpr(args.c, e.callee, FALSE)
  IN  IF e.callee.kind = "id" /\ e.callee.id \in Subroutines
      THEN ToTmp(args.c, "call", args.rets, <<"callable", e.callee.id>>)
      ELSE IF e.callee.kind = "id" /\ callee.ret = None THEN callee
      ELSE ToTmp(callee.c, "op_call", <<callee.ret>> \o callee.obj \o args.rets, None)

(* A mutant: what is indexed is always asked for its value.                *)
IndexedValue(c, e, lvalue) == DefineExpr(c, e.indexed, FALSE)

(* An element of an element is assigned to through references all the way. *)
Indexed(c, e, lvalue) == DefineExpr(c, e.indexed, lvalue)

DefineIndex(c, e, lvalue) ==
  LET args    == DefineAll(c, e.args)
      indexed == Indexed(args.c, e, lvalue)
      ret     == ToTmp(indexed.c, IF lvalue THEN "index_ref" ELSE "index",
                       <<indexed.ret>> \o args.rets, None)
  IN  IF indexed.ret = None THEN indexed ELSE [ret EXCEPT !.ref = lvalue]

DefineBuiltin(c, e) ==
  LET args == DefineAll(c, e.args) IN ToTmp(args.c, "builtin", args.rets, e.op)

DefineExpr(c, e, lvalue) ==
  CASE e.kind = "lit"     -> ToTmp(c, "assign_lit", <<>>, e.value)
    [] e.kind = "id"      -> DefineId(c, e)
    [] e.kind = "unary"   -> DefineUnary(c, e)
    [] e.kind = "binary"  -> DefineBinary(c, e, lvalue)
    [] e.kind = "call"    -> DefineCall(c, e)
    [] e.kind = "index"   -> DefineIndex(c, e, lvalue)
    [] e.kind = "builtin" -> DefineBuiltin(c, e)

(* mir_define_expr_tree, on a block with nothing in it.                    *)
Lower(e) == DefineExpr([stmts |-> <<>>, tmps |-> 0, error |-> FALSE], e, FALSE)

-----------------------------------------------------------------------------
(* What the statements do. Temporaries are variables; in a state of the    *)
(* machine a value may also be a reference to a place.                     *)
Content(s, x) == Load(s, x)

(* Operations on a reference are those of what it refers to.               *)
IsRef(v)    == v[1] = "ref"
Target(s, x) == IF IsRef(Content(s, x)) THEN Content(s, x)[2] ELSE x

RefTo(p) == IF p[1] = "alone" THEN p[2] ELSE <<"ref", p>>

(* op_assign; what cannot take a value is overwritten with an error.       *)
Assigned(s, x, v) ==
  CASE ~IsRef(Content(s, x)) -> Store(s, x, v)
    [] IsRef(Content(s, x)) /\ Accepts(Target(s, x), v)  -> Store(s, Target(s, x), v)
    [] IsRef(Content(s, x)) /\ ~Accepts(Target(s, x), v) -> Store(s, x, Error)

Execute(s, stmt) ==
  LET args    == [i \in DOMAIN stmt.args |-> Content(s, stmt.args[i])]
      Give(v) == [s EXCEPT !.vals = (stmt.ret :> v) @@ @]
      Keep(r) == [r.s EXCEPT !.vals = (stmt.ret :> r.v) @@ @]
      Member  == Element(s.heap, Load(s, Target(s, stmt.args[1])), stmt.what)
      Inner   == At(s, Target(s, stmt.args[1]), Tail(args))
  IN CASE stmt.op \in {"assign_lit", "assign_sub"} -> Give(stmt.what)
       [] stmt.op = "assign_value" -> Assigned(s, stmt.ret, args[1])
       [] stmt.op = "deref"        -> Give(IF IsRef(args[1]) THEN Load(s, args[1][2]) ELSE Outside(args[1]))
       [] stmt.op = "index"        -> Give(Load(s, Inner))
       [] stmt.op = "index_ref"    -> Give(RefTo(Inner))
       [] stmt.op = "member"       -> Give(Load(s, Member))
       [] stmt.op = "member_ref"   -> Give(RefTo(Member))
       [] stmt.op = "op"           -> Give(Compute(stmt.what, args))
       [] stmt.op = "call"         -> Keep(Invoke(s, stmt.what, args))
       [] stmt.op = "op_call"      -> Keep(Invoke(s, args[1], Tail(args)))
       [] stmt.op = "builtin"      -> Keep(RunBuiltin(s, stmt.what, args))

-----------------------------------------------------------------------------
(* Statements.                                                             *)

CONSTANT Null   \* the pointer to no block

(* mir_bb_new: a block that is empty and jumps nowhere.                    *)
NewBb(c) ==
  [c EXCEPT !.cnt = @ + 1,
            !.je = @ @@ (c.cnt :> Null), !.next = @ @@ (c.cnt :> Null),
            !.exprs = @ @@ (c.cnt :> <<>>)]

EmplaceBack(c) == [NewBb(c) EXCEPT !.bbs = Append(@, c.cnt)]

Defined(c, first, last) == [c |-> c, first |-> first, last |-> last]

(* Evaluate expression e in block b.                                       *)
Evaluate(c, b, e) ==
  [c EXCEPT !.exprs[b] = Append(@, e), !.error = @ \/ Lower(e).c.error]

(* A block that does not know where to go goes to block b.                 *)
IsTerm(c, b) == c.je[b] = Null /\ c.next[b] = Null
Link(c, last, b) == IF IsTerm(c, last) THEN [c EXCEPT !.next[last] = b] ELSE c

PushScope(c, last) == [c EXCEPT !.scopes = <<last>> \o @]

PopScope(c) == [c EXCEPT !.scopes = Tail(@)]

RECURSIVE Define(_, _)

DefineIf(c, s) ==
  LET first == c.cnt
      last  == c.cnt + 1
      je    == Define(Evaluate(EmplaceBack(EmplaceBack(c)), first, s.cond), s.je)
      c1    == [Link(je.c, je.last, last) EXCEPT !.je[first] = je.first]
  IN  IF s.jz = <<>>
      THEN Defined([c1 EXCEPT !.next[first] = last], first, last)
      ELSE LET jz == Define(c1, s.jz[1])
           IN  Defined([Link(jz.c, jz.last, last) EXCEPT !.next[first] = jz.first], first, last)

DefineBlock(c, s) ==
  LET Then(prev, stmt) ==
        LET cur == Define(prev.c, stmt)
        IN  Defined(Link(cur.c, prev.last, cur.first), c.cnt, cur.last)
  IN  FoldLeft(Then, Defined(EmplaceBack(c), c.cnt, c.cnt), s.stmts)

DefineWhile(c, s) ==
  LET first == c.cnt
      last  == c.cnt + 1
      c1    == PushScope(EmplaceBack(EmplaceBack(c)), last)
      je    == Define(Evaluate(c1, first, s.cond), s.stmt)
      c2    == [Link(je.c, je.last, first) EXCEPT !.je[first] = je.first, !.next[first] = last]
  IN  Defined(PopScope(c2), first, last)

(* A mutant: until is taken for while.                                     *)
DoWhile(c, s, cond, first, last) == [c EXCEPT !.je[cond] = first, !.next[cond] = last]

(* The condition of a do statement repeats it or leaves it.                *)
DoJump(c, s, cond, first, last) ==
  IF s.positive THEN [c EXCEPT !.je[cond] = first, !.next[cond] = last]
                ELSE [c EXCEPT !.je[cond] = last, !.next[cond] = first]

DefineDo(c, s) ==
  LET last  == c.cnt
      child == Define(PushScope(EmplaceBack(c), last), s.stmt)
      cond  == child.c.cnt
      c1    == Evaluate(EmplaceBack(child.c), cond, s.cond)
      c2    == DoJump(c1, s, cond, child.first, last)
  IN  Defined(PopScope(Link(c2, child.last, cond)), child.first, last)

DefineBreak(c) ==
  LET c1 == EmplaceBack(c)
      c2 == IF c.scopes = <<>> THEN [c1 EXCEPT !.error = TRUE]
                               ELSE [c1 EXCEPT !.next[c.cnt] = Head(c.scopes)]
  IN  Defined(c2, c.cnt, c.cnt)

DefineStmtExpr(c, s) == Defined(Evaluate(EmplaceBack(c), c.cnt, s.e), c.cnt, c.cnt)

(* The block of returns is the first that is made, see below.              *)
LastBb == 0

DefineReturn(c, s) ==
  Defined([Evaluate(EmplaceBack(c), c.cnt, s.e) EXCEPT !.next[c.cnt] = LastBb], c.cnt, c.cnt)

Define(c, s) ==
  CASE s.kind = "if"     -> DefineIf(c, s)
    [] s.kind = "block"  -> DefineBlock(c, s)
    [] s.kind = "while"  -> DefineWhile(c, s)
    [] s.kind = "do"     -> DefineDo(c, s)
    [] s.kind = "break"  -> DefineBreak(c)
    [] s.kind = "expr"   -> DefineStmtExpr(c, s)
    [] s.kind = "return" -> DefineReturn(c, s)

(* A mutant: the last block comes first.                                   *)
FrontLast(c) == [c EXCEPT !.bbs = <<LastBb>> \o @]

PushLast(c) == [c EXCEPT !.bbs = Append(@, LastBb)]

(* mir_define_subroutine_defined: the body, a block, and the last block,   *)
(* which is made first and comes last in the list.                         *)
LowerSubroutine(body) ==
  LET c   == NewBb([cnt |-> 0, bbs |-> <<>>, je |-> <<>>, next |-> <<>>, exprs |-> <<>>,
                    scopes |-> <<>>, error |-> FALSE])
      seq == DefineBlock(c, body)
  IN  PushLast(Link(seq.c, seq.last, LastBb))

-----------------------------------------------------------------------------
(* How many blocks without a condition follow a block, at most n.          *)
RECURSIVE Unconditional(_, _, _)
Unconditional(c, b, n) ==
  IF n = 0 \/ c.je[b] # Null \/ c.next[b] = Null THEN 0
  ELSE 1 + Unconditional(c, c.next[b], n - 1)

(* A subroutine as the merging pass is given it. A block evaluates at most *)
(* one expression of the source.                                           *)
Nothing == [kind |-> "nothing"]
Subroutine(body) ==
  LET c == LowerSubroutine(body)
      B == DOMAIN c.je
  IN  [bbs |-> c.bbs, je |-> c.je, next |-> c.next,
       empty |-> [b \in B |-> c.exprs[b] = <<>>],
       expr |-> [b \in B |-> IF c.exprs[b] = <<>> THEN Nothing ELSE c.exprs[b][1]],
       rank |-> [b \in B |-> Unconditional(c, b, c.cnt)],
       error |-> c.error,
       body |-> body]
===========================================================================

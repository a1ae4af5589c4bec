---------------------------- MODULE Expressions ----------------------------
(* The expressions of the HIR (compiler/hir/node_expr.h) and what they     *)
(* mean: the value of each, and what evaluating it changes. This is the    *)
(* reference that lowered expressions are compared with; it knows places   *)
(* and values but neither temporaries nor references.                      *)
(*                                                                         *)
(* A state has the values of the variables, the arrays and objects, which  *)
(* are shared by those who hold them, and a log of calls and prints. A     *)
(* place can be assigned to: a variable, an element of an array or object, *)
(* a char of the string in a place, or a value on its own, which is lost.  *)
EXTENDS Integers, Sequences, SequencesExt

CONSTANTS
  Variables,   \* the names in scope that are variables
  Subroutines  \* and those that are subroutines

Id(x)           == [kind |-> "id", id |-> x]
Literal(v)      == [kind |-> "lit", value |-> v]
Unary(op, e)    == [kind |-> "unary", op |-> op, first |-> e]
Binary(op, e, f) == [kind |-> "binary", op |-> op, first |-> e, second |-> f]
Call(e, args)   == [kind |-> "call", callee |-> e, args |-> args]
Index(e, args)  == [kind |-> "index", indexed |-> e, args |-> args]
Builtin(op, args) == [kind |-> "builtin", op |-> op, args |-> args]

IsAssign(e) == e.kind = "binary" /\ e.op = "assign"
IsMember(e) == e.kind = "binary" /\ e.op = "member"
IsStep(e)   == e.kind = "unary" /\ e.op \in {"inc", "dec"}

Parts(e) ==
  CASE e.kind = "unary"   -> <<e.first>>
    [] e.kind = "binary"  -> <<e.first, e.second>>
    [] e.kind = "call"    -> Append(e.args, e.callee)
    [] e.kind = "index"   -> Append(e.args, e.indexed)
    [] e.kind = "builtin" -> e.args
    [] OTHER              -> <<>>

(* What can stand on the left of an assignment or behind ++ and --.        *)
Assignable(e) == e.kind \in {"id", "index"} \/ IsMember(e)

(* A string, with the numbers of its chars.                                *)
IsString(e) == e.kind = "lit" /\ e.value[1] = "string"

(* An expression that has no meaning.                                      *)
RECURSIVE Invalid(_)
Invalid(e) ==
  \/ e.kind = "id" /\ e.id \notin Variables \cup Subroutines
  \/ (IsAssign(e) \/ IsStep(e)) /\ ~Assignable(e.first)
  \/ IsMember(e) /\ ~IsString(e.second)
  \/ \E i \in DOMAIN Parts(e) : Invalid(Parts(e)[i])

-----------------------------------------------------------------------------
(* What the runtime does. An operation on plain values is a value made of  *)
(* it and of them; only stepping a number, which indices depend on, is     *)
(* carried out. What an operation is not made for gives an error, but of   *)
(* nothing comes nothing.                                                  *)
Error == <<"error">>
Void  == <<"void">>
Outside(v) == IF v = Void THEN Void ELSE Error

Compute(op, vs) ==
  IF op \notin {"inc", "dec"} THEN <<"result", op, vs>>
  ELSE IF vs[1][1] \in {"int", "char"}
       THEN <<vs[1][1], IF op = "inc" THEN vs[1][2] + 1 ELSE vs[1][2] - 1>>
       ELSE Outside(vs[1])

Variable(x)  == <<"variable", x>>
Alone(v)     == <<"alone", v>>
Nowhere(v)   == Alone(Outside(v))

(* The place of an element of a value.                                     *)
Element(heap, v, key) ==
  IF v[1] \in {"array", "object"} /\ key \in DOMAIN heap[v[2]] THEN <<"element", v[2], key>>
  ELSE Nowhere(v)

RECURSIVE Load(_, _)
Load(s, p) ==
  CASE p[1] \in {"variable", "tmp"} -> s.vals[p]
    [] p[1] = "element"  -> s.heap[p[2]][p[3]]
    [] p[1] = "char"     -> <<"char", Load(s, p[2])[2][p[3] + 1]>>
    [] p[1] = "alone"    -> p[2]

(* There is something to assign to; a char can only be replaced by one.    *)
Accepts(p, v) == p \notin {Alone(Error), Alone(Void)} /\ (p[1] = "char" => v[1] = "char")

RECURSIVE Store(_, _, _)
Store(s, p, v) ==
  CASE p[1] \in {"variable", "tmp"} -> [s EXCEPT !.vals[p] = v]
    [] p[1] = "element"  -> [s EXCEPT !.heap[p[2]][p[3]] = v]
    [] p[1] = "char"     -> Store(s, p[2], <<"string", [Load(s, p[2])[2] EXCEPT ![p[3] + 1] = v[2]]>>)
    [] p[1] = "alone"    -> s

(* The place that indices lead to from a place: from an array to another   *)
(* one, or to the char of a string.                                        *)
At(s, p, keys) ==
  LET v == Load(s, p)
      Into(q, key) == LET w == Load(s, q)
                      IN  IF w[1] = "array" THEN Element(s.heap, w, key) ELSE Nowhere(w)
  IN  IF v[1] = "string" /\ keys[1][1] = "int" THEN <<"char", p, keys[1][2]>>
      ELSE FoldLeft(Into, p, keys)

(* A subroutine: what it is called with is noted, and it changes what it   *)
(* is given first, if that is shared.                                      *)
Stepped(block) ==
  [key \in DOMAIN block |-> IF block[key][1] = "int" THEN Compute("inc", <<block[key]>>) ELSE block[key]]
Invoke(s, f, vs) ==
  LET noted == [s EXCEPT !.out = Append(@, <<f, vs>>)]
  IN CASE f[1] # "callable" -> [s |-> s, v |-> Error]
       [] f[1] = "callable" /\ vs = <<>> -> [s |-> noted, v |-> Void]
       [] f[1] = "callable" /\ vs # <<>> ->
            [s |-> IF vs[1][1] \in {"array", "object"} THEN [noted EXCEPT !.heap[vs[1][2]] = Stepped(@)]
                                                       ELSE noted,
             v |-> Last(vs)]

(* The array that make! gives holds nothing yet; it has two elements.      *)
Make(s) ==
  [s |-> [s EXCEPT !.heap = Append(@, [key \in {<<"int", 0>>, <<"int", 1>>} |-> Void])],
   v |-> <<"array", Len(s.heap) + 1>>]

RunBuiltin(s, op, vs) ==
  CASE op = "make"  -> Make(s)
    [] op = "print" -> [s |-> [s EXCEPT !.out = @ \o vs], v |-> Void]
    [] op \in {"cast", "type"} -> [s |-> s, v |-> Compute(op, vs)]

-----------------------------------------------------------------------------
(* The meaning of expressions: what they change, and the place that they   *)
(* stand for, where their value is. Operands are evaluated from left to    *)
(* right, but what is called or indexed after its arguments, and the left  *)
(* side of an assignment after the right one. A method gets its object.    *)
RECURSIVE Locate(_, _)

Eval(s, e) == LET at == Locate(s, e) IN [s |-> at.s, v |-> Load(at.s, at.p)]

EvalAll(s, es) ==
  LET Next(r, e) == LET now == Eval(r.s, e) IN [s |-> now.s, vs |-> Append(r.vs, now.v)]
  IN  FoldLeft(Next, [s |-> s, vs |-> <<>>], es)

Nameless(r) == [s |-> r.s, p |-> Alone(r.v)]

(* What is assigned is found where it was put, if it was not lost.         *)
IsLost(p) == p[1] = "alone" \/ (p[1] = "char" /\ p[2][1] = "alone")
LocateAssign(s, e) ==
  LET from == Eval(s, e.second)
      to   == Locate(from.s, e.first)
  IN CASE ~Accepts(to.p, from.v) -> [s |-> to.s, p |-> Alone(Error)]
       [] Accepts(to.p, from.v)  -> [s |-> Store(to.s, to.p, from.v),
                                     p |-> IF IsLost(to.p) THEN Alone(from.v) ELSE to.p]

LocateIndex(s, e) ==
  LET args    == EvalAll(s, e.args)
      indexed == Locate(args.s, e.indexed)
  IN  [s |-> indexed.s, p |-> At(indexed.s, indexed.p, args.vs)]

LocateMember(s, e) ==
  LET obj == Eval(s, e.first) IN [s |-> obj.s, p |-> Element(obj.s.heap, obj.v, e.second.value)]

LocateStep(s, e) ==
  LET at  == Locate(s, e.first)
      new == Compute(e.op, <<Load(at.s, at.p)>>)
  IN  [s |-> IF Accepts(at.p, new) THEN Store(at.s, at.p, new) ELSE at.s, p |-> Alone(new)]

LocateCall(s, e) ==
  LET args   == EvalAll(s, e.args)
      object == IF IsMember(e.callee) THEN <<e.callee.first>> ELSE <<>>
      objs   == EvalAll(args.s, object)
      callee == IF IsMember(e.callee)
                THEN [s |-> objs.s, v |-> Load(objs.s, Element(objs.s.heap, objs.vs[1], e.callee.second.value))]
                ELSE Eval(objs.s, e.callee)
  IN  Nameless(Invoke(callee.s, callee.v, objs.vs \o args.vs))

LocateId(s, e) ==
  [s |-> s, p |-> IF e.id \in Variables THEN Variable(e.id) ELSE Alone(<<"callable", e.id>>)]

LocateBuiltin(s, e) ==
  LET args == EvalAll(s, e.args) IN Nameless(RunBuiltin(args.s, e.op, args.vs))

LocateResult(s, e) ==
  LET parts == EvalAll(s, Parts(e)) IN [s |-> parts.s, p |-> Alone(Compute(e.op, parts.vs))]

Locate(s, e) ==
  CASE e.kind = "lit"     -> [s |-> s, p |-> Alone(e.value)]
    [] e.kind = "id"      -> LocateId(s, e)
    [] e.kind = "index"   -> LocateIndex(s, e)
    [] e.kind = "call"    -> LocateCall(s, e)
    [] e.kind = "builtin" -> LocateBuiltin(s, e)
    [] IsMember(e)        -> LocateMember(s, e)
    [] IsAssign(e)        -> LocateAssign(s, e)
    [] IsStep(e)          -> LocateStep(s, e)
    [] OTHER              -> LocateResult(s, e)

-----------------------------------------------------------------------------
(* The variables whose values an expression may change by naming them.     *)
RECURSIVE Roots(_), Changes(_)
Roots(e) ==
  CASE e.kind = "id"    -> {e.id}
    [] e.kind = "index" -> Roots(e.indexed)
    [] IsAssign(e)      -> Roots(e.first)
    [] OTHER            -> {}
Changes(e) ==
  UNION ({Changes(Parts(e)[i]) : i \in DOMAIN Parts(e)}
         \cup (IF IsAssign(e) \/ IsStep(e) THEN {Roots(e.first)} ELSE {}))

(* The variables that the value of an operand is still read from when the  *)
(* operand has been evaluated.                                             *)
RECURSIVE StandsFor(_)
StandsFor(e) ==
  CASE e.kind = "id" -> {e.id}
    [] IsAssign(e)   -> StandsFor(e.first)
    [] OTHER         -> {}

(* Operands in the order they are evaluated in.                            *)
Ordered(e) == IF IsAssign(e) THEN <<e.second, e.first>> ELSE Parts(e)

(* A variable is an operand, and an operand evaluated after it changes it. *)
RECURSIVE ReadsLate(_)
ReadsLate(e) ==
  LET parts == Ordered(e)
  IN  \/ \E i, j \in DOMAIN parts : i < j /\ StandsFor(parts[i]) \cap Changes(parts[j]) # {}
      \/ \E i \in DOMAIN parts : ReadsLate(parts[i])
=============================================================================

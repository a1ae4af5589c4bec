------------------------------ MODULE MCCodegen ------------------------------
(***************************************************************************)
(* Programs for the frames of the generated code: every kind of statement, *)
(* calls with as many arguments as fit into registers, one less and more,  *)
(* of a subroutine that hands the place of its result on.                  *)
(***************************************************************************)
EXTENDS CodegenProperties

Op(op, ret, args)       == [kind |-> "op", op |-> op, ret |-> ret, args |-> args]
OpCall(ret, args)       == [kind |-> "op_call", ret |-> ret, args |-> args]
CallOf(f, ret, args)    == [kind |-> "call", sub |-> f, ret |-> ret, args |-> args]
MemberOf(ret, obj, m)   == [kind |-> "member", op |-> "op_member", ret |-> ret, obj |-> obj, member |-> m]
CastTo(ret, x, type)    == [kind |-> "cast", ret |-> ret, args |-> <<x>>, type |-> type]
TypeOf(ret, x)          == [kind |-> "type", ret |-> ret, args |-> <<x>>]
NewArray(ret, sizes)    == [kind |-> "make_array", ret |-> ret, args |-> sizes, depth |-> Len(sizes)]
NewObject(ret, c)       == [kind |-> "make_object", ret |-> ret, class |-> c, args |-> <<>>]
PrintAll(xs)            == [kind |-> "print", ret |-> "nothing", args |-> xs]
Lit(ret, type, x)       == [kind |-> "assign_lit", ret |-> ret, type |-> type, lit |-> x]
Assign(ret, x)          == [kind |-> "assign_value", ret |-> ret, from |-> x]
AssignF(ret, f)         == [kind |-> "assign_sub", ret |-> ret, sub |-> f]

Term           == [kind |-> "term"]
NextBB(b)      == [kind |-> "next", next |-> b]
If(x, je, jz)  == [kind |-> "cond", cond |-> x, je |-> je, jz |-> jz]

\* In the source: main is in a file of its own; two statements make a line.  A condition
\* has a line, and so has the jump of a return.
FileOf(f)      == IF f = "main" THEN "main file" ELSE "other file"
LineAt(b, k)   == 10 * b + (k + 1) \div 2
DebugAt(f, b, k) == [file |-> FileOf(f), line |-> LineAt(b, k)]
Debugged(f, b, bb) ==
  [stmts |-> [k \in DOMAIN bb.stmts |-> bb.stmts[k] @@ [debug |-> DebugAt(f, b, k)]],
   jmp   |-> bb.jmp @@ [debug |-> IF bb.jmp.kind = "next" THEN <<>> ELSE <<DebugAt(f, b, Len(bb.stmts))>>]]
WithDebug(prog) ==
  [prog EXCEPT !.subs = [f \in DOMAIN prog.subs |->
     [prog.subs[f] EXCEPT !.bbs = [b \in DOMAIN @ |-> Debugged(f, b, @[b])]]]]
BB(stmts, jmp) == [stmts |-> stmts, jmp |-> jmp]

Sub(params, locals, tmps, bbs) ==
  [type |-> "int", ret |-> "r", params |-> params, vars |-> locals, tmps |-> tmps, bbs |-> bbs]
Alone(main) == [subs |-> [main |-> main], defined |-> <<"main">>, classes |-> <<>>, inits |-> <<>>,
                externs |-> <<>>]

P == <<"a", "b", "c", "d", "e", "f", "g">>
First(n) == SubSeq(P, 1, n)
Lits(n)  == [i \in 1..n |-> Lit(P[i], "int", P[i])]

\* Statements, with as many operands as need the stack.
Statements ==
  Alone(Sub(<<>>, P, <<"t">>,
    <<BB(Lits(6) \o <<Lit("g", "string", "s"), Op("op_add", "t", <<"a", "b">>), Assign("a", "t"),
         Op("greater", "b", <<"c", "d">>), Op("op_not", "c", <<"b">>), NewArray("d", <<"a", "b">>),
         NewArray("e", First(6)), Op("op_index", "t", <<"e", "a">>),
         Op("op_index", "f", <<"e">> \o First(5)), Op("op_index_ref", "t", <<"d">> \o First(4)),
         CastTo("a", "b", "char"), TypeOf("g", "a"), MemberOf("b", "a", "m"),
         PrintAll(<<"a", "b", "g">>), Assign("r", "f")>>, Term)>>))

\* f(n arguments) in main; its result comes from g, which swaps the first with the last.
Calls(n) ==
  [Alone(Sub(<<>>, First(n) \o <<"x", "y">>, <<"t">>,
             <<BB(Lits(n) \o <<CallOf("f", "x", First(n)), PrintAll(<<"x">>)>>, NextBB(2)),
               BB(<<Assign("y", "x"), Assign("r", "y")>>, Term)>>))
   EXCEPT !.subs = @ @@
            [f |-> Sub(First(n), <<"v">>, <<"t">>,
                       <<BB(<<Lit("v", "byte", "1"), CallOf("h", "r", Reverse(First(n)))>>, Term)>>),
             h |-> Sub(First(n), <<"v">>, <<>>,
                       <<BB((IF n = 0 THEN <<Lit("v", "int", "7")>>
                             ELSE <<Op("op_sub", "v", <<P[1], P[n]>>), Assign(P[1], "v")>>)
                            \o <<Assign("r", "v"), PrintAll(First(n))>>, Term)>>)],
          !.defined = <<"f", "main", "h">>]

\* The same, called as values.
ValueCalls(n) ==
  [Alone(Sub(<<>>, First(n) \o <<"x">>, <<"t">>,
             <<BB(Lits(n) \o <<AssignF("x", "f"), OpCall("t", <<"x">> \o First(n)), PrintAll(<<"t">>),
                               Assign("r", "t")>>, Term)>>))
   EXCEPT !.subs = @ @@
            [f |-> Sub(First(n), <<"v", "w">>, <<>>,
                       <<BB(<<AssignF("w", "h"), OpCall("v", <<"w">> \o Reverse(First(n))), Assign("r", "v")>>, Term)>>),
             h |-> Sub(First(n), <<>>, <<>>, <<BB(<<Lit("r", "int", "5"), PrintAll(First(n))>>, Term)>>)],
          !.defined = <<"main", "f", "h">>]

Types == <<"int", "byte", "bool", "uint", "long", "char", "string", "ulong">>
\* An external function with n parameters, and a branch on what it says.
Externs(n) ==
  [Alone(Sub(<<>>, First(n) \o <<"x", "y">>, <<>>,
             <<BB(Lits(n) \o <<CallOf("ext", "x", First(n))>>, If("x", 2, 3)),
               BB(<<Lit("y", "int", "1")>>, NextBB(4)),
               BB(<<CallOf("say", "x", <<"x">>)>>, NextBB(4)),
               BB(<<PrintAll(<<"x", "y">>), Assign("r", "y")>>, Term)>>))
   EXCEPT !.externs = [ext |-> [params |-> SubSeq(Types, 1, n), ret |-> "bool"],
                       say |-> [params |-> <<"bool">>, ret |-> "void"]]]

\* An object with n fields and two methods, one of which makes another object.
Objects(n) ==
  [Alone(Sub(<<>>, <<"o", "x">>, <<"t">>,
             <<BB(<<NewObject("o", "C"), MemberOf("t", "o", "h"), Lit("x", "int", "2"),
                    OpCall("x", <<"t", "o", "x">>), PrintAll(<<"x", "o">>), Assign("r", "x")>>, Term)>>))
   EXCEPT !.subs = @ @@
            [f |-> Sub(<<"this">>, <<"v">>, <<>>, <<BB(<<NewObject("v", "D"), Assign("r", "v")>>, Term)>>),
             h |-> Sub(<<"this", "x">>, <<"v">>, <<"t">>,
                       <<BB(<<MemberOf("t", "this", "f"), OpCall("v", <<"t", "this">>),
                              Assign("r", "x")>>, If("x", 3, 2)),
                         BB(<<PrintAll(<<"v">>)>>, Term), BB(<<>>, Term)>>)],
          !.classes = [C |-> [fields |-> [i \in 1..n |-> P[i]], methods |-> <<"f", "h">>],
                       D |-> [fields |-> <<"a">>, methods |-> <<"f">>]],
          !.inits = <<"C", "D">>]

AllPrograms ==
  [p \in {<<"statements">>} |-> Statements]
  @@ [p \in {<<"calls", n>> : n \in 0..7} |-> Calls(p[2])]
  @@ [p \in {<<"values", n>> : n \in {0, 5, 6, 7}} |-> ValueCalls(p[2])]
  @@ [p \in {<<"externs", n>> : n \in {0, 1, 5, 6, 7}} |-> Externs(p[2])]
  @@ [p \in {<<"objects", n>> : n \in 0..2} |-> Objects(p[2])]
MCPrograms == [p \in DOMAIN AllPrograms |-> WithDebug(AllPrograms[p])]
MCResults == {Raw("T"), Raw("F")}
===============================================================================

------------------------------ MODULE MCMirBuild -------------------------
(* All subroutines up to a certain size, and expressions of many shapes.   *)
EXTENDS MirProperties

CONSTANTS
  Depth,     \* how deep a single statement of a subroutine nests
  Width      \* how deep the statements of a subroutine of two nest

(* All results of Op on the members of sequences s and t.                  *)
Pairs(Op(_, _), s, t) ==
  [i \in 1 .. Len(s) * Len(t) |-> Op(s[1 + ((i - 1) \div Len(t))], t[1 + ((i - 1) % Len(t))])]

Map(Op(_), s) == [i \in DOMAIN s |-> Op(s[i])]

(* The statements of a depth; l numbers the expressions in them, which are *)
(* literals.                                                               *)
Lit(v) == L!Literal(v)
Num(n) == <<"int", n>>

RECURSIVE Stmts(_, _)
Stmts(d, l) ==
  LET e      == Lit(Num(l))
      simple == <<L!Expr(e), L!Return(e), L!Break>>
      s      == Stmts(d - 1, 2 * l)
      t      == Stmts(d - 1, 2 * l + 1)
  IN  IF d = 0 THEN simple
      ELSE simple \o <<L!Block(<<>>)>>
           \o Pairs(LAMBDA x, y : L!Block(<<x, y>>), s, t)
           \o Map(LAMBDA x : L!If(e, x), s)
           \o Pairs(LAMBDA x, y : L!IfElse(e, x, y), s, t)
           \o Map(LAMBDA x : L!While(e, x), s)
           \o Map(LAMBDA x : L!Do(e, x, TRUE), s)
           \o Map(LAMBDA x : L!Do(e, x, FALSE), s)

(* Two statements, alone and in loops.                                     *)
Two == Pairs(LAMBDA x, y : L!Block(<<x, y>>), Stmts(Width, 2), Stmts(Width, 3))

Bodies ==
  <<L!Block(<<>>)>>
  \o Map(LAMBDA x : L!Block(<<x>>),
         Stmts(Depth, 1) \o Map(LAMBDA x : L!While(Lit(Num(1)), x), Two)
                        \o Map(LAMBDA x : L!Do(Lit(Num(1)), x, TRUE), Two))
  \o Two

-----------------------------------------------------------------------------
(* Expressions over a variable of each kind and a subroutine f. An array   *)
(* holds a string and another array, an object a string, a method and an   *)
(* array, which may be the one that a variable holds. The name u is        *)
(* unknown. Strings are longer than any index gets: what is read behind    *)
(* the end of a string is undefined. Nothing void is assigned.             *)
A == L!Id("a")
S == L!Id("s")
N == L!Id("n")
O == L!Id("o")
C == L!Id("c")
F == L!Id("f")
U == L!Id("u")
Chars(n) == <<"string", <<n, n + 1, n + 2, n + 3, n + 4>>>>
Arr     == <<"string", <<1>>>>
Method  == <<"string", <<2>>>>
Text    == <<"string", <<3>>>>

Inc(e)      == L!Unary("inc", e)
Assign(e, f) == L!Binary("assign", e, f)
Dot(e, m)   == L!Binary("member", e, L!Literal(m))
At(e, f)    == L!Index(e, <<f>>)
Plus(e, f)  == L!Binary("add", e, f)

Indices == <<Lit(Num(0)), Lit(Num(1)), N, Inc(N), Assign(N, Lit(Num(1)))>>
Bases   == <<A, S, N, Dot(O, Arr), Dot(O, Text), L!Call(F, <<A>>), L!Call(C, <<N, S>>),
             Assign(A, Dot(O, Arr)), Assign(At(A, Lit(Num(1))), A), Assign(At(A, Lit(Num(0))), S),
             L!Builtin("make", <<Lit(Num(2))>>)>>
Simple  == <<A, S, N, O, C, F, U, Dot(O, Arr), Dot(O, Text), Dot(O, Method), Dot(A, Arr),
             Dot(At(A, Lit(Num(0))), Arr), L!Binary("member", O, N), Dot(Assign(N, O), Text)>>
Elements == Pairs(At, Bases, Indices)
Nested  == Pairs(At, Elements, <<Lit(Num(1)), N, Inc(N)>>)
           \o Pairs(LAMBDA b, i : L!Index(b, <<i, Inc(At(At(A, Lit(Num(1))), Lit(Num(0))))>>), Bases, Indices)
Few     == <<Lit(Num(5)), N, Inc(N), Assign(S, Lit(Chars(50)))>>
Operands == Few \o <<Lit(<<"char", 40>>), Lit(Chars(60)), A, At(A, N), Assign(N, Lit(Num(1))), L!Call(F, <<O>>)>>
CallOf(x, args) == L!Call(x, args)

Family ==
  Simple \o Elements \o Nested
  \o Map(Inc, Simple \o Elements \o Nested)
  \o Pairs(Assign, Simple \o Elements, Operands)
  \o Pairs(Assign, Nested, Few)
  \o Pairs(Plus, Operands, Operands)
  \o Pairs(Plus, Pairs(Assign, Simple, Operands), <<N, At(A, Lit(Num(1)))>>)
  \o Pairs(CallOf, <<F, C, U, Dot(O, Method), At(A, N)>>,
           Pairs(LAMBDA x, y : <<x, y>>, Operands, Operands))
  \o <<Inc(Inc(N)), Assign(Inc(N), Lit(Num(1))), Assign(Assign(N, Lit(Num(1))), N),
       Assign(S, Assign(N, S)), L!Builtin("print", <<N, Inc(N)>>), L!Builtin("cast", <<N>>),
       L!Unary("minus", Assign(At(A, N), N))>>

MCStarts ==
  {[vals |-> (L!Variable("a") :> <<"array", 1>>) @@ (L!Variable("s") :> Chars(20))
             @@ (L!Variable("n") :> Num(0)) @@ (L!Variable("o") :> <<"object", 3>>)
             @@ (L!Variable("c") :> <<"callable", "f">>),
    heap |-> <<(Num(0) :> Chars(30)) @@ (Num(1) :> <<"array", 2>>),
               (Num(0) :> Num(1)) @@ (Num(1) :> Chars(40)),
               (Arr :> shared) @@ (Method :> <<"callable", "f">>) @@ (Text :> Chars(50))>>,
    out |-> <<>>] : shared \in {<<"array", 1>>, <<"array", 2>>}}

MCNull == -1
MCSubs ==
  LET all == Bodies \o Map(LAMBDA e : L!Block(<<L!Expr(e)>>), Family)
  IN  {L!Subroutine(all[i]) : i \in DOMAIN all}
===========================================================================

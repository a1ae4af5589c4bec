---------------------------- MODULE Statements ----------------------------
(* The statements of a subroutine as the HIR has them (compiler/hir), and  *)
(* what they mean: a machine that executes them one after the other. What  *)
(* an expression does is left open, and a condition may turn out either    *)
(* way. The machine is the reference that compiled subroutines are         *)
(* compared with.                                                          *)
EXTENDS Integers, Sequences, SequencesExt

Expr(e)         == [kind |-> "expr", e |-> e]
Return(e)       == [kind |-> "return", e |-> e]
Break           == [kind |-> "break"]
Block(s)        == [kind |-> "block", stmts |-> s]
IfElse(e, s, t) == [kind |-> "if", cond |-> e, je |-> s, jz |-> <<t>>]
If(e, s)        == [kind |-> "if", cond |-> e, je |-> s, jz |-> <<>>]
While(e, s)     == [kind |-> "while", cond |-> e, stmt |-> s]
Do(e, s, p)     == [kind |-> "do", cond |-> e, stmt |-> s, positive |-> p]

(* What happens besides expressions: a condition holds or does not.        *)
Holds == [kind |-> "holds"]
Fails == [kind |-> "fails"]

(* A loop whose body is being executed.                                    *)
Inside(loop) == [kind |-> "inside", loop |-> loop]

(* break leaves the innermost loop.                                        *)
LeaveLoop(work) ==
  LET at == SelectInSeq(work, LAMBDA s : s.kind = "inside")
  IN  SubSeq(work, at + 1, Len(work))

(* Where a loop goes when its condition has turned out as o.               *)
Repeats(loop, o) == (o = Holds) = (loop.kind = "while" \/ loop.positive)

(* The steps of the machine: what it does, and the work left after it.     *)
StepsOf(work) ==
  LET s    == Head(work)
      rest == Tail(work)
      Test(e, Next(_)) == {[does |-> <<e, o>>, work |-> Next(o)] : o \in {Holds, Fails}}
      Looping(loop) ==
        Test(loop.cond, LAMBDA o : IF Repeats(loop, o) THEN <<loop.stmt, Inside(loop)>> \o rest
                                                       ELSE rest)
      Silent(w) == {[does |-> <<>>, work |-> w]}
  IN CASE s.kind = "expr"   -> {[does |-> <<s.e>>, work |-> rest]}
       [] s.kind = "return" -> {[does |-> <<s.e>>, work |-> <<>>]}
       [] s.kind = "break"  -> Silent(LeaveLoop(rest))
       [] s.kind = "block"  -> Silent(s.stmts \o rest)
       [] s.kind = "if"     -> Test(s.cond, LAMBDA o : IF o = Holds THEN <<s.je>> \o rest
                                                                    ELSE s.jz \o rest)
       [] s.kind = "while"  -> Looping(s)
       [] s.kind = "do"     -> Silent(<<s.stmt, Inside(s)>> \o rest)
       [] s.kind = "inside" -> IF s.loop.kind = "while" THEN Silent(<<s.loop>> \o rest)
                                                        ELSE Looping(s.loop)

(* Everything that can happen up to n expressions, conditions and          *)
(* outcomes; a shorter trace is one that has ended.                        *)
RECURSIVE StatementTraces(_, _)
StatementTraces(work, n) ==
  IF n <= 0 \/ work = <<>> THEN {<<>>}
  ELSE UNION {{SubSeq(step.does \o t, 1, Min({n, Len(step.does \o t)})) :
                  t \in StatementTraces(step.work, n - Len(step.does))}
                : step \in StepsOf(work)}

(* A break that no loop encloses, which the compiler refuses.              *)
RECURSIVE StrayBreak(_)
StrayBreak(s) ==
  CASE s.kind = "break" -> TRUE
    [] s.kind = "block" -> \E i \in DOMAIN s.stmts : StrayBreak(s.stmts[i])
    [] s.kind = "if"    -> StrayBreak(s.je) \/ \E i \in DOMAIN s.jz : StrayBreak(s.jz[i])
    [] OTHER            -> FALSE

(* A break is reached before any expression is evaluated.                  *)
RECURSIVE BreaksFirst(_)
BreaksFirst(work) ==
  /\ work # <<>>
  /\ \/ Head(work).kind = "break"
     \/ /\ Head(work).kind \in {"block", "do"}
        /\ \E step \in StepsOf(work) : BreaksFirst(step.work)
===========================================================================

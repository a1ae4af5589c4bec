----------------------------- MODULE MCDebugger -----------------------------
(* Small programs for the model checker.                                   *)
EXTENDS DebuggerProperties

I(op) == [op |-> op, to |-> 1]
J(op, to) == [op |-> op, to |-> to]

(* A loop around a call, and a shorter program that faults in the end.     *)
LoopCode ==
  [prog |-> <<J("call", 4), J("branch", 1), I("exit"), I("plain"), I("ret")>>,
   tiny |-> <<I("plain"), J("call", 4), I("crash"), I("ret"), I("unmapped")>>]

LoopLines == [prog |-> <<"l1", "none", "l2", "l3", "none">>,
              tiny |-> <<"l1", "l2", "none", "none", "none">>]

LoopEntry == [prog |-> 1, tiny |-> 1]

(* The same without the way back: every run of the program ends.           *)
StraightCode ==
  [prog |-> <<J("call", 4), J("branch", 3), I("exit"), I("plain"), I("ret")>>]

StraightLines == [prog |-> <<"l1", "l1", "l2", "l3", "none">>]

StraightEntry == [prog |-> 1]

(* A subroutine that may call itself.                                      *)
RecursiveCode ==
  [prog |-> <<J("call", 3), I("exit"), J("branch", 5), J("call", 3), I("ret")>>]

RecursiveLines == [prog |-> <<"l1", "l2", "none", "none", "none">>]

(* A program with an int3 of its own.                                      *)
TrapCode == [prog |-> <<I("plain"), I("int3"), I("exit")>>]

TrapLines == [prog |-> <<"l1", "l2", "none">>]

=============================================================================

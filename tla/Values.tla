-------------------------------- MODULE Values --------------------------------
(***************************************************************************)
(* The values of a compiled program, as terms that say how the runtime     *)
(* (x86_64_core) made them, and the words that stand for them in registers *)
(* and on the stack.                                                       *)
(***************************************************************************)
EXTENDS Integers, Sequences, SequencesExt

Raw(x)        == <<"raw", x>>
CodeAt(label) == <<"label", label>>

\* builtin/make.c
Made(type, word) == <<"made", type, word>>
Void             == Made("void", Raw("0"))
Array(sizes)     == <<"array", sizes>>
Object(symbols, defaults) == <<"object", symbols, defaults>>

\* op_drop leaves nothing of use.
Dropped == <<"dropped">>

\* builtin/unwrap.c
Unwrapped(v) == IF v[1] = "made" THEN v[3] ELSE <<"unwrapped", v>>
IsTrue(v)    == Unwrapped(v) = Raw("T")

\* The operation op in the table of owner, on args.
Done(op, owner, args) == <<"done", op, owner, args>>

\* proxy/value/object.c: members are found by their name.
Member(op, v, name) ==
  IF op = "op_member" /\ v[1] = "object" /\ name \in ToSet(v[2])
  THEN v[3][CHOOSE i \in DOMAIN v[2] : v[2][i] = name]
  ELSE Done(op, v, <<Raw(name)>>)
===============================================================================

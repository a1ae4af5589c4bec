----------------------------- MODULE Inspection -----------------------------
(***************************************************************************)
(* The debugger looks into a stopped process: print (cmd_print.c) and      *)
(* where (cmd_where.c).  They read the debug information of the executable *)
(* and have the process itself say what its values are: they call op_repr, *)
(* op_type and op_drop there.                                              *)
(***************************************************************************)
EXTENDS Processor, DebugInfo

VARIABLE dbg   \* ctx.debug, read when the executable is loaded

inspected == <<vars, dbg>>

\* ctx_tg_load
DebugLoaded == dbg = CtxDbgInit(DebugEmit(code))
InspectInit == Init /\ DebugLoaded

Stopped == Running /\ ~Is("label")
Base    == ToAddress(regs["rbp"])

\* What stands at the place of parameters or variables of the frame at base.
Shown(values, base) ==
  [i \in DOMAIN values |-> [name |-> StrById(dbg, values[i].debug_str_id),
                            val  |-> Value(base + values[i].offset)]]

\* cmd_print_param_var: all with the name are printed.
Printed(name) ==
  FlattenSeq([i \in DOMAIN SubByAddress(dbg, rip) |->
     LET sub == SubByAddress(dbg, rip)[i]
     IN  SelectSeq(Shown(sub.params \o sub.vars, Base), LAMBDA v : v.name = name)])

\* cmd_where_traverse: frames lead to each other, up to the one that rbp was 1 for or
\* that is of no subroutine.
Callers(base) ==
  LET from[b \in DOMAIN mem] ==
        IF Word(b)[1] # "address" \/ Word(b + 1)[1] # "return" \/ Word(b)[2] \notin DOMAIN mem THEN <<>>
        ELSE << [base |-> Word(b)[2], rip |-> Word(b + 1)[2]] >> \o from[Word(b)[2]]
  IN  IF base \in DOMAIN mem THEN from[base] ELSE <<>>
Traversed ==
  IF regs["rbp"] = Raw("1") THEN <<>> ELSE << [base |-> Base, rip |-> rip] >> \o Callers(Base)
Known(trace) ==
  LET i == SelectInSeq(trace, LAMBDA t : SubByAddress(dbg, t.rip) = <<>>)
  IN  IF i = 0 THEN trace ELSE SubSeq(trace, 1, i - 1)
ShownFrame(t) ==
  LET sub == SubByAddress(dbg, t.rip)[1]
  IN  [sub |-> StrById(dbg, sub.debug_str_id), params |-> Shown(sub.params, t.base)]
Where == [i \in DOMAIN Known(Traversed) |-> ShownFrame(Known(Traversed)[i])]

-------------------------------------------------------------------------------
\* cmd_print_value_data, cmd_print_value_type: the result lies below the stack, aligned,
\* and what the call needs below the result.  Registers are put back.
\* A mutant: no room is made for the result.
ResultOnTop == rsp - (rsp % 2)
ResultAt == (rsp - SizeOfValue) - ((rsp - SizeOfValue) % 2)
CallInside ==
  /\ mem' = [a \in {b \in DOMAIN mem : b >= ResultAt + SizeOfValue} |-> mem[a]]
  /\ UNCHANGED <<program, code, rip, rsp, regs, out, seen, dbg>>

IsValue(v) == v.val # Junk

CmdPrint ==
  /\ Stopped
  /\ \E i \in DOMAIN SubByAddress(dbg, rip) :
       LET sub == SubByAddress(dbg, rip)[i]
       IN  \E v \in ToSet(Shown(sub.params \o sub.vars, Base)) : IsValue(v)
  /\ CallInside

CmdWhere ==
  /\ Stopped
  /\ \E frame \in ToSet(Where) : \E v \in ToSet(frame.params) : IsValue(v)
  /\ CallInside

InspectNext == \/ Next /\ UNCHANGED dbg
               \/ CmdPrint
               \/ CmdWhere
InspectSpec == InspectInit /\ [][InspectNext]_inspected /\ WF_inspected(Next /\ UNCHANGED dbg)
===============================================================================

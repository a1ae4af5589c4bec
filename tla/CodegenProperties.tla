-------------------------- MODULE CodegenProperties --------------------------
(***************************************************************************)
(* What the generated code and its debug information promise.              *)
(***************************************************************************)
EXTENDS Inspection

Mir == INSTANCE MirMachine WITH frames <- seen.frames, out <- seen.out

\* The code does what the program says: from label to label the values of all
\* active subroutines, read where the generator put them, change as one statement
\* changes them, control goes where it leads, and what is printed and passed to
\* external functions is the same (inst_bb.c, inst_sub.c, inst_class.c).
RefinesMir == Mir!MirSpec

\* The stack pointer is where the generator believes it to be at every label: the
\* words that a statement reserves, pushes and pops are given back.
FrameSizeTrue ==
  Is("label") /\ IsPlace(Instr[2]) => rsp = ToAddress(regs["rbp"]) + 2 - Instr[3]

\* The stack is aligned to 16 bytes at every call.  It is not when one, three or five
\* arguments of an external function have been popped into registers, for that call
\* and for the one that makes its result (inst_bb.c:475, the stack is aligned with
\* them on it).
CallsAligned == Is("call") => rsp % 2 = 0 \/ OddForeignAt(Programs[program], code.text, rip)

\* A program without loops comes to its exit: no instruction uses a word that is not
\* what it needs, as the code that a callee was asked for and that is kept below
\* the arguments (inst_bb.c:366).
ProgramsEnd == <>(rip = 0)

-------------------------------------------------------------------------------
\* The debugger has stopped the process where a statement begins.
Here == Last(seen.frames).at
AtStatement ==
  Stopped /\ seen.frames # <<>> /\ Here[1] = "line" /\ AddressOf(code.text, Here) = rip
Statement == Programs[program].subs[Here[2]].bbs[Here[3]].stmts[Here[4]]

\* Where the process has stopped the debugger shows the file and the line of the
\* statement, and a breakpoint set for that file and line is at an address that it shows
\* the same line for (debug_emit.c:133 and 214: a file has an index among the files and
\* one among the strings, and the reader takes the one for the other).
LineShown ==
  AtStatement =>
    \E i \in DOMAIN LineByAddress(dbg, rip) :
      LET found  == LineByAddress(dbg, rip)[i]
          placed == LineBySource(dbg, found.file_id, found.line)[1]
      IN  /\ FileById(dbg, found.file_id) = Statement.debug.file
          /\ found.line = Statement.debug.line
          /\ LineByAddress(dbg, placed.address)[1] = placed

\* There print shows each parameter and variable of the subroutine, once, with the value
\* that the program has given it, and where shows the subroutines that are active with
\* the values of their parameters: in spite of the calls that earlier commands have made
\* in the process (cmd_print.c:127, cmd_where.c:38).
ValuesShown ==
  AtStatement =>
    LET subs == Programs[program].subs
        top  == subs[Here[2]]
        ShownAs(x, vals) == [name |-> x, val |-> vals[x]]
        ShownParams(frame) ==
          [j \in DOMAIN subs[frame.sub].params |-> ShownAs(subs[frame.sub].params[j], frame.vals)]
    IN  /\ \A x \in ToSet(top.params \o top.vars) : Printed(x) = << ShownAs(x, Last(seen.frames).vals) >>
        /\ Where = Reverse([i \in DOMAIN seen.frames |->
                              [sub |-> seen.frames[i].sub, params |-> ShownParams(seen.frames[i])]])
===============================================================================

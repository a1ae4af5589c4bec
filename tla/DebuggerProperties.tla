------------------------- MODULE DebuggerProperties -------------------------
(***************************************************************************)
(* What the debugger promises: invariants, action properties, liveness and *)
(* the refinement of Program.                                              *)
(***************************************************************************)
EXTENDS Debugger

Labels == {"idle", "wait", "siginfo", "stepi", "step", "replace", "cont", "ret",
           "load", "place", "nexti", "left", "line"}

CmdType == [fn : Command \cup {"none"}, n : Nat, i : Nat, j : Nat, rip : Nat,
            temp : Addr \cup {0}, curr : Lines, file : Image \cup {NoFile},
            cont : BOOLEAN, then : Labels]

HistType == [from : {"NO_TARGET", "NOT_RUNNING", "BRKPT", "TRAPPED"}, depth : Nat,
             done : Nat, tops : Nat, set : SUBSET Addr]

(* Every variable has the type of its declaration in the code; TARGET_ERROR *)
(* is never the state of the target (ctx_data.h).                          *)
TypeOK ==
  /\ TraceeTypeOK
  /\ s_debugger \in {"IDLE", "PROCESSING", "ERROR", "EXITING"}
  /\ s_target \in {"NO_TARGET", "NOT_RUNNING", "BRKPT", "TRAPPED"}
  /\ pid \in {0, 1}
  /\ fname \in Image \cup {NoFile}
  /\ breaks \in [Addr -> Breakpoint]
  /\ breaks_cnt \in Nat
  /\ line \in Lines
  /\ at \in Labels
  /\ cmd \in CmdType
  /\ b \in Addr \cup {0}
  /\ todo \in SUBSET Addr
  /\ res \in {"ok", "error"}
  /\ hist \in HistType

(* The breakpoint of a is in the text of the process that runs now: what   *)
(* cmd_run has not reached yet still describes the process before.         *)
InText(a) == breaks[a].is_placed /\ a \notin todo

(* The text of a live process is its file but for one int3 for each placed *)
(* breakpoint, and what the breakpoint has saved is what the file holds    *)
(* there: ctx_bp_place and ctx_bp_remove, whoever calls them and whatever  *)
(* has failed in between, never lose or corrupt an instruction.            *)
Transparent ==
  Alive =>
    \A a \in Addr :
      /\ mem[a] = IF InText(a) THEN Int3 ELSE Code[fname][a]
      /\ InText(a) => breaks[a].data = Code[fname][a]

(* Whenever the process runs freely, or the user may look, every           *)
(* breakpoint in the table is armed: the one that ctx_tg_stepi lifts to    *)
(* get past it is always put back, whichever way the step ends.            *)
NoLostBreakpoint ==
  (child = "running" \/ (at = "idle" /\ child = "stopped")) =>
    \A a \in Addr :
      IsSet(a) /\ Code[fname][a].op # "unmapped" => mem[a] = Int3

(* A debugger that believes in a running process has one to wait for: with *)
(* a pid of 0, the kill of ctx_tg_load and cmd_kill would signal the       *)
(* debugger's own process group, and waitpid would find nobody.            *)
NeverOwnGroup == (Running \/ at = "wait") => pid # 0 /\ child # "none"

(* Between commands s_target is right about the process, except that a     *)
(* process killed from outside is noticed only by the next wait; so "run"  *)
(* never forks a second process while the first is alive.                  *)
TargetStateHonest ==
  at = "idle" =>
    /\ child \in {"none", "stopped", "zombie"}
    /\ child = "stopped" => Running

(* "delete <id>" names at most one breakpoint, although nexti borrows the  *)
(* next id for its own breakpoint and gives it back.                       *)
IdsUnique ==
  \A a, c \in Addr :
    IsSet(a) => /\ breaks[a].id <= breaks_cnt
                /\ breaks[a].id = breaks[c].id => a = c

-----------------------------------------------------------------------------
(* The command fn returns in this step.                                    *)
Returns(fn) == cmd.fn = fn /\ at' = "idle"

(* ctx_tg_brkpt_fix has not yet undone the int3 the process has executed.  *)
Unfixed ==
  /\ signal = "kernel"
  /\ child = "pending" \/ (child = "stopped" /\ at = "siginfo")

(* The instruction that the program is at.                                 *)
Ip == IF Unfixed THEN rip - 1 ELSE rip

(* It completes: it does not fault and is no int3 of the program's own.    *)
Completes ==
  LET i == Fetch(Code[fname], Ip)
  IN  i.op # "int3" /\ ~Faults(i, stack)

(* A command that resumes the process from a breakpoint gets past it: it   *)
(* executes the instruction that the breakpoint hides, unless the process  *)
(* is dead or the instruction does not complete.                           *)
BreakpointNeverSticks ==
  [][\A fn \in {"continue", "stepi", "nexti"} :
       Returns(fn) /\ hist.from = "BRKPT" /\ child = "stopped" /\ Completes
         => hist.done > 0]_vars

(* nexti and next remove their own breakpoint when the process is still    *)
(* there: the table is what it was before the command.                     *)
TableRestored ==
  [][\A fn \in {"nexti", "next"} :
       Returns(fn) /\ child = "stopped" => {a \in Addr : IsSet(a)} = hist.set]_vars

(* "Step one instruction, but proceed through subroutine calls" (the       *)
(* description of nexti, <n> times): it executes no more than n            *)
(* instructions outside the subroutines it calls.                          *)
NextiBounded == cmd.fn = "nexti" => hist.tops <= cmd.n

(* "Step one instruction exactly" (the description of stepi).              *)
StepiExact ==
  [][Returns("stepi") /\ child = "stopped" /\ signal # "segv"
       => hist.done = cmd.n]_vars

-----------------------------------------------------------------------------
Undebugged == INSTANCE Program WITH
  file   <- fname,
  alive  <- Alive,
  ip     <- Ip,
  frames <- stack

(* Debugging changes nothing: with its breakpoints hidden, the debugged    *)
(* process takes only steps of the program that its file holds.            *)
RefinesProgram == Undebugged!Spec

(* Every command returns to the prompt.                                    *)
CommandReturns == (at # "idle") ~> (at = "idle")

-----------------------------------------------------------------------------
(* The inductive invariant behind the safety properties: where the         *)
(* debugger may be while the process is in each of its states, and which   *)
(* breakpoints are out of the text while it is there.                      *)

(* The process is stopped whenever the debugger is not waiting for it, and *)
(* the debugger knows that it runs, but for the first stop after fork.     *)
ProcessKnown ==
  /\ Alive => pid # 0
  /\ child # "none" => fname \in Image
  /\ Alive /\ at # "wait" => child = "stopped"
  /\ Alive /\ ~Running => at \in {"wait", "siginfo"} /\ cmd.then = "place"
  /\ s_target # "NO_TARGET" => fname \in Image
  /\ child = "pending" /\ cmd.then = "place" => signal # "segv"
  /\ Unfixed => rip > 0
  /\ ~Alive => rip = 0 /\ stack = <<>>

(* ctx_tg_wait has a process to wait for and returns to its caller; before *)
(* ctx_tg_load changes the file, the process is dead.                      *)
WaitsFor ==
  /\ at \in {"wait", "siginfo"} => cmd.then \in {"load", "place", "ret", "replace"}
  /\ at = "load" \/ (at = "wait" /\ cmd.then = "load") => ~Alive /\ cmd.file \in Image
  /\ at = "siginfo" => cmd.then # "load"
  /\ child = "running" => cmd.then = "ret"
  /\ child = "stepping" => cmd.then = "replace"
  /\ at = "nexti" => cmd.fn \in {"nexti", "next"}

(* A breakpoint out of the text is in the hands of ctx_tg_stepi (b) or of  *)
(* cmd_run (todo), and both are done with theirs when they return.         *)
Lifted ==
  /\ \A a \in Addr : breaks[a].is_placed => IsSet(a)
  /\ \A a \in todo : IsSet(a)
  /\ todo # {} => \/ at = "place"
                  \/ at \in {"wait", "siginfo"} /\ cmd.then = "place"
  /\ b # 0 => /\ IsSet(b)
              /\ \/ at \in {"step", "replace"}
                 \/ at \in {"wait", "siginfo"} /\ cmd.then = "replace"
  /\ Alive => \A a \in Addr :
       IsSet(a) /\ Code[fname][a].op # "unmapped" => InText(a) \/ a \in todo \/ a = b

(* nexti's own breakpoint has the last id handed out.                      *)
TempIsLast ==
  cmd.temp # 0 =>
    /\ breaks[cmd.temp].id = breaks_cnt
    /\ breaks_cnt > 0
    /\ cmd.fn \in {"nexti", "next"}
    /\ at \notin {"idle", "nexti", "left", "line", "load", "place"}
    /\ at \in {"wait", "siginfo"} => cmd.then \in {"ret", "replace"}

IInv ==
  /\ TypeOK
  /\ Transparent
  /\ NeverOwnGroup
  /\ ProcessKnown
  /\ WaitsFor
  /\ Lifted
  /\ IdsUnique
  /\ TempIsLast

-----------------------------------------------------------------------------
(* Three more, each inductive together with IInv.                          *)

(* While nexti and next run, the table is that of before and their own     *)
(* breakpoint. They leave it behind on errors, and those are told of dead  *)
(* processes only.                                                         *)
TableKept ==
  /\ at = "idle" => cmd.fn = "none" /\ res = "ok"
  /\ res = "error" => ~Alive
  /\ cmd.fn \in {"nexti", "next"} /\ Alive =>
       /\ {a \in Addr : IsSet(a)} = hist.set \cup ({cmd.temp} \ {0})
       /\ cmd.temp \notin hist.set

(* A command began at a breakpoint and nothing has been executed since.    *)
AtFirst ==
  /\ cmd.fn \in {"continue", "stepi", "nexti"}
  /\ hist.from = "BRKPT"
  /\ hist.done = 0
  /\ Alive

(* Then the debugger knows that the process is at a breakpoint and steps   *)
(* over no int3 but the program's own; once it has tried, it is the        *)
(* instruction that does not complete.                                     *)
PastBreakpoint ==
  AtFirst =>
    /\ s_target = "BRKPT"
    /\ child = "pending" => signal # "trap"
    /\ at = "siginfo" => signal = "kernel"
    /\ at = "step" \/ child = "stepping" => Fetch(mem, rip) = Fetch(Code[fname], rip)
    /\ at \notin {"nexti", "stepi", "step"} /\ child # "stepping" => ~Completes

(* The call that nexti found has been executed: the process is in the sub- *)
(* routine, or back behind the call, where there is a breakpoint.          *)
Called ==
  \/ Len(stack) > hist.depth /\ stack[hist.depth + 1] = cmd.rip + 1
  \/ Len(stack) = hist.depth /\ Ip = cmd.rip + 1

(* nexti 1: nothing is executed twice but in the subroutine called.        *)
NextiInv ==
  cmd.fn = "nexti" =>
    /\ cmd.n = 1
    /\ hist.tops <= 1
    /\ child = "running" \/ at = "cont" => cmd.cont
    /\ Alive /\ hist.tops = 0 => Ip = cmd.rip /\ Len(stack) = hist.depth
    /\ Alive /\ hist.tops = 1 =>
         /\ at \notin {"nexti", "stepi", "step"}
         /\ child # "stepping"
         /\ cmd.cont => Called
    /\ Alive /\ cmd.cont /\ at \notin {"nexti", "left"} =>
         /\ cmd.rip \in Addr /\ Code[fname][cmd.rip].op = "call"
         /\ cmd.rip + 1 \in Addr /\ IsSet(cmd.rip + 1)

=============================================================================

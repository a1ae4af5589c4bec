------------------------------- MODULE Tracee -------------------------------
(***************************************************************************)
(* The debugged process and the kernel's side of ptrace(2): what the calls *)
(* fork, ptrace, kill and waitpid of src/debugger/ctx rely on.  The        *)
(* process runs concurrently with the debugger between the call that       *)
(* resumes it and the stop that waitpid collects, and anyone may send it   *)
(* SIGKILL at any time.                                                    *)
(***************************************************************************)
EXTENDS Machine

CONSTANT OutsideKill  (* Whether someone else may send SIGKILL.            *)

ASSUME TraceeAssumption == OutsideKill \in BOOLEAN

VARIABLES
  child,   (* "none": no process or already waited for; "stopped": in      *)
           (* ptrace-stop; "pending": in a ptrace-stop that waitpid has    *)
           (* not collected; "stepping", "running": resumed by             *)
           (* PTRACE_SINGLESTEP, PTRACE_CONT; "zombie": ended, waitpid has *)
           (* not collected it.                                            *)
  signal,  (* Why it stopped last: "trap" is SIGTRAP, "kernel" is SIGTRAP  *)
           (* with si_code SI_KERNEL, "segv" is SIGSEGV.                   *)
  rip,     (* Its instruction pointer.                                     *)
  stack,   (* Its return addresses, innermost last.                        *)
  mem      (* Its text: an instruction for each address.                   *)

childVars == <<child, signal, rip, stack, mem>>

Alive == child \in {"stopped", "pending", "stepping", "running"}

TraceeTypeOK ==
  /\ child \in {"none", "stopped", "pending", "stepping", "running", "zombie"}
  /\ signal \in {"trap", "kernel", "segv"}
  /\ rip \in Nat
  /\ stack \in Seq(Nat)
  /\ mem \in [Addr -> Instr]

TraceeInit ==
  /\ child = "none"
  /\ signal = "trap"
  /\ rip = 0
  /\ stack = <<>>
  /\ mem = NoMemory

(* The process ends: what is left of it is an exit status.                 *)
Ends ==
  /\ child' = "zombie"
  /\ signal' = "trap"
  /\ rip' = 0
  /\ stack' = <<>>
  /\ mem' = NoMemory

(* fork, PTRACE_TRACEME and a successful execvp of f: a new process with a *)
(* fresh copy of f, stopped at its entry by the SIGTRAP of exec.           *)
ForkExec(f) ==
  /\ child' = "pending"
  /\ signal' = "trap"
  /\ rip' = Entry[f]
  /\ stack' = <<>>
  /\ mem' = Code[f]

(* It executes the instruction at rip.                                     *)
ChildGo ==
  /\ \E x \in Successors(Fetch(mem, rip), rip, stack) : rip' = x[1] /\ stack' = x[2]
  /\ child' = IF child = "stepping" THEN "pending" ELSE "running"
  /\ signal' = "trap"
  /\ UNCHANGED mem

(* It executes int3: the kernel stops it behind the instruction.           *)
ChildInt3 ==
  /\ Fetch(mem, rip).op = "int3"
  /\ rip' = rip + 1
  /\ child' = "pending"
  /\ signal' = "kernel"
  /\ UNCHANGED <<stack, mem>>

(* The instruction faults: the kernel stops it before it is killed.  The   *)
(* debugger resumes it without the signal, so it is never killed by it.    *)
ChildFault ==
  /\ Faults(Fetch(mem, rip), stack)
  /\ child' = "pending"
  /\ signal' = "segv"
  /\ UNCHANGED <<rip, stack, mem>>

ChildExit ==
  /\ Fetch(mem, rip).op = "exit"
  /\ Ends

ChildStep ==
  /\ child \in {"stepping", "running"}
  /\ ChildGo \/ ChildInt3 \/ ChildFault \/ ChildExit

(* SIGKILL from another process ends it in whatever state it is.           *)
ChildKilled ==
  /\ OutsideKill
  /\ Alive
  /\ Ends

=============================================================================

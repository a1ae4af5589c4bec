------------------------------ MODULE Machine ------------------------------
(***************************************************************************)
(* The programs the debugger works on, as far as the debugger can tell     *)
(* them apart: an image is a sequence of instructions, each of them one    *)
(* address long, and an instruction is what it does to the instruction     *)
(* pointer and to the return addresses on the stack.  The comment of       *)
(* ctx_tg_peekdata says that addresses are aligned to instructions, so an  *)
(* instruction stands for its first byte, the one a breakpoint replaces.   *)
(* The processor is not part of the repository: these definitions model    *)
(* what the code in src/debugger relies on.                                *)
(***************************************************************************)
EXTENDS Naturals, Sequences

CONSTANTS
  Image,     (* Executable files that "file" can load.                      *)
  MaxAddr,   (* Number of addresses.  Bounds the model.                     *)
  MaxDepth,  (* Return addresses that fit on the stack.  Bounds the model.  *)
  Code,      (* Code[f][a] is the instruction of file f at address a.       *)
  Entry      (* Entry[f] is the address at which file f starts.             *)

Addr == 1 .. MaxAddr

Op == {"plain", "branch", "call", "ret", "exit", "int3", "crash", "unmapped"}

Instr == [op : Op, to : Addr]

(* A call has an instruction after it, the one it returns to.              *)
ASSUME MachineAssumption ==
  /\ MaxAddr \in Nat \ {0}
  /\ MaxDepth \in Nat
  /\ Code \in [Image -> [Addr -> Instr]]
  /\ Entry \in [Image -> Addr]
  /\ \A f \in Image : Code[f][MaxAddr].op # "call"

Int3 == [op |-> "int3", to |-> 1]

Unmapped == [op |-> "unmapped", to |-> 1]

(* The memory of a process that is gone.                                   *)
NoMemory == [a \in Addr |-> Unmapped]

(* The instruction that memory m holds at r.                               *)
Fetch(m, r) == IF r \in Addr THEN m[r] ELSE Unmapped

Front(s) == SubSeq(s, 1, Len(s) - 1)

(* Where an instruction i at r can lead, with the return addresses s: the  *)
(* pairs <<next address, next stack>>.  None when i does not complete.     *)
Successors(i, r, s) ==
     {x \in {<<r + 1, s>>} : i.op \in {"plain", "branch"}}
\cup {x \in {<<i.to, s>>} : i.op = "branch"}
\cup {x \in {<<i.to, Append(s, r + 1)>>} : i.op = "call" /\ Len(s) < MaxDepth}
\cup {<<s[n], Front(s)>> : n \in {k \in {Len(s)} : i.op = "ret" /\ k > 0}}

(* The instruction makes the processor fault instead (SIGSEGV).            *)
Faults(i, s) ==
  \/ i.op \in {"crash", "unmapped"}
  \/ i.op = "call" /\ Len(s) >= MaxDepth
  \/ i.op = "ret" /\ Len(s) = 0

=============================================================================

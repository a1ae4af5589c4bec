------------------------------ MODULE Processor ------------------------------
(***************************************************************************)
(* The generated code, executed: registers, the stack, and calls of the    *)
(* runtime, which leave behind what the calling convention lets them.      *)
(*                                                                         *)
(* An address counts words; 0 is even, it is the one above the return      *)
(* address of main.  A value takes three words.                            *)
(***************************************************************************)
EXTENDS Codegen, Values

CONSTANTS
  Programs,       \* programs by their names
  ExternResults   \* what external functions may return

ASSUME ProgramsAssumption == \A name \in DOMAIN Programs : IsProgram(Programs[name])

VARIABLES
  program,   \* the name of the one that runs
  code,      \* what was generated for it
  rip, rsp,
  regs,      \* the other registers, and the flag of test
  mem,       \* words by address, where there are any
  out,       \* what was printed, calls of external functions, the exit
  seen       \* frames and output when the last label was passed

vars == <<program, code, rip, rsp, regs, mem, out, seen>>

Target(label) == CHOOSE i \in DOMAIN code.text : code.text[i][1] = "label" /\ code.text[i][2] = label
IsNoted(label) == \E i \in DOMAIN code.text : code.text[i][1] = "label" /\ code.text[i][2] = label
\* A call leads to the beginning of a subroutine or of the initialisation of a class.
HasCode(label) == label[1] \in {"sub", "init"} /\ IsNoted(label)

\* The assembler finds each label that is jumped to, and the linker finds main.
Assembled ==
  /\ \A i \in DOMAIN code.text : code.text[i][1] \in {"jmp", "jnz"} => IsNoted(code.text[i][2])
  /\ IsNoted(<<"sub", "main">>)

Running == rip # 0
Instr   == code.text[rip]

-------------------------------------------------------------------------------
Junk       == <<"junk">>
Address(n) == <<"address", n>>
Nowhere    == 1000
ToAddress(word) == IF word[1] = "address" THEN word[2] ELSE Nowhere

Word(a)  == IF a \in DOMAIN mem THEN mem[a] ELSE Junk
Value(a) == IF /\ \A i \in 0..2 : Word(a + i)[1] = "part"
               /\ \A i \in 0..2 : Word(a + i) = <<"part", i, Word(a)[3]>>
            THEN Word(a)[3] ELSE Junk
Written(a, v) ==
  [i \in DOMAIN mem \cup a..(a + 2) |-> IF i \in a..(a + 2) THEN <<"part", i - a, v>> ELSE mem[i]]

Register(r) == IF r = "rsp" THEN Address(rsp) ELSE regs[r]
At1(operand) == ToAddress(Register(operand[3])) + operand[2]

\* The table of operations is pointed to by the second word of a value.
Loaded(operand) ==
  CASE operand[1] = "reg" -> Register(operand[2])
    [] operand[1] = "imm" -> Raw(operand[2])
    [] operand[1] = "mem" -> Word(At1(operand))
    [] operand[1] = "sym" -> CodeAt(operand[2])
    [] operand[1] = "op"  -> LET table == Register(operand[3])
                             IN  IF table[1] = "part" /\ table[2] = 1
                                 THEN <<"entry", operand[2], table[3]>> ELSE Junk
Effective(operand) == IF operand[1] = "mem" THEN Address(At1(operand)) ELSE CodeAt(operand[2])

Stored(operand, word) ==
  CASE operand[1] = "mem" ->
         /\ mem' = Extended(mem, At1(operand), word)
         /\ UNCHANGED <<regs, rsp>>
    [] operand[1] = "reg" /\ operand[2] = "rsp" ->
         /\ rsp' = ToAddress(word)
         /\ UNCHANGED <<regs, mem>>
    [] operand[1] = "reg" /\ operand[2] # "rsp" ->
         /\ regs' = [regs EXCEPT ![operand[2]] = word]
         /\ UNCHANGED <<mem, rsp>>

Is(name) == Running /\ Instr[1] = name

-------------------------------------------------------------------------------
Move ==
  /\ \/ Is("mov") /\ Stored(Instr[3], Loaded(Instr[2]))
     \/ Is("lea") /\ Stored(Instr[3], Effective(Instr[2]))
  /\ rip' = rip + 1
  /\ UNCHANGED <<program, code, out, seen>>

Push ==
  /\ Is("push")
  /\ rsp' = rsp - 1
  /\ mem' = Extended(mem, rsp - 1, Loaded(Instr[2]))
  /\ rip' = rip + 1
  /\ UNCHANGED <<program, code, regs, out, seen>>

Pop ==
  /\ Is("pop")
  /\ regs' = [regs EXCEPT ![Instr[2][2]] = Word(rsp)]
  /\ rsp' = rsp + 1
  /\ rip' = rip + 1
  /\ UNCHANGED <<program, code, mem, out, seen>>

MoveStack ==
  /\ \/ Is("sub") /\ rsp' = rsp - Instr[2]
     \/ Is("add") /\ rsp' = rsp + Instr[2]
  /\ rip' = rip + 1
  /\ UNCHANGED <<program, code, regs, mem, out, seen>>

Jump ==
  /\ \/ Is("jmp") /\ rip' = Target(Instr[2])
     \/ Is("jnz") /\ rip' = IF regs["flag"] = Raw("T") THEN Target(Instr[2]) ELSE rip + 1
  /\ UNCHANGED <<program, code, rsp, regs, mem, out, seen>>

Test ==
  /\ Is("test")
  /\ regs' = [regs EXCEPT !["flag"] = regs["rax"]]
  /\ rip' = rip + 1
  /\ UNCHANGED <<program, code, rsp, mem, out, seen>>

Called == Loaded(Instr[2])

CallSub ==
  /\ Is("call") /\ Called[1] = "label" /\ HasCode(Called[2])
  /\ rsp' = rsp - 1
  /\ mem' = Extended(mem, rsp - 1, <<"return", rip + 1>>)
  /\ rip' = Target(Called[2])
  /\ UNCHANGED <<program, code, regs, out, seen>>

Ret ==
  /\ Is("ret") /\ Word(rsp)[1] = "return"
  /\ rip' = Word(rsp)[2]
  /\ rsp' = rsp + 1
  /\ UNCHANGED <<program, code, regs, mem, out, seen>>

-------------------------------------------------------------------------------
\* Calls of the runtime.  Only rbp, rsp and the stack above rsp are as before.

Arg(i)   == IF i <= 6 THEN regs[ArgRegs[i]] ELSE Word(rsp + i - 7)
Given(i) == Value(ToAddress(Arg(i)))
GivenTo(n) == [i \in 1..(n - 1) |-> Given(i + 1)]   \* behind the result

\* The arguments behind the result, up to the null.
Listed ==
  LET nulls == {i \in 2..9 : Arg(i) = Raw("0")}
  IN  IF nulls = {} THEN Junk ELSE GivenTo((CHOOSE i \in nulls : \A j \in nulls : i <= j) - 1)

Finished(rax, memory) ==
  /\ regs' = [r \in DOMAIN regs |-> IF r = "rbp" THEN regs[r] ELSE IF r = "rax" THEN rax ELSE Junk]
  /\ mem' = [a \in {b \in DOMAIN memory : b >= rsp} |-> memory[a]]
  /\ rip' = rip + 1
  /\ UNCHANGED <<program, code, rsp, seen>>
Returns(rax) == Finished(rax, mem)
Writes(v)    == Finished(Junk, Written(ToAddress(Arg(1)), v))

IsRuntime(f) == Is("call") /\ Called[1] = "label" /\ Called[2][1] = "runtime" /\ Called[2][2][1] = f
RuntimeType  == Called[2][2][2]

\* builtin/make.c
Make ==
  /\ \/ IsRuntime("make") /\ Writes(IF RuntimeType = "void" THEN Void ELSE Made(RuntimeType, Arg(2)))
     \/ IsRuntime("make_array") /\ Writes(Array(Listed))
     \/ /\ IsRuntime("make_object_setup")
        /\ Writes(Object(Arg(2)[2][2],
                         [i \in DOMAIN Arg(2)[2][2] |-> Value(ToAddress(Arg(3)) + SizeOfValue * (i - 1))]))
  /\ UNCHANGED out

\* builtin/unwrap.c
Unwrap ==
  /\ \/ IsRuntime("unwrap") /\ Returns(Unwrapped(Given(1)))
     \/ IsRuntime("flush") /\ Returns(Junk)
  /\ UNCHANGED out

\* builtin/print.c
PrintCalled ==
  /\ IsRuntime("print") /\ Returns(Junk)
  /\ out' = Append(out, <<"print", Given(1)>>)

\* The operations of a value, op_tbl in value.h
OpResult(op, owner) ==
  CASE op = "op_copy"   -> IF owner = Given(2) THEN owner ELSE Junk
    [] op = "op_assign" -> IF owner = Given(1) THEN Given(2) ELSE Junk
    [] op = "op_drop"   -> IF owner = Given(1) THEN Dropped ELSE Junk
    [] op = "op_cast"   -> Done(op, owner, <<Given(2), Arg(3)>>)
    [] op = "op_type"   -> Done(op, owner, GivenTo(2))
    [] op \in {"op_member", "op_member_ref"} -> IF owner = Given(2) THEN Member(op, owner, Arg(3)[2][2]) ELSE Junk
    [] op \in UnaryOps  -> Done(op, owner, GivenTo(2))
    [] op \in BinaryOps -> Done(op, owner, GivenTo(3))
    [] op \in IndexOps  -> Done(op, owner, Listed)
CallOp ==
  /\ Is("call") /\ Called[1] = "entry"
  /\ IF Called[2] = "op_call" THEN Returns(Unwrapped(Given(1)))
                              ELSE Writes(OpResult(Called[2], Called[3]))
  /\ UNCHANGED out

CallForeign ==
  /\ Is("call") /\ Called[1] = "label" /\ Called[2][1] = "extern"
  /\ \E r \in ExternResults :
       /\ Returns(r)
       /\ out' = Append(out, <<"extern", Called[2][2],
                              [i \in DOMAIN Programs[program].externs[Called[2][2]].params |-> Arg(i)], r>>)

ExitCall ==
  /\ Is("syscall") /\ regs["rax"] = Raw("60")
  /\ out' = Append(out, <<"exit", regs["rdi"]>>)
  /\ rip' = 0
  /\ seen' = [frames |-> <<>>, out |-> out']
  /\ UNCHANGED <<program, code, rsp, regs, mem>>

-------------------------------------------------------------------------------
\* What is seen at a label: the values of the active subroutines, where the generator
\* put them.  Their frames are linked by the words that rbp points to.

IsPlace(label) == \/ label[1] \in {"bb", "line"}
                  \/ label[1] = "at" /\ label[3] # "copy"
IsInit(label)  == label[1] = "at" /\ label[3] = "init"

Kept == IF seen.frames # <<>> /\ Last(seen.frames).at = At(Last(seen.frames).sub, "epilogue")
        THEN Front(seen.frames) ELSE seen.frames
Active(label) ==
  IF IsInit(label) THEN Append(Kept, [sub |-> label[2], at |-> label, vals |-> <<>>])
  ELSE [Kept EXCEPT ![Len(Kept)].at = label]

Bases(count) == LET base[i \in 1..count] == IF i = count THEN ToAddress(regs["rbp"])
                                            ELSE ToAddress(Word(base[i + 1]))
                IN  base
SlotsOf(f, at) == {x \in DOMAIN code.metas[f] :
                     /\ code.metas[f][x].kind = "slot"
                     /\ IsInit(at) => x \in ToSet(Programs[program].subs[f].params)}
Read(active, bases) ==
  [i \in DOMAIN active |->
     [active[i] EXCEPT !.vals = [x \in SlotsOf(active[i].sub, active[i].at) |->
                                  Value(bases[i] + code.metas[active[i].sub][x].offset)]]]

PassLabel ==
  /\ Is("label")
  /\ IF IsPlace(Instr[2])
     THEN \E active \in {Active(Instr[2])} :
            seen' = [frames |-> Read(active, Bases(Len(active))), out |-> out]
     ELSE UNCHANGED seen
  /\ rip' = rip + 1
  /\ UNCHANGED <<program, code, rsp, regs, mem, out>>

-------------------------------------------------------------------------------
\* Programs that cannot be compiled do not run.  The C library calls main with 1 in rbp.
Init ==
  /\ program \in DOMAIN Programs
  /\ code = CgInst(Programs[program])
  /\ code.exceptions = {}
  /\ Assembled
  /\ rip = Target(<<"sub", "main">>)
  /\ rsp = -1
  /\ regs = [r \in ToSet(ArgRegs) \cup {"rax", "rbp", "flag"} |-> IF r = "rbp" THEN Raw("1") ELSE Junk]
  /\ mem = [a \in {-1} |-> <<"return", 0>>]
  /\ out = <<>>
  /\ seen = [frames |-> <<>>, out |-> <<>>]

Next == \/ Move \/ Push \/ Pop \/ MoveStack \/ Jump \/ Test \/ CallSub \/ Ret
        \/ Make \/ Unwrap \/ PrintCalled \/ CallOp \/ CallForeign \/ ExitCall \/ PassLabel

Spec == Init /\ [][Next]_vars
===============================================================================

------------------------------- MODULE Codegen -------------------------------
(***************************************************************************)
(* codegen/x86_64_build/inst: instructions for the blocks of a program.    *)
(*                                                                         *)
(* ctx is cg_ctx: the code so far, frame_size, which counts the words of   *)
(* 8 bytes from the return address to the top of the stack, and where each *)
(* value of the subroutine is (map_value_meta).  A value has three words.  *)
(* All sizes and offsets of the code are multiples of 8 bytes.             *)
(*                                                                         *)
(* A label is a tuple that says what it is the name of; in the code it is  *)
(* noted with the frame size.  An instruction has its source before its    *)
(* destination, as in the emitted text.                                    *)
(***************************************************************************)
EXTENDS Integers, Sequences, SequencesExt, FiniteSets, TLC

\* A left fold that has each result before it goes on: contexts are passed through
\* hundreds of operators.
Through(op(_, _), base, seq) ==
  LET result[i \in 0..Len(seq)] ==
        IF i = 0 THEN base ELSE CHOOSE r \in {op(ctx, seq[i]) : ctx \in {result[i - 1]}} : TRUE
  IN  result[Len(seq)]

\* f with y at x, which may be new to it.
Extended(f, x, y) == [z \in DOMAIN f \cup {x} |-> IF z = x THEN y ELSE f[z]]

SizeOfValue == 3

Reg(r)     == <<"reg", r>>
Imm(x)     == <<"imm", x>>
Mem(at, r) == <<"mem", at, r>>     \* base and immediate
Entry(op)  == <<"op", op, "rax">>  \* an operation in the table that rax points to
Sym(label) == <<"sym", label>>

Runtime(f) == Sym(<<"runtime", f>>)
SubSym(f)  == Sym(<<"sub", f>>)

Slot(offset) == [kind |-> "slot", offset |-> offset]
Ptr(offset)  == [kind |-> "ptr", offset |-> offset]
Null         == [kind |-> "null"]

\* cg_aligned: to 16 bytes.
Aligned(size) == ((size - 1) \div 2 + 1) * 2

EmitAll(ctx, instrs) == [ctx EXCEPT !.text = @ \o instrs]
Emit(ctx, instr) == EmitAll(ctx, <<instr>>)
Pushq(ctx, from) == [Emit(ctx, <<"push", from>>) EXCEPT !.frame_size = @ + 1]
Label(ctx, label) == Emit(ctx, <<"label", label, ctx.frame_size>>)
CgError(ctx, kind) == [ctx EXCEPT !.exceptions = @ \cup {kind}]

Lowered(ctx, by) == [Emit(ctx, <<"sub", by>>) EXCEPT !.frame_size = @ + by]
Reserve(ctx, size) == IF size = ctx.frame_size THEN ctx ELSE Lowered(ctx, size - ctx.frame_size)

\* cg_inst_frame_restore
\* A mutant: the stack is not given back.
KeepFrame(ctx, size) == [ctx EXCEPT !.frame_size = size]
FrameRestore(ctx, size) ==
  IF size = ctx.frame_size THEN ctx
  ELSE [Emit(ctx, <<"add", ctx.frame_size - size>>) EXCEPT !.frame_size = size]

RbpOffset(ctx) == 2 - ctx.frame_size

\* cg_ctx_value_meta_emplace replaces what was there.
MetaEmplace(ctx, value, meta) == [ctx EXCEPT !.meta = Extended(@, value, meta)]
Metas(ctx, values) == [i \in DOMAIN values |-> ctx.meta[values[i]]]

-------------------------------------------------------------------------------
\* Arguments

ArgRegs == <<"rdi", "rsi", "rdx", "rcx", "r8", "r9">>

\* A value in a slot is referred to by its address; a pointer is one.
ValueReg(meta, reg) ==
  <<IF meta.kind = "slot" THEN "lea" ELSE "mov",
    IF meta.kind = "null" THEN Imm("0") ELSE Mem(meta.offset, "rbp"),
    Reg(reg)>>

ValuePush(ctx, meta) ==
  IF meta.kind = "slot" THEN Pushq(Emit(ctx, ValueReg(meta, "rax")), Reg("rax"))
  ELSE Pushq(ctx, ValueReg(meta, "rax")[2])

\* cg_inst_call_pass_values: the stack is aligned behind the arguments that are pushed.
Pushed(count) == IF count > 6 THEN count - 6 ELSE 0
\* A mutant: it is aligned before they are.
PaddedBefore(ctx, count) == Reserve(ctx, Aligned(ctx.frame_size))
Padded(ctx, count) ==
  Reserve(ctx, Aligned(ctx.frame_size + Pushed(count)) - Pushed(count))

PassValue(ctx, arg) ==
  IF arg.i <= 6 THEN Emit(ctx, ValueReg(arg.meta, ArgRegs[arg.i])) ELSE ValuePush(ctx, arg.meta)
Args(metas) == Reverse([i \in DOMAIN metas |-> [i |-> i, meta |-> metas[i]]])
PassValues(ctx, metas) == Through(PassValue, Padded(ctx, Len(metas)), Args(metas))

\* cg_inst_call_op_tbl: the second word of a value points to its operations.
OpTblInstrs(meta) ==
  IF meta.kind = "ptr"
  THEN << <<"mov", Mem(meta.offset, "rbp"), Reg("rax")>>, <<"mov", Mem(1, "rax"), Reg("rax")>> >>
  ELSE << <<"mov", Mem(meta.offset + 1, "rbp"), Reg("rax")>> >>
CallOpTbl(ctx, meta, op) ==
  EmitAll(ctx, OpTblInstrs(meta) \o << <<"mov", Entry(op), Reg("rax")>>, <<"call", Reg("rax")>> >>)

-------------------------------------------------------------------------------
\* Statements: mir_stmt

UnaryOps  == {"op_plus", "op_minus", "op_not", "op_bit_not", "op_inc", "op_dec", "op_deref"}
IndexOps  == {"op_index", "op_index_ref"}
BinaryOps == {"op_or", "op_and", "op_bit_or", "op_bit_xor", "op_bit_and", "op_eq", "op_neq",
              "op_less", "op_less_eq", "op_bit_shl", "op_bit_shr", "op_add", "op_sub", "op_mul",
              "op_div", "op_rem"}

\* cg_inst_stmt_op.  > is the left operand's < with the operands swapped.
Operation(op) == CASE op = "greater" -> "op_less"
                   [] op = "greater_eq" -> "op_less_eq"
                   [] OTHER -> op
OpValues(ctx, s) ==
  <<ctx.meta[s.ret]>> \o (IF s.op \in {"greater", "greater_eq"} THEN Reverse(Metas(ctx, s.args))
                          ELSE Metas(ctx, s.args))
    \o (IF s.op \in IndexOps THEN <<Null>> ELSE <<>>)
StmtOp(ctx, s) ==
  FrameRestore(CallOpTbl(PassValues(ctx, OpValues(ctx, s)), ctx.meta[s.args[1]], Operation(s.op)),
               ctx.frame_size)

\* A call of a value: its code is asked for and kept on the stack below the arguments.
\* A mutant: the code is looked for on the top.
CallTop(ctx, depth) == EmitAll(ctx, << <<"mov", Mem(0, "rsp"), Reg("rax")>>, <<"call", Reg("rax")>> >>)
CallBelow(ctx, depth) ==
  EmitAll(ctx, << <<"mov", Mem(depth, "rsp"), Reg("rax")>>, <<"call", Reg("rax")>> >>)
PassAfter(found, metas) ==
  LET passed == PassValues(found, metas)
  IN  CallBelow(passed, passed.frame_size - found.frame_size)
CodeOf(ctx, meta) ==
  Pushq(CallOpTbl(PassValues(ctx, <<meta>>), meta, "op_call"), Reg("rax"))
StmtOpCall(ctx, s) ==
  FrameRestore(PassAfter(CodeOf(ctx, ctx.meta[s.args[1]]), Metas(ctx, <<s.ret>> \o Tail(s.args))),
               ctx.frame_size)

\* cg_inst_stmt_call_native
StmtCallNative(ctx, s) ==
  FrameRestore(Emit(PassValues(ctx, Metas(ctx, <<s.ret>> \o s.args)), <<"call", SubSym(s.sub)>>),
               ctx.frame_size)

\* cg_inst_sub_extern_check_param, cg_inst_sub_extern_check_ret
ExternParams == {"bool", "byte", "int", "uint", "long", "ulong", "char", "string"}
ExternRets   == ExternParams \cup {"void"}
ExternOk(extern) == ToSet(extern.params) \subseteq ExternParams /\ extern.ret \in ExternRets

\* cg_inst_stmt_call_extern: unwrapped arguments are put on the stack, six of them are
\* popped into registers.
UnwrapArg(ctx, arg) ==
  EmitAll(ctx, <<ValueReg(arg.meta, "rdi"), <<"call", Runtime(<<"unwrap", arg.type>>)>>,
                 <<"mov", Reg("rax"), Mem(arg.i - 1, "rsp")>> >>)
UnwrapArgs(ctx, metas, types) ==
  Through(UnwrapArg, ctx, [i \in DOMAIN metas |-> [i |-> i, meta |-> metas[i], type |-> types[i]]])
PopArg(ctx, reg) == [Emit(ctx, <<"pop", Reg(reg)>>) EXCEPT !.frame_size = @ - 1]
PopArgs(ctx, count) == Through(PopArg, ctx, SubSeq(ArgRegs, 1, IF count < 6 THEN count ELSE 6))
MakeResult(ctx, meta, type) ==
  EmitAll(ctx, <<ValueReg(meta, "rdi")>>
               \o (IF type = "void" THEN <<>> ELSE << <<"mov", Reg("rax"), Reg("rsi")>> >>)
               \o << <<"call", Runtime(<<"make", type>>)>> >>)
CallExtern(ctx, s, extern) ==
  MakeResult(Emit(PopArgs(UnwrapArgs(Reserve(ctx, Aligned(ctx.frame_size + Len(s.args))),
                                     Metas(ctx, s.args), extern.params), Len(s.args)),
                  <<"call", Sym(<<"extern", s.sub>>)>>), ctx.meta[s.ret], extern.ret)
StmtCallExtern(ctx, s, extern) ==
  IF Len(s.args) # Len(extern.params) THEN CgError(ctx, "args")
  ELSE IF ~ExternOk(extern) THEN ctx
  ELSE FrameRestore(CallExtern(ctx, s, extern), ctx.frame_size)

StmtCall(ctx, s) ==
  IF s.sub \in DOMAIN ctx.externs THEN StmtCallExtern(ctx, s, ctx.externs[s.sub])
                                  ELSE StmtCallNative(ctx, s)

\* cg_inst_stmt_member
StmtMember(ctx, s) ==
  CallOpTbl(EmitAll(ctx, <<ValueReg(ctx.meta[s.ret], "rdi"), ValueReg(ctx.meta[s.obj], "rsi"),
                           <<"lea", Sym(<<"name", s.member>>), Reg("rdx")>> >>),
            ctx.meta[s.obj], s.op)

\* cg_inst_stmt_builtin_cast
Cast(ctx, ret, value, type) ==
  CallOpTbl(EmitAll(ctx, <<ValueReg(ret, "rdi"), ValueReg(value, "rsi"),
                           <<"mov", Imm(type), Reg("rdx")>> >>), value, "op_cast")
StmtCast(ctx, s) ==
  IF Len(s.args) # 1 THEN CgError(ctx, "args")
  ELSE IF s.type \notin ExternRets THEN CgError(ctx, "args")
  ELSE Cast(ctx, ctx.meta[s.ret], ctx.meta[s.args[1]], s.type)

\* cg_inst_stmt_builtin_make: an array has a size for each dimension.
MakeArray(ctx, s) ==
  IF Len(s.args) # s.depth THEN CgError(ctx, "args")
  ELSE FrameRestore(Emit(PassValues(ctx, Append(Metas(ctx, <<s.ret>> \o s.args), Null)),
                         <<"call", Runtime(<<"make_array">>)>>), ctx.frame_size)
MakeObject(ctx, s) ==
  EmitAll(ctx, <<ValueReg(ctx.meta[s.ret], "rdi"), <<"call", Sym(<<"init", s.class>>)>> >>)

\* cg_inst_stmt_builtin_print, cg_inst_stmt_builtin_type
PrintValue(ctx, meta) == EmitAll(ctx, <<ValueReg(meta, "rdi"), <<"call", Runtime(<<"print">>)>> >>)
StmtPrint(ctx, s) == Through(PrintValue, ctx, Metas(ctx, s.args))
StmtType(ctx, s) ==
  IF Len(s.args) # 1 THEN CgError(ctx, "args")
  ELSE CallOpTbl(EmitAll(ctx, <<ValueReg(ctx.meta[s.ret], "rdi"), ValueReg(ctx.meta[s.args[1]], "rsi")>>),
                 ctx.meta[s.args[1]], "op_type")

\* cg_inst_stmt_assign_lit, cg_inst_stmt_assign_value, cg_inst_stmt_assign_sub
AssignLit(ctx, s) ==
  EmitAll(ctx, <<ValueReg(ctx.meta[s.ret], "rdi"),
                 IF s.type = "string" THEN <<"lea", Sym(<<"lit", s.lit>>), Reg("rsi")>>
                                      ELSE <<"mov", Imm(s.lit), Reg("rsi")>>,
                 <<"call", Runtime(<<"make", s.type>>)>> >>)
AssignValue(ctx, s) ==
  FrameRestore(CallOpTbl(PassValues(ctx, Metas(ctx, <<s.ret, s.from>>)), ctx.meta[s.ret], "op_assign"),
               ctx.frame_size)
AssignSub(ctx, s) ==
  IF s.sub \in DOMAIN ctx.externs THEN CgError(ctx, "extern assignment")
  ELSE EmitAll(ctx, <<ValueReg(ctx.meta[s.ret], "rdi"), <<"lea", SubSym(s.sub), Reg("rsi")>>,
                      <<"call", Runtime(<<"make", "callable">>)>> >>)

Stmt(ctx, s) ==
  CASE s.kind = "op"           -> StmtOp(ctx, s)
    [] s.kind = "op_call"      -> StmtOpCall(ctx, s)
    [] s.kind = "call"         -> StmtCall(ctx, s)
    [] s.kind = "member"       -> StmtMember(ctx, s)
    [] s.kind = "cast"         -> StmtCast(ctx, s)
    [] s.kind = "make_array"   -> MakeArray(ctx, s)
    [] s.kind = "make_object"  -> MakeObject(ctx, s)
    [] s.kind = "make_prim"    -> CgError(ctx, "type")
    [] s.kind = "print"        -> StmtPrint(ctx, s)
    [] s.kind = "type"         -> StmtType(ctx, s)
    [] s.kind = "assign_lit"   -> AssignLit(ctx, s)
    [] s.kind = "assign_value" -> AssignValue(ctx, s)
    [] s.kind = "assign_sub"   -> AssignSub(ctx, s)

-------------------------------------------------------------------------------
\* Blocks: a subroutine has a sequence of blocks [stmts, jmp].  The debug of a jump is
\* a sequence of one or none.

Line(f, b, k) == <<"line", f, b, k>>
JmpLine(f, b) == <<"jmp", f, b>>
Block(f, b)   == <<"bb", f, b>>
At(f, part)   == <<"at", f, part>>

\* cg_debug_line_new.  debug is where the source has the statement; a jump may have none.
DebugLine(ctx, label, debug) ==
  [Label(ctx, label) EXCEPT !.lines = Append(@, [label |-> label, file |-> debug.file, line |-> debug.line])]

\* cg_inst_bb: a condition is unwrapped as bool.
JmpInstrs(ctx, f, jmp) ==
  CASE jmp.kind = "cond" -> <<ValueReg(ctx.meta[jmp.cond], "rdi"), <<"call", Runtime(<<"unwrap", "bool">>)>>,
                              <<"test">>, <<"jnz", Block(f, jmp.je)>>, <<"jmp", Block(f, jmp.jz)>> >>
    [] jmp.kind = "next" -> << <<"jmp", Block(f, jmp.next)>> >>
    [] jmp.kind = "term" -> << <<"jmp", At(f, "deinit")>> >>
InstStmt(ctx, at) == Stmt(DebugLine(ctx, at.label, at.stmt.debug), at.stmt)
InstStmts(ctx, f, b, stmts) ==
  Through(InstStmt, ctx, [k \in DOMAIN stmts |-> [label |-> Line(f, b, k), stmt |-> stmts[k]]])
DebugJmp(ctx, at) == DebugLine(ctx, at.label, at.debug)
InstJmp(ctx, f, b, jmp) ==
  EmitAll(Through(DebugJmp, ctx, [i \in DOMAIN jmp.debug |-> [label |-> JmpLine(f, b), debug |-> jmp.debug[i]]]),
          JmpInstrs(ctx, f, jmp))
InstBB(ctx, at) ==
  InstJmp(InstStmts(Label(ctx, Block(at.sub, at.id)), at.sub, at.id, at.bb.stmts), at.sub, at.id, at.bb.jmp)
InstBBs(ctx, f, bbs) ==
  Through(InstBB, ctx, [b \in DOMAIN bbs |-> [sub |-> f, id |-> b, bb |-> bbs[b]]])

-------------------------------------------------------------------------------
\* Subroutines

Prologue(ctx) == Emit(Pushq(ctx, Reg("rbp")), <<"mov", Reg("rsp"), Reg("rbp")>>)

\* cg_inst_sub_def_prologue, cg_inst_sub_def_prologue_push: the references that are
\* passed are kept in the frame.
PassedIn(i) == IF i <= 5 THEN Reg(ArgRegs[i + 1]) ELSE Mem(2 + (i - 6), "rbp")
Keep(ctx, passed) ==
  LET kept == Pushq(ctx, passed.from)
  IN  MetaEmplace(kept, passed.value, Ptr(RbpOffset(kept)))
KeepParams(ctx, params) ==
  Through(Keep, ctx, [i \in DOMAIN params |-> [value |-> params[i], from |-> PassedIn(i)]])

\* cg_inst_sub_def_params_copy: the copies lie where the references were, so the last
\* parameter is copied first.
CopyParam(ctx, copy) ==
  MetaEmplace(EmitAll(ctx, << <<"lea", Mem(copy.offset, "rbp"), Reg("rdi")>>,
                              <<"mov", Mem(ctx.meta[copy.value].offset, "rbp"), Reg("rsi")>>,
                              <<"mov", Mem(1, "rsi"), Reg("rax")>>,
                              <<"mov", Entry("op_copy"), Reg("rax")>>,
                              <<"call", Reg("rax")>> >>),
              copy.value, Slot(copy.offset))
Copies(params, start) ==
  Reverse([i \in DOMAIN params |-> [value |-> params[i], offset |-> -(start + 1 + SizeOfValue * (i - 1))]])
CopyParams(ctx, params, start) ==
  Through(CopyParam, Reserve(ctx, Aligned(start + SizeOfValue * Len(params))), Copies(params, start))
ParamsCopy(ctx, f, params) ==
  CopyParams(Label(ctx, At(f, "copy")), params, ctx.frame_size - Len(params))

\* cg_inst_sub_def_locals_init
\* A mutant: a value begins where it should end.
PlaceLocal(ctx, local) == MetaEmplace(ctx, local.value, Slot(2 - (ctx.frame_size + local.size)))
PlaceBefore(ctx, values) ==
  Through(PlaceLocal, ctx, [i \in DOMAIN values |-> [value |-> values[i], size |-> SizeOfValue * (i - 1)]])
PlaceLocals(ctx, values) ==
  Through(PlaceLocal, ctx, [i \in DOMAIN values |-> [value |-> values[i], size |-> SizeOfValue * i]])
MakeVoid(ctx, value) ==
  EmitAll(ctx, <<ValueReg(ctx.meta[value], "rdi"), <<"call", Runtime(<<"make", "void">>)>> >>)
LocalsInit(ctx, f, values) ==
  Through(MakeVoid,
           Reserve(PlaceLocals(Label(ctx, At(f, "init")), values),
                   Aligned(ctx.frame_size + SizeOfValue * Len(values))),
           values)

\* cg_inst_sub_def_locals_deinit
DropLocal(ctx, value) ==
  LET offset == ctx.meta[value].offset
  IN  EmitAll(ctx, << <<"mov", Mem(offset + 1, "rbp"), Reg("rax")>>, <<"mov", Entry("op_drop"), Reg("rax")>>,
                      <<"lea", Mem(offset, "rbp"), Reg("rdi")>>, <<"call", Reg("rax")>> >>)
LocalsDeinit(ctx, f, values) == Through(DropLocal, Label(ctx, At(f, "deinit")), values)

Epilogue(ctx, f) ==
  EmitAll(Label(ctx, At(f, "epilogue")),
          << <<"mov", Reg("rbp"), Reg("rsp")>>, <<"pop", Reg("rbp")>>, <<"ret">> >>)

\* cg_inst_sub_main_epilogue: the result is the exit code.
ExitCode(ctx, sub) ==
  IF sub.type = "int"
  THEN EmitAll(ctx, <<ValueReg(ctx.meta[sub.ret], "rdi"), <<"call", Runtime(<<"unwrap", "int">>)>>,
                      <<"mov", Reg("rax"), Reg("rdi")>> >>)
  ELSE CgError(ctx, "return type")
MainEpilogue(ctx, f, sub) ==
  EmitAll(ExitCode(Emit(Label(ctx, At(f, "epilogue")), <<"call", Runtime(<<"flush">>)>>), sub),
          << <<"mov", Imm("60"), Reg("rax")>>, <<"syscall">> >>)

\* What is known of the values of f when its code is complete.
Remember(ctx, f) == [ctx EXCEPT !.metas = Extended(@, f, ctx.meta)]
Start(ctx, f) == Label(Label([ctx EXCEPT !.frame_size = 1, !.meta = <<>>], <<"sub", f>>), <<"S", f>>)

\* Where the debugger finds parameters and variables.
Placed(ctx, values) == [i \in DOMAIN values |-> [offset |-> ctx.meta[values[i]].offset, name |-> values[i]]]
DebugSub(ctx, f, sub) ==
  [Label(ctx, <<"E", f>>) EXCEPT
     !.subs = Append(@, [start |-> <<"S", f>>, end |-> <<"E", f>>, name |-> f,
                         params |-> Placed(ctx, sub.params), vars |-> Placed(ctx, sub.vars)])]

\* cg_inst_sub_def
SubDefEntered(ctx, f, sub) ==
  ParamsCopy(KeepParams(Keep(Prologue(Start(ctx, f)), [value |-> sub.ret, from |-> Reg("rdi")]),
                        sub.params), f, sub.params)
SubDef(ctx, f, sub) ==
  Remember(DebugSub(Epilogue(LocalsDeinit(InstBBs(LocalsInit(SubDefEntered(ctx, f, sub), f,
                                                              sub.vars \o sub.tmps),
                                                  f, sub.bbs),
                                          f, sub.vars \o sub.tmps),
                             f),
                    f, sub), f)

\* cg_inst_sub_main: its result is one of its locals.  It has no parameters.
SubMain(ctx, f, sub) ==
  Remember(DebugSub(MainEpilogue(LocalsDeinit(InstBBs(LocalsInit(Prologue(Start(ctx, f)), f,
                                                                 <<sub.ret>> \o sub.vars \o sub.tmps),
                                                      f, sub.bbs),
                                              f, sub.vars \o sub.tmps),
                                 f, sub),
                    f, sub), f)

-------------------------------------------------------------------------------
\* Classes: [fields, methods], the names of the methods are those of their subroutines

\* cg_inst_class_init_defaults
FieldDefault(i) ==
  << <<"lea", Mem(SizeOfValue * (i - 1), "rsp"), Reg("rdi")>>, <<"call", Runtime(<<"make", "void">>)>> >>
MethodDefault(i, f) ==
  << <<"lea", Mem(SizeOfValue * (i - 1), "rsp"), Reg("rdi")>>, <<"lea", SubSym(f), Reg("rsi")>>,
     <<"call", Runtime(<<"make", "callable">>)>> >>
Defaults(class) ==
  [i \in 1..(Len(class.fields) + Len(class.methods)) |->
     IF i <= Len(class.fields) THEN FieldDefault(i) ELSE MethodDefault(i, class.methods[i - Len(class.fields)])]
ClassDefaults(ctx, class) ==
  Through(EmitAll, Reserve(ctx, Aligned(ctx.frame_size + SizeOfValue * Len(Defaults(class)))), Defaults(class))

\* cg_inst_class_init
ClassSetup(ctx, c, class) ==
  EmitAll(ctx, << <<"mov", Mem(ctx.frame_size - 2, "rsp"), Reg("rdi")>>,
                  <<"lea", Sym(<<"symbols", class.fields \o class.methods>>), Reg("rsi")>>,
                  <<"lea", Mem(0, "rsp"), Reg("rdx")>>,
                  <<"call", Runtime(<<"make_object_setup">>)>> >>)
ClassInit(ctx, c, class) ==
  Emit(FrameRestore(ClassSetup(ClassDefaults(Pushq(Label([ctx EXCEPT !.frame_size = 1], <<"init", c>>),
                                                   Reg("rdi")), class), c, class), 1),
       <<"ret">>)

-------------------------------------------------------------------------------
\* cg_inst: a program has subroutines, some defined and some methods, classes and
\* declarations of external subroutines.

CheckExterns(ctx) ==
  IF \A g \in DOMAIN ctx.externs : ExternOk(ctx.externs[g]) THEN ctx ELSE CgError(ctx, "extern type")
InstSub(ctx, def) ==
  IF def.name = "main" THEN SubMain(ctx, def.name, def.sub) ELSE SubDef(ctx, def.name, def.sub)
InstInit(ctx, init) == ClassInit(ctx, init.name, init.class)
InstMethod(ctx, def) == SubDef(ctx, def.name, def.sub)

\* A method that has a symbol is not defined again.
WithMethod(fs, f) == IF f \in ToSet(fs) THEN fs ELSE Append(fs, f)
WithMethods(fs, class) == Through(WithMethod, fs, class.methods)
MethodsOf(program) ==
  Through(WithMethods, <<>>, [i \in DOMAIN program.inits |-> program.classes[program.inits[i]]])

SubsOf(program, names) ==
  [i \in DOMAIN names |-> [name |-> names[i], sub |-> program.subs[names[i]]]]
InitsOf(program) ==
  [i \in DOMAIN program.inits |-> [name |-> program.inits[i], class |-> program.classes[program.inits[i]]]]
NewCtx(program) ==
  [text |-> <<>>, frame_size |-> 0, meta |-> <<>>, metas |-> <<>>, lines |-> <<>>, subs |-> <<>>,
   exceptions |-> {}, externs |-> program.externs]
CgInst(program) ==
  Through(InstMethod,
    Through(InstInit,
      Through(InstSub, CheckExterns(NewCtx(program)), SubsOf(program, program.defined)),
      InitsOf(program)),
    SubsOf(program, MethodsOf(program)))

-------------------------------------------------------------------------------
\* Where the stack is not aligned to 16 bytes: at the call of an external function with
\* one, three or five parameters, which have been popped into registers (inst_bb.c:475,
\* it is aligned with them on it), and at the call that makes its result.

OddForeignCall(program, instr) ==
  /\ instr[1] = "call" /\ instr[2][1] = "sym" /\ instr[2][2][1] = "extern"
  /\ Len(program.externs[instr[2][2][2]].params) \in {1, 3, 5}
MakesResult(instr) == instr[2][1] = "sym" /\ instr[2][2][1] = "runtime" /\ instr[2][2][2][1] = "make"
OddForeignAt(program, text, i) ==
  \/ OddForeignCall(program, text[i])
  \/ MakesResult(text[i]) /\ \E j \in {i - 2, i - 3} \cap DOMAIN text : OddForeignCall(program, text[j])

-------------------------------------------------------------------------------
\* Programs, as mir_build makes them: lists are sequences, statements and jumps are of
\* the kinds there are, a value that is called is the first of the arguments, and what a
\* statement writes is a value of its subroutine.  A name stands for one subroutine: a
\* method that the source calls main has another one.  main has no parameters.

IsSeq(s) == s \in Seq(ToSet(s))

StmtKinds == {"op", "op_call", "call", "member", "cast", "make_array", "make_object", "make_prim",
              "print", "type", "assign_lit", "assign_value", "assign_sub"}
WithArgs  == {"op", "op_call", "call", "make_array", "print"}

ValuesOf(sub) == {sub.ret} \cup ToSet(sub.params) \cup ToSet(sub.vars) \cup ToSet(sub.tmps)
IsStmt(sub, s) ==
  /\ s.kind \in StmtKinds
  /\ s.kind \in WithArgs => IsSeq(s.args)
  /\ s.kind = "op_call" => s.args # <<>>
  /\ s.kind # "print" => s.ret \in ValuesOf(sub)
IsBB(sub, bb) ==
  /\ IsSeq(bb.stmts)
  /\ \A k \in 1..Len(bb.stmts) : IsStmt(sub, bb.stmts[k])
  /\ bb.jmp.kind \in {"cond", "next", "term"}
  /\ IsSeq(bb.jmp.debug)
IsSub(sub) ==
  /\ IsSeq(sub.params) /\ IsSeq(sub.vars) /\ IsSeq(sub.tmps) /\ IsSeq(sub.bbs)
  /\ \A b \in 1..Len(sub.bbs) : IsBB(sub, sub.bbs[b])
IsClass(class) == IsSeq(class.fields) /\ IsSeq(class.methods)
IsProgram(p) ==
  /\ IsSeq(p.defined)
  /\ \A i \in 1..Len(p.defined) :
       /\ IsSub(p.subs[p.defined[i]])
       /\ p.defined[i] = "main" => p.subs["main"].params = <<>>
  /\ IsSeq(p.inits)
  /\ \A i \in 1..Len(p.inits) :
       LET class == p.classes[p.inits[i]]
       IN  /\ IsClass(class)
           /\ \A k \in 1..Len(class.methods) :
                class.methods[k] # "main" /\ IsSub(p.subs[class.methods[k]])
===============================================================================

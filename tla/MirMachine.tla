------------------------------ MODULE MirMachine ------------------------------
(***************************************************************************)
(* What a program in MIR does: the abstract specification of the code that *)
(* is generated for it.                                                    *)
(*                                                                         *)
(* A frame is [sub, at, vals].  at is the label of the place that is       *)
(* reached, in the caller of another frame the label of the call.  The     *)
(* result of a subroutine is a value of its caller, that of main its own.  *)
(***************************************************************************)
EXTENDS Values, TLC

CONSTANTS
  Programs,       \* programs by their names
  ExternResults   \* what external functions may return

VARIABLES
  program,   \* the name of the one that runs
  frames,    \* the active subroutines, main first
  out        \* what was printed, calls of external functions, the exit

mirvars == <<program, frames, out>>

SubOf(i)   == Programs[program].subs[frames[i].sub]
BlockOf(i) == SubOf(i).bbs[frames[i].at[3]]
StmtOf(i)  == BlockOf(i).stmts[frames[i].at[4]]
Top        == Len(frames)

Locals(f, sub) == sub.vars \o sub.tmps \o (IF f = "main" THEN <<sub.ret>> ELSE <<>>)

\* The frame and the name of the value that x stands for in frame i.
Home(i, x) ==
  LET home[j \in 1..i] == \* of the result of frame j
        IF j = 1 THEN <<1, SubOf(1).ret>>
        ELSE IF StmtOf(j - 1).ret = SubOf(j - 1).ret THEN home[j - 1]
        ELSE <<j - 1, StmtOf(j - 1).ret>>
  IN  IF x = SubOf(i).ret THEN home[i] ELSE <<i, x>>

Val(x)    == LET h == Home(Top, x) IN frames[h[1]].vals[h[2]]
Vals(xs)  == [j \in DOMAIN xs |-> Val(xs[j])]
Set(x, v) == LET h == Home(Top, x) IN [frames EXCEPT ![h[1]].vals[h[2]] = v]

\* The place after statement k, or after the label (k = 0), of block b.
After(f, b, k, cond) ==
  LET bb == Programs[program].subs[f].bbs[b]
  IN  IF k < Len(bb.stmts) THEN <<"line", f, b, k + 1>>
      ELSE CASE bb.jmp.kind = "cond" -> <<"bb", f, IF cond THEN bb.jmp.je ELSE bb.jmp.jz>>
             [] bb.jmp.kind = "next" -> <<"bb", f, bb.jmp.next>>
             [] bb.jmp.kind = "term" -> <<"at", f, "deinit">>

\* The frames now, frame i moved on behind the k-th place of its block b.
Holds(now, i, jmp) ==
  /\ jmp.kind = "cond"
  /\ LET h == Home(i, jmp.cond) IN IsTrue(now[h[1]].vals[h[2]])
MovedOn(now, i, b, k) ==
  [now EXCEPT ![i].at = After(now[i].sub, b, k, Holds(now, i, SubOf(i).bbs[b].jmp))]

AtLine == frames # <<>> /\ frames[Top].at[1] = "line"
Go(now) == frames' = MovedOn(now, Top, frames[Top].at[3], frames[Top].at[4])

-------------------------------------------------------------------------------
Pairs(names, values) == [x \in ToSet(names) |-> values[CHOOSE i \in DOMAIN names : names[i] = x]]

\* main is called once.
Begin ==
  /\ frames = <<>> /\ out = <<>>
  /\ frames' = << [sub |-> "main", at |-> <<"at", "main", "init">>, vals |-> <<>>] >>
  /\ UNCHANGED <<program, out>>

\* Locals are void.
Enter ==
  /\ frames # <<>> /\ frames[Top].at = <<"at", frames[Top].sub, "init">>
  /\ frames' = [frames EXCEPT
       ![Top].at = <<"bb", @[2], 1>>,
       ![Top].vals = @ @@ [x \in ToSet(Locals(frames[Top].sub, SubOf(Top))) |-> Void]]
  /\ UNCHANGED <<program, out>>

EnterBlock ==
  /\ frames # <<>> /\ frames[Top].at[1] = "bb"
  /\ frames' = MovedOn(frames, Top, frames[Top].at[3], 0)
  /\ UNCHANGED <<program, out>>

Swapped == [greater |-> "op_less", greater_eq |-> "op_less_eq"]
Result(s) ==
  CASE s.kind = "op" /\ s.op \in DOMAIN Swapped -> Done(Swapped[s.op], Val(s.args[1]), Reverse(Vals(s.args)))
    [] s.kind = "op" /\ s.op \notin DOMAIN Swapped -> Done(s.op, Val(s.args[1]), Vals(s.args))
    [] s.kind = "member"       -> Member(s.op, Val(s.obj), s.member)
    [] s.kind = "cast"         -> Done("op_cast", Val(s.args[1]), <<Val(s.args[1]), Raw(s.type)>>)
    [] s.kind = "type"         -> Done("op_type", Val(s.args[1]), Vals(s.args))
    [] s.kind = "make_array"   -> Array(Vals(s.args))
    [] s.kind = "make_object"  ->
         LET class == Programs[program].classes[s.class]
         IN  Object(class.fields \o class.methods,
                    [i \in DOMAIN class.fields |-> Void]
                      \o [i \in DOMAIN class.methods |-> Made("callable", CodeAt(<<"sub", class.methods[i]>>))])
    [] s.kind = "assign_lit"   -> Made(s.type, IF s.type = "string" THEN CodeAt(<<"lit", s.lit>>) ELSE Raw(s.lit))
    [] s.kind = "assign_value" -> Val(s.from)
    [] s.kind = "assign_sub"   -> Made("callable", CodeAt(<<"sub", s.sub>>))

Compute ==
  /\ AtLine /\ StmtOf(Top).kind \notin {"call", "op_call", "print"}
  /\ Go(Set(StmtOf(Top).ret, Result(StmtOf(Top))))
  /\ UNCHANGED <<program, out>>

PrintValues ==
  /\ AtLine /\ StmtOf(Top).kind = "print"
  /\ Go(frames)
  /\ out' = out \o [i \in DOMAIN StmtOf(Top).args |-> <<"print", Val(StmtOf(Top).args[i])>>]
  /\ UNCHANGED program

CallExternal ==
  /\ AtLine /\ StmtOf(Top).kind = "call" /\ StmtOf(Top).sub \in DOMAIN Programs[program].externs
  /\ LET s == StmtOf(Top)
         extern == Programs[program].externs[s.sub]
     IN  \E r \in ExternResults :
           /\ Go(Set(s.ret, IF extern.ret = "void" THEN Void ELSE Made(extern.ret, r)))
           /\ out' = Append(out, <<"extern", s.sub, [i \in DOMAIN s.args |-> Unwrapped(Val(s.args[i]))], r>>)
  /\ UNCHANGED program

\* A subroutine is called by its name or as a value; it gets copies of the arguments.
Callee(s) == IF s.kind = "call" THEN s.sub ELSE Unwrapped(Val(s.args[1]))[2][2]
ArgsOf(s) == IF s.kind = "call" THEN s.args ELSE Tail(s.args)
Call ==
  /\ AtLine /\ \/ StmtOf(Top).kind = "op_call"
               \/ StmtOf(Top).kind = "call" /\ StmtOf(Top).sub \notin DOMAIN Programs[program].externs
  /\ \E f \in {Callee(StmtOf(Top))} :
       frames' = Append(frames, [sub |-> f, at |-> <<"at", f, "init">>,
                                 vals |-> Pairs(Programs[program].subs[f].params, Vals(ArgsOf(StmtOf(Top))))])
  /\ UNCHANGED <<program, out>>

Leave ==
  /\ frames # <<>> /\ frames[Top].at = <<"at", frames[Top].sub, "deinit">>
  /\ frames' = [frames EXCEPT
       ![Top].at = <<"at", @[2], "epilogue">>,
       ![Top].vals = [x \in ToSet(SubOf(Top).vars \o SubOf(Top).tmps) |-> Dropped] @@ @]
  /\ UNCHANGED <<program, out>>

\* The caller goes on behind the call.
Return ==
  /\ Top > 1 /\ frames[Top].at = <<"at", frames[Top].sub, "epilogue">>
  /\ frames' = MovedOn(Front(frames), Top - 1, frames[Top - 1].at[3], frames[Top - 1].at[4])
  /\ UNCHANGED <<program, out>>

Exit ==
  /\ frames # <<>> /\ frames[Top].at = <<"at", "main", "epilogue">>
  /\ out' = Append(out, <<"exit", Unwrapped(Val(SubOf(Top).ret))>>)
  /\ frames' = <<>>
  /\ UNCHANGED program

MirInit == frames = <<>> /\ out = <<>>
MirNext == \/ Begin \/ Enter \/ EnterBlock \/ Compute \/ PrintValues \/ CallExternal \/ Call
           \/ Leave \/ Return \/ Exit
MirSpec == MirInit /\ [][MirNext]_mirvars
===============================================================================

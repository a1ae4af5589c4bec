--------------------------- MODULE DebuggerProofs ---------------------------
(* Proofs that the debugger keeps its invariant and implements Program,    *)
(* for every value of the constants.  IInv of DebuggerInvariant is         *)
(* inductive: its types (Type...), its control part (Control...:           *)
(* ProcessKnown, WaitsFor, NeverOwnGroup) and its data part (Data...:      *)
(* Transparent, Lifted, IdsUnique, TempIsLast) are shown to be kept by     *)
(* each action.  Most safety properties follow from it; TableRestored,     *)
(* BreakpointNeverSticks and NextiBounded follow from TableKept,           *)
(* PastBreakpoint and NextiInv, which are inductive together with IInv.    *)
EXTENDS DebuggerProperties, TLAPS

USE MachineAssumption, DebuggerAssumption, TraceeAssumption

(* Addresses are numbers; the instructions written by the debugger and the *)
(* kernel are instructions.                                                *)
LEMMA ConstantsTyped ==
  /\ Addr \subseteq Nat
  /\ Int3 \in Instr
  /\ Unmapped \in Instr
  /\ NoMemory \in [Addr -> Instr]
  /\ Unmapped # Int3
  BY DEF Addr, Int3, Unmapped, NoMemory, Instr, Op

(* ctx_bp_place and ctx_bp_remove keep the types and the id of a           *)
(* breakpoint.                                                             *)
LEMMA BreakTyped ==
  ASSUME TypeOK, NEW p \in Breakpoint, NEW a \in Addr
  PROVE  /\ PlacedBreak(p, a) \in Breakpoint
         /\ PlacedText(p, a) \in [Addr -> Instr]
         /\ RemovedBreak(p, a) \in Breakpoint
         /\ RemovedText(p, a) \in [Addr -> Instr]
         /\ PlacedBreak(p, a).id = p.id
         /\ RemovedBreak(p, a).id = p.id
  BY ConstantsTyped DEF TypeOK, TraceeTypeOK, PlacedBreak, PlacedText, RemovedBreak, RemovedText,
     Breakpoint

(* A new breakpoint is not placed.                                         *)
LEMMA NewBreakTyped ==
  ASSUME NEW k \in Nat
  PROVE  /\ NewBreak(k) \in Breakpoint
         /\ NewBreak(k).id = k
         /\ ~NewBreak(k).is_placed
         /\ NoBreak \in Breakpoint
  BY ConstantsTyped DEF NewBreak, NoBreak, Breakpoint

(* Executing an instruction leads to an address and a stack.               *)
LEMMA SuccessorsTyped ==
  ASSUME NEW i \in Instr, NEW r \in Nat, NEW s \in Seq(Nat), NEW x \in Successors(i, r, s)
  PROVE  x[1] \in Nat /\ x[2] \in Seq(Nat)
<1>1. CASE x \in {<<r + 1, s>>}
  BY <1>1
<1>2. CASE x \in {<<i.to, s>>}
  BY <1>2 DEF Instr, Addr
<1>3. CASE x \in {<<i.to, Append(s, r + 1)>>}
  <2>1. r + 1 \in Nat /\ Append(s, r + 1) \in Seq(Nat)
    OBVIOUS
  <2> DEFINE t == Append(s, r + 1)
  <2>2. x = <<i.to, t>> /\ t \in Seq(Nat)
    BY <1>3, <2>1
  <2> HIDE DEF t
  <2> QED BY <2>2 DEF Instr, Addr
<1>4. CASE \E n \in {k \in {Len(s)} : i.op = "ret" /\ k > 0} : x = <<s[n], Front(s)>>
  <2>1. Len(s) > 0 /\ x = <<s[Len(s)], Front(s)>>
    BY <1>4
  <2>2. s[Len(s)] \in Nat
    BY <2>1
  <2>3. Front(s) \in Seq(Nat)
    <3>1. \A k \in 1 .. Len(s) - 1 : s[k] \in Nat
      OBVIOUS
    <3>2. Front(s) = [k \in 1 .. Len(s) - 1 |-> s[k]]
      BY <2>1 DEF Front
    <3> QED BY <2>1, <3>1, <3>2
  <2> QED BY <2>1, <2>2, <2>3
<1> QED BY <1>1, <1>2, <1>3, <1>4 DEF Successors

(* The types hold initially.                                               *)
LEMMA TypeInit == Init => TypeOK
  BY DEF Init, TypeOK, TraceeInit, TraceeTypeOK, NoMemory, Unmapped, Instr, Op, NoBreak,
     Breakpoint, Lines, Labels, NoCmd, CmdType, NoHist, HistType, Addr

(* ctx_tg_wait keeps the types.                                            *)
LEMMA TypeWait == TypeOK /\ Wait => TypeOK'
  BY DEF Wait, WaitEnded, WaitStopped, TypeOK, TraceeTypeOK, CmdType, Labels

(* Lifting a breakpoint before a step keeps the types.                     *)
LEMMA TypeStepi == TypeOK /\ Stepi => TypeOK'
<1> SUFFICES ASSUME TypeOK, Stepi PROVE TypeOK'
  OBVIOUS
<1>1. breaks' \in [Addr -> Breakpoint] /\ mem' \in [Addr -> Instr] /\ b' \in Addr \cup {0}
  <2>1. CASE \E a \in Addr : StepiRemove(a)
    <3> PICK a \in Addr : StepiRemove(a)
      BY <2>1
    <3>1. breaks[a] \in Breakpoint
      BY DEF TypeOK
    <3> QED BY <3>1, BreakTyped DEF StepiRemove, TypeOK
  <2>2. CASE ~\E a \in Addr : StepiRemove(a)
    BY <2>2 DEF Stepi, StepiRemove, StepiKeep, TypeOK, TraceeTypeOK
  <2> QED BY <2>1, <2>2
<1> QED
  BY <1>1 DEF Stepi, StepiRemove, StepiKeep, TypeOK, TraceeTypeOK, Labels

(* The assignments of cmd_nexti_exec and of the callers of ctx_tg_wait.    *)
LEMMA CallTyped ==
  ASSUME cmd \in CmdType
  PROVE  /\ \A t \in Addr \cup {0} : [cmd EXCEPT !.cont = TRUE, !.temp = t] \in CmdType
         /\ \A l \in Labels : [cmd EXCEPT !.then = l] \in CmdType
  BY DEF CmdType

(* A step that leaves the process alone keeps its types.                   *)
LEMMA ChildTyped == TypeOK /\ UNCHANGED childVars => TraceeTypeOK'
  BY DEF TypeOK, TraceeTypeOK, childVars

(* An iteration of cmd_nexti_exec begins without breaking a type.          *)
LEMMA TypeNexti == TypeOK /\ NextiHead => TypeOK'
<1> SUFFICES ASSUME TypeOK, NextiHead PROVE TypeOK'
  OBVIOUS
<1>1. CASE NextiCall
  <2> DEFINE a == cmd.rip + 1
             p == NewBreak(breaks_cnt + 1)
  <2>1. a \in Addr
    BY <1>1 DEF NextiCall, CallAt
  <2>2. p \in Breakpoint
    BY NewBreakTyped DEF TypeOK
  <2>3. PlacedBreak(p, a) \in Breakpoint /\ PlacedText(p, a) \in [Addr -> Instr]
    BY <2>1, <2>2, BreakTyped
  <2>4. cmd' \in CmdType
    <3>1. \A t \in Addr \cup {0} : [cmd EXCEPT !.cont = TRUE, !.temp = t] \in CmdType
      BY CallTyped DEF TypeOK
    <3>2. \/ cmd' = [cmd EXCEPT !.cont = TRUE, !.temp = a]
          \/ cmd' = [cmd EXCEPT !.cont = TRUE, !.temp = 0]
      BY <1>1 DEF NextiCall
    <3> HIDE DEF a
    <3>3. /\ [cmd EXCEPT !.cont = TRUE, !.temp = a] \in CmdType
          /\ [cmd EXCEPT !.cont = TRUE, !.temp = 0] \in CmdType
      BY <2>1, <3>1
    <3> QED BY <3>2, <3>3, Zenon
  <2>5. breaks' \in [Addr -> Breakpoint] /\ mem' \in [Addr -> Instr] /\ breaks_cnt' \in Nat
    <3>1. \/ UNCHANGED <<breaks_cnt, breaks, mem>>
          \/ /\ breaks_cnt' = breaks_cnt + 1
             /\ breaks' = [breaks EXCEPT ![a] = PlacedBreak(p, a)]
             /\ mem' = PlacedText(p, a)
      BY <1>1 DEF NextiCall
    <3> HIDE DEF a, p
    <3> QED BY <2>1, <2>3, <3>1 DEF TypeOK, TraceeTypeOK
  <2> QED BY <2>4, <2>5 DEF NextiHead, TypeOK, TraceeTypeOK, Labels
<1>2. CASE NextiPlain
  <2>1. cmd' \in CmdType
    BY <1>2 DEF NextiPlain, TypeOK, CmdType
  <2> QED BY <1>2, <2>1 DEF NextiHead, NextiPlain, TypeOK, TraceeTypeOK, Labels
<1> QED BY <1>1, <1>2 DEF NextiHead

(* A step of the process keeps the types.                                  *)
LEMMA TypeGo == TypeOK /\ DebuggeeStep => TypeOK'
<1> SUFFICES ASSUME TypeOK, DebuggeeStep PROVE TypeOK'
  OBVIOUS
<1>1. Fetch(mem, rip) \in Instr
  BY ConstantsTyped DEF Fetch, TypeOK, TraceeTypeOK
<1>2. hist' \in HistType
  <2>1. \A k \in Nat : Counted(k) \in Nat
    BY DEF Counted
  <2>2. hist \in HistType
    BY DEF TypeOK
  <2>3. Counted(hist.done) \in Nat /\ Counted(hist.tops) \in Nat
    BY <2>1, <2>2 DEF HistType
  <2> QED BY <2>2, <2>3 DEF DebuggeeStep, HistType
<1>3. TraceeTypeOK'
  <2>1. CASE ChildGo
    <3>1. PICK x \in Successors(Fetch(mem, rip), rip, stack) : rip' = x[1] /\ stack' = x[2]
      BY <2>1 DEF ChildGo
    <3>2. x[1] \in Nat /\ x[2] \in Seq(Nat)
      BY <1>1, SuccessorsTyped DEF TypeOK, TraceeTypeOK
    <3> QED BY <2>1, <3>1, <3>2 DEF ChildGo, TypeOK, TraceeTypeOK
  <2>2. CASE ChildInt3 \/ ChildFault
    BY <2>2 DEF ChildInt3, ChildFault, TypeOK, TraceeTypeOK
  <2>3. CASE ChildExit
    BY <2>3, ConstantsTyped DEF ChildExit, Ends, TypeOK, TraceeTypeOK
  <2> QED BY <2>1, <2>2, <2>3 DEF DebuggeeStep, ChildStep
<1> QED
  BY <1>2, <1>3 DEF DebuggeeStep, TypeOK, ctxVars

(* The end of a command keeps the types.                                   *)
LEMMA FinishTyped ==
  ASSUME TypeOK, NEW e \in BOOLEAN, Finish(e)
  PROVE  /\ s_debugger' \in {"IDLE", "PROCESSING", "ERROR", "EXITING"}
         /\ at' \in Labels /\ cmd' \in CmdType /\ hist' \in HistType /\ res' \in {"ok", "error"}
  BY DEF Finish, NoCmd, NoHist, CmdType, HistType, Labels, Lines

(* So does its beginning.                                                  *)
LEMMA BeginTyped ==
  ASSUME TypeOK, NEW c \in CmdType, NEW l \in Labels, Begin(c, l)
  PROVE  /\ s_debugger' \in {"IDLE", "PROCESSING", "ERROR", "EXITING"}
         /\ at' \in Labels /\ cmd' \in CmdType /\ hist' \in HistType
<1>1. Len(stack) \in Nat
  BY DEF TypeOK, TraceeTypeOK
<1>2. hist' \in HistType
  BY <1>1 DEF Begin, NoHist, HistType, TypeOK
<1> QED BY <1>2 DEF Begin

(* So does a command of one step.                                          *)
LEMMA ReplyTyped ==
  ASSUME TypeOK, NEW e \in BOOLEAN, Reply(e)
  PROVE  /\ s_debugger' \in {"IDLE", "PROCESSING", "ERROR", "EXITING"}
         /\ at' \in Labels /\ cmd' \in CmdType /\ hist' \in HistType /\ res' \in {"ok", "error"}
         /\ b' \in Addr \cup {0} /\ todo' \in SUBSET Addr
  BY DEF Reply, TypeOK

(* The end of the process leaves typed values.                             *)
LEMMA EndsTyped == TypeOK /\ Ends => TraceeTypeOK'
  BY ConstantsTyped DEF Ends, TraceeTypeOK

(* The idle command is a command.                                          *)
LEMMA NoCmdTyped == NoCmd \in CmdType
  BY DEF NoCmd, CmdType, Lines, Labels

(* No command breaks a type.                                               *)
LEMMA TypeUser == IInv /\ User => TypeOK'
<1> SUFFICES ASSUME IInv, User PROVE TypeOK'
  OBVIOUS
<1>0. TypeOK /\ ProcessKnown
  BY DEF IInv
<1>c. /\ [NoCmd EXCEPT !.fn = "kill", !.then = "ret"] \in CmdType
      /\ [NoCmd EXCEPT !.fn = "run", !.then = "place"] \in CmdType
      /\ [NoCmd EXCEPT !.fn = "continue", !.cont = TRUE] \in CmdType
  BY NoCmdTyped DEF CmdType, Labels, Command
<1>l. {"wait", "load", "stepi", "nexti", "line"} \subseteq Labels
  BY DEF Labels
<1>1. CASE Refuse
  BY <1>0, <1>1, ReplyTyped DEF Refuse, TypeOK, TraceeTypeOK, childVars
<1>2. CASE CmdExit
  BY <1>0, <1>2 DEF CmdExit, TypeOK, TraceeTypeOK, childVars
<1>3. ASSUME NEW f \in Image, CmdFile(f) PROVE TypeOK'
  <2>1. TraceeTypeOK'
    BY <1>0, <1>3, EndsTyped DEF CmdFile, SendSigkill, TypeOK, TraceeTypeOK, childVars
  <2>2. /\ [NoCmd EXCEPT !.fn = "file", !.file = f, !.then = "load"] \in CmdType
        /\ [NoCmd EXCEPT !.fn = "file", !.file = f] \in CmdType
    BY NoCmdTyped DEF CmdType, Labels, Command
  <2> QED BY <1>0, <1>3, <1>l, <2>1, <2>2, BeginTyped DEF CmdFile, TypeOK
<1>4. CASE CmdRun
  <2>1. TraceeTypeOK'
    <3>1. fname \in Image
      BY <1>0, <1>4 DEF CmdRun, ProcessKnown
    <3>2. Entry[fname] \in Nat /\ Code[fname] \in [Addr -> Instr] /\ <<>> \in Seq(Nat)
      BY <3>1 DEF Addr
    <3> QED BY <1>0, <1>4, <3>2, EndsTyped DEF CmdRun, ForkExec, TraceeTypeOK
  <2>2. todo' \in SUBSET Addr /\ pid' \in {0, 1}
    BY <1>4 DEF CmdRun
  <2> QED BY <1>0, <1>4, <1>c, <1>l, <2>1, <2>2, BeginTyped DEF CmdRun, TypeOK
<1>5. CASE CmdRunForkFails
  BY <1>0, <1>5, ReplyTyped DEF CmdRunForkFails, TypeOK, TraceeTypeOK, childVars
<1>6. ASSUME NEW a \in Addr, CmdBreak(a) PROVE TypeOK'
  <2>1. NewBreak(breaks_cnt + 1) \in Breakpoint
    BY <1>0, NewBreakTyped DEF TypeOK
  <2> DEFINE p == NewBreak(breaks_cnt + 1)
  <2>p. PlacedBreak(p, a) \in Breakpoint /\ PlacedText(p, a) \in [Addr -> Instr]
    BY <1>0, <2>1, BreakTyped
  <2>q. p \in Breakpoint
    BY <2>1
  <2>r. \/ UNCHANGED <<mem, breaks, breaks_cnt>>
        \/ /\ breaks_cnt' = breaks_cnt + 1
           /\ \/ breaks' = [breaks EXCEPT ![a] = PlacedBreak(p, a)] /\ mem' = PlacedText(p, a)
              \/ breaks' = [breaks EXCEPT ![a] = p] /\ UNCHANGED mem
    BY <1>6 DEF CmdBreak
  <2> HIDE DEF p
  <2>2. /\ breaks' \in [Addr -> Breakpoint]
        /\ mem' \in [Addr -> Instr]
        /\ breaks_cnt' \in Nat
    BY <1>0, <2>p, <2>q, <2>r DEF TypeOK, TraceeTypeOK
  <2>3. \E e \in BOOLEAN : Reply(e)
    BY <1>6 DEF CmdBreak
  <2> QED BY <1>0, <1>6, <2>2, <2>3, ReplyTyped DEF CmdBreak, TypeOK, TraceeTypeOK
<1>7. ASSUME NEW id \in 0 .. MaxBreaks + 1, CmdDelete(id) PROVE TypeOK'
  <2>1. PICK D \in SUBSET Addr : Deleted(D)
    BY <1>7 DEF CmdDelete
  <2>2. breaks' \in [Addr -> Breakpoint]
    BY <1>0, <2>1, NewBreakTyped DEF Deleted, TypeOK
  <2>3. \A a \in Addr : RemovedText(breaks[a], a)[a] \in Instr
    BY <1>0, BreakTyped DEF TypeOK
  <2>4. mem' \in [Addr -> Instr]
    BY <1>0, <2>1, <2>3 DEF Deleted, TypeOK, TraceeTypeOK
  <2> QED BY <1>0, <2>1, <2>2, <2>4, ReplyTyped DEF Deleted, TypeOK, TraceeTypeOK
<1>8. ASSUME NEW sig \in Signals, CmdKill(sig) PROVE TypeOK'
  <2>1. TraceeTypeOK'
    BY <1>0, <1>8, EndsTyped DEF CmdKill, SendSigkill, TypeOK, TraceeTypeOK, childVars
  <2> QED BY <1>0, <1>8, <1>c, <1>l, <2>1, BeginTyped DEF CmdKill, TypeOK
<1>9. CASE CmdContinue
  BY <1>0, <1>9, <1>c, <1>l, BeginTyped DEF CmdContinue, TypeOK, TraceeTypeOK, childVars
<1>10. ASSUME NEW n \in Counts, CmdStepi(n) PROVE TypeOK'
  <2>1. [NoCmd EXCEPT !.fn = "stepi", !.n = n] \in CmdType
    BY NoCmdTyped DEF CmdType, Command
  <2> QED BY <1>0, <1>10, <1>l, <2>1, BeginTyped DEF CmdStepi, TypeOK, TraceeTypeOK, childVars
<1>11. ASSUME NEW n \in Counts, CmdNexti(n) PROVE TypeOK'
  <2>1. [NoCmd EXCEPT !.fn = "nexti", !.n = n, !.rip = rip] \in CmdType
    BY <1>0, NoCmdTyped DEF CmdType, Command, TypeOK, TraceeTypeOK
  <2>2. TraceeTypeOK'
    BY <1>0, <1>11, ChildTyped DEF CmdNexti
  <2>3. CASE Reply(TRUE)
    BY <1>0, <1>11, <2>2, <2>3, ReplyTyped DEF CmdNexti, TypeOK
  <2>4. CASE ~Reply(TRUE)
    BY <1>0, <1>11, <1>l, <2>1, <2>2, <2>4, BeginTyped DEF CmdNexti, TypeOK
  <2> QED BY <2>3, <2>4
<1>12. ASSUME NEW n \in Counts, NEW fn \in {"step", "next"}, CmdLine(fn, n) PROVE TypeOK'
  <2>1. [NoCmd EXCEPT !.fn = fn, !.n = n, !.curr = line] \in CmdType
    BY <1>0, NoCmdTyped DEF CmdType, Command, TypeOK
  <2>2. TraceeTypeOK'
    BY <1>0, <1>12, ChildTyped DEF CmdLine
  <2>3. CASE Reply(TRUE)
    BY <1>0, <1>12, <2>2, <2>3, ReplyTyped DEF CmdLine, TypeOK
  <2>4. CASE ~Reply(TRUE)
    BY <1>0, <1>12, <1>l, <2>1, <2>2, <2>4, BeginTyped DEF CmdLine, TypeOK
  <2> QED BY <2>3, <2>4
<1> QED
  BY <1>1, <1>2, <1>3, <1>4, <1>5, <1>6, <1>7, <1>8, <1>9, <1>10, <1>11, <1>12 DEF User

(* Counting the turns of a loop keeps the types.                           *)
LEMMA CountersTyped ==
  ASSUME cmd \in CmdType
  PROVE  /\ [cmd EXCEPT !.i = @ + 1] \in CmdType
         /\ [cmd EXCEPT !.temp = 0] \in CmdType
         /\ [cmd EXCEPT !.j = @ + 1, !.temp = 0] \in CmdType
<1>1. cmd.i \in Nat /\ cmd.j \in Nat
  BY DEF CmdType
<1>2. cmd.i + 1 \in Nat /\ cmd.j + 1 \in Nat
  BY <1>1
<1>3. \A k \in Nat : [cmd EXCEPT !.i = k] \in CmdType
  BY DEF CmdType
<1>4. [cmd EXCEPT !.temp = 0] \in CmdType
  BY DEF CmdType
<1>5. \A k \in Nat : [cmd EXCEPT !.j = k, !.temp = 0] \in CmdType
  BY DEF CmdType
<1> QED BY <1>2, <1>3, <1>4, <1>5

(* No step that the debugger takes of itself breaks a type.                *)
LEMMA TypeInternal == IInv /\ Internal => TypeOK'
<1> SUFFICES ASSUME IInv, Internal PROVE TypeOK'
  OBVIOUS
<1>0. TypeOK /\ ProcessKnown /\ WaitsFor /\ TempIsLast
  BY DEF IInv
<1>l. {"wait", "load", "stepi", "nexti", "line", "left", "cont", "ret", "step", "idle", "place",
       "replace", "siginfo"} \subseteq Labels
  BY DEF Labels
<1>t. cmd \in CmdType
  BY <1>0 DEF TypeOK
<1>f. \A e \in BOOLEAN : Finish(e) =>
        /\ s_debugger' \in {"IDLE", "PROCESSING", "ERROR", "EXITING"}
        /\ at' \in Labels /\ cmd' \in CmdType /\ hist' \in HistType /\ res' \in {"ok", "error"}
  BY <1>0, FinishTyped
<1>1. CASE ReportError
  BY <1>0, <1>1 DEF ReportError, TypeOK, TraceeTypeOK, childVars
<1>2. CASE Wait
  BY <1>0, <1>2, TypeWait
<1>3. CASE SigInfo
  <2>1. at' \in Labels
    BY <1>0, <1>3 DEF SigInfo, TypeOK, CmdType
  <2>2. rip' \in Nat
    BY <1>0, <1>3 DEF SigInfo, TypeOK, TraceeTypeOK, ProcessKnown, Unfixed, Attached
  <2>3. s_target' \in {"NO_TARGET", "NOT_RUNNING", "BRKPT", "TRAPPED"}
    BY <1>0, <1>3 DEF SigInfo, TypeOK
  <2> QED BY <1>0, <1>3, <2>1, <2>2, <2>3 DEF SigInfo, TypeOK, TraceeTypeOK
<1>4. CASE Stepi
  BY <1>0, <1>4, TypeStepi
<1>5. CASE SingleStep
  <2>1. cmd' \in CmdType
    <3>1. [cmd EXCEPT !.then = "replace"] \in CmdType
      BY <1>l, <1>t, CallTyped
    <3> QED BY <1>5, <1>t, <3>1 DEF SingleStep
  <2> QED BY <1>0, <1>5, <1>l, <2>1 DEF SingleStep, AfterStepi, TypeOK, TraceeTypeOK, ctxVars
<1>6. CASE Replace
  <2>1. breaks' \in [Addr -> Breakpoint] /\ mem' \in [Addr -> Instr]
    <3>1. CASE b = 0
      BY <1>0, <1>6, <3>1 DEF Replace, TypeOK, TraceeTypeOK
    <3>2. CASE b # 0
      <4>1. b \in Addr /\ breaks[b] \in Breakpoint
        BY <1>0, <3>2 DEF TypeOK
      <4>2. PlacedBreak(breaks[b], b) \in Breakpoint /\ PlacedText(breaks[b], b) \in [Addr -> Instr]
        BY <1>0, <4>1, BreakTyped
      <4>3. /\ breaks' = [breaks EXCEPT ![b] = PlacedBreak(breaks[b], b)]
            /\ mem' = PlacedText(breaks[b], b)
        BY <1>6, <3>2 DEF Replace
      <4> QED BY <1>0, <4>1, <4>2, <4>3 DEF TypeOK
    <3> QED BY <3>1, <3>2
  <2> QED BY <1>0, <1>6, <1>l, <2>1 DEF Replace, AfterStepi, TypeOK, TraceeTypeOK
<1>7. CASE Cont
  <2>1. cmd' \in CmdType
    <3>1. [cmd EXCEPT !.then = "ret"] \in CmdType
      BY <1>l, <1>t, CallTyped
    <3> QED BY <1>7, <1>t, <3>1 DEF Cont
  <2> QED BY <1>0, <1>7, <1>l, <2>1 DEF Cont, TypeOK, TraceeTypeOK, ctxVars
<1>8. CASE Load
  <2>1. fname' \in Image \cup {NoFile}
    BY <1>0, <1>8 DEF Load, WaitsFor
  <2> QED BY <1>0, <1>8, <2>1, FinishTyped DEF Load, TypeOK, TraceeTypeOK, childVars
<1>9. ASSUME NEW a \in Addr, RunPlace(a) PROVE TypeOK'
  <2> DEFINE p == [breaks[a] EXCEPT !.is_placed = FALSE]
  <2>1. p \in Breakpoint
    <3>1. breaks[a] \in Breakpoint
      BY <1>0 DEF TypeOK
    <3> QED BY <3>1 DEF Breakpoint
  <2>2. PlacedBreak(p, a) \in Breakpoint /\ PlacedText(p, a) \in [Addr -> Instr]
    BY <1>0, <2>1, BreakTyped
  <2>3. breaks' = [breaks EXCEPT ![a] = PlacedBreak(p, a)] /\ mem' = PlacedText(p, a)
    BY <1>9 DEF RunPlace
  <2> HIDE DEF p
  <2>4. breaks' \in [Addr -> Breakpoint] /\ mem' \in [Addr -> Instr]
    BY <1>0, <2>2, <2>3 DEF TypeOK
  <2>5. todo' \in SUBSET Addr
    BY <1>0, <1>9 DEF RunPlace, TypeOK
  <2>6. UNCHANGED <<child, signal, rip, stack, s_debugger, s_target, pid, fname, breaks_cnt, line,
                    at, cmd, b, res, hist>>
    BY <1>9 DEF RunPlace
  <2> QED BY <1>0, <2>4, <2>5, <2>6 DEF TypeOK, TraceeTypeOK
<1>10. CASE RunDone
  <2>1. line' \in Lines
    BY <1>10 DEF RunDone, Lines
  <2>2. TraceeTypeOK'
    BY <1>0, <1>10, ChildTyped DEF RunDone
  <2> QED BY <1>0, <1>10, <2>1, <2>2, FinishTyped DEF RunDone, TypeOK
<1>11. CASE KillRet
  <2>1. TraceeTypeOK'
    BY <1>0, <1>11, ChildTyped DEF KillRet
  <2> QED BY <1>0, <1>11, <2>1, FinishTyped DEF KillRet, TypeOK
<1>12. CASE ContinueRet
  <2>1. line' \in Lines
    BY <1>0, <1>12 DEF ContinueRet, LineByAddress, TypeOK, Lines
  <2>2. TraceeTypeOK'
    BY <1>0, <1>12, ChildTyped DEF ContinueRet
  <2> QED BY <1>f, <1>0, <1>12, <2>1, <2>2 DEF ContinueRet, TypeOK
<1>13. CASE StepiRet
  <2>1. [cmd EXCEPT !.i = @ + 1] \in CmdType
    BY <1>t, CountersTyped
  <2>2. /\ s_debugger' \in {"IDLE", "PROCESSING", "ERROR", "EXITING"}
        /\ at' \in Labels /\ cmd' \in CmdType /\ hist' \in HistType /\ res' \in {"ok", "error"}
    BY <1>0, <1>13, <1>l, <2>1, <1>f DEF StepiRet, TypeOK
  <2>3. TraceeTypeOK'
    BY <1>0, <1>13, ChildTyped DEF StepiRet
  <2> QED BY <1>0, <1>13, <2>2, <2>3 DEF StepiRet, TypeOK
<1>14. CASE NextiHead
  BY <1>0, <1>14, TypeNexti
<1>15. CASE NextiRet
  <2>1. cmd' \in CmdType
    <3>1. [cmd EXCEPT !.temp = 0] \in CmdType /\ [cmd EXCEPT !.j = @ + 1, !.temp = 0] \in CmdType
      BY <1>t, CountersTyped
    <3> QED BY <1>15, <3>1 DEF NextiRet, NextiError, NextiDone
  <2>2. breaks' \in [Addr -> Breakpoint] /\ mem' \in [Addr -> Instr]
    <3>1. CASE cmd.temp = 0 \/ res = "error"
      BY <1>0, <1>15, <3>1 DEF NextiRet, NextiError, NextiDone, TypeOK, TraceeTypeOK
    <3>2. CASE cmd.temp # 0 /\ res # "error"
      <4>1. cmd.temp \in Addr /\ breaks[cmd.temp] \in Breakpoint
        BY <1>0, <3>2 DEF TypeOK, CmdType
      <4>2. RemovedText(breaks[cmd.temp], cmd.temp) \in [Addr -> Instr]
        BY <1>0, <4>1, BreakTyped
      <4>3. NoBreak \in Breakpoint
        BY NewBreakTyped
      <4> QED BY <1>0, <1>15, <3>2, <4>2, <4>3 DEF NextiRet, NextiError, NextiDone, TypeOK
    <3> QED BY <3>1, <3>2
  <2>3. breaks_cnt' \in Nat
    BY <1>0, <1>15 DEF NextiRet, NextiError, NextiDone, TypeOK, TempIsLast
  <2> QED
    BY <1>0, <1>15, <1>l, <2>1, <2>2, <2>3
    DEF NextiRet, NextiError, NextiDone, TypeOK, TraceeTypeOK
<1>16. CASE NextiLeave
  <2>1. TraceeTypeOK'
    BY <1>0, <1>16, ChildTyped DEF NextiLeave
  <2> QED BY <1>0, <1>16, <2>1, FinishTyped DEF NextiLeave, TypeOK
<1>n. LineNext => /\ line' \in Lines /\ at' \in Labels /\ cmd' \in CmdType /\ hist' \in HistType
                  /\ res' \in {"ok", "error"}
                  /\ s_debugger' \in {"IDLE", "PROCESSING", "ERROR", "EXITING"}
  <2>1. [cmd EXCEPT !.i = @ + 1] \in CmdType /\ LineSet(cmd.curr) \in Lines
    <3>1. [cmd EXCEPT !.i = @ + 1] \in CmdType
      BY <1>t, CountersTyped
    <3>2. LineSet(cmd.curr) \in Lines
      BY <1>0, <1>t DEF TypeOK, CmdType, LineSet
    <3> QED BY <3>1, <3>2
  <2> QED BY <1>0, <1>l, <2>1, <1>f DEF LineNext, TypeOK
<1>17. CASE LineHead
  <2>1. [cmd EXCEPT !.rip = rip, !.j = 0] \in CmdType
    BY <1>0 DEF TypeOK, TraceeTypeOK, CmdType
  <2>2. /\ s_debugger' \in {"IDLE", "PROCESSING", "ERROR", "EXITING"}
        /\ at' \in Labels /\ cmd' \in CmdType /\ hist' \in HistType /\ res' \in {"ok", "error"}
        /\ line' \in Lines
    BY <1>0, <1>17, <1>l, <1>n, <1>f, <2>1 DEF LineHead, TypeOK
  <2>3. TraceeTypeOK'
    BY <1>0, <1>17, ChildTyped DEF LineHead
  <2> QED BY <1>0, <1>17, <2>2, <2>3 DEF LineHead, TypeOK
<1>18. CASE StepRet
  <2>2. /\ s_debugger' \in {"IDLE", "PROCESSING", "ERROR", "EXITING"}
        /\ at' \in Labels /\ cmd' \in CmdType /\ hist' \in HistType /\ res' \in {"ok", "error"}
    BY <1>0, <1>18, <1>l, <1>f DEF StepRet, TypeOK
  <2> QED BY <1>0, <1>18, <2>2 DEF StepRet, TypeOK, TraceeTypeOK, childVars
<1>19. CASE LineStepped
  <2>1. LineByAddress(rip, cmd.curr) \in Lines
    BY <1>0 DEF TypeOK, CmdType, LineByAddress, Lines
  <2>2. [cmd EXCEPT !.curr = LineByAddress(rip, cmd.curr)] \in CmdType
    BY <1>0, <2>1 DEF TypeOK, CmdType
  <2>3. /\ s_debugger' \in {"IDLE", "PROCESSING", "ERROR", "EXITING"}
        /\ at' \in Labels /\ cmd' \in CmdType /\ hist' \in HistType /\ res' \in {"ok", "error"}
        /\ line' \in Lines
    BY <1>0, <1>19, <1>l, <1>n, <1>f, <2>2 DEF LineStepped, TypeOK
  <2> QED BY <1>0, <1>19, <2>3 DEF LineStepped, TypeOK, TraceeTypeOK, childVars
<1> QED
  BY <1>1, <1>2, <1>3, <1>4, <1>5, <1>6, <1>7, <1>8, <1>9, <1>10, <1>11, <1>12, <1>13,
     <1>14, <1>15, <1>16, <1>17, <1>18, <1>19 DEF Internal

(* Every step keeps the types.                                             *)
LEMMA TypeStep == IInv /\ [Next]_vars => TypeOK'
<1> SUFFICES ASSUME IInv, [Next]_vars PROVE TypeOK'
  OBVIOUS
<1>0. TypeOK
  BY DEF IInv
<1>1. CASE DebuggeeKilled
  BY <1>0, <1>1, EndsTyped DEF DebuggeeKilled, ChildKilled, TypeOK, ctxVars
<1>2. CASE UNCHANGED vars
  BY <1>0, <1>2 DEF vars, childVars, ctxVars, TypeOK, TraceeTypeOK
<1> QED
  BY <1>0, <1>1, <1>2, TypeUser, TypeInternal, TypeGo DEF Next, Exited

(* A command begins with the process and the debugger where they expect    *)
(* each other, and a pid other than 0.                                     *)
LEMMA ControlUser == IInv /\ User => ProcessKnown' /\ WaitsFor' /\ NeverOwnGroup'
<1> SUFFICES ASSUME IInv, User PROVE ProcessKnown' /\ WaitsFor' /\ NeverOwnGroup'
  OBVIOUS
<1>0. TypeOK /\ ProcessKnown /\ WaitsFor /\ NeverOwnGroup
  BY DEF IInv
<1> USE <1>0 DEF ProcessKnown, WaitsFor, NeverOwnGroup, Alive, Running, Unfixed, Ready, childVars, TypeOK,
        TraceeTypeOK, CmdType, Labels
<1>1. CASE Refuse
  BY <1>1 DEF Refuse, Reply
<1>2. CASE CmdExit
  BY <1>2 DEF CmdExit
<1>3. CASE CmdRun
  BY <1>3 DEF CmdRun, ForkExec, Ends, Begin, NoCmd
<1>4. CASE CmdRunForkFails
  BY <1>4 DEF CmdRunForkFails, Reply
<1>5. CASE CmdContinue
  BY <1>5 DEF CmdContinue, Begin, NoCmd
<1>6. ASSUME NEW f \in Image, CmdFile(f) PROVE ProcessKnown' /\ WaitsFor' /\ NeverOwnGroup'
  <2>1. CASE Alive
    <3>1. /\ child' = "zombie" /\ rip' = 0 /\ stack' = <<>> /\ signal' = "trap"
          /\ UNCHANGED <<pid, fname, s_target>> /\ at' = "wait"
      BY <1>6, <2>1 DEF CmdFile, SendSigkill, Ends, Begin
    <3>2. cmd'.file = f /\ cmd'.then = "load"
      BY <1>6, <2>1 DEF CmdFile, Begin, NoCmd
    <3> QED BY <2>1, <3>1, <3>2
  <2>2. CASE ~Alive
    <3>1. UNCHANGED <<childVars, pid, fname, s_target>> /\ at' \in {"wait", "load"}
      BY <1>6, <2>2 DEF CmdFile, SendSigkill, Begin
    <3>2. at' = "wait" => pid # 0 /\ child # "none" /\ cmd'.then = "load"
      BY <1>6 DEF CmdFile, Begin, NoCmd
    <3>3. cmd'.file = f /\ cmd'.then \in {"load", "idle"}
      BY <1>6 DEF CmdFile, Begin, NoCmd
    <3> QED BY <2>2, <3>1, <3>2, <3>3
  <2> QED BY <2>1, <2>2
<1>7. ASSUME NEW a \in Addr, CmdBreak(a) PROVE ProcessKnown' /\ WaitsFor' /\ NeverOwnGroup'
  BY <1>7 DEF CmdBreak, Reply
<1>8. ASSUME NEW id \in 0 .. MaxBreaks + 1, CmdDelete(id) PROVE ProcessKnown' /\ WaitsFor' /\ NeverOwnGroup'
  BY <1>8 DEF CmdDelete, Deleted, Reply
<1>9. ASSUME NEW sig \in Signals, CmdKill(sig) PROVE ProcessKnown' /\ WaitsFor' /\ NeverOwnGroup'
  BY <1>9 DEF CmdKill, SendSigkill, Ends, Begin, NoCmd
<1>10. ASSUME NEW n \in Counts, CmdStepi(n) PROVE ProcessKnown' /\ WaitsFor' /\ NeverOwnGroup'
  BY <1>10 DEF CmdStepi, Begin, NoCmd
<1>11. ASSUME NEW n \in Counts, CmdNexti(n) PROVE ProcessKnown' /\ WaitsFor' /\ NeverOwnGroup'
  BY <1>11 DEF CmdNexti, Begin, NoCmd, Reply
<1>12. ASSUME NEW n \in Counts, NEW fn \in {"step", "next"}, CmdLine(fn, n)
      PROVE  ProcessKnown' /\ WaitsFor' /\ NeverOwnGroup'
  BY <1>12 DEF CmdLine, Begin, NoCmd, Reply
<1> QED
  BY <1>1, <1>2, <1>3, <1>4, <1>5, <1>6, <1>7, <1>8, <1>9, <1>10, <1>11, <1>12 DEF User

(* So they are after each step of the debugger ...                         *)
LEMMA ControlInternal == IInv /\ Internal => ProcessKnown' /\ WaitsFor' /\ NeverOwnGroup'
<1> SUFFICES ASSUME IInv, Internal PROVE ProcessKnown' /\ WaitsFor' /\ NeverOwnGroup'
  OBVIOUS
<1>0. TypeOK /\ ProcessKnown /\ WaitsFor /\ NeverOwnGroup
  BY DEF IInv
<1> USE <1>0 DEF ProcessKnown, WaitsFor, NeverOwnGroup, Alive, Running, Attached, Unfixed, childVars,
        ctxVars, TypeOK, TraceeTypeOK, CmdType, Labels
<1>1. CASE ReportError
  BY <1>1 DEF ReportError
<1>2. CASE Wait
  <2>1. CASE WaitEnded
    BY <1>2, <2>1 DEF Wait, WaitEnded
  <2>2. CASE WaitStopped
    <3>1. ProcessKnown'
      BY <1>2, <2>2 DEF Wait, WaitStopped
    <3>2. WaitsFor' /\ NeverOwnGroup'
      BY <1>2, <2>2 DEF Wait, WaitStopped
    <3> QED BY <3>1, <3>2
  <2> QED BY <1>2, <2>1, <2>2 DEF Wait
<1>3. CASE SigInfo
  BY <1>3 DEF SigInfo
<1>4. CASE Stepi
  BY <1>4 DEF Stepi, StepiRemove, StepiKeep
<1>5. CASE SingleStep
  BY <1>5 DEF SingleStep, AfterStepi
<1>6. CASE Replace
  BY <1>6 DEF Replace, AfterStepi
<1>7. CASE Cont
  BY <1>7 DEF Cont
<1>8. CASE Load
  BY <1>8 DEF Load, Finish, NoCmd
<1>9. CASE RunDone
  BY <1>9 DEF RunDone, Finish, NoCmd
<1>10. CASE KillRet
  BY <1>10 DEF KillRet, Finish, NoCmd
<1>11. CASE ContinueRet
  BY <1>11 DEF ContinueRet, Finish, NoCmd
<1>12. CASE StepiRet
  BY <1>12 DEF StepiRet, Finish, NoCmd
<1>13. CASE NextiHead
  BY <1>13 DEF NextiHead, NextiCall, NextiPlain
<1>14. CASE NextiRet
  BY <1>14 DEF NextiRet, NextiError, NextiDone
<1>15. CASE NextiLeave
  BY <1>15 DEF NextiLeave, Finish, NoCmd
<1>16. CASE LineHead
  BY <1>16 DEF LineHead, LineNext, Finish, NoCmd
<1>17. CASE StepRet
  BY <1>17 DEF StepRet, Finish, NoCmd
<1>18. CASE LineStepped
  BY <1>18 DEF LineStepped, LineNext, Finish, NoCmd
<1>19. ASSUME NEW a \in Addr, RunPlace(a) PROVE ProcessKnown' /\ WaitsFor' /\ NeverOwnGroup'
  BY <1>19 DEF RunPlace
<1> QED
  BY <1>1, <1>2, <1>3, <1>4, <1>5, <1>6, <1>7, <1>8, <1>9, <1>10, <1>11, <1>12, <1>13, <1>14, <1>15, <1>16, <1>17, <1>18, <1>19 DEF Internal

(* ... and of the process, however it ends.                                *)
LEMMA ControlChild ==
  IInv /\ (DebuggeeStep \/ DebuggeeKilled) => ProcessKnown' /\ WaitsFor' /\ NeverOwnGroup'
<1> SUFFICES ASSUME IInv, DebuggeeStep \/ DebuggeeKilled
             PROVE  ProcessKnown' /\ WaitsFor' /\ NeverOwnGroup'
  OBVIOUS
<1>0. TypeOK /\ ProcessKnown /\ WaitsFor /\ NeverOwnGroup
  BY DEF IInv
<1> USE <1>0 DEF ctxVars, ProcessKnown, WaitsFor, NeverOwnGroup, Alive, Running, Unfixed, TypeOK,
        TraceeTypeOK
<1>1. CASE DebuggeeStep
  <2>1. child \in {"stepping", "running"} /\ at = "wait" /\ UNCHANGED <<ctxVars, at, cmd, b, todo, res>>
    BY <1>1 DEF DebuggeeStep, ChildStep
  <2>2. CASE ChildGo
    BY <2>1, <2>2 DEF ChildGo
  <2>3. CASE ChildInt3
    BY <2>1, <2>3 DEF ChildInt3
  <2>4. CASE ChildFault
    BY <2>1, <2>4 DEF ChildFault
  <2>5. CASE ChildExit
    BY <2>1, <2>5 DEF ChildExit, Ends
  <2> QED BY <1>1, <2>2, <2>3, <2>4, <2>5 DEF DebuggeeStep, ChildStep
<1>2. CASE DebuggeeKilled
  BY <1>2 DEF DebuggeeKilled, ChildKilled, Ends
<1> QED BY <1>1, <1>2

(* The part of the invariant about breakpoints and text.                   *)
Data == Transparent /\ Lifted /\ IdsUnique /\ TempIsLast

(* A step that changes no id keeps what concerns ids only.                 *)
LEMMA SameIds ==
  ASSUME TypeOK, Data, UNCHANGED <<breaks_cnt, cmd>>,
         \A a \in Addr : breaks'[a].id = breaks[a].id,
         cmd.temp # 0 => /\ at' \notin {"idle", "nexti", "left", "line", "load", "place"}
                         /\ at' \in {"wait", "siginfo"} => cmd'.then \in {"ret", "replace"}
  PROVE  IdsUnique' /\ TempIsLast'
<1>1. IdsUnique'
  BY DEF Data, IdsUnique, IsSet
<1>2. cmd.temp # 0 => cmd.temp \in Addr
  BY DEF TypeOK, CmdType
<1>3. TempIsLast'
  BY <1>2 DEF Data, TempIsLast
<1> QED BY <1>1, <1>3

(* ctx_tg_stepi lifts the breakpoint at the program counter and remembers  *)
(* it.                                                                     *)
LEMMA DataStepi == IInv /\ Stepi => Data'
<1> SUFFICES ASSUME IInv, Stepi PROVE Data'
  OBVIOUS
<1>0. TypeOK /\ Data /\ ProcessKnown
  BY DEF IInv, Data
<1>1. /\ at = "stepi" /\ at' = "step" /\ todo = {} /\ b = 0
      /\ UNCHANGED <<child, pid, fname, breaks_cnt, cmd, todo>>
  BY <1>0 DEF Stepi, Data, Lifted
<1>2. Alive => Attached
  BY <1>0, <1>1 DEF ProcessKnown, Attached
<1>3. CASE \E a \in Addr : StepiRemove(a)
  <2> PICK a \in Addr : StepiRemove(a)
    BY <1>3
  <2>1. breaks[a] \in Breakpoint
    BY <1>0 DEF TypeOK
  <2>2. CASE Removes(breaks[a], a)
    <3>1. /\ breaks' = [breaks EXCEPT ![a] = [breaks[a] EXCEPT !.is_placed = FALSE]]
          /\ mem' = [mem EXCEPT ![a] = breaks[a].data]
          /\ b' = a
      BY <2>2 DEF StepiRemove, RemovedBreak, RemovedText
    <3>2. /\ ~breaks'[a].is_placed /\ breaks'[a].id = breaks[a].id
          /\ \A c \in Addr : c # a => breaks'[c] = breaks[c]
      BY <1>0, <2>1, <3>1 DEF TypeOK, Breakpoint
    <3>3. \A c \in Addr : mem'[c] = IF c = a THEN breaks[a].data ELSE mem[c]
      BY <1>0, <3>1 DEF TypeOK, TraceeTypeOK
    <3>4. Transparent'
      BY <1>0, <1>1, <2>2, <3>2, <3>3 DEF Data, Transparent, InText, Alive, Removes
    <3>7. IsSet(a) /\ \A c \in Addr : breaks'[c].id = breaks[c].id
      BY <3>2 DEF StepiRemove
    <3>5. Lifted'
      <4>1. \A c \in Addr : breaks'[c].is_placed => breaks[c].is_placed
        BY <3>2
      <4>2. 0 \notin Addr
        BY DEF Addr
      <4> QED BY <1>0, <1>1, <3>1, <3>2, <3>7, <4>1, <4>2 DEF Data, Lifted, IsSet, InText, Alive
    <3>6. IdsUnique' /\ TempIsLast'
      BY <1>0, <1>1, <3>7, SameIds
    <3> QED BY <3>4, <3>5, <3>6 DEF Data
  <2>3. CASE ~Removes(breaks[a], a)
    <3>1. breaks' = breaks /\ mem' = mem /\ b' = a /\ IsSet(a)
      BY <1>0, <2>3 DEF StepiRemove, RemovedBreak, RemovedText, TypeOK
    <3> QED
      <4>1. IdsUnique' /\ TempIsLast'
        BY <1>0, <1>1, <3>1, SameIds
      <4>2. Transparent' /\ Lifted'
        <5>1. 0 \notin Addr
          BY DEF Addr
        <5>2. Transparent'
          BY <1>0, <1>1, <3>1 DEF Data, Transparent, InText, Alive
        <5>3. Lifted'
          BY <1>0, <1>1, <3>1, <5>1 DEF Data, Lifted, IsSet, InText, Alive
        <5> QED BY <5>2, <5>3
      <4> QED BY <4>1, <4>2 DEF Data
  <2> QED BY <2>2, <2>3
<1>4. CASE ~\E a \in Addr : StepiRemove(a)
  <2>1. b' = 0 /\ UNCHANGED <<breaks, mem>>
    BY <1>4 DEF Stepi, StepiRemove, StepiKeep
  <2> QED
    BY <1>0, <1>1, <2>1 DEF Data, Transparent, Lifted, IdsUnique, TempIsLast, IsSet, InText, Alive
<1> QED BY <1>3, <1>4

(* It puts the breakpoint back.                                            *)
LEMMA DataReplace == IInv /\ Replace => Data'
<1> SUFFICES ASSUME IInv, Replace PROVE Data'
  OBVIOUS
<1>0. TypeOK /\ Data /\ ProcessKnown
  BY DEF IInv, Data
<1>1. /\ at = "replace" /\ at' \in {"cont", "ret"} /\ todo = {} /\ b' = 0
      /\ UNCHANGED <<child, pid, fname, breaks_cnt, cmd, todo>>
  BY <1>0 DEF Replace, AfterStepi, Data, Lifted
<1>2. Alive => Attached /\ fname \in Image
  BY <1>0, <1>1 DEF ProcessKnown, Attached, Alive
<1>3. CASE b = 0
  <2>1. UNCHANGED <<breaks, mem, b>>
    BY <1>1, <1>3 DEF Replace
  <2> QED
    BY <1>0, <1>1, <2>1 DEF Data, Transparent, Lifted, IdsUnique, TempIsLast, IsSet, InText, Alive
<1>4. CASE b # 0
  <2>1. b \in Addr /\ breaks[b] \in Breakpoint /\ IsSet(b)
    BY <1>0, <1>4 DEF TypeOK, Data, Lifted
  <2>2. CASE Places(breaks[b], b)
    <3>1. /\ breaks' = [breaks EXCEPT ![b] = [breaks[b] EXCEPT !.data = mem[b], !.is_placed = TRUE]]
          /\ mem' = [mem EXCEPT ![b] = Int3]
      BY <1>4, <2>2 DEF Replace, PlacedBreak, PlacedText
    <3>2. /\ breaks'[b].is_placed /\ breaks'[b].id = breaks[b].id /\ breaks'[b].data = mem[b]
          /\ \A c \in Addr : c # b => breaks'[c] = breaks[c]
      BY <1>0, <2>1, <3>1 DEF TypeOK, Breakpoint
    <3>3. \A c \in Addr : mem'[c] = IF c = b THEN Int3 ELSE mem[c]
      BY <1>0, <3>1 DEF TypeOK, TraceeTypeOK
    <3>4. Transparent'
      BY <1>0, <1>1, <2>1, <2>2, <3>2, <3>3 DEF Data, Transparent, InText, Alive, Places
    <3>5. Lifted'
      BY <1>0, <1>1, <2>1, <3>2 DEF Data, Lifted, IsSet, InText, Alive
    <3>6. IdsUnique' /\ TempIsLast'
      <4>1. \A c \in Addr : breaks'[c].id = breaks[c].id
        BY <3>2
      <4> QED BY <1>0, <1>1, <4>1, SameIds
    <3> QED BY <3>4, <3>5, <3>6 DEF Data
  <2>3. CASE ~Places(breaks[b], b)
    <3>1. breaks' = breaks /\ mem' = mem
      BY <1>0, <1>4, <2>3 DEF Replace, PlacedBreak, PlacedText, TypeOK
    <3>2. Alive => breaks[b].is_placed \/ Code[fname][b].op = "unmapped"
      BY <1>0, <1>1, <1>2, <2>1, <2>3 DEF Places, Accessible, Data, Transparent, InText
    <3> QED
      BY <1>0, <1>1, <2>1, <3>1, <3>2
      DEF Data, Transparent, Lifted, IdsUnique, TempIsLast, IsSet, InText, Alive
  <2> QED BY <2>2, <2>3
<1> QED BY <1>3, <1>4

(* A step that leaves the breakpoints alone, and the text of a process     *)
(* that is alive after it.                                                 *)
Quiet ==
  /\ UNCHANGED <<breaks, breaks_cnt, todo, fname>>
  /\ Alive' => Alive /\ UNCHANGED mem /\ b' = b
  /\ todo # {} => \/ at' = "place"
                  \/ at' \in {"wait", "siginfo"} /\ cmd'.then = "place"
  /\ b' # 0 => /\ b' = b
               /\ \/ at' \in {"step", "replace"}
                  \/ at' \in {"wait", "siginfo"} /\ cmd'.then = "replace"
  /\ cmd'.temp # 0 =>
       /\ cmd'.temp = cmd.temp /\ cmd'.fn = cmd.fn
       /\ at' \notin {"idle", "nexti", "left", "line", "load", "place"}
       /\ at' \in {"wait", "siginfo"} => cmd'.then \in {"ret", "replace"}

(* Such a step keeps the breakpoints and the text in order.                *)
LEMMA QuietKeepsData ==
  ASSUME TypeOK, Data, Quiet PROVE Data'
<1>1. Transparent'
  BY DEF Data, Quiet, Transparent, InText
<1>2. Lifted'
  BY DEF Data, Quiet, Lifted, InText, IsSet, TypeOK
<1>3. IdsUnique' /\ TempIsLast'
  BY DEF Data, Quiet, IdsUnique, TempIsLast, IsSet, TypeOK
<1> QED BY <1>1, <1>2, <1>3 DEF Data

(* Commands that are such steps.                                           *)
QuietUser ==
  \/ Refuse \/ CmdExit \/ CmdRunForkFails \/ CmdContinue
  \/ \E f \in Image : CmdFile(f)
  \/ \E sig \in Signals : CmdKill(sig)
  \/ \E n \in Counts : CmdStepi(n)
  \/ \E n \in Counts : CmdNexti(n)
  \/ \E n \in Counts : CmdLine("step", n) \/ CmdLine("next", n)

(* These commands are such steps.                                          *)
LEMMA UserIsQuiet == IInv /\ QuietUser => Quiet
<1> SUFFICES ASSUME IInv, QuietUser PROVE Quiet
  OBVIOUS
<1>0. TypeOK /\ Lifted /\ TempIsLast
  BY DEF IInv, Data
<1> USE <1>0 DEF Quiet, Lifted, TempIsLast, Alive, Ready, childVars, TypeOK, TraceeTypeOK, CmdType
<1>1. CASE Refuse
  BY <1>1 DEF Refuse, Reply
<1>2. CASE CmdExit
  BY <1>2 DEF CmdExit
<1>3. CASE CmdRunForkFails
  BY <1>3 DEF CmdRunForkFails, Reply
<1>4. CASE CmdContinue
  BY <1>4 DEF CmdContinue, Begin, NoCmd
<1>5. ASSUME NEW f \in Image, CmdFile(f) PROVE Quiet
  BY <1>5 DEF CmdFile, SendSigkill, Ends, Begin, NoCmd
<1>6. ASSUME NEW sig \in Signals, CmdKill(sig) PROVE Quiet
  BY <1>6 DEF CmdKill, SendSigkill, Ends, Begin, NoCmd
<1>7. ASSUME NEW n \in Counts, CmdStepi(n) PROVE Quiet
  BY <1>7 DEF CmdStepi, Begin, NoCmd
<1>8. ASSUME NEW n \in Counts, CmdNexti(n) PROVE Quiet
  BY <1>8 DEF CmdNexti, Begin, NoCmd, Reply
<1>9. ASSUME NEW n \in Counts, NEW fn \in {"step", "next"}, CmdLine(fn, n) PROVE Quiet
  BY <1>9 DEF CmdLine, Begin, NoCmd, Reply
<1> QED
  BY <1>1, <1>2, <1>3, <1>4, <1>5, <1>6, <1>7, <1>8, <1>9 DEF QuietUser

(* Steps of the debugger and of the process that are.                      *)
QuietInternal ==
  \/ ReportError \/ Wait \/ SigInfo \/ SingleStep \/ Cont \/ RunDone \/ KillRet
  \/ ContinueRet \/ StepiRet \/ NextiLeave \/ LineHead \/ StepRet \/ LineStepped \/ DebuggeeStep \/ DebuggeeKilled

(* So are these steps of the debugger and of the process.                  *)
LEMMA InternalIsQuiet == IInv /\ QuietInternal => Quiet
<1> SUFFICES ASSUME IInv, QuietInternal PROVE Quiet
  OBVIOUS
<1>0. TypeOK /\ Lifted /\ TempIsLast /\ ProcessKnown /\ WaitsFor
  BY DEF IInv
<1> USE <1>0 DEF Quiet, Lifted, TempIsLast, ProcessKnown, WaitsFor, Alive, childVars, ctxVars, TypeOK,
        TraceeTypeOK, CmdType
<1>1. CASE ReportError
  BY <1>1 DEF ReportError
<1>2. CASE Wait
  BY <1>2 DEF Wait, WaitEnded, WaitStopped
<1>3. CASE SigInfo
  BY <1>3 DEF SigInfo
<1>4. CASE SingleStep
  BY <1>4 DEF SingleStep, AfterStepi, Attached
<1>5. CASE Cont
  BY <1>5 DEF Cont, Attached
<1>6. CASE RunDone
  BY <1>6 DEF RunDone, Finish, NoCmd
<1>7. CASE KillRet
  BY <1>7 DEF KillRet, Finish, NoCmd
<1>8. CASE ContinueRet
  BY <1>8 DEF ContinueRet, Finish, NoCmd
<1>9. CASE StepiRet
  BY <1>9 DEF StepiRet, Finish, NoCmd
<1>10. CASE NextiLeave
  BY <1>10 DEF NextiLeave, Finish, NoCmd
<1>11. CASE LineHead
  <2>1. /\ at = "line" /\ cmd.temp = 0 /\ b' = 0 /\ b = 0 /\ todo = {}
        /\ UNCHANGED <<childVars, breaks, breaks_cnt, todo, fname>>
    BY <1>11 DEF LineHead
  <2>2. [cmd EXCEPT !.rip = rip, !.j = 0].temp = 0 /\ [cmd EXCEPT !.i = @ + 1].temp = 0
        /\ NoCmd.temp = 0
    BY <2>1 DEF NoCmd
  <2>3. cmd'.temp = 0
    BY <1>11, <2>1, <2>2 DEF LineHead, LineNext, Finish
  <2> QED BY <2>1, <2>3
<1>12. CASE StepRet
  BY <1>12 DEF StepRet, Finish, NoCmd
<1>13. CASE LineStepped
  BY <1>13 DEF LineStepped, LineNext, Finish, NoCmd
<1>14. CASE DebuggeeStep
  BY <1>14 DEF DebuggeeStep, ChildStep, ChildGo, ChildInt3, ChildFault, ChildExit, Ends
<1>15. CASE DebuggeeKilled
  BY <1>15 DEF DebuggeeKilled, ChildKilled, Ends
<1> QED
  BY <1>1, <1>2, <1>3, <1>4, <1>5, <1>6, <1>7, <1>8, <1>9, <1>10, <1>11, <1>12, <1>13, <1>14, <1>15 DEF QuietInternal

(* ctx_bp_place on an unplaced breakpoint p that is stored at a.           *)
LEMMA PlaceAt ==
  ASSUME TypeOK, NEW p \in Breakpoint, NEW a \in Addr, ~p.is_placed,
         breaks' = [breaks EXCEPT ![a] = PlacedBreak(p, a)],
         mem' = PlacedText(p, a)
  PROVE  /\ \A c \in Addr : c # a => breaks'[c] = breaks[c] /\ mem'[c] = mem[c]
         /\ breaks'[a].id = p.id
         /\ Accessible(a) => /\ breaks'[a].is_placed
                             /\ breaks'[a].data = mem[a]
                             /\ mem'[a] = Int3
         /\ ~Accessible(a) => ~breaks'[a].is_placed /\ mem'[a] = mem[a]
<1>1. CASE Accessible(a)
  <2> DEFINE q == [p EXCEPT !.data = mem[a], !.is_placed = TRUE]
  <2>1. breaks' = [breaks EXCEPT ![a] = q] /\ mem' = [mem EXCEPT ![a] = Int3]
    BY <1>1 DEF Places, PlacedBreak, PlacedText
  <2>2. q.is_placed /\ q.data = mem[a] /\ q.id = p.id
    BY DEF Breakpoint
  <2> HIDE DEF q
  <2> QED BY <1>1, <2>1, <2>2 DEF TypeOK, TraceeTypeOK
<1>2. CASE ~Accessible(a)
  <2>1. breaks' = [breaks EXCEPT ![a] = p] /\ mem' = mem
    BY <1>2 DEF Places, PlacedBreak, PlacedText
  <2> QED BY <1>2, <2>1 DEF TypeOK, TraceeTypeOK
<1> QED BY <1>1, <1>2

(* At the prompt no breakpoint is lifted and nexti has none of its own.    *)
LEMMA AtPrompt ==
  ASSUME TypeOK, Data, at = "idle"
  PROVE  todo = {} /\ b = 0 /\ cmd.temp = 0
  BY DEF Data, Lifted, TempIsLast, TypeOK

(* cmd_run hands every breakpoint to the loop that places them.            *)
LEMMA DataRun == IInv /\ CmdRun => Data'
<1> SUFFICES ASSUME IInv, CmdRun PROVE Data'
  OBVIOUS
<1>0. TypeOK /\ Data /\ ProcessKnown /\ todo = {} /\ b = 0 /\ cmd.temp = 0
  BY AtPrompt DEF IInv, Data, CmdRun, Ready
<1>1. /\ UNCHANGED <<breaks, breaks_cnt, fname, b>>
      /\ todo' = {a \in Addr : IsSet(a)}
      /\ at' = "wait" /\ cmd'.then = "place" /\ cmd'.temp = 0
      /\ Alive' => mem' = Code[fname]
  BY DEF CmdRun, Begin, NoCmd, ForkExec, Ends, Alive
<1>2. \A a \in Addr : breaks[a].is_placed => a \in todo'
  BY <1>0, <1>1 DEF Data, Lifted
<1>3. Transparent'
  BY <1>1, <1>2 DEF Transparent, InText
<1>4. Lifted'
  BY <1>0, <1>1, <1>2 DEF Data, Lifted, IsSet
<1>5. IdsUnique' /\ TempIsLast'
  BY <1>0, <1>1 DEF Data, IdsUnique, TempIsLast, IsSet
<1> QED BY <1>3, <1>4, <1>5 DEF Data

(* The loop places one of them in the new text.                            *)
LEMMA DataRunPlace == ASSUME IInv, NEW a \in Addr, RunPlace(a) PROVE Data'
<1> DEFINE p == [breaks[a] EXCEPT !.is_placed = FALSE]
<1>0. TypeOK /\ Data /\ ProcessKnown
  BY DEF IInv, Data
<1>1. /\ at = "place" /\ at' = "place" /\ a \in todo /\ todo' = todo \ {a} /\ b = 0
      /\ UNCHANGED <<child, pid, fname, breaks_cnt, cmd, b>>
      /\ breaks' = [breaks EXCEPT ![a] = PlacedBreak(p, a)]
      /\ mem' = PlacedText(p, a)
  BY <1>0 DEF RunPlace, Data, Lifted
<1>2. p \in Breakpoint /\ ~p.is_placed /\ p.id = breaks[a].id
  <2>1. breaks[a] \in Breakpoint
    BY <1>0 DEF TypeOK
  <2> QED BY <2>1 DEF Breakpoint
<1> HIDE DEF p
<1>3. /\ \A c \in Addr : c # a => breaks'[c] = breaks[c] /\ mem'[c] = mem[c]
      /\ breaks'[a].id = breaks[a].id
      /\ Accessible(a) => breaks'[a].is_placed /\ breaks'[a].data = mem[a] /\ mem'[a] = Int3
      /\ ~Accessible(a) => ~breaks'[a].is_placed /\ mem'[a] = mem[a]
  <2>1. breaks' = [breaks EXCEPT ![a] = PlacedBreak(p, a)] /\ mem' = PlacedText(p, a) /\ TypeOK
    BY <1>0, <1>1
  <2>2. breaks'[a].id = p.id /\ p.id = breaks[a].id
    BY <1>2, <2>1, PlaceAt
  <2> QED BY <1>2, <2>1, <2>2, PlaceAt
<1>4. Alive => Attached /\ fname \in Image /\ mem[a] = Code[fname][a]
  BY <1>0, <1>1 DEF ProcessKnown, Attached, Alive, Data, Transparent, InText
<1>5. Transparent'
  BY <1>0, <1>1, <1>3, <1>4 DEF Data, Transparent, InText, Alive, Accessible
<1>6. Lifted'
  BY <1>0, <1>1, <1>3, <1>4 DEF Data, Lifted, IsSet, InText, Alive, Accessible
<1>7. IdsUnique' /\ TempIsLast'
  <2>1. cmd.temp = 0
    BY <1>0, <1>1 DEF Data, TempIsLast, TypeOK, CmdType
  <2> QED BY <1>0, <1>1, <1>3, <2>1 DEF Data, IdsUnique, TempIsLast, IsSet
<1> QED BY <1>5, <1>6, <1>7 DEF Data

(* A breakpoint with the next id at an address that has none.              *)
LEMMA AddAt ==
  ASSUME TypeOK, Data, NEW p \in Breakpoint, NEW a \in Addr,
         ~p.is_placed, p.id = breaks_cnt + 1, ~IsSet(a), todo = {}, b = 0,
         Alive => Attached /\ fname \in Image,
         UNCHANGED <<child, fname, todo, b>>, breaks_cnt' = breaks_cnt + 1,
         \/ breaks' = [breaks EXCEPT ![a] = PlacedBreak(p, a)] /\ mem' = PlacedText(p, a)
         \/ breaks' = [breaks EXCEPT ![a] = p] /\ mem' = mem /\ ~Alive
  PROVE  /\ Transparent' /\ Lifted' /\ IdsUnique'
         /\ breaks'[a].id = breaks_cnt + 1
         /\ \A c \in Addr : c # a => breaks'[c] = breaks[c]
<1>1. /\ \A c \in Addr : c # a => breaks'[c] = breaks[c] /\ mem'[c] = mem[c]
      /\ breaks'[a].id = p.id
      /\ breaks'[a].is_placed => /\ Accessible(a)
                                 /\ breaks'[a].data = mem[a]
                                 /\ mem'[a] = Int3
      /\ ~breaks'[a].is_placed => mem'[a] = mem[a]
      /\ Alive /\ Accessible(a) => breaks'[a].is_placed
  <2>1. CASE breaks' = [breaks EXCEPT ![a] = PlacedBreak(p, a)] /\ mem' = PlacedText(p, a)
    <3>1. /\ \A c \in Addr : c # a => breaks'[c] = breaks[c] /\ mem'[c] = mem[c]
          /\ breaks'[a].id = p.id
          /\ Accessible(a) => breaks'[a].is_placed /\ breaks'[a].data = mem[a] /\ mem'[a] = Int3
          /\ ~Accessible(a) => ~breaks'[a].is_placed /\ mem'[a] = mem[a]
      BY <2>1, PlaceAt, Zenon
    <3> QED BY <3>1
  <2>2. CASE breaks' = [breaks EXCEPT ![a] = p] /\ mem' = mem /\ ~Alive
    BY <2>2 DEF TypeOK
  <2> QED BY <2>1, <2>2
<1>2. ~breaks[a].is_placed
  BY DEF Data, Lifted
<1>3. Transparent'
  BY <1>1, <1>2 DEF Data, Transparent, InText, Alive
<1>4. Alive => mem[a] = Code[fname][a]
  BY <1>2 DEF Data, Transparent, InText
<1>5. Lifted'
  BY <1>1, <1>4 DEF Data, Lifted, IsSet, InText, Alive, Accessible, TypeOK
<1>6. IdsUnique'
  <2>1. \A c \in Addr : breaks[c].id \in Nat
    BY DEF TypeOK, Breakpoint
  <2>2. \A c \in Addr : breaks[c].id # 0 => breaks[c].id <= breaks_cnt
    BY DEF Data, IdsUnique, IsSet
  <2> QED BY <1>1, <2>1, <2>2 DEF Data, IdsUnique, IsSet, TypeOK
<1> QED BY <1>1, <1>3, <1>5, <1>6

(* cmd_break adds a breakpoint.                                            *)
LEMMA DataBreak == ASSUME IInv, NEW a \in Addr, CmdBreak(a) PROVE Data'
<1> DEFINE p == NewBreak(breaks_cnt + 1)
<1>0. /\ TypeOK /\ Data /\ ProcessKnown /\ todo = {} /\ b = 0 /\ cmd.temp = 0
      /\ at = "idle" /\ UNCHANGED <<child, pid, fname, at, cmd, b, todo>>
  BY AtPrompt DEF IInv, Data, CmdBreak, Ready, Reply
<1>1. Alive => Attached /\ fname \in Image /\ Running
  BY <1>0 DEF ProcessKnown, Attached, Alive
<1>2. CASE IsSet(a)
  <2>1. UNCHANGED <<mem, breaks, breaks_cnt>>
    BY <1>2 DEF CmdBreak
  <2> QED BY <1>0, <2>1 DEF Data, Transparent, Lifted, IdsUnique, TempIsLast, InText, IsSet, Alive
<1>3. CASE ~IsSet(a)
  <2>1. /\ breaks_cnt' = breaks_cnt + 1
        /\ \/ breaks' = [breaks EXCEPT ![a] = PlacedBreak(p, a)] /\ mem' = PlacedText(p, a)
           \/ breaks' = [breaks EXCEPT ![a] = p] /\ mem' = mem /\ ~Alive
    BY <1>1, <1>3 DEF CmdBreak
  <2>2. p \in Breakpoint /\ p.id = breaks_cnt + 1 /\ ~p.is_placed
    BY <1>0, NewBreakTyped DEF TypeOK
  <2> HIDE DEF p
  <2>3. Transparent' /\ Lifted' /\ IdsUnique'
    BY <1>0, <1>1, <1>3, <2>1, <2>2, AddAt
  <2>4. TempIsLast'
    BY <1>0 DEF TempIsLast
  <2> QED BY <2>3, <2>4 DEF Data
<1> QED BY <1>2, <1>3

(* cmd_nexti_exec adds a breakpoint of its own behind a call.              *)
LEMMA DataNextiHead == IInv /\ NextiHead => Data'
<1> SUFFICES ASSUME IInv, NextiHead PROVE Data'
  OBVIOUS
<1>0. TypeOK /\ Data /\ ProcessKnown
  BY DEF IInv, Data
<1>1. /\ at = "nexti" /\ at' = "stepi" /\ todo = {} /\ b = 0 /\ cmd.temp = 0
      /\ UNCHANGED <<child, pid, fname, b, todo>>
  BY <1>0 DEF NextiHead, Data, Lifted, TempIsLast, TypeOK
<1>2. Alive => Attached /\ fname \in Image
  BY <1>0, <1>1 DEF ProcessKnown, Attached, Alive
<1>3. CASE UNCHANGED <<breaks_cnt, breaks, mem>> /\ cmd'.temp = 0
  BY <1>0, <1>1, <1>3 DEF Data, Transparent, Lifted, IdsUnique, TempIsLast, InText, IsSet, Alive
<1>4. CASE ~(UNCHANGED <<breaks_cnt, breaks, mem>> /\ cmd'.temp = 0)
  <2> DEFINE a == cmd.rip + 1
             p == NewBreak(breaks_cnt + 1)
  <2>0. NextiCall
    <3>1. NextiPlain => UNCHANGED <<breaks_cnt, breaks, mem>> /\ cmd'.temp = 0
      BY <1>0 DEF NextiPlain, TypeOK, CmdType
    <3> QED BY <1>4, <3>1 DEF NextiHead
  <2>1. ~IsSet(a)
    <3>1. IsSet(a) => UNCHANGED <<breaks_cnt, breaks, mem>> /\ cmd'.temp = 0
      BY <1>0, <2>0 DEF NextiCall, TypeOK, CmdType
    <3> QED BY <1>4, <3>1
  <2>2. /\ a \in Addr
        /\ breaks_cnt' = breaks_cnt + 1
        /\ breaks' = [breaks EXCEPT ![a] = PlacedBreak(p, a)] /\ mem' = PlacedText(p, a)
        /\ cmd' = [cmd EXCEPT !.cont = TRUE, !.temp = a]
    BY <2>0, <2>1 DEF NextiCall, CallAt
  <2>3. cmd'.temp = a /\ cmd'.fn = cmd.fn
    BY <1>0, <2>2 DEF TypeOK, CmdType
  <2>4. p \in Breakpoint /\ p.id = breaks_cnt + 1 /\ ~p.is_placed
    BY <1>0, NewBreakTyped DEF TypeOK
  <2> HIDE DEF a, p
  <2>5. Transparent' /\ Lifted' /\ IdsUnique' /\ breaks'[a].id = breaks_cnt + 1
    BY <1>0, <1>1, <1>2, <2>1, <2>2, <2>4, AddAt
  <2>6. cmd.fn \in {"nexti", "next"}
    BY <1>1 DEF IInv, WaitsFor
  <2>7. TempIsLast'
    BY <1>0, <1>1, <2>2, <2>3, <2>5, <2>6 DEF TempIsLast, TypeOK
  <2> QED BY <2>5, <2>7 DEF Data
<1> QED BY <1>3, <1>4

(* Breakpoints at the addresses D are removed and forgotten.               *)
LEMMA EraseAt ==
  ASSUME TypeOK, Data, NEW D \in SUBSET Addr, todo = {}, b = 0,
         UNCHANGED <<child, fname, todo, b>>,
         \A c \in Addr \ D : breaks'[c] = breaks[c] /\ (Alive => mem'[c] = mem[c]),
         \A c \in D : /\ breaks'[c] = NoBreak
                      /\ Alive => mem'[c] = IF breaks[c].is_placed THEN breaks[c].data
                                            ELSE mem[c]
  PROVE  Transparent' /\ Lifted'
<1>1. ~NoBreak.is_placed /\ NoBreak.id = 0
  BY DEF NoBreak
<1>2. Transparent'
  BY <1>1 DEF Data, Transparent, InText, Alive
<1>3. Lifted'
  BY <1>1 DEF Data, Lifted, InText, IsSet, Alive
<1> QED BY <1>2, <1>3

(* ctx_bp_remove gives an address of a stopped process its saved text.     *)
LEMMA RemoveAt ==
  ASSUME TypeOK, Data, NEW a \in Addr, todo = {}, Alive => Attached
  PROVE  /\ \A c \in Addr : c # a => RemovedText(breaks[a], a)[c] = mem[c]
         /\ Alive => RemovedText(breaks[a], a)[a] =
                       IF breaks[a].is_placed THEN breaks[a].data ELSE mem[a]
<1>1. Alive /\ breaks[a].is_placed => mem[a] = Int3
  BY DEF Data, Transparent, InText
<1>2. Alive /\ breaks[a].is_placed => Accessible(a)
  BY <1>1 DEF Accessible, Int3
<1>3. Removes(breaks[a], a) => breaks[a].is_placed
  BY DEF Removes
<1> QED BY <1>2, <1>3 DEF RemovedText, Removes, TypeOK, TraceeTypeOK

(* cmd_delete restores the text.                                           *)
LEMMA DataDelete == ASSUME IInv, NEW id \in 0 .. MaxBreaks + 1, CmdDelete(id) PROVE Data'
<1>0. /\ TypeOK /\ Data /\ ProcessKnown /\ todo = {} /\ b = 0 /\ cmd.temp = 0
      /\ at = "idle"
  BY AtPrompt DEF IInv, Data, CmdDelete, Ready
<1>1. PICK D \in SUBSET Addr : Deleted(D)
  BY DEF CmdDelete
<1>2. UNCHANGED <<child, fname, breaks_cnt, at, cmd, b, todo>>
  BY <1>1 DEF Deleted, Reply
<1>3. Alive => Attached /\ Running
  BY <1>0 DEF ProcessKnown, Attached, Alive
<1>4. \A c \in Addr \ D : breaks'[c] = breaks[c] /\ mem'[c] = mem[c]
  BY <1>1 DEF Deleted
<1>5. \A c \in D : /\ breaks'[c] = NoBreak
                   /\ Alive => mem'[c] = IF breaks[c].is_placed THEN breaks[c].data ELSE mem[c]
  BY <1>0, <1>1, <1>3, RemoveAt DEF Deleted
<1>6. Transparent' /\ Lifted'
  BY <1>0, <1>2, <1>4, <1>5, EraseAt
<1>7. IdsUnique'
  <2>1. NoBreak.id = 0
    BY DEF NoBreak
  <2> QED BY <1>0, <1>2, <1>4, <1>5, <2>1 DEF Data, IdsUnique, IsSet
<1>8. TempIsLast'
  BY <1>0, <1>2 DEF TempIsLast
<1> QED BY <1>6, <1>7, <1>8 DEF Data

(* cmd_nexti_exec removes its own breakpoint and gives back its id.        *)
LEMMA DataNextiRet == IInv /\ NextiRet => Data'
<1> SUFFICES ASSUME IInv, NextiRet PROVE Data'
  OBVIOUS
<1>0. TypeOK /\ Data /\ ProcessKnown
  BY DEF IInv, Data
<1>1. /\ at = "ret" /\ todo = {} /\ b = 0
      /\ UNCHANGED <<child, fname, b, todo>>
  BY <1>0 DEF NextiRet, Data, Lifted, TypeOK
<1>2. Alive => Attached
  BY <1>0, <1>1 DEF ProcessKnown, Attached, Alive
<1>3. cmd'.temp = 0
  <2>1. [cmd EXCEPT !.temp = 0].temp = 0
    BY <1>0 DEF TypeOK, CmdType
  <2>2. [cmd EXCEPT !.j = @ + 1, !.temp = 0].temp = 0
    BY <1>0, CountersTyped DEF TypeOK, CmdType
  <2> QED BY <2>1, <2>2 DEF NextiRet, NextiError, NextiDone
<1>4. CASE UNCHANGED <<breaks_cnt, breaks, mem>>
  BY <1>0, <1>1, <1>3, <1>4
  DEF Data, Transparent, Lifted, IdsUnique, TempIsLast, InText, IsSet, Alive
<1>5. CASE ~UNCHANGED <<breaks_cnt, breaks, mem>>
  <2> DEFINE a == cmd.temp
  <2>1. /\ a # 0
        /\ mem' = RemovedText(breaks[a], a)
        /\ breaks' = [breaks EXCEPT ![a] = NoBreak]
        /\ breaks_cnt' = breaks_cnt - 1
    BY <1>5 DEF NextiRet, NextiError, NextiDone
  <2>2. a \in Addr /\ breaks[a].id = breaks_cnt /\ breaks_cnt > 0
    BY <1>0, <2>1 DEF Data, TempIsLast, TypeOK, CmdType
  <2> HIDE DEF a
  <2>3. \A c \in Addr \ {a} : breaks'[c] = breaks[c] /\ mem'[c] = mem[c]
    BY <1>0, <1>1, <1>2, <2>1, <2>2, RemoveAt DEF TypeOK
  <2>4. /\ breaks'[a] = NoBreak
        /\ Alive => mem'[a] = IF breaks[a].is_placed THEN breaks[a].data ELSE mem[a]
    BY <1>0, <1>1, <1>2, <2>1, <2>2, RemoveAt DEF TypeOK
  <2>5. Transparent' /\ Lifted'
    <3>1. {a} \in SUBSET Addr
      BY <2>2
    <3>2. \A c \in {a} : /\ breaks'[c] = NoBreak
                         /\ Alive => mem'[c] = IF breaks[c].is_placed THEN breaks[c].data
                                               ELSE mem[c]
      BY <2>4
    <3> QED BY <1>0, <1>1, <2>3, <3>1, <3>2, EraseAt
  <2>6. IdsUnique'
    <3>1. NoBreak.id = 0
      BY DEF NoBreak
    <3>2. \A c \in Addr : breaks[c].id \in Nat
      BY <1>0 DEF TypeOK, Breakpoint
    <3>3. \A c \in Addr \ {a} : breaks[c].id # 0 => breaks[c].id < breaks_cnt
      <4>1. \A c \in Addr \ {a} : breaks[c].id # breaks_cnt
        BY <1>0, <2>2 DEF Data, IdsUnique, IsSet
      <4>2. \A c \in Addr : breaks[c].id # 0 => breaks[c].id <= breaks_cnt
        BY <1>0 DEF Data, IdsUnique, IsSet
      <4>3. breaks_cnt \in Nat
        BY <1>0 DEF TypeOK
      <4>4. \A k \in Nat : k <= breaks_cnt /\ k # breaks_cnt => k < breaks_cnt
        BY <4>3
      <4> QED BY <3>2, <4>1, <4>2, <4>4
    <3> QED BY <1>0, <2>1, <2>2, <2>3, <2>4, <3>1, <3>2, <3>3 DEF Data, IdsUnique, IsSet, TypeOK
  <2>7. TempIsLast'
    BY <1>3 DEF TempIsLast
  <2> QED BY <2>5, <2>6, <2>7 DEF Data
<1> QED BY <1>4, <1>5

(* ctx_tg_load changes the file when the process is dead.                  *)
LEMMA DataLoad == IInv /\ Load => Data'
<1> SUFFICES ASSUME IInv, Load PROVE Data'
  OBVIOUS
<1>0. TypeOK /\ Data /\ ~Alive /\ at = "load"
  BY DEF IInv, Data, WaitsFor, Load
<1>1. /\ UNCHANGED <<child, breaks, breaks_cnt, b, todo>> /\ todo = {} /\ b = 0
      /\ cmd'.temp = 0
  BY <1>0 DEF Load, childVars, Finish, NoCmd, Data, Lifted, TypeOK
<1>2. ~Alive'
  BY <1>0, <1>1 DEF Alive
<1> QED
  BY <1>0, <1>1, <1>2 DEF Data, Transparent, Lifted, IdsUnique, TempIsLast, IsSet

-----------------------------------------------------------------------------
(* The invariant holds initially.                                          *)
LEMMA InitIInv == Init => IInv
<1> SUFFICES ASSUME Init PROVE IInv
  OBVIOUS
<1>1. TypeOK
  BY TypeInit
<1>2. NeverOwnGroup /\ ProcessKnown /\ WaitsFor
  BY DEF Init, TraceeInit, NeverOwnGroup, ProcessKnown, WaitsFor, Running, Alive, Unfixed
<1>3. Transparent /\ Lifted /\ IdsUnique /\ TempIsLast
  BY DEF Init, TraceeInit, Transparent, Lifted, IdsUnique, TempIsLast, IsSet, Alive, NoBreak,
     NoCmd
<1> QED BY <1>1, <1>2, <1>3 DEF IInv

(* Every step of the debugger, of the process and of the user keeps the    *)
(* invariant.                                                              *)
LEMMA NextIInv == IInv /\ [Next]_vars => IInv'
<1> SUFFICES ASSUME IInv, [Next]_vars PROVE IInv'
  OBVIOUS
<1>1. TypeOK'
  BY TypeStep
<1>2. CASE UNCHANGED vars
  BY <1>1, <1>2 DEF IInv, vars, childVars, ctxVars, Transparent, NeverOwnGroup, ProcessKnown, WaitsFor,
     Lifted, IdsUnique, TempIsLast, Alive, Running, Unfixed, IsSet, InText
<1>3. CASE Next /\ ~UNCHANGED vars
  <2>1. ProcessKnown' /\ WaitsFor' /\ NeverOwnGroup'
    BY <1>3, ControlUser, ControlInternal, ControlChild DEF Next, Exited
  <2>2. Data'
    <3>1. QuietUser \/ QuietInternal => Data'
      BY UserIsQuiet, InternalIsQuiet, QuietKeepsData DEF IInv, Data
    <3>2. CASE User
      BY <3>1, <3>2, DataRun, DataBreak, DataDelete DEF User, QuietUser
    <3>3. CASE Internal
      BY <3>1, <3>3, DataStepi, DataReplace, DataLoad, DataRunPlace, DataNextiHead, DataNextiRet
      DEF Internal, QuietInternal
    <3>4. CASE DebuggeeStep \/ DebuggeeKilled
      BY <3>1, <3>4 DEF QuietInternal
    <3> QED BY <1>3, <3>2, <3>3, <3>4 DEF Next, Exited
  <2> QED BY <1>1, <2>1, <2>2 DEF IInv, Data
<1> QED BY <1>2, <1>3

(* IInv is an invariant of the debugger.                                   *)
THEOREM Invariance == Spec => []IInv
  BY InitIInv, NextIInv, PTL DEF Spec

(* Every variable keeps the type of its declaration.                       *)
THEOREM TypeCorrect == Spec => []TypeOK
<1>1. IInv => TypeOK
  BY DEF IInv
<1> QED BY <1>1, Invariance, PTL

(* Whatever fails and whoever kills the process in between, the text of a  *)
(* live process is its file but for the placed breakpoints, and each of    *)
(* them has saved what the file holds (ctx_bp_place, ctx_bp_remove).       *)
THEOREM TextIsFile == Spec => []Transparent
<1>1. IInv => Transparent
  BY DEF IInv
<1> QED BY <1>1, Invariance, PTL

(* ctx_tg_kill and waitpid are never called with a pid of 0, that is for   *)
(* the debugger's own process group.                                       *)
THEOREM OwnGroupSafe == Spec => []NeverOwnGroup
<1>1. IInv => NeverOwnGroup
  BY DEF IInv
<1> QED BY <1>1, Invariance, PTL

(* No two breakpoints have the same id, although nexti takes the next id   *)
(* and gives it back.                                                      *)
THEOREM IdsAreUnique == Spec => []IdsUnique
<1>1. IInv => IdsUnique
  BY DEF IInv
<1> QED BY <1>1, Invariance, PTL

(* The breakpoint lifted by ctx_tg_stepi is back whenever the process runs *)
(* freely and whenever a command has returned.                             *)
THEOREM BreakpointsArmed == Spec => []NoLostBreakpoint
<1>1. IInv => NoLostBreakpoint
  <2> SUFFICES ASSUME IInv, child = "running" \/ (at = "idle" /\ child = "stopped"),
                      NEW a \in Addr, IsSet(a), Code[fname][a].op # "unmapped"
               PROVE  mem[a] = Int3
    BY DEF NoLostBreakpoint
  <2>1. Alive /\ (at = "idle" \/ (at = "wait" /\ cmd.then = "ret"))
    BY DEF IInv, ProcessKnown, WaitsFor, Alive
  <2>2. todo = {} /\ b = 0
    BY <2>1 DEF IInv, Lifted, TypeOK
  <2>3. InText(a)
    BY <2>1, <2>2 DEF IInv, Lifted, Addr
  <2> QED BY <2>1, <2>3 DEF IInv, Transparent
<1> QED BY <1>1, Invariance, PTL

(* Between commands s_target says "running" of every process that is not   *)
(* dead, and such a process is stopped.                                    *)
THEOREM TargetKnown == Spec => []TargetStateHonest
<1>1. IInv => TargetStateHonest
  BY DEF IInv, ProcessKnown, TypeOK, TraceeTypeOK, TargetStateHonest, Alive
<1> QED BY <1>1, Invariance, PTL

-----------------------------------------------------------------------------
(* A step that leaves the registers alone, taken while the debugger is not *)
(* waiting.                                                                *)
Bystander ==
  /\ UNCHANGED <<signal, rip, stack, fname>>
  /\ at \notin {"wait", "siginfo"} /\ at' # "siginfo"
  /\ \/ UNCHANGED child
     \/ child = "stopped" /\ child' \in {"stepping", "running"}

(* Such a step is a stutter of the program that is debugged.               *)
LEMMA BystanderStutters ==
  ASSUME IInv, Bystander PROVE UNCHANGED Undebugged!vars
<1>1. ~Unfixed /\ ~Unfixed'
  BY DEF IInv, ProcessKnown, Bystander, Unfixed, Alive
<1>2. Alive' = Alive
  BY DEF Bystander, Alive
<1> QED BY <1>1, <1>2 DEF Ip, Bystander, Undebugged!vars

(* The end of a live process is the end of the program.                    *)
LEMMA EndsRefines ==
  ASSUME Ends, UNCHANGED fname, Alive PROVE Undebugged!End
  BY DEF Ip, Ends, Undebugged!End, Unfixed, Alive

(* What the processor fetches is an int3 of the debugger or an instruction *)
(* of the file, so a step of the process is a step of the program.         *)
LEMMA DebuggeeRefines ==
  IInv /\ DebuggeeStep => [Undebugged!Next]_(Undebugged!vars)
<1> SUFFICES ASSUME IInv, DebuggeeStep PROVE [Undebugged!Next]_(Undebugged!vars)
  OBVIOUS
<1>1. /\ child \in {"stepping", "running"} /\ Alive /\ ~Unfixed
      /\ UNCHANGED fname /\ rip \in Nat
  BY DEF DebuggeeStep, ChildStep, ctxVars, Alive, Unfixed, IInv, TypeOK, TraceeTypeOK
<1>2. CASE ChildGo
  <2>1. PICK x \in Successors(Fetch(mem, rip), rip, stack) : rip' = x[1] /\ stack' = x[2]
    BY <1>2 DEF ChildGo
  <2>2. Alive' /\ ~Unfixed'
    BY <1>2 DEF ChildGo, Alive, Unfixed
  <2>3. Fetch(mem, rip) # Int3
    BY <2>1 DEF Successors, Int3
  <2>4. Fetch(mem, rip) = Fetch(Code[fname], rip)
    BY <1>1, <2>3 DEF Fetch, IInv, Transparent
  <2>5. Undebugged!Execute
    <3>1. x \in Undebugged!Successors(Undebugged!Fetch(Code[fname], rip), rip, stack)
      <4>1. Undebugged!Fetch(Code[fname], rip) = Fetch(Code[fname], rip)
        BY DEF Undebugged!Fetch, Fetch, Undebugged!Addr, Addr, Undebugged!Unmapped, Unmapped
      <4> DEFINE i == Fetch(Code[fname], rip)
      <4>2. Undebugged!Successors(i, rip, stack) = Successors(i, rip, stack)
        BY DEF Undebugged!Successors, Successors, Undebugged!Front, Front
      <4> QED BY <2>1, <2>4, <4>1, <4>2
    <3> QED BY <1>1, <2>1, <2>2, <3>1 DEF Ip, Undebugged!Execute
  <2> QED BY <2>5 DEF Undebugged!Next
<1>3. CASE ChildInt3
  <2>1. Alive' /\ Unfixed' /\ rip' - 1 = rip /\ UNCHANGED stack
    BY <1>1, <1>3 DEF ChildInt3, Alive, Unfixed
  <2> QED BY <1>1, <2>1 DEF Ip, Undebugged!vars
<1>4. CASE ChildFault
  <2>1. Alive' /\ ~Unfixed' /\ UNCHANGED <<rip, stack>>
    BY <1>4 DEF ChildFault, Alive, Unfixed
  <2> QED BY <1>1, <2>1 DEF Ip, Undebugged!vars
<1>5. CASE ChildExit
  BY <1>1, <1>5, EndsRefines DEF ChildExit, Undebugged!Next
<1> QED BY <1>2, <1>3, <1>4, <1>5 DEF DebuggeeStep, ChildStep

(* A command of the user selects, starts or ends the program, or changes   *)
(* nothing of it.                                                          *)
LEMMA UserRefines == IInv /\ User => [Undebugged!Next]_(Undebugged!vars)
<1> SUFFICES ASSUME IInv, User PROVE [Undebugged!Next]_(Undebugged!vars)
  OBVIOUS
<1>0. at = "idle"
  BY DEF User, Refuse, CmdExit, CmdFile, CmdRun, CmdRunForkFails, CmdBreak, CmdDelete, CmdKill,
     CmdContinue, CmdStepi, CmdNexti, CmdLine, Ready
<1>1. CASE Bystander
  BY <1>1, BystanderStutters
<1>2. CASE Refuse \/ CmdExit \/ CmdRunForkFails \/ CmdContinue
  BY <1>0, <1>1, <1>2 DEF Refuse, CmdExit, CmdRunForkFails, CmdContinue, Bystander, Reply, Begin, childVars
<1>3. ASSUME NEW f \in Image, CmdFile(f) PROVE [Undebugged!Next]_(Undebugged!vars)
  <2>1. CASE Alive /\ Ends
    BY <1>3, <2>1, EndsRefines DEF CmdFile, Undebugged!Next
  <2>2. CASE ~(Alive /\ Ends)
    BY <1>0, <1>1, <1>3, <2>2 DEF CmdFile, SendSigkill, Begin, Bystander, childVars
  <2> QED BY <2>1, <2>2
<1>4. CASE CmdRun
  <2>1. ~Alive /\ rip = 0 /\ stack = <<>> /\ fname \in Image /\ UNCHANGED fname
    BY <1>4 DEF CmdRun, IInv, ProcessKnown, Running, Ready
  <2>2. ~Unfixed
    BY <2>1 DEF Unfixed, Alive
  <2>3. CASE ForkExec(fname)
    <3>1. Alive' /\ ~Unfixed' /\ rip' = Entry[fname] /\ stack' = <<>>
      BY <2>3 DEF ForkExec, Alive, Unfixed
    <3> QED BY <2>1, <3>1 DEF Ip, Undebugged!Next, Undebugged!Start
  <2>4. CASE Ends
    <3>1. ~Alive' /\ ~Unfixed' /\ rip' = 0 /\ stack' = <<>>
      BY <2>4 DEF Ends, Alive, Unfixed
    <3>2. Alive' = Alive
      BY <2>1, <3>1 DEF Alive
    <3> QED BY <2>1, <2>2, <3>1, <3>2 DEF Ip, Undebugged!vars
  <2> QED BY <1>4, <2>3, <2>4 DEF CmdRun
<1>5. ASSUME NEW sig \in Signals, CmdKill(sig) PROVE [Undebugged!Next]_(Undebugged!vars)
  <2>1. CASE Alive /\ Ends
    BY <1>5, <2>1, EndsRefines DEF CmdKill, Undebugged!Next
  <2>2. CASE ~(Alive /\ Ends)
    BY <1>0, <1>1, <1>5, <2>2 DEF CmdKill, SendSigkill, Begin, Bystander, childVars
  <2> QED BY <2>1, <2>2
<1>6. ASSUME NEW a \in Addr, CmdBreak(a) PROVE Bystander
  BY <1>0, <1>6 DEF CmdBreak, Reply, Bystander
<1>7. ASSUME NEW id \in 0 .. MaxBreaks + 1, CmdDelete(id) PROVE Bystander
  BY <1>0, <1>7 DEF CmdDelete, Deleted, Reply, Bystander
<1>8. ASSUME NEW n \in Counts,
             CmdStepi(n) \/ CmdNexti(n) \/ CmdLine("step", n) \/ CmdLine("next", n)
      PROVE  Bystander
  BY <1>0, <1>8 DEF CmdStepi, CmdNexti, CmdLine, Reply, Begin, Bystander, childVars
<1> QED BY <1>1, <1>2, <1>3, <1>4, <1>5, <1>6, <1>7, <1>8 DEF User

(* What the debugger does of itself is a stutter: waitpid collects the     *)
(* stop, ctx_tg_brkpt_fix steps back over the int3, the other calls leave  *)
(* the registers alone.  ctx_tg_load selects the file it has been given.   *)
LEMMA InternalRefines == IInv /\ Internal => [Undebugged!Next]_(Undebugged!vars)
<1> SUFFICES ASSUME IInv, Internal PROVE [Undebugged!Next]_(Undebugged!vars)
  OBVIOUS
<1>0. TypeOK /\ ProcessKnown /\ WaitsFor
  BY DEF IInv
<1>1. CASE Bystander
  BY <1>1, BystanderStutters
<1>2. CASE Wait
  <2>1. UNCHANGED <<rip, stack, signal, fname>> /\ at = "wait"
    BY <1>2 DEF Wait, WaitEnded, WaitStopped
  <2>2. Alive' = Alive /\ Unfixed' = Unfixed
    BY <1>0, <1>2 DEF Wait, WaitEnded, WaitStopped, Alive, Unfixed, TypeOK, TraceeTypeOK
  <2> QED BY <2>1, <2>2 DEF Ip, Undebugged!vars
<1>3. CASE SigInfo
  <2>1. at = "siginfo" /\ at' # "siginfo" /\ UNCHANGED <<child, signal, stack, fname>>
    BY <1>0, <1>3 DEF SigInfo, WaitsFor
  <2>2. Alive => Attached
    BY <1>0, <2>1 DEF ProcessKnown, Attached, Alive
  <2>3. Alive' = Alive /\ ~Unfixed'
    BY <1>0, <2>1, <2>2 DEF Alive, Unfixed, Attached
  <2>4. rip' = IF Unfixed THEN rip - 1 ELSE rip
    BY <1>3, <2>1, <2>2 DEF SigInfo, Unfixed, Attached, Alive
  <2> QED BY <2>1, <2>3, <2>4 DEF Ip, Undebugged!vars
<1>4. CASE Load
  <2>1. ~Alive /\ ~Unfixed /\ fname' \in Image /\ UNCHANGED <<child, signal, rip, stack>>
    BY <1>0, <1>4 DEF Load, WaitsFor, Alive, Unfixed, childVars
  <2>2. ~Alive' /\ ~Unfixed'
    BY <2>1 DEF Alive, Unfixed
  <2>3. Undebugged!Select(fname')
    <3>1. Alive' = Alive
      BY <2>1, <2>2 DEF Alive
    <3> QED BY <2>1, <2>2, <3>1 DEF Ip, Undebugged!Select
  <2> QED BY <2>1, <2>3 DEF Undebugged!Next
<1>5. CASE ReportError \/ KillRet \/ ContinueRet \/ RunDone \/ StepiRet \/ NextiLeave \/ StepRet
           \/ LineStepped \/ LineHead
  BY <1>1, <1>5 DEF ReportError, KillRet, ContinueRet, RunDone, StepiRet, NextiLeave, StepRet,
     LineStepped, LineHead, LineNext, Finish, Bystander, childVars
<1>6. CASE SingleStep \/ Cont \/ Stepi \/ Replace
  BY <1>1, <1>6 DEF SingleStep, Cont, Stepi, StepiRemove, StepiKeep, Replace, AfterStepi, Attached,
     Bystander, ctxVars
<1>7. CASE NextiHead \/ NextiRet
  BY <1>1, <1>7 DEF NextiHead, NextiRet, NextiError, NextiDone, Bystander
<1>8. ASSUME NEW a \in Addr, RunPlace(a) PROVE Bystander
  BY <1>8 DEF RunPlace, Bystander
<1> QED BY <1>1, <1>2, <1>3, <1>4, <1>5, <1>6, <1>7, <1>8 DEF Internal

(* The debugger implements the program that nobody debugs: with its int3   *)
(* hidden, a debugged process takes only steps of its file.                *)
THEOREM DebuggingIsTransparent == Spec => RefinesProgram
<1>1. Init => Undebugged!Init
  BY DEF Ip, Init, TraceeInit, Undebugged!Init, Alive, Unfixed
<1>2. IInv /\ [Next]_vars => [Undebugged!Next]_(Undebugged!vars)
  <2> SUFFICES ASSUME IInv, [Next]_vars PROVE [Undebugged!Next]_(Undebugged!vars)
    OBVIOUS
  <2>1. CASE UNCHANGED vars
    BY <2>1 DEF Ip, vars, childVars, ctxVars, Undebugged!vars, Alive, Unfixed
  <2>2. CASE DebuggeeKilled
    BY <2>2, EndsRefines DEF DebuggeeKilled, ChildKilled, ctxVars, Undebugged!Next
  <2> QED BY <2>1, <2>2, UserRefines, InternalRefines, DebuggeeRefines DEF Next, Exited
<1> QED BY <1>1, <1>2, Invariance, PTL DEF Spec, RefinesProgram, Undebugged!Spec


-----------------------------------------------------------------------------
(* A step that leaves the table as it is, and an end of the command.       *)
TableSame ==
  /\ at' = "idle" => cmd'.fn = "none" /\ res' = "ok"
  /\ res' = "error" => ~Alive'
  /\ cmd'.fn \in {"nexti", "next"} /\ Alive' =>
       /\ Alive
       /\ cmd'.fn = cmd.fn /\ cmd'.temp = cmd.temp /\ hist'.set = hist.set
       /\ \A a \in Addr : breaks'[a].id = breaks[a].id

(* Such a step keeps what nexti and next know of the table.                *)
LEMMA SameTableKept == ASSUME TableKept, TableSame PROVE TableKept'
  BY DEF TableKept, TableSame, IsSet

(* A command starts with the table that it remembers.                      *)
LEMMA TableUser == IInv /\ TableKept /\ User => TableKept'
<1> SUFFICES ASSUME IInv, TableKept, User PROVE TableKept'
  OBVIOUS
<1>0. at = "idle" /\ cmd.fn = "none" /\ res = "ok"
  BY DEF User, Refuse, CmdExit, CmdFile, CmdRun, CmdRunForkFails, CmdBreak, CmdDelete, CmdKill,
     CmdContinue, CmdStepi, CmdNexti, CmdLine, Ready, TableKept
<1>1. CASE \E e \in BOOLEAN : Reply(e)
  BY <1>0, <1>1 DEF Reply, TableKept
<1>2. CASE CmdExit
  BY <1>0, <1>2 DEF CmdExit, TableKept
<1>3. ASSUME NEW f \in Image, CmdFile(f) PROVE TableKept'
  BY <1>0, <1>3 DEF CmdFile, Begin, NoCmd, TableKept
<1>4. CASE CmdRun
  BY <1>0, <1>4 DEF CmdRun, Begin, NoCmd, TableKept
<1>5. ASSUME NEW sig \in Signals, CmdKill(sig) PROVE TableKept'
  BY <1>0, <1>5 DEF CmdKill, Begin, NoCmd, TableKept
<1>6. CASE CmdContinue
  BY <1>0, <1>6 DEF CmdContinue, Begin, NoCmd, TableKept
<1>7. ASSUME NEW n \in Counts, CmdStepi(n) PROVE TableKept'
  BY <1>0, <1>7 DEF CmdStepi, Begin, NoCmd, TableKept
<1>8. ASSUME NEW n \in Counts, NEW c \in {"nexti", "step", "next"}, NEW l \in {"nexti", "line"},
             NEW d, Begin(d, l), d.temp = 0, d.fn = c, UNCHANGED <<breaks, res>>
      PROVE  TableKept'
  <2>1. hist'.set = {a \in Addr : IsSet(a)}
    BY <1>8 DEF Begin, NoHist
  <2>2. cmd'.temp = 0 /\ at' # "idle" /\ res' = "ok"
    BY <1>0, <1>8 DEF Begin
  <2>3. 0 \notin Addr
    BY DEF Addr
  <2>4. {a \in Addr : IsSet(a)}' = hist'.set
    BY <1>8, <2>1 DEF IsSet
  <2> QED BY <2>1, <2>2, <2>3, <2>4 DEF TableKept
<1>9. ASSUME NEW n \in Counts, CmdNexti(n) PROVE TableKept'
  <2> DEFINE d == [NoCmd EXCEPT !.fn = "nexti", !.n = n, !.rip = rip]
  <2>1. d.temp = 0 /\ d.fn = "nexti"
    BY DEF NoCmd
  <2>2. (Begin(d, "nexti") /\ UNCHANGED <<breaks, res>>) \/ Reply(TRUE)
    BY <1>9 DEF CmdNexti
  <2> HIDE DEF d
  <2> QED BY <1>1, <1>8, <2>1, <2>2
<1>10. ASSUME NEW n \in Counts, NEW fn \in {"step", "next"}, CmdLine(fn, n) PROVE TableKept'
  <2> DEFINE d == [NoCmd EXCEPT !.fn = fn, !.n = n, !.curr = line]
  <2>1. d.temp = 0 /\ d.fn = fn
    BY DEF NoCmd
  <2>2. (Begin(d, "line") /\ UNCHANGED <<breaks, res>>) \/ Reply(TRUE)
    BY <1>10 DEF CmdLine
  <2> HIDE DEF d
  <2> QED BY <1>1, <1>8, <2>1, <2>2
<1>11. Refuse \/ CmdRunForkFails \/ (\E a \in Addr : CmdBreak(a))
         \/ (\E id \in 0 .. MaxBreaks + 1 : CmdDelete(id))
       => \E e \in BOOLEAN : Reply(e)
  BY DEF Refuse, CmdRunForkFails, CmdBreak, CmdDelete, Deleted
<1> QED
  BY <1>1, <1>2, <1>3, <1>4, <1>5, <1>6, <1>7, <1>9, <1>10, <1>11 DEF User

(* Between its borrowing and its return of an id, a command of the         *)
(* debugger leaves the ids in the table alone.                             *)
LEMMA TableInternal == IInv /\ TableKept /\ Internal => TableKept'
<1> SUFFICES ASSUME IInv, TableKept, Internal PROVE TableKept'
  OBVIOUS
<1>0. TypeOK /\ ProcessKnown /\ WaitsFor /\ TempIsLast
  BY DEF IInv
<1>s. TableSame => TableKept'
  BY SameTableKept
<1>b. \A a \in Addr : breaks[a] \in Breakpoint
  BY <1>0 DEF TypeOK
<1>f. \A e \in BOOLEAN : Finish(e) => TableKept'
  BY DEF Finish, NoCmd, TableKept
<1>a. Alive /\ at # "wait" => Attached
  BY <1>0 DEF ProcessKnown, Attached
<1>1. CASE ReportError
  BY <1>s, <1>1 DEF ReportError, TableSame, TableKept, Alive, childVars
<1>2. CASE Wait
  BY <1>s, <1>0, <1>2 DEF Wait, WaitEnded, WaitStopped, TableSame, WaitsFor, Alive
<1>3. CASE SigInfo
  BY <1>s, <1>0, <1>3 DEF SigInfo, TableSame, TableKept, WaitsFor, Alive
<1>4. CASE Stepi
  <2>1. \A a \in Addr : breaks'[a].id = breaks[a].id
    <3>1. CASE \E a \in Addr : StepiRemove(a)
      <4> PICK a \in Addr : StepiRemove(a)
        BY <3>1
      <4>1. RemovedBreak(breaks[a], a).id = breaks[a].id
        BY <1>0, <1>b, BreakTyped
      <4> QED BY <1>0, <4>1 DEF StepiRemove, TypeOK
    <3>2. CASE ~\E a \in Addr : StepiRemove(a)
      BY <1>4, <3>2 DEF Stepi, StepiRemove, StepiKeep
    <3> QED BY <3>1, <3>2
  <2> QED BY <1>s, <1>4, <2>1 DEF Stepi, TableSame, TableKept, Alive
<1>5. CASE SingleStep
  BY <1>s, <1>0, <1>a, <1>5
  DEF SingleStep, TableSame, TableKept, AfterStepi, Alive, Attached, ctxVars, TypeOK, CmdType
<1>6. CASE Replace
  <2>1. \A a \in Addr : breaks'[a].id = breaks[a].id
    <3>1. b # 0 => PlacedBreak(breaks[b], b).id = breaks[b].id
      BY <1>0, <1>b, BreakTyped DEF TypeOK
    <3> QED BY <1>0, <1>6, <3>1 DEF Replace, TypeOK
  <2> QED BY <1>s, <1>6, <2>1 DEF Replace, TableSame, TableKept, AfterStepi, Alive
<1>7. CASE Cont
  BY <1>s, <1>0, <1>a, <1>7
  DEF Cont, TableSame, TableKept, Alive, Attached, ctxVars, TypeOK, CmdType
<1>8. CASE Load \/ RunDone \/ KillRet \/ ContinueRet \/ NextiLeave
  BY <1>f, <1>8 DEF Load, RunDone, KillRet, ContinueRet, NextiLeave
<1>9. ASSUME NEW a \in Addr, RunPlace(a) PROVE TableKept'
  <2> DEFINE p == [breaks[a] EXCEPT !.is_placed = FALSE]
  <2>1. p \in Breakpoint /\ p.id = breaks[a].id
    BY <1>b DEF Breakpoint
  <2>2. breaks' = [breaks EXCEPT ![a] = PlacedBreak(p, a)]
    BY <1>9 DEF RunPlace
  <2> HIDE DEF p
  <2>3. PlacedBreak(p, a).id = breaks[a].id
    BY <1>0, <2>1, BreakTyped
  <2>4. \A c \in Addr : breaks'[c].id = breaks[c].id
    BY <1>0, <2>2, <2>3 DEF TypeOK
  <2> QED BY <1>s, <1>9, <2>4 DEF RunPlace, TableSame, TableKept, Alive
<1>10. CASE StepiRet
  <2>1. [cmd EXCEPT !.i = @ + 1].fn = cmd.fn /\ [cmd EXCEPT !.i = @ + 1].temp = cmd.temp
    BY <1>0 DEF TypeOK, CmdType
  <2> QED BY <1>s, <1>f, <1>10, <2>1 DEF StepiRet, TableSame, TableKept, Alive, childVars
<1>11. CASE NextiHead
  <2>1. /\ at' = "stepi" /\ cmd.temp = 0 /\ cmd'.fn = cmd.fn
        /\ UNCHANGED <<child, res, hist>>
    BY <1>0, <1>11 DEF NextiHead, NextiCall, NextiPlain, TempIsLast, TypeOK, CmdType
  <2>2. 0 \notin Addr
    BY DEF Addr
  <2>3. CASE UNCHANGED breaks /\ cmd'.temp = 0
    BY <1>s, <2>1, <2>3 DEF TableSame, TableKept, Alive
  <2>4. CASE ~(UNCHANGED breaks /\ cmd'.temp = 0)
    <3> DEFINE a == cmd.rip + 1
               p == NewBreak(breaks_cnt + 1)
    <3>1. /\ a \in Addr /\ ~IsSet(a)
          /\ breaks' = [breaks EXCEPT ![a] = PlacedBreak(p, a)]
          /\ cmd' = [cmd EXCEPT !.cont = TRUE, !.temp = a]
      BY <1>0, <1>11, <2>4 DEF NextiHead, NextiCall, NextiPlain, CallAt, TypeOK, CmdType
    <3>2. p \in Breakpoint /\ p.id = breaks_cnt + 1
      BY <1>0, NewBreakTyped DEF TypeOK
    <3>3. cmd'.temp = a
      BY <1>0, <3>1 DEF TypeOK, CmdType
    <3> HIDE DEF a, p
    <3>4. PlacedBreak(p, a).id # 0
      <4>1. PlacedBreak(p, a).id = p.id
        BY <1>0, <3>1, <3>2, BreakTyped
      <4>2. breaks_cnt + 1 # 0
        BY <1>0 DEF TypeOK
      <4> QED BY <3>2, <4>1, <4>2
    <3>5. \A c \in Addr : IsSet(c)' <=> IsSet(c) \/ c = a
      BY <1>0, <3>1, <3>4 DEF IsSet, TypeOK
    <3>6. {c \in Addr : IsSet(c)'} = {c \in Addr : IsSet(c)} \cup {a}
      BY <3>1, <3>5
    <3>7. {c \in Addr : IsSet(c)}' = {c \in Addr : IsSet(c)'}
      BY DEF IsSet
    <3> QED
      BY <2>1, <2>2, <3>1, <3>3, <3>6, <3>7 DEF TableKept, Alive
  <2> QED BY <2>3, <2>4
<1>12. CASE NextiRet
  <2>1. at' # "idle" /\ UNCHANGED <<child, res, hist>> /\ cmd'.temp = 0 /\ cmd'.fn = cmd.fn
    <3>1. [cmd EXCEPT !.temp = 0].temp = 0 /\ [cmd EXCEPT !.temp = 0].fn = cmd.fn
      BY <1>0 DEF TypeOK, CmdType
    <3>2. /\ [cmd EXCEPT !.j = @ + 1, !.temp = 0].temp = 0
          /\ [cmd EXCEPT !.j = @ + 1, !.temp = 0].fn = cmd.fn
      BY <1>0 DEF TypeOK, CmdType
    <3> QED BY <1>12, <3>1, <3>2 DEF NextiRet, NextiError, NextiDone
  <2>2. 0 \notin Addr
    BY DEF Addr
  <2>3. CASE NextiError
    BY <2>1, <2>3 DEF NextiError, TableKept, Alive
  <2>4. CASE NextiDone /\ cmd.temp = 0
    BY <1>s, <2>1, <2>4 DEF NextiDone, TableSame, TableKept, Alive
  <2>5. CASE NextiDone /\ cmd.temp # 0
    <3>1. cmd.temp \in Addr
      BY <1>0, <2>5 DEF TypeOK, CmdType
    <3>2. \A c \in Addr : IsSet(c)' <=> IsSet(c) /\ c # cmd.temp
      BY <1>0, <2>5, <3>1 DEF NextiDone, IsSet, TypeOK, NoBreak
    <3>3. {c \in Addr : IsSet(c)}' = {c \in Addr : IsSet(c) /\ c # cmd.temp}
      BY <3>2 DEF IsSet
    <3> QED BY <2>1, <2>2, <3>1, <3>3 DEF TableKept, Alive
  <2> QED BY <1>12, <2>3, <2>4, <2>5 DEF NextiRet
<1>n. LineNext /\ UNCHANGED <<child, breaks>> => TableKept'
  <2>1. [cmd EXCEPT !.i = @ + 1].fn = cmd.fn /\ [cmd EXCEPT !.i = @ + 1].temp = cmd.temp
    BY <1>0 DEF TypeOK, CmdType
  <2> QED BY <1>s, <1>f, <2>1 DEF LineNext, TableSame, TableKept, Alive
<1>13. CASE LineHead
  <2>1. [cmd EXCEPT !.rip = rip, !.j = 0].fn = cmd.fn
        /\ [cmd EXCEPT !.rip = rip, !.j = 0].temp = cmd.temp
    BY <1>0 DEF TypeOK, CmdType
  <2> QED BY <1>s, <1>f, <1>n, <1>13, <2>1 DEF LineHead, TableSame, TableKept, Alive, childVars
<1>14. CASE StepRet
  BY <1>s, <1>f, <1>14 DEF StepRet, TableSame, TableKept, Alive, childVars
<1>15. CASE LineStepped
  <2>1. [cmd EXCEPT !.curr = LineByAddress(rip, cmd.curr)].fn = cmd.fn
        /\ [cmd EXCEPT !.curr = LineByAddress(rip, cmd.curr)].temp = cmd.temp
    BY <1>0 DEF TypeOK, CmdType
  <2> QED BY <1>s, <1>f, <1>n, <1>15, <2>1 DEF LineStepped, TableSame, TableKept, Alive, childVars
<1> QED
  BY <1>1, <1>2, <1>3, <1>4, <1>5, <1>6, <1>7, <1>8, <1>9, <1>10, <1>11, <1>12, <1>13, <1>14, <1>15
  DEF Internal

(* The process changes nothing in the table.                               *)
LEMMA TableNext == IInv /\ TableKept /\ [Next]_vars => TableKept'
<1> SUFFICES ASSUME IInv, TableKept, [Next]_vars PROVE TableKept'
  OBVIOUS
<1>1. CASE DebuggeeStep
  <2>1. UNCHANGED <<ctxVars, at, cmd, b, todo, res>> /\ hist'.set = hist.set /\ Alive
    BY <1>1 DEF DebuggeeStep, ChildStep, Alive, IInv, TypeOK, HistType
  <2> QED BY <2>1, SameTableKept DEF TableSame, TableKept, ctxVars
<1>2. CASE DebuggeeKilled
  BY <1>2 DEF DebuggeeKilled, ChildKilled, Ends, Alive, TableKept
<1>3. CASE UNCHANGED vars
  BY <1>3, SameTableKept DEF vars, childVars, ctxVars, TableSame, TableKept, Alive
<1> QED BY <1>1, <1>2, <1>3, TableUser, TableInternal DEF Next, Exited

(* Where a command is when it is about to return.                          *)
LEMMA ReturnsFrom ==
  ASSUME IInv, [Next]_vars, at' = "idle", at # "idle"
  PROVE  /\ at \in {"load", "place", "ret", "left", "line"}
         /\ at = "ret" => cmd.fn \notin {"nexti", "next"}
<1>1. CASE User
  BY <1>1 DEF User, Refuse, CmdExit, CmdFile, CmdRun, CmdRunForkFails, CmdBreak, CmdDelete, CmdKill,
     CmdContinue, CmdStepi, CmdNexti, CmdLine, Ready
<1>2. CASE Internal
  <2>1. ~ReportError /\ ~Wait /\ ~SigInfo
    BY DEF ReportError, Wait, WaitEnded, WaitStopped, SigInfo, IInv, WaitsFor
  <2>2. ~Stepi /\ ~SingleStep /\ ~Replace /\ ~Cont
    BY DEF Stepi, SingleStep, Replace, AfterStepi, Cont
  <2>3. ~NextiHead /\ ~NextiRet
    BY DEF NextiHead, NextiRet, NextiError, NextiDone
  <2>4. \A a \in Addr : RunPlace(a) => at = "place"
    BY DEF RunPlace
  <2>5. CASE KillRet \/ ContinueRet \/ StepiRet \/ StepRet
    BY <2>5 DEF KillRet, ContinueRet, StepiRet, StepRet
  <2>6. CASE Load \/ RunDone \/ NextiLeave \/ LineHead \/ LineStepped
    BY <2>6 DEF Load, RunDone, NextiLeave, LineHead, LineStepped
  <2> QED BY <1>2, <2>1, <2>2, <2>3, <2>4, <2>5, <2>6 DEF Internal
<1>3. CASE DebuggeeStep \/ DebuggeeKilled \/ UNCHANGED vars
  BY <1>3 DEF DebuggeeStep, DebuggeeKilled, vars
<1> QED BY <1>1, <1>2, <1>3 DEF Next, Exited

(* nexti and next leave the table of breakpoints as they found it,         *)
(* whatever stops the process in between: their own breakpoint goes, and   *)
(* none of the user's with it (cmd_nexti_exec).                            *)
THEOREM TableIsRestored == Spec => TableRestored
<1>1. Init => TableKept
  BY DEF Init, TraceeInit, TableKept, NoCmd, Alive
<1>2. IInv /\ TableKept /\ [Next]_vars
      => [\A fn \in {"nexti", "next"} :
            Returns(fn) /\ child = "stopped" => {a \in Addr : IsSet(a)} = hist.set]_vars
  <2> SUFFICES ASSUME IInv, TableKept, [Next]_vars, NEW fn \in {"nexti", "next"}, Returns(fn),
                      child = "stopped"
               PROVE  {a \in Addr : IsSet(a)} = hist.set
    OBVIOUS
  <2>1. at # "idle" /\ Alive
    BY DEF TableKept, Returns, Alive
  <2>2. at \in {"load", "place", "left", "line"}
    BY <2>1, ReturnsFrom DEF Returns
  <2>3. cmd.temp = 0
    BY <2>2 DEF IInv, TempIsLast
  <2> QED BY <2>1, <2>3 DEF TableKept, Returns
<1> QED BY <1>1, <1>2, TableNext, Invariance, PTL DEF Spec, TableRestored

-----------------------------------------------------------------------------
(* A step of the debugger that leaves the process where it is, and the     *)
(* debugger with a breakpoint that it has not got past.                    *)
StuckSame ==
  /\ UNCHANGED <<child, signal, rip, stack, fname, s_target, hist>>
  /\ cmd'.fn = cmd.fn
  /\ child # "pending"
  /\ at \notin {"siginfo", "nexti", "stepi", "step"} /\ child # "stepping"
  /\ at' \notin {"siginfo", "step"}

(* Such a step gets the process no further.                                *)
LEMMA StuckKept == ASSUME PastBreakpoint, StuckSame PROVE PastBreakpoint'
  BY DEF PastBreakpoint, StuckSame, AtFirst, Alive, Completes, Ip, Unfixed

(* A command that resumes the process begins with it stopped.              *)
LEMMA PastUser == IInv /\ TableKept /\ User => PastBreakpoint'
<1> SUFFICES ASSUME IInv, TableKept, User PROVE PastBreakpoint'
  OBVIOUS
<1>0. at = "idle" /\ cmd.fn = "none"
  BY DEF User, Refuse, CmdExit, CmdFile, CmdRun, CmdRunForkFails, CmdBreak, CmdDelete, CmdKill,
     CmdContinue, CmdStepi, CmdNexti, CmdLine, Ready, TableKept
<1>1. CASE cmd'.fn \notin {"continue", "stepi", "nexti"}
  BY <1>1 DEF PastBreakpoint, AtFirst
<1>2. CASE \E e \in BOOLEAN : Reply(e)
  BY <1>0, <1>1, <1>2 DEF Reply
<1>3. CASE /\ UNCHANGED <<childVars, s_target>> /\ at' \in {"stepi", "nexti"}
           /\ hist'.from = s_target
  <2>1. AtFirst' => s_target = "BRKPT" /\ Alive
    BY <1>3 DEF AtFirst, Alive, childVars
  <2>2. Alive => child = "stopped"
    BY <1>0 DEF IInv, ProcessKnown
  <2> QED BY <1>3, <2>1, <2>2 DEF PastBreakpoint, childVars
<1>4. CASE CmdExit
  BY <1>0, <1>1, <1>4 DEF CmdExit
<1>5. ASSUME NEW f \in Image, CmdFile(f) PROVE PastBreakpoint'
  BY <1>1, <1>5 DEF CmdFile, Begin, NoCmd
<1>6. CASE CmdRun
  BY <1>1, <1>6 DEF CmdRun, Begin, NoCmd
<1>7. ASSUME NEW sig \in Signals, CmdKill(sig) PROVE PastBreakpoint'
  BY <1>1, <1>7 DEF CmdKill, Begin, NoCmd
<1>8. CASE CmdContinue
  BY <1>3, <1>8 DEF CmdContinue, Begin, NoHist
<1>9. ASSUME NEW n \in Counts, CmdStepi(n) PROVE PastBreakpoint'
  BY <1>3, <1>9 DEF CmdStepi, Begin, NoHist
<1>10. ASSUME NEW n \in Counts, CmdNexti(n) PROVE PastBreakpoint'
  BY <1>2, <1>3, <1>10 DEF CmdNexti, Begin, NoHist
<1>11. ASSUME NEW n \in Counts, NEW fn \in {"step", "next"}, CmdLine(fn, n) PROVE PastBreakpoint'
  BY <1>1, <1>2, <1>11 DEF CmdLine, Begin, NoCmd
<1>12. Refuse \/ CmdRunForkFails \/ (\E a \in Addr : CmdBreak(a))
         \/ (\E id \in 0 .. MaxBreaks + 1 : CmdDelete(id))
       => \E e \in BOOLEAN : Reply(e)
  BY DEF Refuse, CmdRunForkFails, CmdBreak, CmdDelete, Deleted
<1> QED
  BY <1>2, <1>4, <1>5, <1>6, <1>7, <1>8, <1>9, <1>10, <1>11, <1>12 DEF User

(* Behind ctx_tg_stepi's look for it, the breakpoint that the process is   *)
(* at is out of the text: it steps over the instruction of the file.       *)
LEMMA PastStepi == IInv /\ PastBreakpoint /\ Stepi => PastBreakpoint'
<1> SUFFICES ASSUME IInv, PastBreakpoint, Stepi, AtFirst' PROVE PastBreakpoint'
  BY DEF PastBreakpoint
<1>0. TypeOK /\ ProcessKnown /\ Lifted /\ Transparent /\ Transparent'
  BY DataStepi DEF IInv, Data
<1>1. /\ at = "stepi" /\ at' = "step"
      /\ UNCHANGED <<child, rip, fname, s_target, todo>>
      /\ AtFirst /\ Alive /\ Alive'
  BY DEF Stepi, AtFirst, Alive
<1>2. child = "stopped" /\ Attached /\ s_target = "BRKPT" /\ todo = {}
  BY <1>0, <1>1 DEF ProcessKnown, Attached, PastBreakpoint, Lifted
<1>3. StepiRemove(rip) \/ StepiKeep(rip)
  BY <1>2 DEF Stepi
<1>4. rip \in Addr => ~breaks'[rip].is_placed
  <2>1. CASE StepiRemove(rip)
    <3>1. breaks' = [breaks EXCEPT ![rip] = RemovedBreak(breaks[rip], rip)]
      BY <2>1 DEF StepiRemove
    <3>2. rip \in Addr /\ breaks[rip] \in Breakpoint
      BY <1>0, <2>1 DEF StepiRemove, TypeOK
    <3>3. breaks[rip].is_placed => Removes(breaks[rip], rip)
      BY <1>0, <1>1, <1>2, <3>2 DEF Transparent, InText, Removes, Accessible, Int3
    <3>4. ~RemovedBreak(breaks[rip], rip).is_placed
      BY <3>2, <3>3 DEF RemovedBreak, Breakpoint
    <3> QED BY <1>0, <3>1, <3>2, <3>4 DEF TypeOK
  <2>2. CASE StepiKeep(rip)
    BY <1>0, <2>2 DEF StepiKeep, Lifted
  <2> QED BY <1>3, <2>1, <2>2
<1>5. Fetch(mem', rip) = Fetch(Code[fname], rip)
  BY <1>0, <1>1, <1>4 DEF Transparent, InText, Fetch
<1>6. Fetch(mem, rip)' = Fetch(Code[fname], rip)'
  BY <1>1, <1>5 DEF Fetch, Addr, Unmapped
<1> QED BY <1>1, <1>2, <1>6 DEF PastBreakpoint

(* No step of the debugger goes on behind a breakpoint that the process    *)
(* has not got past.                                                       *)
LEMMA PastInternal == IInv /\ PastBreakpoint /\ Internal => PastBreakpoint'
<1> SUFFICES ASSUME IInv, PastBreakpoint, Internal, AtFirst' PROVE PastBreakpoint'
  BY DEF PastBreakpoint
<1>0. TypeOK /\ ProcessKnown /\ WaitsFor
  BY DEF IInv
<1>a. Alive /\ at # "wait" => Attached
  BY <1>0 DEF ProcessKnown, Attached
<1>s. StuckSame => PastBreakpoint'
  BY StuckKept
<1>f. \A e \in BOOLEAN : ~Finish(e)
  BY DEF Finish, NoCmd, AtFirst
<1>1. CASE ReportError
  BY <1>0, <1>s, <1>1
  DEF ReportError, StuckSame, childVars, AtFirst, Alive, ProcessKnown
<1>2. CASE Wait
  <2>1. WaitStopped /\ AtFirst /\ at = "wait" /\ UNCHANGED fname
    BY <1>2 DEF Wait, WaitEnded, WaitStopped, AtFirst, Alive
  <2>2. /\ child = "pending" /\ child' = "stopped" /\ UNCHANGED <<signal, rip, stack, s_target>>
        /\ at' = IF signal = "segv" THEN cmd.then ELSE "siginfo"
        /\ signal # "trap" /\ ~Completes /\ s_target = "BRKPT"
    BY <2>1 DEF WaitStopped, PastBreakpoint
  <2>3. signal \in {"kernel", "segv"} /\ cmd.then \in {"load", "place", "ret", "replace"}
    BY <1>0, <2>1, <2>2 DEF TypeOK, TraceeTypeOK, WaitsFor
  <2>4. ~Completes'
    BY <2>1, <2>2, <2>3 DEF Completes, Ip, Unfixed
  <2> QED BY <2>2, <2>3, <2>4 DEF PastBreakpoint
<1>3. CASE SigInfo
  <2>1. AtFirst /\ at = "siginfo" /\ UNCHANGED <<child, signal, stack, fname>> /\ at' = cmd.then
    BY <1>3 DEF SigInfo, AtFirst, Alive
  <2>2. signal = "kernel" /\ child = "stopped" /\ ~Completes
    BY <1>0, <2>1 DEF PastBreakpoint, ProcessKnown, AtFirst
  <2>3. s_target' = "BRKPT" /\ rip' = rip - 1
    BY <1>3, <1>a, <2>1, <2>2 DEF SigInfo, AtFirst
  <2>4. cmd.then \in {"load", "place", "ret", "replace"}
    BY <1>0, <2>1 DEF WaitsFor
  <2>5. ~Completes'
    BY <2>1, <2>2, <2>3, <2>4 DEF Completes, Ip, Unfixed
  <2> QED BY <2>1, <2>2, <2>3, <2>4, <2>5 DEF PastBreakpoint
<1>4. CASE Stepi
  BY <1>4, PastStepi
<1>5. CASE SingleStep
  <2>1. AtFirst /\ at = "step" /\ Attached
    <3>1. at = "step" /\ UNCHANGED hist /\ cmd'.fn = cmd.fn
      BY <1>0, <1>5 DEF SingleStep, TypeOK, CmdType
    <3>2. Alive
      BY <1>5 DEF SingleStep, AtFirst, Alive, Attached
    <3> QED BY <1>a, <3>1, <3>2 DEF AtFirst
  <2>2. /\ child' = "stepping" /\ at' = "wait"
        /\ UNCHANGED <<rip, mem, fname, s_target>>
    BY <1>5, <2>1 DEF SingleStep, ctxVars
  <2>3. Fetch(mem, rip)' = Fetch(Code[fname], rip)'
    BY <2>1, <2>2 DEF PastBreakpoint, Fetch, Addr, Unmapped
  <2> QED BY <2>1, <2>2, <2>3 DEF PastBreakpoint
<1>6. CASE Replace
  BY <1>0, <1>s, <1>6 DEF Replace, AfterStepi, StuckSame, AtFirst, Alive, ProcessKnown
<1>7. CASE Cont
  <2>1. AtFirst /\ at = "cont" /\ Attached
    <3>1. at = "cont" /\ UNCHANGED hist /\ cmd'.fn = cmd.fn
      BY <1>0, <1>7 DEF Cont, TypeOK, CmdType
    <3>2. Alive
      BY <1>7 DEF Cont, AtFirst, Alive, Attached
    <3> QED BY <1>a, <3>1, <3>2 DEF AtFirst
  <2>2. /\ child' = "running" /\ at' = "wait" /\ child = "stopped"
        /\ UNCHANGED <<rip, stack, fname, s_target>>
    BY <1>7, <2>1 DEF Cont, ctxVars, Attached
  <2>3. ~Completes /\ s_target = "BRKPT"
    BY <2>1, <2>2 DEF PastBreakpoint
  <2>4. ~Completes'
    BY <2>1, <2>2, <2>3 DEF Completes, Ip, Unfixed
  <2> QED BY <2>2, <2>3, <2>4 DEF PastBreakpoint
<1>8. CASE Load \/ RunDone \/ KillRet \/ ContinueRet \/ NextiLeave
  BY <1>f, <1>8 DEF Load, RunDone, KillRet, ContinueRet, NextiLeave
<1>9. ASSUME NEW a \in Addr, RunPlace(a) PROVE PastBreakpoint'
  BY <1>0, <1>s, <1>9 DEF RunPlace, StuckSame, AtFirst, Alive, ProcessKnown
<1>b. at' = "stepi" /\ AtFirst /\ at # "wait" /\ UNCHANGED <<child, s_target>> => PastBreakpoint'
  BY <1>0 DEF PastBreakpoint, AtFirst, ProcessKnown
<1>10. CASE StepiRet
  <2>1. /\ at = "ret" /\ at' = "stepi" /\ UNCHANGED <<child, s_target, hist>>
        /\ cmd' = [cmd EXCEPT !.i = @ + 1]
    BY <1>f, <1>10 DEF StepiRet, childVars
  <2>2. cmd'.fn = cmd.fn
    BY <1>0, <2>1 DEF TypeOK, CmdType
  <2> QED BY <1>b, <2>1, <2>2 DEF AtFirst, Alive
<1>11. CASE NextiHead
  <2>1. /\ at = "nexti" /\ at' = "stepi" /\ UNCHANGED <<child, s_target, hist>>
        /\ cmd'.fn = cmd.fn
    BY <1>0, <1>11 DEF NextiHead, NextiCall, NextiPlain, TypeOK, CmdType
  <2> QED BY <1>b, <2>1 DEF AtFirst, Alive
<1>12. CASE NextiRet
  <2>1. cmd'.fn = cmd.fn /\ at' \in {"left", "nexti"}
    <3>1. [cmd EXCEPT !.temp = 0].fn = cmd.fn /\ [cmd EXCEPT !.j = @ + 1, !.temp = 0].fn = cmd.fn
      BY <1>0 DEF TypeOK, CmdType
    <3> QED BY <1>12, <3>1 DEF NextiRet, NextiError, NextiDone
  <2> QED BY <1>0, <1>s, <1>12, <2>1 DEF NextiRet, StuckSame, AtFirst, Alive, ProcessKnown
<1>13. CASE LineHead \/ LineStepped
  <2>1. /\ at \in {"line", "left"} /\ UNCHANGED <<childVars, fname, s_target>>
        /\ \/ LineNext
           \/ cmd'.fn \in {"step", "next"}
    <3>1. /\ [cmd EXCEPT !.rip = rip, !.j = 0].fn = cmd.fn
          /\ [cmd EXCEPT !.curr = LineByAddress(rip, cmd.curr)].fn = cmd.fn
      BY <1>0 DEF TypeOK, CmdType
    <3> QED BY <1>f, <1>13, <3>1 DEF LineHead, LineStepped
  <2>2. LineNext
    BY <2>1 DEF AtFirst
  <2>3. at' = "line" /\ UNCHANGED hist /\ cmd'.fn = cmd.fn
    <3>1. [cmd EXCEPT !.i = @ + 1].fn = cmd.fn
      BY <1>0 DEF TypeOK, CmdType
    <3> QED BY <1>f, <2>2, <3>1 DEF LineNext
  <2> QED BY <1>0, <1>s, <2>1, <2>3 DEF StuckSame, AtFirst, Alive, ProcessKnown, childVars
<1>14. CASE StepRet
  BY <1>f, <1>14 DEF StepRet, AtFirst
<1> QED
  BY <1>1, <1>2, <1>3, <1>4, <1>5, <1>6, <1>7, <1>8, <1>9, <1>10, <1>11, <1>12, <1>13, <1>14
  DEF Internal

(* The process gets past the breakpoint with one instruction, or not at    *)
(* all.                                                                    *)
LEMMA PastChild == IInv /\ PastBreakpoint /\ DebuggeeStep => PastBreakpoint'
<1> SUFFICES ASSUME IInv, PastBreakpoint, DebuggeeStep, AtFirst' PROVE PastBreakpoint'
  BY DEF PastBreakpoint
<1>0. TypeOK /\ ProcessKnown
  BY DEF IInv
<1>1. /\ child \in {"stepping", "running"} /\ at = "wait" /\ at' = "wait"
      /\ UNCHANGED <<fname, s_target, cmd>> /\ rip \in Nat
  BY <1>0 DEF DebuggeeStep, ChildStep, ProcessKnown, Alive, ctxVars, TypeOK, TraceeTypeOK
<1>2. hist.done \in Nat /\ hist'.from = hist.from
      /\ hist'.done \in {hist.done, Counted(hist.done)}
  BY <1>0 DEF DebuggeeStep, TypeOK, HistType
<1>3. \A k \in Nat : Counted(k) # 0
  BY DEF Counted
<1>4. AtFirst /\ hist'.done = hist.done
  BY <1>1, <1>2, <1>3 DEF AtFirst, Alive
<1>5. ~ChildGo
  <2> SUFFICES ASSUME ChildGo PROVE hist'.done = Counted(hist.done)
    BY <1>2, <1>3, <1>4 DEF AtFirst
  <2> QED BY <1>0 DEF ChildGo, DebuggeeStep, TypeOK, HistType
<1>6. CASE ChildInt3 \/ ChildFault
  <2>1. /\ child' = "pending" /\ signal' \in {"kernel", "segv"} /\ UNCHANGED stack
        /\ Ip' = rip /\ Ip = rip
    <3>1. Ip = rip
      BY <1>1 DEF Ip, Unfixed
    <3>2. CASE ChildInt3
      <4>1. rip' = rip + 1 /\ child' = "pending" /\ signal' = "kernel" /\ UNCHANGED stack
        BY <3>2 DEF ChildInt3
      <4>2. Ip' = rip' - 1
        BY <4>1 DEF Ip, Unfixed
      <4> QED BY <1>1, <3>1, <4>1, <4>2
    <3>3. CASE ChildFault
      BY <3>1, <3>3 DEF ChildFault, Ip, Unfixed
    <3> QED BY <1>6, <3>2, <3>3
  <2>2. child = "running" => ~Completes
    BY <1>1, <1>4 DEF PastBreakpoint
  <2>3. child = "stepping" => ~Completes
    <3>1. child = "stepping" => Fetch(mem, rip) = Fetch(Code[fname], rip)
      BY <1>4 DEF PastBreakpoint
    <3> QED BY <1>6, <2>1, <3>1 DEF Completes, ChildInt3, ChildFault
  <2>4. Completes' = Completes
    BY <1>1, <2>1 DEF Completes, Fetch, Faults, Addr, Unmapped
  <2> QED BY <1>1, <1>4, <2>1, <2>2, <2>3, <2>4 DEF PastBreakpoint
<1>7. ~ChildExit
  BY DEF ChildExit, Ends, AtFirst, Alive
<1> QED BY <1>5, <1>6, <1>7 DEF DebuggeeStep, ChildStep

(* Neither does anything else.                                             *)
LEMMA PastNext == IInv /\ TableKept /\ PastBreakpoint /\ [Next]_vars => PastBreakpoint'
<1> SUFFICES ASSUME IInv, TableKept, PastBreakpoint, [Next]_vars PROVE PastBreakpoint'
  OBVIOUS
<1>1. CASE DebuggeeKilled
  BY <1>1 DEF DebuggeeKilled, ChildKilled, Ends, Alive, AtFirst, PastBreakpoint
<1>2. CASE UNCHANGED vars
  BY <1>2 DEF vars, childVars, ctxVars, PastBreakpoint, AtFirst, Alive, Completes, Ip, Unfixed
<1> QED BY <1>1, <1>2, PastUser, PastInternal, PastChild DEF Next, Exited

(* "continue", "stepi" and "nexti" get past the breakpoint that they begin *)
(* at (ctx_tg_stepi), if the process lives and the instruction there can   *)
(* be executed at all.                                                     *)
THEOREM BreakpointsAreLeft == Spec => BreakpointNeverSticks
<1>1. Init => TableKept /\ PastBreakpoint
  BY DEF Init, TraceeInit, TableKept, PastBreakpoint, AtFirst, NoCmd, Alive
<1>2. IInv /\ TableKept /\ PastBreakpoint /\ [Next]_vars
      => [\A fn \in {"continue", "stepi", "nexti"} :
            Returns(fn) /\ hist.from = "BRKPT" /\ child = "stopped" /\ Completes
              => hist.done > 0]_vars
  <2> SUFFICES ASSUME IInv, TableKept, PastBreakpoint, [Next]_vars,
                      NEW fn \in {"continue", "stepi", "nexti"}, Returns(fn),
                      hist.from = "BRKPT", child = "stopped", Completes
               PROVE  hist.done > 0
    OBVIOUS
  <2>1. at # "idle" /\ Alive /\ cmd.fn = fn /\ at' = "idle"
    BY DEF TableKept, Returns, Alive
  <2>2. at \in {"load", "place", "ret", "left", "line"}
    BY <2>1, ReturnsFrom
  <2>3. hist.done \in Nat
    BY DEF IInv, TypeOK, HistType
  <2>4. hist.done # 0
    BY <2>1, <2>2 DEF PastBreakpoint, AtFirst
  <2> QED BY <2>3, <2>4
<1> QED BY <1>1, <1>2, TableNext, PastNext, Invariance, PTL DEF Spec, BreakpointNeverSticks

-----------------------------------------------------------------------------
(* A step of the debugger under which the process stays where it is.       *)
StaySame ==
  /\ UNCHANGED <<stack, fname, hist>>
  /\ Alive' => Alive /\ Ip' = Ip
  /\ \A a \in Addr : breaks'[a].id = breaks[a].id
  /\ cmd'.fn = cmd.fn /\ cmd'.n = cmd.n /\ cmd'.cont = cmd.cont /\ cmd'.rip = cmd.rip
  /\ child' = "running" \/ at' = "cont" => cmd.cont
  /\ at' \notin {"nexti", "stepi"}
  /\ at' = "step" \/ child' = "stepping" => at \in {"stepi", "step"}
  /\ at' # "left" => at # "left"
  /\ at # "nexti"

(* Such a step keeps what nexti knows of the call.                         *)
LEMMA StayKept == ASSUME NextiInv, StaySame PROVE NextiInv'
  BY DEF NextiInv, StaySame, Called, IsSet

(* nexti begins with nothing executed; no other command has anything to    *)
(* keep.                                                                   *)
LEMMA NextiUser ==
  ASSUME Counts \subseteq {1}, IInv, TableKept, User PROVE NextiInv'
<1>0. at = "idle" /\ cmd.fn = "none"
  BY DEF User, Refuse, CmdExit, CmdFile, CmdRun, CmdRunForkFails, CmdBreak, CmdDelete, CmdKill,
     CmdContinue, CmdStepi, CmdNexti, CmdLine, Ready, TableKept
<1>1. CASE cmd'.fn # "nexti"
  BY <1>1 DEF NextiInv
<1>2. CASE \E e \in BOOLEAN : Reply(e)
  BY <1>0, <1>1, <1>2 DEF Reply
<1>3. CASE CmdExit
  BY <1>0, <1>1, <1>3 DEF CmdExit
<1>4. ASSUME NEW f \in Image, CmdFile(f) PROVE NextiInv'
  BY <1>1, <1>4 DEF CmdFile, Begin, NoCmd
<1>5. CASE CmdRun \/ CmdContinue
  BY <1>1, <1>5 DEF CmdRun, CmdContinue, Begin, NoCmd
<1>6. ASSUME NEW sig \in Signals, CmdKill(sig) PROVE NextiInv'
  BY <1>1, <1>6 DEF CmdKill, Begin, NoCmd
<1>7. ASSUME NEW n \in Counts, CmdStepi(n) PROVE NextiInv'
  BY <1>1, <1>7 DEF CmdStepi, Begin, NoCmd
<1>8. ASSUME NEW n \in Counts, CmdNexti(n), ~Reply(TRUE) PROVE NextiInv'
  <2>1. /\ at' = "nexti" /\ cmd'.n = 1 /\ cmd'.rip = rip /\ cmd'.cont = FALSE
        /\ hist'.tops = 0 /\ hist'.depth = Len(stack)
        /\ UNCHANGED childVars /\ child = "stopped"
    BY <1>8 DEF CmdNexti, Begin, NoCmd, NoHist, Attached
  <2>2. Ip' = rip
    BY <2>1 DEF Ip, Unfixed, childVars
  <2> QED BY <2>1, <2>2 DEF NextiInv, childVars
<1>9. ASSUME NEW n \in Counts, NEW fn \in {"step", "next"}, CmdLine(fn, n) PROVE NextiInv'
  BY <1>1, <1>2, <1>9 DEF CmdLine, Begin, NoCmd
<1>10. Refuse \/ CmdRunForkFails \/ (\E a \in Addr : CmdBreak(a))
         \/ (\E id \in 0 .. MaxBreaks + 1 : CmdDelete(id))
       => \E e \in BOOLEAN : Reply(e)
  BY DEF Refuse, CmdRunForkFails, CmdBreak, CmdDelete, Deleted
<1> QED
  BY <1>2, <1>3, <1>4, <1>5, <1>6, <1>7, <1>8, <1>9, <1>10 DEF User

(* nexti sees the call that the process is at, and ends up with a break-   *)
(* point behind it, its own or the user's.                                 *)
LEMMA NextiFindsCall == IInv /\ NextiInv /\ NextiHead => NextiInv'
<1> SUFFICES ASSUME IInv, NextiInv, NextiHead, cmd.fn = "nexti" PROVE NextiInv'
  BY DEF NextiHead, NextiCall, NextiPlain, NextiInv, IInv, TypeOK, CmdType
<1>0. TypeOK /\ ProcessKnown /\ Lifted /\ Transparent
  BY DEF IInv
<1>1. /\ at = "nexti" /\ at' = "stepi" /\ todo = {}
      /\ UNCHANGED <<child, signal, rip, stack, fname, hist>>
      /\ cmd'.fn = cmd.fn /\ cmd'.n = cmd.n /\ cmd'.rip = cmd.rip
  BY <1>0 DEF NextiHead, NextiCall, NextiPlain, Lifted, TypeOK, CmdType
<1>2. Alive => child = "stopped" /\ hist.tops = 0 /\ Ip = rip /\ cmd.rip = rip
  BY <1>0, <1>1 DEF ProcessKnown, NextiInv, TypeOK, HistType, Ip, Unfixed
<1>3. Alive' = Alive /\ Ip' = Ip
  BY <1>1 DEF Alive, Ip, Unfixed
<1>4. Alive /\ cmd'.cont =>
         /\ cmd.rip \in Addr /\ Code[fname][cmd.rip].op = "call"
         /\ cmd.rip + 1 \in Addr /\ IsSet(cmd.rip + 1)'
  <2> SUFFICES ASSUME Alive, cmd'.cont
               PROVE  /\ cmd.rip \in Addr /\ Code[fname][cmd.rip].op = "call"
                      /\ cmd.rip + 1 \in Addr /\ IsSet(cmd.rip + 1)'
    OBVIOUS
  <2>1. NextiCall
    BY <1>0 DEF NextiHead, NextiPlain, TypeOK, CmdType
  <2>2. cmd.rip + 1 \in Addr /\ Peek(cmd.rip).op = "call" /\ cmd.rip \in Nat
    BY <1>0, <2>1 DEF NextiCall, CallAt, TypeOK, CmdType
  <2>3. cmd.rip \in Addr
    BY <2>2 DEF Peek, Fetch, Unmapped, Addr
  <2>4. Peek(cmd.rip) = Code[fname][cmd.rip]
    BY <1>0, <1>1, <2>3 DEF Peek, Fetch, Transparent, InText
  <2>5. IsSet(cmd.rip + 1)'
    <3> DEFINE a == cmd.rip + 1
               p == NewBreak(breaks_cnt + 1)
    <3>1. p \in Breakpoint /\ p.id = breaks_cnt + 1
      BY <1>0, NewBreakTyped DEF TypeOK
    <3>2. \/ ~IsSet(a) /\ breaks' = [breaks EXCEPT ![a] = PlacedBreak(p, a)]
          \/ IsSet(a) /\ UNCHANGED breaks
      BY <2>1 DEF NextiCall
    <3>3. a \in Addr /\ a = cmd'.rip + 1
      BY <1>1, <2>2
    <3>c. PICK c \in Addr : c = a
      BY <3>3
    <3> HIDE DEF a, p
    <3>4. PlacedBreak(p, a).id # 0
      <4>1. PlacedBreak(p, a).id = p.id
        BY <1>0, <3>1, <3>3, BreakTyped
      <4> QED BY <1>0, <3>1, <4>1 DEF TypeOK
    <3>5. breaks'[c].id # 0
      BY <1>0, <3>2, <3>c, <3>4 DEF TypeOK, IsSet
    <3> QED BY <3>3, <3>5, <3>c DEF IsSet
  <2> QED BY <2>2, <2>3, <2>4, <2>5
<1>5. Alive => Len(stack) = hist.depth
  BY <1>2 DEF NextiInv
<1>6. child' # "running"
  BY <1>0, <1>1 DEF ProcessKnown, Alive
<1> QED BY <1>1, <1>2, <1>3, <1>4, <1>5, <1>6 DEF NextiInv, IsSet

(* The debugger resumes a process that is behind the call only to run it   *)
(* up to that breakpoint.                                                  *)
LEMMA NextiInternal == IInv /\ NextiInv /\ Internal => NextiInv'
<1> SUFFICES ASSUME IInv, NextiInv, Internal, cmd'.fn = "nexti" PROVE NextiInv'
  BY DEF NextiInv
<1>0. TypeOK /\ ProcessKnown /\ WaitsFor
  BY DEF IInv
<1>b. \A a \in Addr : breaks[a] \in Breakpoint
  BY <1>0 DEF TypeOK
<1>s. StaySame => NextiInv'
  BY StayKept
<1>f. \A e \in BOOLEAN : ~Finish(e)
  BY DEF Finish, NoCmd
<1>1. CASE ReportError
  BY <1>0, <1>s, <1>1
  DEF ReportError, StaySame, childVars, Alive, ProcessKnown, Ip, Unfixed
<1>2. CASE Wait
  BY <1>0, <1>s, <1>2
  DEF Wait, WaitEnded, WaitStopped, StaySame, WaitsFor, Alive, Ip, Unfixed, TypeOK, TraceeTypeOK
<1>3. CASE SigInfo
  BY <1>0, <1>s, <1>3
  DEF SigInfo, StaySame, WaitsFor, ProcessKnown, Attached, Alive, Ip, Unfixed
<1>4. CASE Stepi
  <2>1. \A a \in Addr : breaks'[a].id = breaks[a].id
    <3>1. CASE \E a \in Addr : StepiRemove(a)
      <4> PICK a \in Addr : StepiRemove(a)
        BY <3>1
      <4>1. RemovedBreak(breaks[a], a).id = breaks[a].id
        BY <1>0, <1>b, BreakTyped
      <4> QED BY <1>0, <4>1 DEF StepiRemove, TypeOK
    <3>2. CASE ~\E a \in Addr : StepiRemove(a)
      BY <1>4, <3>2 DEF Stepi, StepiRemove, StepiKeep
    <3> QED BY <3>1, <3>2
  <2> QED BY <1>0, <1>s, <1>4, <2>1 DEF Stepi, StaySame, ProcessKnown, Alive, Ip, Unfixed
<1>5. CASE SingleStep
  <2>1. cmd'.fn = cmd.fn /\ cmd'.n = cmd.n /\ cmd'.cont = cmd.cont /\ cmd'.rip = cmd.rip
    BY <1>0, <1>5 DEF SingleStep, TypeOK, CmdType
  <2> QED
    BY <1>0, <1>s, <1>5, <2>1
    DEF SingleStep, AfterStepi, StaySame, ProcessKnown, Attached, Alive, Ip, Unfixed, ctxVars
<1>6. CASE Replace
  <2>1. \A a \in Addr : breaks'[a].id = breaks[a].id
    <3>1. b # 0 => PlacedBreak(breaks[b], b).id = breaks[b].id
      BY <1>0, <1>b, BreakTyped DEF TypeOK
    <3> QED BY <1>0, <1>6, <3>1 DEF Replace, TypeOK
  <2> QED
    BY <1>0, <1>s, <1>6, <2>1
    DEF Replace, AfterStepi, StaySame, ProcessKnown, Alive, Ip, Unfixed
<1>7. CASE Cont
  <2>1. cmd'.fn = cmd.fn /\ cmd'.n = cmd.n /\ cmd'.cont = cmd.cont /\ cmd'.rip = cmd.rip
    BY <1>0, <1>7 DEF Cont, TypeOK, CmdType
  <2>2. cmd.cont
    BY <1>7, <2>1 DEF Cont, NextiInv
  <2> QED
    BY <1>0, <1>s, <1>7, <2>1, <2>2
    DEF Cont, StaySame, ProcessKnown, Attached, Alive, Ip, Unfixed, ctxVars
<1>8. CASE Load \/ RunDone \/ KillRet \/ ContinueRet \/ NextiLeave
  BY <1>f, <1>8 DEF Load, RunDone, KillRet, ContinueRet, NextiLeave
<1>9. ASSUME NEW a \in Addr, RunPlace(a) PROVE NextiInv'
  <2> DEFINE p == [breaks[a] EXCEPT !.is_placed = FALSE]
  <2>1. p \in Breakpoint /\ p.id = breaks[a].id
    BY <1>b DEF Breakpoint
  <2>2. breaks' = [breaks EXCEPT ![a] = PlacedBreak(p, a)]
    BY <1>9 DEF RunPlace
  <2> HIDE DEF p
  <2>3. PlacedBreak(p, a).id = breaks[a].id
    BY <1>0, <2>1, BreakTyped
  <2>4. \A c \in Addr : breaks'[c].id = breaks[c].id
    BY <1>0, <2>2, <2>3 DEF TypeOK
  <2> QED
    BY <1>0, <1>s, <1>9, <2>4 DEF RunPlace, StaySame, ProcessKnown, Alive, Ip, Unfixed
<1>10. CASE StepiRet
  <2>1. cmd.fn = "stepi" /\ cmd' = [cmd EXCEPT !.i = @ + 1]
    BY <1>f, <1>10 DEF StepiRet
  <2> QED BY <1>0, <2>1 DEF TypeOK, CmdType
<1>11. CASE NextiHead
  BY <1>11, NextiFindsCall
<1>12. CASE NextiRet
  <2>1. /\ cmd'.fn = cmd.fn /\ cmd'.n = cmd.n /\ cmd'.cont = cmd.cont /\ cmd'.rip = cmd.rip
        /\ at = "ret" /\ UNCHANGED <<child, signal, rip, stack, fname, hist>>
    <3>1. /\ \A k \in Nat : LET d == [cmd EXCEPT !.j = k, !.temp = 0]
                            IN  d.fn = cmd.fn /\ d.n = cmd.n /\ d.cont = cmd.cont /\ d.rip = cmd.rip
          /\ LET d == [cmd EXCEPT !.temp = 0]
             IN  d.fn = cmd.fn /\ d.n = cmd.n /\ d.cont = cmd.cont /\ d.rip = cmd.rip
      BY <1>0 DEF TypeOK, CmdType
    <3>2. cmd.j + 1 \in Nat
      BY <1>0 DEF TypeOK, CmdType
    <3> QED BY <1>12, <3>1, <3>2 DEF NextiRet, NextiError, NextiDone
  <2>2. at' = "left"
    <3>1. cmd.n = 1 /\ cmd.j \in Nat
      BY <1>0, <2>1 DEF NextiInv, TypeOK, CmdType
    <3> QED BY <1>12, <3>1 DEF NextiRet, NextiError, NextiDone
  <2>3. Alive' = Alive /\ Ip' = Ip /\ (Alive => child = "stopped")
    BY <1>0, <2>1, <2>2 DEF ProcessKnown, Alive, Ip, Unfixed
  <2> QED BY <2>1, <2>2, <2>3 DEF NextiInv, Called, Alive
<1>13. CASE LineHead \/ LineStepped
  <2>1. /\ at \in {"line", "left"} /\ UNCHANGED <<childVars, fname, breaks>>
        /\ \/ LineNext
           \/ cmd'.fn \in {"step", "next"}
    <3>1. /\ [cmd EXCEPT !.rip = rip, !.j = 0].fn = cmd.fn
          /\ [cmd EXCEPT !.curr = LineByAddress(rip, cmd.curr)].fn = cmd.fn
      BY <1>0 DEF TypeOK, CmdType
    <3> QED BY <1>f, <1>13, <3>1 DEF LineHead, LineStepped
  <2>2. at' = "line" /\ cmd' = [cmd EXCEPT !.i = @ + 1] /\ UNCHANGED hist
    BY <1>f, <2>1 DEF LineNext
  <2>3. cmd'.fn = cmd.fn /\ cmd'.n = cmd.n /\ cmd'.cont = cmd.cont /\ cmd'.rip = cmd.rip
    BY <1>0, <2>2 DEF TypeOK, CmdType
  <2>4. at = "line"
    BY <1>13, <2>3 DEF LineHead, LineStepped
  <2> QED
    BY <1>0, <1>s, <2>1, <2>2, <2>3, <2>4
    DEF StaySame, ProcessKnown, Alive, Ip, Unfixed, childVars
<1>14. CASE StepRet
  BY <1>f, <1>14 DEF StepRet
<1> QED
  BY <1>1, <1>2, <1>3, <1>4, <1>5, <1>6, <1>7, <1>8, <1>9, <1>10, <1>11, <1>12, <1>13, <1>14
  DEF Internal

(* The return address of a call stays in its place on the stack until the  *)
(* ret that goes there.                                                    *)
LEMMA StackKept ==
  ASSUME NEW i \in Instr, NEW r \in Nat, NEW s \in Seq(Nat), NEW d \in Nat, Len(s) > d,
         NEW x \in Successors(i, r, s)
  PROVE  \/ Len(x[2]) > d /\ x[2][d + 1] = s[d + 1]
         \/ Len(x[2]) = d /\ x[1] = s[d + 1]
<1>1. CASE x[2] = s
  BY <1>1
<1>2. CASE x[2] = Append(s, r + 1)
  <2> DEFINE t == Append(s, r + 1)
  <2>1. Len(t) > d /\ t[d + 1] = s[d + 1]
    OBVIOUS
  <2> HIDE DEF t
  <2> QED BY <1>2, <2>1
<1>3. CASE Len(s) > 0 /\ x[1] = s[Len(s)] /\ x[2] = Front(s)
  <2>1. Front(s) = [k \in 1 .. Len(s) - 1 |-> s[k]]
    BY <1>3 DEF Front
  <2>2. Len(Front(s)) = Len(s) - 1
    <3>1. Len(s) - 1 \in Nat /\ Len(s) - 1 <= Len(s)
      BY <1>3
    <3>2. PICK m \in Nat : m = Len(s) - 1
      BY <3>1
    <3>3. Len(SubSeq(s, 1, m)) = m
      BY <3>1, <3>2
    <3> QED BY <3>2, <3>3 DEF Front
  <2>3. CASE Len(s) = d + 1
    BY <1>3, <2>2, <2>3
  <2>4. CASE Len(s) > d + 1
    BY <1>3, <2>1, <2>2, <2>4
  <2> QED BY <2>3, <2>4
<1> QED BY <1>1, <1>2, <1>3 DEF Successors

(* The process runs on from the call to the breakpoint behind it.          *)
LEMMA NextiChild == IInv /\ NextiInv /\ DebuggeeStep => NextiInv'
<1> SUFFICES ASSUME IInv, NextiInv, DebuggeeStep, cmd.fn = "nexti" PROVE NextiInv'
  BY DEF NextiInv, DebuggeeStep
<1>0. TypeOK /\ ProcessKnown /\ WaitsFor /\ Lifted /\ Transparent
  BY DEF IInv
<1>1. /\ child \in {"stepping", "running"} /\ at = "wait" /\ at' = "wait" /\ Alive
      /\ UNCHANGED <<fname, breaks, cmd>> /\ rip \in Nat /\ Ip = rip
      /\ stack \in Seq(Nat) /\ hist.depth \in Nat /\ hist.tops \in Nat
  BY <1>0
  DEF DebuggeeStep, ChildStep, ProcessKnown, Alive, ctxVars, TypeOK, TraceeTypeOK, HistType, Ip,
      Unfixed
<1>2. UNCHANGED hist \/ hist' = [hist EXCEPT !.done = Counted(@), !.tops =
                                    IF Len(stack) <= hist.depth THEN Counted(@) ELSE @]
  BY DEF DebuggeeStep
<1>3. hist'.depth = hist.depth
  BY <1>0, <1>2 DEF TypeOK, HistType
<1>5. cmd.n = 1 /\ hist.tops \in {0, 1}
  BY <1>1 DEF NextiInv
<1>6. cmd.cont => /\ cmd.rip \in Addr /\ Code[fname][cmd.rip].op = "call"
                  /\ cmd.rip + 1 \in Addr /\ IsSet(cmd.rip + 1)
  BY <1>1 DEF NextiInv
<1>7. cmd.cont => IsSet(cmd.rip + 1)'
  BY <1>1, <1>6 DEF IsSet
<1>8. child' = "running" => child = "running"
  BY DEF DebuggeeStep, ChildStep, ChildGo, ChildInt3, ChildFault, ChildExit, Ends
<1>9. CASE ChildInt3 \/ ChildFault
  <2>1. /\ child' = "pending" /\ Ip' = rip /\ UNCHANGED <<stack, hist>>
    <3>1. CASE ChildInt3
      <4>1. rip' = rip + 1 /\ child' = "pending" /\ signal' = "kernel" /\ UNCHANGED stack
        BY <3>1 DEF ChildInt3
      <4>2. Ip' = rip' - 1
        BY <4>1 DEF Ip, Unfixed
      <4>3. UNCHANGED hist
        BY <4>1 DEF DebuggeeStep
      <4> QED BY <1>1, <4>1, <4>2, <4>3
    <3>2. CASE ChildFault
      BY <3>2 DEF ChildFault, DebuggeeStep, Ip, Unfixed
    <3> QED BY <1>9, <3>1, <3>2
  <2>2. Called' = Called
    BY <1>1, <2>1 DEF Called
  <2> QED BY <1>1, <1>5, <1>6, <1>7, <2>1, <2>2 DEF NextiInv, Alive
<1>10. CASE ChildGo
  <2>1. PICK x \in Successors(Fetch(mem, rip), rip, stack) : rip' = x[1] /\ stack' = x[2]
    BY <1>10 DEF ChildGo
  <2>2. child' \in {"pending", "running"} /\ signal' = "trap" /\ Ip' = rip'
    BY <1>1, <1>10 DEF ChildGo, Ip, Unfixed
  <2>3. Fetch(mem, rip) \in Instr
    BY <1>0, ConstantsTyped DEF Fetch, TypeOK, TraceeTypeOK
  <2>4. hist'.tops = IF Len(stack) <= hist.depth THEN Counted(hist.tops) ELSE hist.tops
    BY <1>0, <2>2 DEF DebuggeeStep, TypeOK, HistType
  <2>5. Fetch(mem, rip).op \in {"plain", "branch", "call", "ret"}
    BY <2>1 DEF Successors
  <2>6. CASE hist.tops = 0
    <3>1. rip = cmd.rip /\ Len(stack) = hist.depth
      BY <1>1, <2>6 DEF NextiInv
    <3>2. hist'.tops = 1
      BY <1>1, <2>4, <2>6, <3>1 DEF Counted
    <3>3. cmd.cont => Called'
      <4> SUFFICES ASSUME cmd.cont PROVE Called'
        OBVIOUS
      <4>1. Fetch(mem, rip).op = "call"
        BY <1>0, <1>1, <1>6, <2>5, <3>1 DEF Fetch, Transparent, Int3
      <4>2. stack' = Append(stack, rip + 1)
        BY <2>1, <4>1 DEF Successors
      <4>3. PICK d \in Nat : d = hist.depth
        BY <1>1
      <4>4. Len(stack') > d /\ stack'[d + 1] = rip + 1
        BY <1>1, <3>1, <4>2, <4>3
      <4> QED BY <1>1, <1>3, <3>1, <4>3, <4>4 DEF Called
    <3> QED BY <1>1, <1>5, <1>6, <1>7, <1>8, <2>2, <3>2, <3>3 DEF NextiInv, Alive
  <2>7. CASE hist.tops = 1
    <3>1. child = "running" /\ cmd.cont /\ Called
      BY <1>1, <2>7 DEF NextiInv
    <3>2. todo = {} /\ b = 0
      BY <1>0, <1>1, <3>1 DEF WaitsFor, Lifted, TypeOK
    <3>3. rip # cmd.rip + 1
      <4> SUFFICES ASSUME rip = cmd.rip + 1 PROVE FALSE
        OBVIOUS
      <4>1. rip \in Addr /\ IsSet(rip) /\ rip # 0
        BY <1>6, <3>1 DEF Addr
      <4>2. mem[rip] = Int3 \/ mem[rip].op = "unmapped"
        BY <1>0, <1>1, <3>2, <4>1 DEF Lifted, Transparent, InText
      <4> QED BY <2>5, <4>1, <4>2 DEF Fetch, Int3
    <3>4. Len(stack) > hist.depth /\ stack[hist.depth + 1] = cmd.rip + 1
      BY <1>1, <3>1, <3>3 DEF Called
    <3>5. hist'.tops = 1
      BY <1>1, <2>4, <2>7, <3>4
    <3>6. Called'
      <4>1. PICK d \in Nat : d = hist.depth
        BY <1>1
      <4>2. \/ Len(x[2]) > d /\ x[2][d + 1] = stack[d + 1]
            \/ Len(x[2]) = d /\ x[1] = stack[d + 1]
        BY <1>1, <2>1, <2>3, <3>4, <4>1, StackKept
      <4>3. stack[d + 1] = cmd.rip + 1
        BY <3>4, <4>1
      <4>4. hist'.depth = d /\ cmd' = cmd
        BY <1>1, <1>3, <4>1
      <4> QED BY <2>1, <2>2, <4>2, <4>3, <4>4 DEF Called
    <3> QED BY <1>1, <1>5, <1>6, <1>7, <1>8, <2>2, <3>5, <3>6 DEF NextiInv, Alive
  <2> QED BY <1>5, <2>6, <2>7
<1>11. CASE ChildExit
  <2>1. child' = "zombie" /\ UNCHANGED hist
    BY <1>11 DEF ChildExit, Ends, DebuggeeStep
  <2> QED BY <1>1, <1>5, <2>1 DEF NextiInv, Alive
<1> QED BY <1>9, <1>10, <1>11 DEF DebuggeeStep, ChildStep

(* Its death takes nothing from what nexti knows.                          *)
LEMMA NextiNext ==
  ASSUME Counts \subseteq {1}, IInv, TableKept, NextiInv, [Next]_vars PROVE NextiInv'
<1>1. CASE DebuggeeKilled
  <2>1. ~Alive' /\ child' = "zombie" /\ UNCHANGED <<at, cmd, hist>>
    BY <1>1 DEF DebuggeeKilled, ChildKilled, Ends, Alive
  <2> QED BY <2>1 DEF NextiInv
<1>2. CASE UNCHANGED vars
  BY <1>2 DEF vars, childVars, ctxVars, NextiInv, Called, Alive, Ip, Unfixed, IsSet
<1> QED BY <1>1, <1>2, NextiUser, NextiInternal, NextiChild DEF Next, Exited

(* "nexti" without an argument executes at most one instruction outside    *)
(* the subroutine that it calls, whatever breakpoints the process meets    *)
(* there and whoever kills it (cmd_nexti_exec).                            *)
THEOREM NextiStaysOut ==
  ASSUME Counts \subseteq {1} PROVE Spec => []NextiBounded
<1>1. Init => TableKept /\ NextiInv
  BY DEF Init, TraceeInit, TableKept, NextiInv, NoCmd, Alive
<1>2. IInv /\ TableKept /\ NextiInv /\ [Next]_vars => NextiInv'
  BY NextiNext
<1>3. IInv /\ NextiInv => NextiBounded
  BY DEF NextiInv, NextiBounded
<1> QED BY <1>1, <1>2, <1>3, TableNext, Invariance, PTL DEF Spec

=============================================================================

------------------------------ MODULE Debugger ------------------------------
(***************************************************************************)
(* The natrix debugger (src/debugger): the context of ctx/ctx.h, the       *)
(* functions of ctx/ctx_target.c and ctx/ctx_breakpoint.c, and the         *)
(* commands of cmd/ that change the context or the process, run by the     *)
(* loop of main.c.                                                         *)
(*                                                                         *)
(* The debugger is one sequential process.  "at" says where it is; a step  *)
(* is the code from one system call that another process can race with to  *)
(* the next, because the process it debugs may be killed between any two   *)
(* of them.  Commands that only read (info, print, examine, where,         *)
(* disassemble, help, echo, config) leave every variable below unchanged   *)
(* and are not actions.  No command disables a breakpoint, so is_enabled   *)
(* is TRUE throughout; the file and line of a breakpoint are only printed. *)
(***************************************************************************)
EXTENDS Tracee

CONSTANTS
  Line,        (* Source lines: pairs of a file and a line in the code.    *)
  LineOf,      (* LineOf[f][a]: the line that begins at address a of f.    *)
  NoLine,      (* No line: UINT64_MAX in the code.                         *)
  NoFile,      (* No file loaded: NULL in the code.                        *)
  Counts,      (* Values of the argument <n> of the stepping commands.     *)
  Signals,     (* Signals that "kill" may be asked to send.                *)
  Commands,    (* Commands the user types.                                 *)
  MaxBreaks,   (* Breakpoint ids handed out.  Bounds the model.            *)
  MaxCounted   (* Instructions a command is seen to execute.  Bounds hist. *)

ASSUME DebuggerAssumption ==
  /\ NoLine \notin Line
  /\ NoFile \notin Image
  /\ LineOf \in [Image -> [Addr -> Line \cup {NoLine}]]
  /\ Counts \subseteq Nat \ {0}
  /\ Signals \subseteq {"KILL", "TERM"}
  /\ MaxBreaks \in Nat
  /\ MaxCounted \in Nat \ {0}

VARIABLES
  s_debugger,  (* State of the debugger.                                   *)
  s_target,    (* What the debugger believes of the process.               *)
  pid,         (* 0, or 1 for the process forked last.                     *)
  fname,       (* The file loaded.                                         *)
  breaks,      (* The breakpoint at each address: a set hashed by address. *)
  breaks_cnt,  (* Id of the breakpoint created last.                       *)
  line,        (* The current line.                                        *)
  at,          (* Where the debugger is.                                   *)
  cmd,         (* Arguments and local variables of the running command.    *)
  b,           (* The address of ctx_tg_stepi's local breakpoint, or 0.    *)
  todo,        (* Breakpoints that cmd_run has still to place.             *)
  res,         (* Whether the last ctx_tg_* call returned TARGET_ERROR.    *)
  hist         (* Nothing in the code: what the running command has done.  *)

ctxVars == <<s_debugger, s_target, pid, fname, breaks, breaks_cnt, line>>

vars == <<childVars, ctxVars, at, cmd, b, todo, res, hist>>

Command == {"file", "run", "break", "delete", "continue", "stepi", "nexti",
            "step", "next", "kill", "exit"}

Lines == Line \cup {NoLine}

(* Ids start at 1, so a breakpoint whose id is 0 is none.                  *)
Breakpoint == [id : Nat, data : Instr, is_placed : BOOLEAN]

NoBreak == [id |-> 0, data |-> Unmapped, is_placed |-> FALSE]

NewBreak(id) == [id |-> id, data |-> Unmapped, is_placed |-> FALSE]

IsSet(a) == breaks[a].id # 0

(* fn is the command, n its argument, i and j the counters of its loops,   *)
(* rip the register it read, temp the address of its own breakpoint, curr  *)
(* the line it looks at, cont whether ctx_tg_stepi was called by           *)
(* ctx_tg_continue, then where ctx_tg_wait returns to.                     *)
NoCmd == [fn |-> "none", n |-> 0, i |-> 0, j |-> 0, rip |-> 0, temp |-> 0,
          curr |-> NoLine, file |-> NoFile, cont |-> FALSE, then |-> "idle"]

(* from: s_target when the command began; depth: number of frames then;    *)
(* done: instructions executed since; tops: those executed in no deeper a  *)
(* frame than the one the command began in; set: breakpoints at its start. *)
NoHist == [from |-> "NO_TARGET", depth |-> 0, done |-> 0, tops |-> 0, set |-> {}]

Init ==
  /\ s_debugger = "IDLE"
  /\ s_target = "NO_TARGET"
  /\ pid = 0
  /\ fname = NoFile
  /\ breaks = [a \in Addr |-> NoBreak]
  /\ breaks_cnt = 0
  /\ line = NoLine
  /\ at = "idle"
  /\ cmd = NoCmd
  /\ b = 0
  /\ todo = {}
  /\ res = "ok"
  /\ hist = NoHist
  /\ TraceeInit

-----------------------------------------------------------------------------
(* ctx_tg_is_running                                                       *)
Running == s_target \in {"BRKPT", "TRAPPED"}

(* A ptrace call on pid succeeds.                                          *)
Attached == pid # 0 /\ child = "stopped"

(* PTRACE_PEEKDATA and PTRACE_POKEDATA at a succeed.                       *)
Accessible(a) == Attached /\ mem[a].op # "unmapped"

(* ctx_bp_place on the breakpoint p of address a, and its effect on the    *)
(* text.  When a call fails the breakpoint stays unplaced.                 *)
Places(p, a) == ~p.is_placed /\ Accessible(a)

PlacedBreak(p, a) ==
  IF Places(p, a) THEN [p EXCEPT !.data = mem[a], !.is_placed = TRUE] ELSE p

PlacedText(p, a) == IF Places(p, a) THEN [mem EXCEPT ![a] = Int3] ELSE mem

(* ctx_bp_remove, likewise.                                                *)
Removes(p, a) == p.is_placed /\ Accessible(a)

RemovedBreak(p, a) == IF Removes(p, a) THEN [p EXCEPT !.is_placed = FALSE] ELSE p

RemovedText(p, a) == IF Removes(p, a) THEN [mem EXCEPT ![a] = p.data] ELSE mem

(* ctx_tg_peekdata: the text without the debugger's int3.                  *)
Peek(a) == IF a \in Addr /\ breaks[a].is_placed THEN breaks[a].data ELSE Fetch(mem, a)

(* ctx_dbg_line_changed, ctx_dbg_line_set, ctx_dbg_line_by_address.        *)
LineChanged(curr) == curr # NoLine /\ curr # line

LineSet(curr) == IF curr = NoLine THEN line ELSE curr

LineByAddress(a, curr) ==
  IF fname \in Image /\ a \in Addr /\ LineOf[fname][a] # NoLine
  THEN LineOf[fname][a] ELSE curr

-----------------------------------------------------------------------------
(* The loop of main.c and cmd_handler_handle.                              *)

Ready(c) == at = "idle" /\ s_debugger = "IDLE" /\ c \in Commands

(* A command starts and does not return at once.                           *)
Begin(c, label) ==
  /\ s_debugger' = "PROCESSING"
  /\ at' = label
  /\ cmd' = c
  /\ hist' = [NoHist EXCEPT !.from = s_target, !.depth = Len(stack),
                           !.set = {a \in Addr : IsSet(a)}]

(* A command that is one step returns, with or without a ctx_error.        *)
Reply(error) ==
  /\ s_debugger' = IF error THEN "ERROR" ELSE "IDLE"
  /\ UNCHANGED <<at, cmd, b, todo, res, hist>>

(* A longer command returns.                                               *)
Finish(error) ==
  /\ s_debugger' = IF error \/ s_debugger = "ERROR" THEN "ERROR" ELSE "IDLE"
  /\ at' = "idle"
  /\ cmd' = NoCmd
  /\ hist' = NoHist
  /\ res' = "ok"

(* main prints the error and waits for the next command.                   *)
ReportError ==
  /\ at = "idle"
  /\ s_debugger = "ERROR"
  /\ s_debugger' = "IDLE"
  /\ UNCHANGED <<childVars, s_target, pid, fname, breaks, breaks_cnt, line,
                 at, cmd, b, todo, res, hist>>

(* The conditions on which a command reports an error before doing any-    *)
(* thing: no target, not running, already running, bad arguments.          *)
Refuse ==
  /\ \/ s_target = "NO_TARGET" /\ \E c \in Commands \ {"file", "exit"} : Ready(c)
     \/ s_target = "NOT_RUNNING"
          /\ \E c \in Commands \cap {"continue", "stepi", "nexti", "step", "next", "kill"} :
               Ready(c)
     \/ Running /\ Ready("run")
     \/ \E c \in {"file", "break"} : Ready(c)
  /\ Reply(TRUE)
  /\ UNCHANGED <<childVars, s_target, pid, fname, breaks, breaks_cnt, line>>

(* cmd_exit_fn, or the end of the input.  The process is left as it is.    *)
CmdExit ==
  /\ Ready("exit")
  /\ s_debugger' = "EXITING"
  /\ UNCHANGED <<childVars, s_target, pid, fname, breaks, breaks_cnt, line,
                 at, cmd, b, todo, res, hist>>

-----------------------------------------------------------------------------
(* ctx_tg_wait, in two steps: waitpid, then PTRACE_GETSIGINFO and          *)
(* ctx_tg_brkpt_fix.  It blocks while there is nothing to collect.  A stop *)
(* by a signal other than SIGTRAP leaves s_target as it was.               *)

(* Mutant: a dead target is still believed to run.                         *)
WaitEndedForgetsState ==
  /\ child = "zombie"
  /\ child' = "none"
  /\ pid' = 0
  /\ at' = cmd.then
  /\ UNCHANGED <<signal, rip, stack, mem, s_target>>

WaitEnded ==
  /\ child = "zombie"
  /\ child' = "none"
  /\ pid' = 0
  /\ s_target' = "NOT_RUNNING"
  /\ at' = cmd.then
  /\ UNCHANGED <<signal, rip, stack, mem>>

WaitStopped ==
  /\ child = "pending"
  /\ child' = "stopped"
  /\ at' = IF signal = "segv" THEN cmd.then ELSE "siginfo"
  /\ UNCHANGED <<signal, rip, stack, mem, pid, s_target>>

Wait ==
  /\ at = "wait"
  /\ WaitEnded \/ WaitStopped
  /\ res' = "ok"
  /\ UNCHANGED <<s_debugger, fname, breaks, breaks_cnt, line, cmd, b, todo, hist>>

(* A mutant: the program counter is left behind the int3.                  *)
SigInfoWithoutFix ==
  /\ at = "siginfo"
  /\ \/ ~Attached /\ UNCHANGED s_target
     \/ Attached /\ s_target' = IF signal = "kernel" THEN "BRKPT" ELSE "TRAPPED"
  /\ at' = cmd.then
  /\ UNCHANGED <<childVars, s_debugger, pid, fname, breaks, breaks_cnt, line, cmd, b,
                 todo, res, hist>>

SigInfo ==
  /\ at = "siginfo"
  /\ \/ ~Attached /\ UNCHANGED <<s_target, rip>>
     \/ Attached /\ signal = "kernel" /\ s_target' = "BRKPT" /\ rip' = rip - 1
     \/ Attached /\ signal # "kernel" /\ s_target' = "TRAPPED" /\ UNCHANGED rip
  /\ at' = cmd.then
  /\ UNCHANGED <<child, signal, stack, mem, s_debugger, pid, fname, breaks,
                 breaks_cnt, line, cmd, b, todo, res, hist>>

-----------------------------------------------------------------------------
(* ctx_tg_stepi.  When the registers cannot be read (the process has been  *)
(* killed) the address it looks up is whatever the stack holds.            *)

(* Mutants: the breakpoint is found but not lifted; it is lifted but not   *)
(* remembered.                                                             *)
StepiRemoveNothing(a) ==
  /\ a \in Addr /\ IsSet(a)
  /\ b' = a
  /\ UNCHANGED <<breaks, mem>>

StepiRemoveForgets(a) ==
  /\ a \in Addr /\ IsSet(a)
  /\ b' = 0
  /\ breaks' = [breaks EXCEPT ![a] = RemovedBreak(breaks[a], a)]
  /\ mem' = RemovedText(breaks[a], a)

StepiRemove(a) ==
  /\ a \in Addr /\ IsSet(a)
  /\ b' = a
  /\ breaks' = [breaks EXCEPT ![a] = RemovedBreak(breaks[a], a)]
  /\ mem' = RemovedText(breaks[a], a)

StepiKeep(a) ==
  /\ ~(a \in Addr /\ IsSet(a))
  /\ b' = 0
  /\ UNCHANGED <<breaks, mem>>

Stepi ==
  /\ at = "stepi"
  /\ \/ /\ s_target = "BRKPT"
        /\ \E a \in (IF Attached THEN {rip} ELSE Addr) : StepiRemove(a) \/ StepiKeep(a)
     \/ s_target # "BRKPT" /\ b' = 0 /\ UNCHANGED <<breaks, mem>>
  /\ at' = "step"
  /\ UNCHANGED <<child, signal, rip, stack, s_debugger, s_target, pid, fname,
                 breaks_cnt, line, cmd, todo, res, hist>>

(* What follows ctx_tg_stepi: the rest of ctx_tg_continue or the command.  *)
AfterStepi == IF cmd.cont THEN "cont" ELSE "ret"

SingleStep ==
  /\ at = "step"
  /\ \/ Attached /\ child' = "stepping" /\ at' = "wait"
          /\ cmd' = [cmd EXCEPT !.then = "replace"] /\ UNCHANGED <<b, res>>
     \/ ~Attached /\ res' = "error" /\ at' = AfterStepi /\ b' = 0
          /\ UNCHANGED <<child, cmd>>
  /\ UNCHANGED <<signal, rip, stack, mem, ctxVars, todo, hist>>

(* Mutant: after the step the breakpoint is not put back.                  *)
ReplaceNothing ==
  /\ at = "replace"
  /\ at' = AfterStepi
  /\ b' = 0
  /\ UNCHANGED <<childVars, s_debugger, s_target, pid, fname, breaks, breaks_cnt, line,
                 cmd, todo, res, hist>>

Replace ==
  /\ at = "replace"
  /\ at' = AfterStepi
  /\ b' = 0
  /\ \/ b = 0 /\ UNCHANGED <<breaks, mem>>
     \/ b # 0 /\ breaks' = [breaks EXCEPT ![b] = PlacedBreak(breaks[b], b)]
              /\ mem' = PlacedText(breaks[b], b)
  /\ UNCHANGED <<child, signal, rip, stack, s_debugger, s_target, pid, fname,
                 breaks_cnt, line, cmd, todo, res, hist>>

(* ctx_tg_continue, behind its call of ctx_tg_stepi, whose result it drops. *)
Cont ==
  /\ at = "cont"
  /\ \/ Attached /\ child' = "running" /\ at' = "wait"
          /\ cmd' = [cmd EXCEPT !.then = "ret"] /\ UNCHANGED res
     \/ ~Attached /\ res' = "error" /\ at' = "ret" /\ UNCHANGED <<child, cmd>>
  /\ UNCHANGED <<signal, rip, stack, mem, ctxVars, b, todo, hist>>

-----------------------------------------------------------------------------
(* file: cmd_file_fn and ctx_tg_load.                                      *)

(* Mutant: a signal that a stopped process does not see.                   *)
SendSigterm == UNCHANGED childVars

(* kill(pid, SIGKILL)                                                      *)
SendSigkill == IF Alive THEN Ends ELSE UNCHANGED childVars

CmdFile(f) ==
  /\ Ready("file")
  /\ \/ Running /\ SendSigkill
          /\ Begin([NoCmd EXCEPT !.fn = "file", !.file = f, !.then = "load"], "wait")
     \/ ~Running /\ UNCHANGED childVars
          /\ Begin([NoCmd EXCEPT !.fn = "file", !.file = f], "load")
  /\ UNCHANGED <<s_target, pid, fname, breaks, breaks_cnt, line, b, todo, res>>

Load ==
  /\ at = "load"
  /\ fname' = cmd.file
  /\ s_target' = "NOT_RUNNING"
  /\ Finish(FALSE)
  /\ UNCHANGED <<childVars, pid, breaks, breaks_cnt, line, b, todo>>

(* run: cmd_run_fn and ctx_tg_run.  fork can fail; execvp can fail in the  *)
(* child, which then exits.                                                *)
CmdRun ==
  /\ Ready("run")
  /\ s_target = "NOT_RUNNING"
  /\ ForkExec(fname) \/ Ends
  /\ pid' = 1
  /\ todo' = {a \in Addr : IsSet(a)}
  /\ Begin([NoCmd EXCEPT !.fn = "run", !.then = "place"], "wait")
  /\ UNCHANGED <<s_target, fname, breaks, breaks_cnt, line, b, res>>

CmdRunForkFails ==
  /\ Ready("run")
  /\ s_target = "NOT_RUNNING"
  /\ Reply(TRUE)
  /\ UNCHANGED <<childVars, s_target, pid, fname, breaks, breaks_cnt, line>>

(* Mutant: is_placed is still that of the process before.                  *)
RunPlaceStale(a) ==
  /\ at = "place"
  /\ a \in todo
  /\ breaks' = [breaks EXCEPT ![a] = PlacedBreak(breaks[a], a)]
  /\ mem' = PlacedText(breaks[a], a)
  /\ todo' = todo \ {a}
  /\ UNCHANGED <<child, signal, rip, stack, s_debugger, s_target, pid, fname,
                 breaks_cnt, line, at, cmd, b, res, hist>>

RunPlace(a) ==
  /\ at = "place"
  /\ a \in todo
  /\ LET p == [breaks[a] EXCEPT !.is_placed = FALSE]
     IN  /\ breaks' = [breaks EXCEPT ![a] = PlacedBreak(p, a)]
         /\ mem' = PlacedText(p, a)
  /\ todo' = todo \ {a}
  /\ UNCHANGED <<child, signal, rip, stack, s_debugger, s_target, pid, fname,
                 breaks_cnt, line, at, cmd, b, res, hist>>

RunDone ==
  /\ at = "place"
  /\ todo = {}
  /\ line' = NoLine
  /\ Finish(FALSE)
  /\ UNCHANGED <<childVars, s_target, pid, fname, breaks, breaks_cnt, b, todo>>

(* break: cmd_break_fn.                                                    *)
CmdBreak(a) ==
  /\ Ready("break")
  /\ s_target # "NO_TARGET"
  /\ \/ /\ IsSet(a)
        /\ Reply(TRUE)
        /\ UNCHANGED <<mem, breaks, breaks_cnt>>
     \/ /\ ~IsSet(a)
        /\ breaks_cnt < MaxBreaks
        /\ breaks_cnt' = breaks_cnt + 1
        /\ LET p == NewBreak(breaks_cnt + 1)
           IN  \/ Running /\ breaks' = [breaks EXCEPT ![a] = PlacedBreak(p, a)]
                          /\ mem' = PlacedText(p, a)
               \/ ~Running /\ breaks' = [breaks EXCEPT ![a] = p] /\ UNCHANGED mem
        /\ Reply(FALSE)
  /\ UNCHANGED <<child, signal, rip, stack, s_target, pid, fname, line>>

(* delete: cmd_delete_fn, one breakpoint by id or all of them.             *)
Deleted(D) ==
  /\ breaks' = [a \in Addr |-> IF a \in D THEN NoBreak ELSE breaks[a]]
  /\ mem' = [a \in Addr |-> IF a \in D /\ Running THEN RemovedText(breaks[a], a)[a]
                            ELSE mem[a]]
  /\ Reply(D = {})
  /\ UNCHANGED <<child, signal, rip, stack, s_target, pid, fname, breaks_cnt, line>>

CmdDelete(id) ==
  /\ Ready("delete")
  /\ s_target # "NO_TARGET"
  /\ Deleted({a \in Addr : IsSet(a) /\ (id = 0 \/ breaks[a].id = id)})

(* kill: cmd_kill_fn and ctx_tg_kill.  A signal other than SIGKILL stays   *)
(* pending in a process that is stopped.                                   *)
CmdKill(sig) ==
  /\ Ready("kill")
  /\ Running
  /\ \/ sig = "KILL" /\ SendSigkill
     \/ sig # "KILL" /\ UNCHANGED childVars
  /\ Begin([NoCmd EXCEPT !.fn = "kill", !.then = "ret"], "wait")
  /\ UNCHANGED <<s_target, pid, fname, breaks, breaks_cnt, line, b, todo, res>>

KillRet ==
  /\ at = "ret"
  /\ cmd.fn = "kill"
  /\ Finish(FALSE)
  /\ UNCHANGED <<childVars, s_target, pid, fname, breaks, breaks_cnt, line, b, todo>>

-----------------------------------------------------------------------------
(* continue: cmd_continue_fn.                                              *)
CmdContinue ==
  /\ Ready("continue")
  /\ Running
  /\ Begin([NoCmd EXCEPT !.fn = "continue", !.cont = TRUE], "stepi")
  /\ UNCHANGED <<childVars, s_target, pid, fname, breaks, breaks_cnt, line, b, todo, res>>

ContinueRet ==
  /\ at = "ret"
  /\ cmd.fn = "continue"
  /\ Finish(res = "error" \/ (Running /\ ~Attached))
  /\ line' = IF Running /\ Attached THEN LineByAddress(rip, line) ELSE line
  /\ UNCHANGED <<childVars, s_target, pid, fname, breaks, breaks_cnt, b, todo>>

(* stepi: cmd_stepi_fn.  An error is reported and the loop goes on.        *)
CmdStepi(n) ==
  /\ Ready("stepi")
  /\ Running
  /\ Begin([NoCmd EXCEPT !.fn = "stepi", !.n = n], "stepi")
  /\ UNCHANGED <<childVars, s_target, pid, fname, breaks, breaks_cnt, line, b, todo, res>>

StepiRet ==
  /\ at = "ret"
  /\ cmd.fn = "stepi"
  /\ IF cmd.i + 1 < cmd.n /\ ~(res = "ok" /\ s_target = "NOT_RUNNING")
     THEN /\ at' = "stepi"
          /\ cmd' = [cmd EXCEPT !.i = @ + 1]
          /\ s_debugger' = IF res = "error" THEN "ERROR" ELSE s_debugger
          /\ UNCHANGED <<res, hist>>
     ELSE Finish(res = "error" \/ (Running /\ ~Attached))
  /\ UNCHANGED <<childVars, s_target, pid, fname, breaks, breaks_cnt, line, b, todo>>

-----------------------------------------------------------------------------
(* nexti: cmd_nexti_fn, and cmd_nexti_exec, which cmd_next_fn shares.  The *)
(* registers are read once, before the loop: cmd.rip.                      *)

CmdNexti(n) ==
  /\ Ready("nexti")
  /\ Running
  /\ breaks_cnt <= MaxBreaks
  /\ \/ ~Attached /\ Reply(TRUE)
     \/ Attached /\ Begin([NoCmd EXCEPT !.fn = "nexti", !.n = n, !.rip = rip], "nexti")
          /\ UNCHANGED <<b, todo, res>>
  /\ UNCHANGED <<childVars, s_target, pid, fname, breaks, breaks_cnt, line>>

(* The disassembler sees a call at r.  The text of a dead process reads as *)
(* -1, but for the byte that a breakpoint has saved.                       *)
CallAt(r) == r + 1 \in Addr /\ Peek(r).op = "call"

(* Mutants: the breakpoint behind the call is not placed; it is thought    *)
(* to be nexti's own when it is the user's.                                *)
NextiCallUnplaced ==
  /\ CallAt(cmd.rip)
  /\ LET a == cmd.rip + 1
     IN  \/ /\ ~IsSet(a)
            /\ breaks_cnt' = breaks_cnt + 1
            /\ breaks' = [breaks EXCEPT ![a] = NewBreak(breaks_cnt + 1)]
            /\ cmd' = [cmd EXCEPT !.cont = TRUE, !.temp = a]
         \/ /\ IsSet(a)
            /\ cmd' = [cmd EXCEPT !.cont = TRUE, !.temp = 0]
            /\ UNCHANGED <<breaks_cnt, breaks>>
  /\ UNCHANGED mem

NextiCallTakesOver ==
  /\ CallAt(cmd.rip)
  /\ LET a == cmd.rip + 1
         p == NewBreak(breaks_cnt + 1)
     IN  \/ /\ ~IsSet(a)
            /\ breaks' = [breaks EXCEPT ![a] = PlacedBreak(p, a)]
            /\ mem' = PlacedText(p, a)
         \/ IsSet(a) /\ UNCHANGED <<breaks, mem>>
  /\ breaks_cnt' = breaks_cnt + 1
  /\ cmd' = [cmd EXCEPT !.cont = TRUE, !.temp = cmd.rip + 1]

(* A call: stop behind it, with a breakpoint of its own if there is none.  *)
NextiCall ==
  /\ CallAt(cmd.rip)
  /\ LET a == cmd.rip + 1
         p == NewBreak(breaks_cnt + 1)
     IN  \/ /\ ~IsSet(a)
            /\ breaks_cnt' = breaks_cnt + 1
            /\ breaks' = [breaks EXCEPT ![a] = PlacedBreak(p, a)]
            /\ mem' = PlacedText(p, a)
            /\ cmd' = [cmd EXCEPT !.cont = TRUE, !.temp = a]
         \/ /\ IsSet(a)
            /\ cmd' = [cmd EXCEPT !.cont = TRUE, !.temp = 0]
            /\ UNCHANGED <<breaks_cnt, breaks, mem>>

NextiPlain ==
  /\ ~CallAt(cmd.rip)
  /\ cmd' = [cmd EXCEPT !.cont = FALSE, !.temp = 0]
  /\ UNCHANGED <<breaks_cnt, breaks, mem>>

NextiHead ==
  /\ at = "nexti"
  /\ NextiCall \/ NextiPlain
  /\ at' = "stepi"
  /\ UNCHANGED <<child, signal, rip, stack, s_debugger, s_target, pid, fname,
                 line, b, todo, res, hist>>

(* On an error the loop is left with the breakpoint still in the table.    *)
NextiError ==
  /\ res = "error"
  /\ s_debugger' = "ERROR"
  /\ at' = "left"
  /\ cmd' = [cmd EXCEPT !.temp = 0]
  /\ UNCHANGED <<breaks_cnt, breaks, mem>>

NextiDone ==
  /\ res # "error"
  /\ \/ cmd.temp = 0 /\ UNCHANGED <<breaks_cnt, breaks, mem>>
     \/ /\ cmd.temp # 0
        /\ mem' = RemovedText(breaks[cmd.temp], cmd.temp)
        /\ breaks' = [breaks EXCEPT ![cmd.temp] = NoBreak]
        /\ breaks_cnt' = breaks_cnt - 1
  /\ \/ Running /\ cmd.j + 1 < cmd.n /\ at' = "nexti"
     \/ ~(Running /\ cmd.j + 1 < cmd.n) /\ at' = "left"
  /\ cmd' = [cmd EXCEPT !.j = @ + 1, !.temp = 0]
  /\ UNCHANGED s_debugger

NextiRet ==
  /\ at = "ret"
  /\ cmd.fn \in {"nexti", "next"}
  /\ NextiError \/ NextiDone
  /\ UNCHANGED <<child, signal, rip, stack, s_target, pid, fname, line, b, todo,
                 res, hist>>

NextiLeave ==
  /\ at = "left"
  /\ cmd.fn = "nexti"
  /\ Finish(Running /\ ~Attached)
  /\ UNCHANGED <<childVars, s_target, pid, fname, breaks, breaks_cnt, line, b, todo>>

-----------------------------------------------------------------------------
(* step and next: cmd_step_fn and cmd_next_fn.                             *)

CmdLine(fn, n) ==
  /\ Ready(fn)
  /\ fn \in {"step", "next"}
  /\ Running
  /\ breaks_cnt <= MaxBreaks
  /\ \/ ~Attached /\ Reply(TRUE)
     \/ Attached /\ Begin([NoCmd EXCEPT !.fn = fn, !.n = n, !.curr = line], "line")
          /\ UNCHANGED <<b, todo, res>>
  /\ UNCHANGED <<childVars, s_target, pid, fname, breaks, breaks_cnt, line>>

(* The end of an iteration of the outer loop.                              *)
LineNext ==
  /\ line' = LineSet(cmd.curr)
  /\ IF cmd.i + 1 < cmd.n
     THEN at' = "line" /\ cmd' = [cmd EXCEPT !.i = @ + 1]
          /\ UNCHANGED <<s_debugger, res, hist>>
     ELSE Finish(FALSE)

(* The condition of the inner loop, and the start of its body.             *)
LineHead ==
  /\ at = "line"
  /\ \/ LineChanged(cmd.curr) /\ LineNext
     \/ ~LineChanged(cmd.curr) /\ cmd.fn = "step" /\ at' = "stepi"
          /\ UNCHANGED <<s_debugger, line, cmd, res, hist>>
     \/ ~LineChanged(cmd.curr) /\ cmd.fn = "next" /\ Attached /\ at' = "nexti"
          /\ cmd' = [cmd EXCEPT !.rip = rip, !.j = 0]
          /\ UNCHANGED <<s_debugger, line, res, hist>>
     \/ ~LineChanged(cmd.curr) /\ cmd.fn = "next" /\ ~Attached /\ Finish(TRUE)
          /\ UNCHANGED line
  /\ UNCHANGED <<childVars, s_target, pid, fname, breaks, breaks_cnt, b, todo>>

(* cmd_stepi_exec returns.                                                 *)
StepRet ==
  /\ at = "ret"
  /\ cmd.fn = "step"
  /\ \/ res = "error" /\ Finish(TRUE)
     \/ res # "error" /\ at' = "left" /\ UNCHANGED <<s_debugger, cmd, hist, res>>
  /\ UNCHANGED <<childVars, s_target, pid, fname, breaks, breaks_cnt, line, b, todo>>

(* The rest of the body of the inner loop.                                 *)
LineStepped ==
  /\ at = "left"
  /\ cmd.fn \in {"step", "next"}
  /\ \/ ~Running /\ LineNext
     \/ Running /\ ~Attached /\ Finish(TRUE) /\ UNCHANGED line
     \/ Running /\ Attached /\ at' = "line"
          /\ cmd' = [cmd EXCEPT !.curr = LineByAddress(rip, cmd.curr)]
          /\ UNCHANGED <<s_debugger, line, res, hist>>
  /\ UNCHANGED <<childVars, s_target, pid, fname, breaks, breaks_cnt, b, todo>>

-----------------------------------------------------------------------------
(* The process and the rest of the world.                                  *)

Counted(k) == IF k < MaxCounted THEN k + 1 ELSE k

DebuggeeStep ==
  /\ ChildStep
  /\ hist' = IF child' \in {"pending", "running"} /\ signal' = "trap"
             THEN [hist EXCEPT !.done = Counted(@),
                               !.tops = IF Len(stack) <= hist.depth THEN Counted(@) ELSE @]
             ELSE hist
  /\ UNCHANGED <<ctxVars, at, cmd, b, todo, res>>

DebuggeeKilled ==
  /\ ChildKilled
  /\ UNCHANGED <<ctxVars, at, cmd, b, todo, res, hist>>

(* main has left its loop.                                                 *)
Exited == s_debugger = "EXITING" /\ UNCHANGED vars

(* What the user types.                                                    *)
User ==
  \/ Refuse
  \/ CmdExit
  \/ \E f \in Image : CmdFile(f)
  \/ CmdRun
  \/ CmdRunForkFails
  \/ \E a \in Addr : CmdBreak(a)
  \/ \E id \in 0 .. MaxBreaks + 1 : CmdDelete(id)
  \/ \E sig \in Signals : CmdKill(sig)
  \/ CmdContinue
  \/ \E n \in Counts : CmdStepi(n)
  \/ \E n \in Counts : CmdNexti(n)
  \/ \E n \in Counts : CmdLine("step", n) \/ CmdLine("next", n)

(* What the debugger does of itself.                                       *)
Internal ==
  \/ ReportError
  \/ Wait
  \/ SigInfo
  \/ Stepi
  \/ SingleStep
  \/ Replace
  \/ Cont
  \/ Load
  \/ \E a \in Addr : RunPlace(a)
  \/ RunDone
  \/ KillRet
  \/ ContinueRet
  \/ StepiRet
  \/ NextiHead
  \/ NextiRet
  \/ NextiLeave
  \/ LineHead
  \/ StepRet
  \/ LineStepped

Next ==
  \/ User
  \/ Internal
  \/ DebuggeeStep
  \/ DebuggeeKilled
  \/ Exited

Spec == Init /\ [][Next]_vars

(* The debugger runs when it can, and the kernel schedules the process.    *)
Fairness == WF_vars(Internal) /\ WF_vars(DebuggeeStep)

FairSpec == Spec /\ Fairness

=============================================================================

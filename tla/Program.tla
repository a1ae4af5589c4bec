------------------------------ MODULE Program ------------------------------
(***************************************************************************)
(* A program that nobody debugs: what the debugger promises not to change. *)
(* It is selected, started at its entry, executes its own instructions one *)
(* after the other and ends by exiting or by a signal.                     *)
(***************************************************************************)
EXTENDS Machine

CONSTANT NoFile     (* No file has been loaded yet: not one of Image.      *)

VARIABLES
  file,    (* The executable.                                              *)
  alive,   (* Whether the process exists.                                  *)
  ip,      (* Its instruction pointer, 0 when there is no process.         *)
  frames   (* Its return addresses, innermost last.                        *)

vars == <<file, alive, ip, frames>>

Init ==
  /\ file = NoFile
  /\ alive = FALSE
  /\ ip = 0
  /\ frames = <<>>

Select(f) ==
  /\ ~alive
  /\ file' = f
  /\ UNCHANGED <<alive, ip, frames>>

Start ==
  /\ ~alive
  /\ file # NoFile
  /\ alive' = TRUE
  /\ ip' = Entry[file]
  /\ frames' = <<>>
  /\ UNCHANGED file

Execute ==
  /\ alive
  /\ \E x \in Successors(Fetch(Code[file], ip), ip, frames) :
       ip' = x[1] /\ frames' = x[2]
  /\ UNCHANGED <<file, alive>>

(* It exits, or a signal ends it: its own or one sent from outside.        *)
End ==
  /\ alive
  /\ alive' = FALSE
  /\ ip' = 0
  /\ frames' = <<>>
  /\ UNCHANGED file

Next ==
  \/ \E f \in Image : Select(f)
  \/ Start
  \/ Execute
  \/ End

Spec == Init /\ [][Next]_vars

=============================================================================

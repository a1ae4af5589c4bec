CONSTANTS
  Image = {"prog", "tiny"}
  MaxAddr = 5
  MaxDepth = 1
  Code <- LoopCode
  Entry <- LoopEntry
  OutsideKill = TRUE
  Line = {"l1", "l2", "l3"}
  LineOf <- LoopLines
  NoLine = "none"
  NoFile = "nofile"
  Counts = {1, 2}
  Signals = {"KILL", "TERM"}
  Commands = {"file", "run", "break", "delete", "continue", "stepi", "nexti", "step", "next", "kill", "exit"}
  MaxBreaks = 2
  MaxCounted = 1
SPECIFICATION Spec
INVARIANTS Transparent NoLostBreakpoint NeverOwnGroup IInv
PROPERTIES BreakpointNeverSticks TableRestored RefinesProgram

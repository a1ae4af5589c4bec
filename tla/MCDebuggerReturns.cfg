CONSTANTS
  Image = {"prog"}
  MaxAddr = 5
  MaxDepth = 1
  Code <- StraightCode
  Entry <- StraightEntry
  OutsideKill = TRUE
  Line = {"l1", "l2", "l3"}
  LineOf <- StraightLines
  NoLine = "none"
  NoFile = "nofile"
  Counts = {1}
  Signals = {"KILL"}
  Commands = {"file", "run", "break", "delete", "continue", "stepi", "nexti", "step", "next", "kill"}
  MaxBreaks = 1
  MaxCounted = 2
SPECIFICATION FairSpec
INVARIANT NextiBounded
PROPERTY CommandReturns

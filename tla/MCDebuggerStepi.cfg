CONSTANTS
  Image = {"prog"}
  MaxAddr = 5
  MaxDepth = 1
  Code <- StraightCode
  Entry <- StraightEntry
  OutsideKill = FALSE
  Line = {"l1", "l2", "l3"}
  LineOf <- StraightLines
  NoLine = "none"
  NoFile = "nofile"
  Counts = {1}
  Signals = {"KILL"}
  Commands = {"file", "run", "break", "stepi"}
  MaxBreaks = 1
  MaxCounted = 2
SPECIFICATION Spec
PROPERTY StepiExact

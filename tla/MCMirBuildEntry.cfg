\* Is what is emitted first what the body begins with?
CONSTANTS
  Null <- MCNull
  Subs <- MCSubs
  Starts <- MCStarts
  Variables = {"a", "s", "n", "o", "c"}
  Subroutines = {"f"}
  Depth = 1
  Width = 1
  MaxTrace = 8
SPECIFICATION Spec
INVARIANT EntryAlwaysKept
\* A subroutine is compiled once.
CHECK_DEADLOCK FALSE

\* Every small subroutine, compiled to blocks and merged.
CONSTANTS
  Null <- MCNull
  Subs <- MCSubs
  Starts <- MCStarts
  Variables = {"a", "s", "n", "o", "c"}
  Subroutines = {"f"}
  Depth = 2
  Width = 1
  MaxTrace = 8
SPECIFICATION Spec
INVARIANTS MergeInv SameTraces ExpressionsRight EntryKept
PROPERTY FreedUntouched
\* A subroutine is compiled once.
CHECK_DEADLOCK FALSE

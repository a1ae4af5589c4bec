SPECIFICATION Spec
CONSTANTS
  MaxLong = 1
  MaxUlong = 3
  Limit = 9
  Chosen = "small"
  Sources <- MCSources
INVARIANTS
  TypesResolved
  InstancesExact
  SymbolsResolved
  LayoutInherited
  VerdictRight
CHECK_DEADLOCK FALSE

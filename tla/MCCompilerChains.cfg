SPECIFICATION Spec
CONSTANTS
  MaxLong = 1
  MaxUlong = 3
  Limit = 9
  Chosen = "chains"
  Sources <- MCSources
INVARIANT ReferencesStayValid
CHECK_DEADLOCK FALSE

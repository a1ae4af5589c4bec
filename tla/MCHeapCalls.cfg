SPECIFICATION Spec
CONSTANTS
  Blocks = {b1, b2}
  N = 2
  Vars <- MCVars
  Params <- MCParams
  Tmps <- MCTmps
  Refs <- MCRefs
  MaxDepth = 2
  MaxCount = 2
  Void = Void
  None = None
  v1 = v1
  p1 = p1
  t1 = t1
  r1 = r1
  r2 = r2
INVARIANT CountExact
PROPERTIES OperationsEnd

SPECIFICATION Spec
CONSTANTS
  Blocks = {b1, b2, b3}
  N = 2
  Vars <- MCVars
  Params <- NoParams
  Tmps <- MCTmps
  Refs <- MCTwoRefs
  MaxDepth = 1
  MaxCount = 2
  Void = Void
  None = None
  v1 = v1
  p1 = p1
  t1 = t1
  r1 = r1
  r2 = r2
SYMMETRY AnyBlock
INVARIANTS NoDangling ReferenceValid NothingForgotten HeapInv

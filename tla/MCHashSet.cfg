\* Every sequence of calls on a small set that grows up to three times.
CONSTANTS
  k1 = k1
  k2 = k2
  k3 = k3
  k4 = k4
  Keys <- MCKeys
  Data <- MCData
  KeyOf <- MCKeyOf
  Hash <- MCHash
  NoData = NoData
  Null = Null
  InitialCapacity = 2
  MaxSize = 8
SPECIFICATION Spec
INVARIANTS HashInv LoadBounded
PROPERTIES IterationOnce IsMap

SPECIFICATION Spec
CONSTANTS
  ByteBits = 3
  IntBits = 4
  LongBits = 5
  MaxLength = 2
  MaxString = 1
INVARIANTS Modular DivisionLaw CastsCompose IndexExact ShiftsScale

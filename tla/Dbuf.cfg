SPECIFICATION Spec
CONSTANTS
  p1 = p1
  p2 = p2
  NULL = NULL
  Place = {p1, p2}
  Byte = {1, 2}
  Texts <- SomeTexts
  GrowSize = 1
  StrGrow = 1
  TempSize = 2
  Memory = 4
  MaxBufs = 3
SYMMETRY Interchangeable
INVARIANTS
  LocksCountReferences
  DataAsMeant
  StringsEnd
CHECK_DEADLOCK FALSE

SPECIFICATION Spec
CONSTANTS
  META_SIZE = 1
  MemorySize = 9
  Data = {d1, d2}
  MaxRequest = 3
SYMMETRY DataSymmetry
INVARIANTS TypeOK BlocksApart HeldIntact NoneLost
CHECK_DEADLOCK FALSE

SPECIFICATION Spec
CONSTANTS
  End = 20
  Overhead = 2
  MIN_ALLOC_SZ = 1
  MIN_WILDERNESS = 4
  SmallSize = 4
  Requests = {0, 2, 5}
INVARIANTS HeldIntact

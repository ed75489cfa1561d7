SPECIFICATION Spec
CONSTANTS
  HEAP_INIT_SIZE = 19
  MIN_ALLOC_SZ = 1
  MIN_WILDERNESS = 4
  BIN_COUNT = 3
  NodeSize = 1
  FootSize = 1
  MinBinSize = 2
  Requests = {1, 5}
  NULL = NULL
INVARIANTS BinsInv
PROPERTIES BlocksSpec

SPECIFICATION SyscallSpec
CONSTANTS
  Idle = Idle
  Users = {init, test}
  NULL = NULL
  PageBits = 4
  SizePages = 5
  IntPages = 8
  VirtPages = 16
  AddrPages = 20
  MaxRequest = 2
  FILs = {f1, f2, f3, f4}
  MAX_FILES_OPENABLE = 4
  Programs <- MCPrograms
SYMMETRY Symmetry
INVARIANTS DescriptorsInv FindsFreePages NoPageLost
PROPERTIES NoAlias

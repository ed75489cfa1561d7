SPECIFICATION Spec
CONSTANTS
  kernel = kernel
  idle = idle
  u1 = u1
  u2 = u2
  Kernel = kernel
  Idle = idle
  Users <- MCUsers
  NULL = NULL
  Garbage = Garbage
  Steps = 2
INVARIANT OwnStack
CHECK_DEADLOCK FALSE

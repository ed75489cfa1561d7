SPECIFICATION Spec
CONSTANTS
  SciIrq = 3
  Growth = 3
  RsdpTables <- MCRsdp
  Machines <- MCMachines
  Devices = 3
  Functions = 3
  Pins <- MCPins
  None = None
INVARIANTS MapIsCurrent TablesMapped GateBeforeInterrupt OwnHandler RoutedAtEnd Attached
CHECK_DEADLOCK FALSE

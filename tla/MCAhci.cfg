SPECIFICATION FairSpec
CONSTANTS
  Hardware <- MCHardware
  Writes <- MCWrites
  Contents = {"a", "b"}
  None = None
  BufferSectors = 2
  MaxErrors = 1
INVARIANTS NoSlotLost ListsWhole
PROPERTIES DiskSpec NoFalseSuccess CallReturns

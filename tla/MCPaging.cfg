SPECIFICATION Spec
CONSTANTS
  Fan = 2
  Virtuals <- MCVirtuals
  Physicals <- MCPhysicals
  AddrFrames = 32
  PRESENT = PRESENT
  READWRITE = READWRITE
  CACHE_DISABLED = CACHE_DISABLED
  WRITE_THROUGH = WRITE_THROUGH
  MemPages = 4
  KernStart = 1
  KernEnd = 2
  FbStart = 2
  FbEnd = 3
  DevicePages <- MCDevicePages
  UserPages <- MCUserPages
  UserFlags <- MCUserFlags
  Garbage <- MCGarbage
  Firmware = Firmware
  MaxTables = 19
  MaxDirs = 2
INVARIANTS TreeInv TlbFresh KernelMapped
PROPERTIES SpaceSpec

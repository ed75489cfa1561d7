SPECIFICATION Spec
CONSTANTS
  MemoryMaps <- MCMemoryMaps
  KernStart = 9
  KernPages = 2
  BitmapPages = 2
  PageBits = 6
  AddressPages = 1024
  PageContents <- MCPageContents
  MaxRequest = 2
  MaxFrees = 2
INVARIANTS LocatedLargest
PROPERTIES NeverHandedOutTwice SegmentFirst SuccessivePages

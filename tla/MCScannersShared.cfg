SPECIFICATION MCSpec
CONSTANTS
  MaxLen = 6
  Kinds <- MCKinds
  Headers <- MCHeaders
  Footer <- MCFooter
  MinSize <- MCMinSize
  Lookback <- MCLookback
  Unlimited <- MCUnlimited
  Sized <- MCSized
  Declared <- MCDeclared
  Setups <- GifJpeg
  Page = 4
  MmapFaults = FALSE
  ThreadSetups = {}
  REGION_OVERLAP = 3
  ReadSize = 3
INVARIANTS
  SameAsInMemory
CHECK_DEADLOCK FALSE

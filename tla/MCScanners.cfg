SPECIFICATION FairMCSpec
CONSTANTS
  MaxLen = 6
  Kinds <- MCKinds
  Headers <- MCHeaders
  Footer <- MCFooter
  MinSize <- MCMinSize
  Lookback <- MCLookback
  Unlimited <- MCUnlimited
  Sized <- MCSized
  Declared <- MCDeclared
  Setups <- Several
  Page = 4
  MmapFaults = FALSE
  ThreadSetups <- SeveralThreads
  REGION_OVERLAP = 3
  ReadSize = 3
INVARIANTS
  ScannersTypeOK
  ReportedRight
  BordersHideNothing
  RegionsCover
  MergedRight
PROPERTIES
  ScanEnds
  ScanReturns
CHECK_DEADLOCK FALSE

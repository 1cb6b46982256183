SPECIFICATION ScanningSpec
CONSTANTS
  ScanSettings <- MCScanSettings
  HeadWindow = 1
  TailWindow = 3
  MftWindow = 4
  Chunk = 2
  MaxSignals = 3
INVARIANTS
  KeepsOneOfThree
CHECK_DEADLOCK FALSE

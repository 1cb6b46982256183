SPECIFICATION MCSpec
CONSTANTS
  Top = 4
  ClusterSize = 2
  MaxHops = 10
  MaxDepth = 2
  OutputName <- MCOutputName
  Volumes = {}
  Trees = {}
  RunClusterSize = 2
  Hole <- MCHole
  Attributes = {}
  MinRecord = 2
  HeaderEnd = 2
  Journals = {}
  PageSize = 4
  PageHeader = 1
  MinLog = 2
  MaxLog = 5
  Logs = {}
  RecordWords = 8
  MaxRecords = 3
  ResidentHeader = 1
  NonResidentHeader = 2
  SafeName <- MCSafeName
  MftTables <- Formatted
  Candidates = {}
  Fat16From = 4
  Fat32From = 6
  SectorSizes = {512, 1024}
INVARIANTS
  WalkerIterates
CHECK_DEADLOCK FALSE

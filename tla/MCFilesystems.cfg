SPECIFICATION MCSpec
CONSTANTS
  Top = 4
  ClusterSize = 2
  MaxHops = 10
  MaxDepth = 2
  OutputName <- MCOutputName
  Volumes <- Undelete
  Trees <- Walks
  RunClusterSize = 2
  Hole <- MCHole
  Attributes <- MCAttributes
  MinRecord = 2
  HeaderEnd = 2
  Journals <- MCJournals
  PageSize = 4
  PageHeader = 1
  MinLog = 2
  MaxLog = 5
  Logs <- MCLogs
  RecordWords = 8
  MaxRecords = 3
  ResidentHeader = 1
  NonResidentHeader = 2
  SafeName <- MCSafeName
  MftTables <- MCTables
  Candidates <- MCCandidates
  Fat16From = 4
  Fat32From = 6
  SectorSizes = {512, 1024}
INVARIANTS
  AllTypesOK
  VolumesRight
  RunsRight
  ClassifiedRight
  JournalsRight
  MftRight
PROPERTIES
  AllEnd
CHECK_DEADLOCK FALSE

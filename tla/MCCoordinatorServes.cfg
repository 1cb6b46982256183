SPECIFICATION FairCoordSpec
CONSTANTS
  t1 = t1
  t2 = t2
  i1 = i1
  i2 = i2
  c1 = c1
  c2 = c2
  x1 = x1
  x2 = x2
  x3 = x3
  NoTask = NoTask
  NoThread = NoThread
  MaxPushes = 2
  MaxConcurrent = 1
  Tasks <- MCTasks
  Ids <- MCIds
  IdOf <- MCIdOf
  Priority <- MCPriority
  MaxRetries <- MCMaxRetries
  Callers <- MCCallers
  Threads <- MCThreads
PROPERTIES
  RunningServes

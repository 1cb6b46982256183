SPECIFICATION SchedSpec
CONSTANTS
  t1 = t1
  t2 = t2
  i1 = i1
  i2 = i2
  c1 = c1
  c2 = c2
  x1 = x1
  x2 = x2
  x3 = x3
  x4 = x4
  NoTask = NoTask
  NoThread = NoThread
  MaxPushes = 4
  Tasks <- MCTasks
  Ids <- MCIds
  IdOf <- MCIdOf
  Priority <- MCPriority
  MaxRetries <- MCMaxRetries
  Callers <- MCCallers
  Threads <- MCThreads
SYMMETRY Symmetry
INVARIANTS
  WaitSeesAll

SPECIFICATION MainSpec
CONSTANTS
  threadCount = 2
  taskCount = 3
  Tasks = {1, 2, 3}
  Clients = {main}
  Main = main
  MaxBatch = 0
  MaxEmpty = 0
  MaxSpurious = 1
  Owner = owner
  NoThread = nobody
  NoTask = none
  InitialRet = {FALSE, TRUE}
INVARIANTS PrintsCompleteSum
PROPERTIES MainEnds

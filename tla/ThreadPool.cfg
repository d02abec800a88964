SPECIFICATION FairSpec
CONSTANTS
  threadCount = 3
  Tasks = {t1, t2, t3}
  Clients = {c1, c2}
  MaxBatch = 2
  MaxEmpty = 1
  MaxSpurious = 1
  Owner = owner
  NoThread = nobody
  NoTask = none
INVARIANTS FifoOrder RunOnce NoLostWakeup
PROPERTIES ImplementsTaskPool EveryTaskServed DestructionCompletes

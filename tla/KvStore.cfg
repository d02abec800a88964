SPECIFICATION KvSpec
CHECK_DEADLOCK FALSE
CONSTANTS
  c1 = c1
  c2 = c2
  Clients <- MCClients
  Words <- MCWords
  Commands <- MCCommands
  MayReset <- MCMayReset
INVARIANT FramesKept
INVARIANT EndsOnlyForCause
PROPERTY EveryoneServed

SPECIFICATION IocpSpec
CONSTANTS
  c1 = c1
  c2 = c2
  Workers <- MCWorkers
  Clients <- MCClients
  MayReset <- MCMayReset
  Handles <- MCHandles
  Listen = Listen
  Free = Free
INVARIANTS SafeWhenSerial
PROPERTIES ServedWhileWorkersLast CloseReturns
CHECK_DEADLOCK FALSE

SPECIFICATION MCSpec
CONSTANTS
  a = a
  b = b
  Peers <- MCPeers
  Runs <- MCRuns
  SndWnd = 2
  RcvWnd = 3
  Mtu = 8
  Overhead = 2
  RecvBuf = 5
  Strays <- MCStrays
  Resend = 1
  FastLimit = 2
  NetCap = 2
  W = 6
  Interval = 3
  Gap = 14
  Rtos = {2, 5}
  MaxStep = 2
INVARIANT DeliveredInOrder
INVARIANT ForgetsOnlyAccepted
INVARIANT FlushesInTime
PROPERTY EveryMessagePrinted

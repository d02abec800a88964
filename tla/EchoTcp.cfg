SPECIFICATION FairSpec
CONSTANTS
  Ports = {p1}
  MaxConns = 2
  Fds = {11, 12}
  SendLimit = 0
  MaxMsgs = 2
  MaxTimeouts = 1
  MaxResets = 1
  MaxDrops = 1
INVARIANTS NoLostEdge OwnDescriptors NothingLost
PROPERTIES EveryRequestAnswered HangupNoticed

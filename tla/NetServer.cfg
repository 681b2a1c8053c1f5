SPECIFICATION Spec
CONSTANTS
  Fd = {f1, f2}
  MaxConnect = 1
  MaxMessage = 2
  MaxPeer = 2
  MaxGone = 2
  None = None
INVARIANTS
  SocketsTrue
  MessagesTold
PROPERTIES
  QuietAfterGone
  LeftIsFreed
CHECK_DEADLOCK FALSE

SPECIFICATION FairSpec
CONSTANTS
  tA = tA
  tB = tB
  Node = {1, 2}
  Type = {tA, tB}
  TypeOf <- OneType
  Delay = 1
  MaxPending = 2
  ConnectMayFail = TRUE
  MayBroadcast = TRUE
INVARIANTS LinksAgree FrameVisitsAll
PROPERTIES RetryAfterDelay PeersReconnect

SPECIFICATION FairSpec
CONSTANTS
  tMaster = tMaster
  tProxy = tProxy
  tPlayer = tPlayer
  p1 = p1
  p2 = p2
  q1 = q1
  q2 = q2
  Type = {tMaster, tProxy, tPlayer}
  MasterType = tMaster
  MasterId = m0
  Node = {p1, q1}
  TypeOf <- NodeTypes
  Subs <- NodeSubs
  Fd = {f1, f2}
  InOrder = TRUE
INVARIANTS NobodyMissed OnlySubscribed
PROPERTIES DirectorySpec EveryoneLearns

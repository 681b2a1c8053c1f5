SPECIFICATION FairSpec
CONSTANTS
  a = a
  x = x
  ua = ua
  ux = ux
  NoAccount = NoAccount
  Fd = {f1, f2}
  Account = {a, x}
  Known = {a}
  Uid = {ua, ux}
  UidOf <- Players
  Lossy = {f2}
  MaxInFlight = 2
INVARIANTS RoutesAgree OwnVerifiedPlayer NothingLost
PROPERTIES AnswersTakeEffect

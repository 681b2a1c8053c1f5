SPECIFICATION FairSpec
CONSTANTS
  proxy = proxy
  Node = {1, 2}
  Type = {proxy}
  TypeOf <- NodeTypes
  Load = {0, 2147483647}
  MaxClock = 2
INVARIANTS CopiesTrue
PROPERTIES NeverOlder CopiesCatchUp

SPECIFICATION PlayerMgrSpec
CONSTANTS
    AccountId = {"a"}
    Db = {1}
    Timeout = 0
    NRow = 2
    MaxCo = 2
    MaxFault = 1
INVARIANTS OwnAnswer PlayersRight
PROPERTY EveryoneEnds
CHECK_DEADLOCK FALSE

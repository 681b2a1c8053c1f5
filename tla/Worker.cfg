SPECIFICATION Spec
CONSTANTS
    NCell = 2
    MaxActor = 2
    MaxMsg = 2
    MaxTask = 1
    MaxTime = 1
    MaxQueue = 2
    Handled <- MCHandled
INVARIANT OneAtATime
PROPERTY Served
CHECK_DEADLOCK FALSE

CONSTANTS
    Obj = {self}
    Event = {e}
    Name = {beat}
    Native = {cpp}
    Func = {f}
    Server = server
    Source = {server}
    Message = {m}
    Interval = {1, 2}
    Count <- MCCount
    MaxOp = 5
    MaxTime = 2
SPECIFICATION CallbacksSpec
INVARIANTS HeardAll SchedulesRight
CHECK_DEADLOCK FALSE

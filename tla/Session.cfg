SPECIFICATION SpecFair
CONSTANTS
    u1 = u1
    u2 = u2
    User = {u1, u2}
    HandlersClose = TRUE
    JoinMayTimeOut = TRUE
    MaxOpen = 3
    MaxMessage = 2
INVARIANTS OneReader ClosedIsReleased
PROPERTIES CloseEnds ThreadsEnd
CHECK_DEADLOCK FALSE

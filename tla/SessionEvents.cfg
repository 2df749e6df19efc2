SPECIFICATION Spec
CONSTANTS
    u1 = u1
    u2 = u2
    User = {u1}
    HandlersClose = TRUE
    JoinMayTimeOut = FALSE
    MaxOpen = 2
    MaxMessage = 1
INVARIANTS EventsAreServed
CHECK_DEADLOCK FALSE

SPECIFICATION Spec
CONSTANTS
    c1 = c1
    c2 = c2
    a = a
    Caller = {c1, c2}
    Address = {a}
    Traffic <- OneRegister
    RaiseOnError = TRUE
    MaxRequest = 2
    MaxArrival = 2
    MaxOpen = 2
SYMMETRY CallerSymmetry
PROPERTIES TimeoutIsHonest KeepsContract
INVARIANTS NoLostWakeup RepliesAreFirst DispatchedInOrder IInv
CHECK_DEADLOCK FALSE

SPECIFICATION Spec
CONSTANTS
    c1 = c1
    c2 = c2
    a = a
    Caller = {c1, c2}
    Address = {a}
    Traffic <- Replies
    RaiseOnError = TRUE
    MaxRequest = 2
    MaxArrival = 1
    MaxOpen = 2
SYMMETRY CallerSymmetry
INVARIANTS FaultMeansNoReply
CHECK_DEADLOCK FALSE

SPECIFICATION SpecScheduled
CONSTANTS
    c1 = c1
    c2 = c2
    a = a
    Caller = {c1, c2}
    Address = {a}
    Traffic <- OneReply
    RaiseOnError = TRUE
    MaxRequest = 2
    MaxArrival = 2
    MaxOpen = 1
PROPERTIES EveryRequestReturns FailureReleases AnswerReleases
CHECK_DEADLOCK FALSE

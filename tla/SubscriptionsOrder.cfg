SPECIFICATION Spec
CONSTANTS
    addrA = addrA
    addrB = addrB
    regA = regA
    NoRegister = NoRegister
    Address = {addrA, addrB}
    Register = {regA}
    AddressOf <- OneRegister
    Filter <- Events
    Traffic <- WithForeign
    MaxSub = 2
    MaxMessage = 1
    MaxOpen = 1
INVARIANTS SubscriptionOrder
CHECK_DEADLOCK FALSE

SPECIFICATION Spec
CONSTANTS
    addrA = addrA
    addrB = addrB
    regA = regA
    NoRegister = NoRegister
    Address = {addrA, addrB}
    Register = {regA}
    AddressOf <- OneRegister
    Filter <- Events
    Traffic <- WithForeign
    MaxSub = 2
    MaxMessage = 2
    MaxOpen = 2
INVARIANTS OneAtATime
CHECK_DEADLOCK FALSE

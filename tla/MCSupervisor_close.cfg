\* Close between the end of the sleep and connect.
CONSTANTS
    a1 = a1  a2 = a2
    Attempts = {a1, a2}
    MaxFaults = 1
    InitialBackoff = 1
    ReconnectMaxBackoff = 2
    DefaultMaxBackoff = 1
    SkipExchangeDeclare = FALSE
    MaxTimeouts = 0
    NoConn = NoConn
SPECIFICATION Spec
CHECK_DEADLOCK FALSE
INVARIANTS
    CloseLeavesNothingOpen

\* A dial that ends after its caller timed out.
CONSTANTS
    a1 = a1  a2 = a2
    Attempts = {a1, a2}
    MaxFaults = 1
    InitialBackoff = 1
    ReconnectMaxBackoff = 2
    DefaultMaxBackoff = 1
    SkipExchangeDeclare = FALSE
    MaxTimeouts = 1
    NoConn = NoConn
SPECIFICATION Spec
CHECK_DEADLOCK FALSE
INVARIANTS
    LateConnectionDiscarded

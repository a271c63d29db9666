\* Four dials, two faults, one timeout; the cap is reached by the third sleep.
CONSTANTS
    a1 = a1  a2 = a2  a3 = a3  a4 = a4
    Attempts = {a1, a2, a3, a4}
    MaxFaults = 2
    InitialBackoff = 2
    ReconnectMaxBackoff = 0
    DefaultMaxBackoff = 3
    SkipExchangeDeclare = FALSE
    MaxTimeouts = 1
    NoConn = NoConn
SPECIFICATION FairSpec
CHECK_DEADLOCK FALSE
INVARIANTS
    TypeOK
    Inv
    OpenConnectionIsManaged
    CloseReachesEarlierDials
    SetUpOnLiveConnection
    DiscardOnlyLate
PROPERTIES
    NoticedLossIsRepaired
    WatcherExits
    DialReturns

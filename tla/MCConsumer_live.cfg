\* Liveness: one consumer with two workers, one fault.
CONSTANTS
    k1 = k1
    m1 = m1
    c1 = c1  c2 = c2  c3 = c3
    Consumers = {k1}
    Messages = {m1}
    Copies = {c1, c2, c3}
    Unroutable = {}
    PublishedHeaders <- NoHeader
    MaxRetries = 1
    PrefetchCount = 0
    Workers = 2
    DisableDeadLetter = FALSE
    MaxFaults = 1
    MaxInt32 = 5
SPECIFICATION FairSpec
CHECK_DEADLOCK FALSE
ACTION_CONSTRAINT CopiesInOrder
PROPERTIES
    EventuallySettled
    CancelStopsConsume
    CloseCompletes

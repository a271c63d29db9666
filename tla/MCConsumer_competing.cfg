\* Two consumers that handle one delivery at a time, with retry
\* headers that were set elsewhere, one of them outside the range of an int32.
CONSTANTS
    k1 = k1  k2 = k2
    m1 = m1
    c1 = c1  c2 = c2  c3 = c3
    Consumers = {k1, k2}
    Messages = {m1}
    Copies = {c1, c2, c3}
    Unroutable = {}
    PublishedHeaders <- ForeignHeaders
    MaxRetries = 1
    PrefetchCount = 1
    Workers = 1
    DisableDeadLetter = FALSE
    MaxFaults = 1
    MaxInt32 = 2
SPECIFICATION Spec
SYMMETRY Symmetry
CHECK_DEADLOCK FALSE
INVARIANTS
    TypeOK
    Inv
    RetryCountBounded
PROPERTIES
    ImplementsQueue

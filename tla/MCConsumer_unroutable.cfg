\* A message whose retries are not routed back to its queue.
CONSTANTS
    k1 = k1
    m1 = m1
    c1 = c1  c2 = c2
    Consumers = {k1}
    Messages = {m1}
    Copies = {c1, c2}
    Unroutable = {m1}
    PublishedHeaders <- NoHeader
    MaxRetries = 1
    PrefetchCount = 1
    Workers = 1
    DisableDeadLetter = FALSE
    MaxFaults = 0
    MaxInt32 = 5
SPECIFICATION Spec
CHECK_DEADLOCK FALSE
INVARIANTS
    AtLeastOnce

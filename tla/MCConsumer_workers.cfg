\* One consumer with two workers and a wider prefetch window, two messages,
\* no dead-letter exchange, two faults.
CONSTANTS
    k1 = k1
    m1 = m1  m2 = m2
    c1 = c1  c2 = c2  c3 = c3
    Consumers = {k1}
    Messages = {m1, m2}
    Copies = {c1, c2, c3}
    Unroutable = {}
    PublishedHeaders <- NoHeader
    MaxRetries = 1
    PrefetchCount = 3
    Workers = 2
    DisableDeadLetter = TRUE
    MaxFaults = 2
    MaxInt32 = 5
SPECIFICATION Spec
SYMMETRY Symmetry
CHECK_DEADLOCK FALSE
INVARIANTS
    NoMessageLost
    GiveUpOnlyAfterRetries
    HandlersBounded
    DrainBeforeTeardown
    QuiescentAfterClose
    ExactlyOnceWithoutFaults
    Once

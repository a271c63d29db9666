\* A consumer and a publisher that disagree, two consumers that agree, two
\* failing operations.
CONSTANTS
    cons1 = cons1  pub = pub  cons2 = cons2  cons3 = cons3
    Declarers <- AllDeclarers
    Exchange <- OneExchange
    QueueName <- Queues
    RoutingKey <- SameKey
    DeadLetterOff <- PublisherOff
    MaxFaults = 2
SPECIFICATION FairSpec
CHECK_DEADLOCK FALSE
INVARIANTS
    Inv
    DeadLettersNeverVanish
    DoneIsComplete
    NoConflictWhenSame
PROPERTIES
    EventuallyDeclared

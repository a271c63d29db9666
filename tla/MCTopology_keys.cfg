\* A queue declared by a publisher and consumed with another routing key.
CONSTANTS
    cons1 = cons1  pub = pub  cons2 = cons2  cons3 = cons3
    Declarers <- TwoDeclarers
    Exchange <- OneExchange
    QueueName <- Queues
    RoutingKey <- ReadmeKeys
    DeadLetterOff <- NoneOff
    MaxFaults = 0
SPECIFICATION Spec
CHECK_DEADLOCK FALSE
INVARIANTS
    NoConflict

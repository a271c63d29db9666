\* A mandatory publish whose channel dies while it waits for a return.
CONSTANTS
    p1 = p1  p2 = p2
    Callers <- TwoCallers
    CallKinds <- Kinds
    Watcher = Watcher
    MaxChannels = 2
    ChannelPoolSize = 1
    DefaultPoolSize = 1
    MaxFaults = 1
SPECIFICATION Spec
CHECK_DEADLOCK FALSE
INVARIANTS
    ReturnedMeansUnroutable

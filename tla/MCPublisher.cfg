\* Two callers that share a pool of one channel (the default size) and have two
\* channels in all to open, one fault.
CONSTANTS
    p1 = p1  p2 = p2
    Callers <- TwoCallers
    CallKinds <- Kinds
    Watcher = Watcher
    MaxChannels = 2
    ChannelPoolSize = 0
    DefaultPoolSize = 1
    MaxFaults = 1
SPECIFICATION FairSpec
CHECK_DEADLOCK FALSE
INVARIANTS
    TypeOK
    Inv
    OneHolder
    NoChannelLeaked
    MetaNotLeaked
    ConfirmedIsAcked
    MandatoryConfirmedIsRouted
    OwnReturn
PROPERTIES
    OldChannelsRetired
    CallsReturn
    WarmingEnds

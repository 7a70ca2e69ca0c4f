SPECIFICATION FairSpec
CONSTANTS
    Bursts <- TwoAndOne
    LandChunks = 2
    TailChunks = 1
    MaxInflight = 1
    RetryTicks = 1
    MaxRetries = 1
    QueueDepth = 1
    Generations = 1
INVARIANT RemainingExact
INVARIANT OkMeansLanded
PROPERTY NoLateWrite
PROPERTY EveryReadEnds
CHECK_DEADLOCK FALSE

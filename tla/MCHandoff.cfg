SPECIFICATION FairSpec
CONSTANTS
    Managers = 1
    Lanes = 2
    GroupSize = 2
    KvHeads = 1
    Producers <- AllWorkers
    QueueBound = 2
    OutgoingBound = 3
    Chunks = 2
    Layers = 2
INVARIANTS
    HInv
    NoException
    OneCustodian
    CompleteMeansLanded
    WoInputIntact
PROPERTIES
    StackCompletes

SPECIFICATION FairSpec
CONSTANTS
    NumWorkers = 2
    NumNodes = 2
    QueueDepth = 64
    IssueBudget = 2
    SubmitBatch = 4
    Scenarios <- SchedScenarios
    TxnTiles = 1
    PanelRows = 1
    PanelChunks = 2
    Txns = 3
INVARIANT CreditsExact
INVARIANT ReadyMeansLanded
INVARIANT ReadAccounted
INVARIANT RoundRobin
PROPERTY AllTransactionsComplete

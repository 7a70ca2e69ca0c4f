SPECIFICATION Spec
CONSTANTS
    NumWorkers = 1
    NumNodes = 1
    QueueDepth = 64
    IssueBudget = 1
    SubmitBatch = 2
    Scenarios <- ScarceCredits
    TxnTiles = 1
    PanelRows = 1
    PanelChunks = 1
    Txns = 2
INVARIANT CompletionWakes
CHECK_DEADLOCK FALSE

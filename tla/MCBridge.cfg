SPECIFICATION FairSpec
CONSTANTS
    Msg <- BridgeMsgs
    Scenarios <- BridgeScenarios
    CreditCap = 2
    Quantum = 2
    Reorder = 1
    MaxStarve = 2
    RespReorder = 1
    RespStarve = 2
    Expected = 2
    Transfer = 1
    MaxAge = 2
    MaxRoom = 2
INVARIANT AnsweredOnce
INVARIANT CreditsExact
INVARIANT BundleCountsExact
INVARIANT SleepIsSafe
PROPERTY OldestWindowFirst
PROPERTY AllAnswered

SPECIFICATION Spec
CONSTANTS
    Msg <- BridgeMsgs
    Scenarios <- UncappedScenarios
    CreditCap = 2
    Quantum = 2
    Reorder = 1
    MaxStarve = 2
    RespReorder = 1
    RespStarve = 2
    Expected = 2
    Transfer = 1
    MaxAge = 2
    MaxRoom = 2
INVARIANT ResponsesDrained

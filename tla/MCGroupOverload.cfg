SPECIFICATION Spec
SYMMETRY WorkerSymmetry
CONSTANTS
    w1 = w1
    w2 = w2
    w3 = w3
    Workers = {w1, w2, w3}
    NumNodes = 2
    QueueDepth = 2
    MaxInflightPerNode = 1
    MaxGrantsPerSchedule = 1
    Windows = {2}
    MaxRequests = 2
INVARIANTS
    HoldersBounded
    NotStranded
    FinishedAfterDone
    GroupDoneQuiet
    IInv
CHECK_DEADLOCK FALSE
PROPERTY
    ImplementsGrants

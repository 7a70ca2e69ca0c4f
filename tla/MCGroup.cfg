SPECIFICATION FairSpec
CONSTANTS
    w1 = w1
    w2 = w2
    w3 = w3
    Workers = {w1, w2}
    NumNodes = 2
    QueueDepth = 3
    MaxInflightPerNode = 1
    MaxGrantsPerSchedule = 1
    Windows = {2}
    MaxRequests = 2
INVARIANTS
    OneCopyPerRequest
PROPERTIES
    EveryRequestGranted
    GroupTerminates

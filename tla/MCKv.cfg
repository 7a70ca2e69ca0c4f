SPECIFICATION FairSpec
CONSTANTS
    Workers = {w1, w2}
    NumSlots = 2
    QueueDepth = 2
    JobTable <- KvJobs
    Scenarios <- KvScenarios
INVARIANT OneSlotPerTile
INVARIANT CompletedIsInPlace
INVARIANT RequestAccounted
PROPERTY GroupFinishes
CHECK_DEADLOCK FALSE

SPECIFICATION Spec
CONSTANTS
    Workers = {w1, w2}
    NumSlots = 2
    QueueDepth = 2
    JobTable <- KvJobs
    Scenarios <- ApartScenarios
INVARIANT LiveRequestKept
CHECK_DEADLOCK FALSE

SPECIFICATION FairSpec
CONSTANTS
    lead = lead
    peer = peer
    Members = {lead, peer}
    Leader = lead
    Count = 1
    Chunks = 2
    Sources = 2
    Dests = 2
    MaxLandings = 2
    Epochs = 2
INVARIANTS
    CohortInv
    NoLogicError
    FetchedTile
    ScratchInsideEpoch
    ReleasedIsQuiet
PROPERTIES
    EveryEpochEnds

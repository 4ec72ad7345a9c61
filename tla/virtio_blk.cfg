SPECIFICATION FairSpec
CONSTANTS
    Harts = {h1, h2}
    Values = {v1, v2}
    Capacity = 1
    SectorMod = 3
    VIRTQ_SIZE = 4
    QueueMax = {0, 2, 8}
    IdxMod = 8
    Nobody = Nobody
INVARIANTS
    DescriptorsPartitioned
    ReachableIsLive
    ReadReturnsSector
PROPERTY
    RequestEnds
CHECK_DEADLOCK FALSE

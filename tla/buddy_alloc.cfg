CONSTANTS
    MaxOrder = 2
    NBlobs = 2
    Size <- MCSize
    None = None
    Threads = {boot}
    Requests = {1, 2, 3}
    SlabOrder = 0
    MetaOutcomes = {"object", "grow", "none"}
SPECIFICATION FairSpec
INVARIANTS
    NoDoubleUse
    NoPageLost
    NeverBroken
    Accounting
    NullMeansFragmented
PROPERTIES
    AllocEnds
    Implements

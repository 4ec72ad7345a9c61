CONSTANTS
    MaxOrder = 2
    NBlobs = 1
    Size <- MCSize
    None = None
    Threads = {boot}
    Requests = {1, 2, 3, 4}
    SlabOrder = 2
    MetaOutcomes = {"object", "grow"}
SPECIFICATION Spec
INVARIANT
    ListedArePrivate

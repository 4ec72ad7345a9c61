CONSTANTS
    Harts = {h1, h2}
    NoHart = NoHart
    Locks = {1, 2}
SPECIFICATION FairSpec
INVARIANTS
    MutualExclusion
    NeverPanics
    MaskedWhileHeld
    HoldingExact
PROPERTY
    Handover

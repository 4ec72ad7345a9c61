SPECIFICATION Spec
CONSTANTS
    Harts = {h1, h2}
    Blocks = {1, 2, 3}
    Bufs = {b1, b2}
    Values = {v1, v2}
    MaxHeld = 2
    Nobody = Nobody
INVARIANTS
    OneBufferPerBlock
    RefsExact
    OnlySyncDeadlocks
PROPERTY
    Implements
CHECK_DEADLOCK FALSE

CONSTANTS
    Callers = {c1, c2, c3}
    PID_MIN = 2
    PID_MAX = 4
SPECIFICATION PidFairSpec
INVARIANTS
    Dense
PROPERTIES
    GivenOnce
    SomeoneFinishes

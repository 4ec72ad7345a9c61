CONSTANTS
    Procs = {Idle, t1, t2}
    Idle = Idle
    Hart = Hart
    Junk = Junk
    Stretches = 3
SPECIFICATION TfSpec
INVARIANTS
    Resumes

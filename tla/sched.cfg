CONSTANTS
    t1 = t1
    t2 = t2
    t3 = t3
    t4 = t4
    Threads = {t1, t2, t3, t4}
    Idle = Idle
    None = None
    Boot <- Boot12
    Exits = {t1, t2}
SPECIFICATION FairSpec
INVARIANTS
    QueueSound
    NoThreadLost
    OwnStack
    PanicNeedsExit
PROPERTIES
    ZombieForever
    EveryoneRuns

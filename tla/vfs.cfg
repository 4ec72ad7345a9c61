SPECIFICATION Spec
CONSTANTS
    NDentries = 7
    Names = {"a", "d"}
    NameHash <- MCNameHash
    HashSize = 8
    Inos = {1, 2, 3, 8, 9}
    RefMod = 3
    Paths <- MCPaths
    NewPaths <- MCNewPaths
    Targets <- MCTargets
    InoSb <- MCInoSb
    RootIno <- MCRootIno
    Disk <- MCDisk
    DiskDirs = {1, 2, 3, 8}
    NFiles = 1
INVARIANTS
    NoDangling
    InodeRefsExact
    LookupAgrees

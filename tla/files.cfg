SPECIFICATION Spec
SYMMETRY Symmetry
CONSTANTS
    Threads = {c1, c2}
    Pool = {f1, f2, f3}
    Inodes = {n1}
    NR_OPEN_DEFAULT = 1
    NR_OPEN_MAX = 2
    MaxPos = 2
    RefMod = 8
    None = None
INVARIANTS
    RefsExact
    SizeCovers
PROPERTY
    DescriptorStable

CONSTANTS
    Slabs = {s1, s2, s3}
    ObjNum = 3
    Nest = 2
    Misuse = {"double_free", "flush"}
    MaxFree = 9
    MaxOut = 2
    MaxStale = 2
SPECIFICATION Spec
SYMMETRY Symmetry
INVARIANTS
    OneHolder
    ListsAgree
    Counters
    ReserveSuffices

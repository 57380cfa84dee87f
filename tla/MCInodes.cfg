SPECIFICATION Spec
CONSTANTS
    a = a
    b = b
    f1 = f1
    f2 = f2
    Names = {a, b}
    Opens = {f1, f2}
    MaxInodes = 3
    MaxFiles = 3
    MaxLookups = 2
    None = None
SYMMETRY MCSymmetry
INVARIANTS
    TypeOK
    LookupCountsAgree
    TableInverse
    NoStaleInode
    HandleNamesFile
CHECK_DEADLOCK FALSE

SPECIFICATION Spec
CONSTANTS
    f = f
    g = g
    d = d
    x = x
    Root = Root
    tmp = tmp
    Paths = {f, g, d, x}
    DirPaths = {d}
    Parent <- MCParent
    Rank <- MCRank
    TmpOf <- MCTmpOf
    Temps = {tmp}
    InitTree <- MCInitTree
    OtherTrees <- MCNoTrees
    Ops = {"write", "truncate", "create", "mkdir", "unlink", "rmdir", "rename", "touch"}
    MaxOps = 4
    MaxMoves = 0
    MaxFaults = 2
    Faults = {"error", "blob file vanishes"}
INVARIANTS
    TypeOK
    SizeIsRecorded
PROPERTIES
    ImplementsWorkTree
CHECK_DEADLOCK FALSE

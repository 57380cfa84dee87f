SPECIFICATION Spec
CONSTANTS
    f = f
    g = g
    d = d
    x = x
    Root = Root
    tmp = tmp
    Paths = {f, d, x}
    DirPaths = {d}
    Parent <- MCParent
    Rank <- MCRank
    TmpOf <- MCTmpOf
    Temps = {tmp}
    InitTree <- MCInitTree
    OtherTrees <- MCOtherTrees
    Ops = {"write", "create", "mkdir", "unlink", "rmdir", "rename", "checkout", "add", "commit", "commit all"}
    MaxOps = 2
    MaxMoves = 2
    MaxFaults = 1
    Faults = {"crash", "error", "lookup fails", "blob file vanishes", "reconcile fails", "read-tree fails"}
INVARIANTS
    CleanRowsHaveFiles
PROPERTIES
    RefreshKeepsView
CHECK_DEADLOCK FALSE

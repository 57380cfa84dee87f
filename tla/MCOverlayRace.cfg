SPECIFICATION Spec
CONSTANTS
    f = f
    g = g
    d = d
    x = x
    Root = Root
    tmp = tmp
    Paths = {f}
    DirPaths = {}
    Parent <- MCParent
    Rank <- MCRank
    TmpOf <- MCTmpOf
    Temps = {tmp}
    InitTree <- MCInitTree
    OtherTrees <- MCOtherTrees
    Ops = {"write", "checkout"}
    MaxOps = 2
    MaxMoves = 1
    MaxFaults = 0
    Faults = {}
INVARIANTS
    NoDanglingRow
CHECK_DEADLOCK FALSE

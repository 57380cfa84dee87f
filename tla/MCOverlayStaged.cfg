SPECIFICATION Spec
CONSTANTS
    f = f
    g = g
    d = d
    x = x
    Root = Root
    tmp = tmp
    Paths = {f, g}
    DirPaths = {}
    Parent <- MCParent
    Rank <- MCRank
    TmpOf <- MCTmpOf
    Temps = {tmp}
    InitTree <- MCInitTree
    OtherTrees <- MCNoTrees
    Ops = {"write", "add", "commit"}
    MaxOps = 2
    MaxMoves = 1
    MaxFaults = 0
    Faults = {}
PROPERTIES
    CommitKeepsWorkTree
CHECK_DEADLOCK FALSE

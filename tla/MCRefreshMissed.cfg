SPECIFICATION FairSpec
CONSTANTS
    c1 = c1
    c2 = c2
    main = main
    Commits = {c1, c2}
    Branches = {main}
    FirstCommit = c1
    FirstBranch = main
    Detached = Detached
    HEAD = HEAD
    None = None
    Events = {"move"}
    MaxEvents = 1
PROPERTIES
    HEADServed
CHECK_DEADLOCK FALSE

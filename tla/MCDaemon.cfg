SPECIFICATION FairSpec
CONSTANTS
    r1 = r1
    m1 = m1
    m2 = m2
    c1 = c1
    c2 = c2
    None = None
    Repos = {r1}
    Remotes = {m1, m2}
    Durations <- MCDurations
    MaxBackoff <- MCMaxBackoff
    Clis = {c1, c2}
    MaxCommands = 3
    MaxFaults = 1
INVARIANTS
    TypeOK
    MountsMatch
    RegistryAsTold
    ServesItsClone
    DelayBounds
PROPERTIES
    RegistryFollowed

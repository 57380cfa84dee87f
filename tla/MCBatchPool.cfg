SPECIFICATION FairSpec
CONSTANTS
    w1 = w1
    r1 = r1
    q1 = q1
    q2 = q2
    small = small
    large = large
    gone = gone
    Workers = {w1}
    Readers = {r1}
    Procs = {q1, q2}
    Oids = {small, large, gone}
    Wanted <- MCWanted
    Missing = {gone}
    Large = {large}
    Sizes = {1}
    FirstSize = 2
    None = None
INVARIANTS
    TypeOK
    RightBlob
    OneHolder
    PoolBound
    Leftover
PROPERTIES
    CallsReturn
    KeeperReturns

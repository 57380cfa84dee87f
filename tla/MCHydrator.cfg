SPECIFICATION Spec
CONSTANTS
    r1 = r1
    r2 = r2
    r3 = r3
    s1 = s1
    p1 = p1
    p2 = p2
    b1 = b1
    b2 = b2
    w1 = w1
    w2 = w2
    Calls = {r1, r2}
    Direct = {}
    Prefetches = {p1}
    Workers = {w1, w2}
    Oids = {b1}
    SizeKnown = {r1}
    Impatient = {r1}
    Flaky = {p1}
    Leftover = {"absent", "torn"}
    MayStop = TRUE
    OidOf <- MCOidOf
    PrefetchPri <- MCPrefetchPri
    NoTask = NoTask
SYMMETRY MCWorkerSymmetry
INVARIANTS
    TypeOK
    NoOrphanWaiter
    NoLostWakeup
    ChannelHeldOnce
    VerificationRuns
CHECK_DEADLOCK FALSE

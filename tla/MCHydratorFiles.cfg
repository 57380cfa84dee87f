SPECIFICATION FairSpec
CONSTANTS
    r1 = r1
    r2 = r2
    r3 = r3
    s1 = s1
    p1 = p1
    p2 = p2
    b1 = b1
    b2 = b2
    w1 = w1
    w2 = w2
    Calls = {r1, r2, s1}
    Direct = {s1}
    Prefetches = {}
    Workers = {w1}
    Oids = {b1}
    SizeKnown = {r1}
    Impatient = {r1}
    Flaky = {r1, r2}
    Leftover = {"absent", "torn", "corrupt", "good"}
    MayStop = FALSE
    OidOf <- MCOidOf
    PrefetchPri <- MCPrefetchPri
    NoTask = NoTask
INVARIANTS
    VerifiedIsWhole
    NoDamagedRead
PROPERTIES
    FetchInstallsWhole
    CallsReturn
CHECK_DEADLOCK FALSE

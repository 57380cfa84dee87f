SPECIFICATION Spec
CONSTANTS
    r1 = r1
    r2 = r2
    r3 = r3
    s1 = s1
    p1 = p1
    p2 = p2
    b1 = b1
    b2 = b2
    w1 = w1
    w2 = w2
    Calls = {r1, r2}
    Direct = {}
    Prefetches = {}
    Workers = {w1, w2}
    Oids = {b1}
    SizeKnown = {r1}
    Impatient = {}
    Flaky = {}
    Leftover = {"absent"}
    MayStop = FALSE
    OidOf <- MCOidOf
    PrefetchPri <- MCPrefetchPri
    NoTask = NoTask
PROPERTIES
    FetchInstallsWhole
CHECK_DEADLOCK FALSE

SPECIFICATION Spec
INVARIANT VerifiedAsConfigured
CHECK_DEADLOCK FALSE
CONSTANTS
    c1 = c1
    c2 = c2
    m1 = m1
    m2 = m2
    t1 = t1
    t2 = t2
    v1 = v1
    a1 = a1
    b1 = b1
    NoConn = NoConn
    NoTarget = NoTarget
    NoVersion = NoVersion
    NoPersona = NoPersona
    Conns = {c1, c2}
    Models = {m1, m2}
    Targets = {t1, t2}
    Versions = {v1, v2, v3}
    Personas = {a1}
    Blocks = {b1}
    Threads = {h1, h2}
    Starts <- MCStarts
    Asks <- MCAsks
    Ops = {"update", "verify"}
    Faults = {}
    MaxRequests = 2
SYMMETRY Symmetry

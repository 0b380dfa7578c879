\* Keyed submits, repeated submits and cancels, with every fault and a client that retries.
CONSTANTS
    Jobs = {j1}
    NoJob = NoJob
    Keys = {k1}
    NoKey = NoKey
    Workers = {w1, w2}
    Handlers = {h1, h2}
    Ops = {"submit", "cancel"}
    Faults = {"escape", "caught", "enqueue", "crash"}
    Routes = 2
    Rounds = 2
    MaxRetries = 2
    CacheOn = TRUE
    SaveDefault = TRUE
    MaxRequests = 4
SPECIFICATION Spec
SYMMETRY Symmetry
INVARIANT BillIsBounded

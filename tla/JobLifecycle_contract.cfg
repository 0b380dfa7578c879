\* Unkeyed submits and inline responses without faults: the whole contract.
CONSTANTS
    Jobs = {j1, j2}
    NoJob = NoJob
    Keys = {}
    NoKey = NoKey
    Workers = {w1, w2}
    Handlers = {h1, h2}
    Ops = {"submit", "respond"}
    Faults = {}
    Routes = 2
    Rounds = 1
    MaxRetries = 1
    CacheOn = TRUE
    SaveDefault = TRUE
    MaxRequests = 2
SPECIFICATION FairSpec
PROPERTY ImplementsContract

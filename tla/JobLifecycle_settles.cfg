\* Every API operation, and failures after the provider answered: jobs end.
CONSTANTS
    Jobs = {j1}
    NoJob = NoJob
    Keys = {k1}
    NoKey = NoKey
    Workers = {w1}
    Handlers = {h1, h2}
    Ops = {"submit", "respond", "cancel"}
    Faults = {"caught"}
    Routes = 1
    Rounds = 1
    MaxRetries = 1
    CacheOn = TRUE
    SaveDefault = TRUE
    MaxRequests = 4
SPECIFICATION FairSpec
PROPERTY Settles

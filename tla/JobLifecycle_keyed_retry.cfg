\* Two inline requests that carry the same idempotency key.
CONSTANTS
    Jobs = {j1}
    NoJob = NoJob
    Keys = {k1}
    NoKey = NoKey
    Workers = {}
    Handlers = {h1, h2}
    Ops = {"respond"}
    Faults = {}
    Routes = 1
    Rounds = 1
    MaxRetries = 1
    CacheOn = TRUE
    SaveDefault = TRUE
    MaxRequests = 2
SPECIFICATION Spec
INVARIANT BillIsBounded

\* Feedback saved for a job that has not completed.
CONSTANTS
    Jobs = {j1}
    NoJob = NoJob
    Keys = {}
    NoKey = NoKey
    Workers = {w1}
    Handlers = {h1}
    Ops = {"submit", "save"}
    Faults = {}
    Routes = 1
    Rounds = 1
    MaxRetries = 1
    CacheOn = TRUE
    SaveDefault = TRUE
    MaxRequests = 2
SPECIFICATION Spec
PROPERTY EventsOfCompleted

\* A cancel that races the worker that takes the job.
CONSTANTS
    Jobs = {j1}
    NoJob = NoJob
    Keys = {}
    NoKey = NoKey
    Workers = {w1}
    Handlers = {h1}
    Ops = {"submit", "cancel"}
    Faults = {}
    Routes = 1
    Rounds = 1
    MaxRetries = 1
    CacheOn = TRUE
    SaveDefault = TRUE
    MaxRequests = 2
SPECIFICATION Spec
PROPERTY TerminalIsFinal

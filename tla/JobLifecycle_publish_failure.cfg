\* Redis or the training insert fails after the answer was committed.
CONSTANTS
    Jobs = {j1}
    NoJob = NoJob
    Keys = {}
    NoKey = NoKey
    Workers = {w1}
    Handlers = {h1}
    Ops = {"submit"}
    Faults = {"caught"}
    Routes = 1
    Rounds = 1
    MaxRetries = 1
    CacheOn = TRUE
    SaveDefault = TRUE
    MaxRequests = 2
SPECIFICATION Spec
PROPERTY TerminalIsFinal

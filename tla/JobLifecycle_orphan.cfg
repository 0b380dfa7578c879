\* RQ refuses the entry of a job that is already committed.
CONSTANTS
    Jobs = {j1}
    NoJob = NoJob
    Keys = {k1}
    NoKey = NoKey
    Workers = {w1}
    Handlers = {h1}
    Ops = {"submit"}
    Faults = {"enqueue"}
    Routes = 1
    Rounds = 1
    MaxRetries = 1
    CacheOn = TRUE
    SaveDefault = TRUE
    MaxRequests = 2
SPECIFICATION FairSpec
PROPERTY AnsweredSettles

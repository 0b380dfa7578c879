\* An exception before the provider loop leaves process_job.
CONSTANTS
    Jobs = {j1}
    NoJob = NoJob
    Keys = {}
    NoKey = NoKey
    Workers = {w1}
    Handlers = {h1}
    Ops = {"submit"}
    Faults = {"escape"}
    Routes = 1
    Rounds = 1
    MaxRetries = 1
    CacheOn = TRUE
    SaveDefault = TRUE
    MaxRequests = 2
SPECIFICATION FairSpec
PROPERTY AnsweredSettles

SPECIFICATION Spec
CONSTANTS
    Jobs = {j1, j2}
    Workers = {w1, w2}
    Handlers = {h1}
    MainChain = main
    Chains = {c1}
    MaxAttempts = 2
    MaxRetries = 1
    AutoSave = FALSE
    Ops = {"get"}
    Faults = {}
    MaxCancels = 0
INVARIANT ClosedRunsEndTheirJobs

SPECIFICATION Spec
CONSTANTS
    Jobs = {j1, j2}
    Workers = {w1}
    Handlers = {h1}
    MainChain = main
    Chains = {c1}
    MaxAttempts = 2
    MaxRetries = 1
    AutoSave = TRUE
    Ops = {}
    Faults = {"timeout"}
    MaxCancels = 0
INVARIANT ClosedRunsEndTheirJobs
CHECK_DEADLOCK FALSE

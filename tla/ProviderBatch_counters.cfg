SPECIFICATION Spec
CONSTANTS
    Jobs = {j1, j2}
    Workers = {w1}
    Handlers = {h1}
    MainChain = main
    Chains = {}
    MaxAttempts = 2
    MaxRetries = 1
    AutoSave = FALSE
    Ops = {}
    Faults = {}
    MaxCancels = 0
INVARIANT ClosedCountersAreTrue

SPECIFICATION Spec
CONSTANTS
    Jobs = {j1, j2}
    Workers = {w1}
    Handlers = {h1}
    MainChain = main
    Chains = {c1}
    MaxAttempts = 2
    MaxRetries = 1
    AutoSave = FALSE
    Ops = {"cancelJob"}
    Faults = {}
    MaxCancels = 1
PROPERTY JobsAreFinal

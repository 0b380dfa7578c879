SPECIFICATION PolledSpec
CONSTANTS
    Jobs = {j1, j2}
    Workers = {w1}
    Handlers = {h1}
    MainChain = main
    Chains = {c1}
    MaxAttempts = 2
    MaxRetries = 1
    AutoSave = FALSE
    Ops = {"get"}
    Faults = {"exception", "download", "lost"}
    MaxCancels = 0
PROPERTIES RunIsFinal ImplementsContract

SPECIFICATION Spec
CONSTANTS
    Jobs = {j1, j2}
    Workers = {w1, w2}
    Handlers = {h1}
    MainChain = main
    Chains = {c1}
    MaxAttempts = 1
    MaxRetries = 1
    AutoSave = TRUE
    Ops = {"get", "cancel", "cancelJob"}
    Faults = {"crash", "enqueue"}
    MaxCancels = 1
INVARIANTS TypeOK CompletedWasAnswered
PROPERTY QuietIsFinal
SYMMETRY Symmetry

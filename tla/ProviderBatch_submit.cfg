\* Lost answers of batches.create and the client's retries of it, among polls, cancels
\* and crashes of two workers.
SPECIFICATION Spec
CONSTANTS
    Jobs = {j1}
    Workers = {w1, w2}
    Handlers = {h1}
    MainChain = main
    Chains = {c1}
    MaxAttempts = 1
    MaxRetries = 2
    AutoSave = FALSE
    Ops = {"get", "cancel"}
    Faults = {"crash", "lost"}
    MaxCancels = 1
PROPERTY SubmittedByOneTask
SYMMETRY Symmetry

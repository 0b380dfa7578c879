\* Everything the clients may do and every fault: one worker, two handlers.
CONSTANTS
    Jobs = {j1, j2}
    NoJob = NoJob
    Keys = {k1}
    NoKey = NoKey
    Workers = {w1}
    Handlers = {h1, h2}
    Ops = {"submit", "respond", "cancel", "save"}
    Faults = {"escape", "caught", "enqueue", "crash"}
    Routes = 1
    Rounds = 1
    MaxRetries = 1
    CacheOn = TRUE
    SaveDefault = TRUE
    MaxRequests = 3
SPECIFICATION Spec
SYMMETRY Symmetry
INVARIANTS TypeOK StoresAgree OneJobPerKey
PROPERTY QuietTerminalIsFinal

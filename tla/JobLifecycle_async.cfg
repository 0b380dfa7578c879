\* Keyed and unkeyed submits with lost handlers, lost workers and exceptions.
CONSTANTS
    Jobs = {j1, j2}
    NoJob = NoJob
    Keys = {k1}
    NoKey = NoKey
    Workers = {w1, w2}
    Handlers = {h1, h2}
    Ops = {"submit"}
    Faults = {"escape", "enqueue", "crash"}
    Routes = 2
    Rounds = 2
    MaxRetries = 2
    CacheOn = TRUE
    SaveDefault = TRUE
    MaxRequests = 3
SPECIFICATION Spec
SYMMETRY Symmetry
INVARIANT BillIsBounded
PROPERTIES TerminalIsFinal ImplementsContractSafety

\* One worker and a client that polls: cancels, failing calls, lost answers, items that
\* are saved halfway through the output.
SPECIFICATION PolledSpec
CONSTANTS
    Jobs = {j1, j2}
    Workers = {w1}
    Handlers = {h1}
    MainChain = main
    Chains = {c1}
    MaxAttempts = 2
    MaxRetries = 1
    AutoSave = TRUE
    Ops = {"get", "cancel"}
    Faults = {"exception", "lost"}
    MaxCancels = 1
INVARIANTS ClosedRunsEndTheirJobs AnswersAreKept
PROPERTIES SubmittedByOneTask JobsAreFinal RunEnds

SPECIFICATION Spec
INVARIANTS
    QuotaPerMonth
CHECK_DEADLOCK FALSE
CONSTANTS
    k0 = k0
    k1 = k1
    e1 = e1
    e2 = e2
    i1 = i1
    NoKey = NoKey
    NoRow = NoRow
    NoIdem = NoIdem
    Keys = {k0, k1}
    LocalKey = k0
    Endpoints = {e1, e2}
    Ready = {e1}
    Rows = {1, 2, 3}
    Calls <- QuotaCalls
    Crowds <- QuotaCrowds
    Processes = {p1, p2}
    Redis = redis
    Modes = {TRUE, FALSE}
    MaxRetries = 0
    Payloads <- MCPayloads
    MinutesPerMonth = 2
    MaxTick = 3
    MaxEvents = 1
    Faults = {}
SYMMETRY Symmetry

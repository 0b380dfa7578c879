\* Saves, deletions, resolutions and settings of two handlers, with faults.
SPECIFICATION Spec
CONSTANTS
    root = root
    child = child
    c1 = c1
    c2 = c2
    r1 = r1
    Tenants = {root, child}
    NoTenant = NoTenant
    Parent <- ParentOf
    Inherits <- InheritsAll
    MaxDepth = 2
    Slugs = {"openai", "azure"}
    Legacy = "openai"
    NeedsKey <- KeyNeeded
    PlatformKey <- NoPlatformKey
    Conns = {c1, c2, r1}
    NoConn = NoConn
    Home <- HomeOf
    SlugOf <- SlugOfAll
    KeyIds = {1, 2}
    Payloads <- Saves
    Threads = {h1, h2}
    Faults = {"secret", "crash"}
    Ops = {"save", "patch", "form", "delete", "resolve", "settings"}
    MaxRequests = 2
INVARIANTS TypeOK KeysStayHome DefaultsAreRepaired UndisturbedRowsMatchFiles ReadyMeansResolvable
SYMMETRY Symmetry
CHECK_DEADLOCK FALSE

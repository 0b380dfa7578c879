\* Two settings requests, one after the other.
SPECIFICATION Spec
CONSTANTS
    root = root
    child = child
    c1 = c1
    c2 = c2
    r1 = r1
    Tenants = {root, child}
    NoTenant = NoTenant
    Parent <- ParentOf
    Inherits <- InheritsAll
    MaxDepth = 2
    Slugs = {"openai", "azure"}
    Legacy = "openai"
    NeedsKey <- KeyNeeded
    PlatformKey <- NoPlatformKey
    Conns = {c1, c2, r1}
    NoConn = NoConn
    Home <- HomeOf
    SlugOf <- SlugOfAll
    KeyIds = {1, 2}
    Payloads <- Modal
    Threads = {h1}
    Faults = {}
    Ops = {"settings"}
    MaxRequests = 2
INVARIANT TenantModeHasKey
CHECK_DEADLOCK FALSE

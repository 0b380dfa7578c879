SPECIFICATION Spec
PROPERTIES
    OnlyOwnersMakeTopLevel
CHECK_DEADLOCK FALSE
CONSTANTS
    t0 = t0
    t1 = t1
    t2 = t2
    u1 = u1
    u2 = u2
    u3 = u3
    l1 = l1
    b1 = b1
    b2 = b2
    s1 = s1
    e0 = e0
    e1 = e1
    e2 = e2
    default = default
    sub = sub
    more = more
    NoTenant = NoTenant
    NoUser = NoUser
    NoLink = NoLink
    NoSubject = NoSubject
    NoToken = NoToken
    NoAsk = NoAsk
    Tenants = {t0, t1, t2}
    Users = {u1, u2, u3}
    Links = {l1, l2}
    Names = {default, sub, more}
    DefaultName = default
    Emails = {e0, e1, e2}
    LocalEmail = e0
    Subjects = {s1}
    Tokens = {k1, k2}
    LocalRole = "admin"
    LocalAuth = TRUE
    SingleTenant = FALSE
    AutoCreate = FALSE
    MaxDepth = 2
    Browsers = {b1, b2}
    Threads = {p1, p2}
    Starts <- MCStarts
    Asks <- MCAsks
    Claims <- MCClaims
    Faults = {}
    MaxRequests = 2
SYMMETRY Symmetry

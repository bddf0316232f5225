CONSTANTS
    UserIds = {1, 2}
    e1 = e1
    e2 = e2
    n1 = n1
    n2 = n2
    g1 = g1
    Emails = {e1, e2}
    Names = {n1, n2}
    Googles = {g1}
    Servers = {s1, s2}
    EmailOf <- MCEmailOf
    NameOf <- MCNameOf
    MaxAllocs = 2
    MaxActs = 3
    Breaks = TRUE
    NoUser = NoUser
    NoName = NoName
    NoAct = NoAct
    NoLink = NoLink
    Holders = {h1}
    Tokens = {1, 2, 3}
    Doors = {d1, d2}
    MaxFailed = 2
    LockTime = 1
    Expiry = 1
    MaxNow = 2
    MaxVisits = 4
    Lossy = TRUE
    NoToken = NoToken
    NoVisit = NoVisit
    KeyIds = {1, 2}
    Perms = {p1, p2}
    Clients = {c1, c2}
    MaxKeyCalls = 3
    Failing = TRUE
    NoKey = NoKey
    NoJob = NoJob
SPECIFICATION MCSpec
SYMMETRY Symmetry
INVARIANTS TypeOK GoogleAccountHolds LockHolds LogoutAllHolds RotatedOnce KeyScopeHolds
PROPERTIES NoSilentUndo
CHECK_DEADLOCK FALSE

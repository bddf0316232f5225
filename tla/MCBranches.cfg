CONSTANTS
    gen = gen
    c1 = c1
    c2 = c2
    Companies = {c1, c2}
    Ids = {i1, i2, i3}
    Admins = {a1, a2}
    Forms = {gen, empty}
    Generated = gen
    Empty = empty
    OwnCodes <- MCOwnCodes
    MaxInt = 3
    MaxTries = 2
    MaxCalls = 3
    Faults = TRUE
    Users = {u1}
    NewUsers = {u2}
    RowIds = {r1, r2, r3}
    Clerks = {w1, w2}
    Scopes <- MCScopes
    NoScope = NoScope
    NoCode = NoCode
    NoId = NoId
    NoRow = NoRow
    NoCall = NoCall
SPECIFICATION MCSpec
SYMMETRY Symmetry
INVARIANTS TypeOK LoneCallsDeliver RefusedHasReason SoloSyncDelivers NeverWidened
PROPERTIES DeletedBranchStays ScopeRespected
CHECK_DEADLOCK FALSE

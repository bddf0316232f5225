SPECIFICATION Spec
CONSTANTS
    u1 = u1
    u2 = u2
    Users <- OneUser
    LevelLists <- OneUserLists
    Requests = {r1, r2}
    Docs = {d1}
    ConfigIds = {c1}
    NoUser = NoUser
    NoConfig = NoConfig
    NoRow = NoRow
    EnforceActionCheck = TRUE
    Workers = {w1}
    NoCall = NoCall
    NoDoc = NoDoc
INVARIANT CancelSkipsPendingLevels

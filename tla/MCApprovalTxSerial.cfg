SPECIFICATION Spec
CONSTANTS
    u1 = u1
    u2 = u2
    Users <- MCUsers
    LevelLists <- SerialLists
    Requests = {r1, r2}
    Docs = {d1}
    ConfigIds = {c1}
    NoUser = NoUser
    NoConfig = NoConfig
    NoRow = NoRow
    EnforceActionCheck = FALSE
    Workers = {w1}
    NoCall = NoCall
    NoDoc = NoDoc
SYMMETRY Symmetry
INVARIANT TrailMatchesStatus
PROPERTIES ImplementsEngine FinalizedIsHistory

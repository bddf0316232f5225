SPECIFICATION FairSpec
CONSTANTS
    u1 = u1
    u2 = u2
    Users <- MCUsers
    LevelLists <- MCLevelLists
    Requests = {r1}
    Docs = {d1}
    ConfigIds = {c1}
    NoUser = NoUser
    NoConfig = NoConfig
    NoRow = NoRow
    EnforceActionCheck = FALSE
    Workers = {w1, w2}
    NoCall = NoCall
    NoDoc = NoDoc
ACTION_CONSTRAINT OneConfig
INVARIANTS TypeOK DecidedByEligible
PROPERTIES ImplementsCommits EveryCallReturns

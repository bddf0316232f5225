CONSTANTS
    u1 = u1
    u2 = u2
    c1 = c1
    c2 = c2
    Users = {u1, u2}
    Companies = {c1, c2}
    Founders = {u1}
    Founded <- MCFounded
    Ids = {i1, i2, i3}
    Admins = {a1}
    MaxCalls = 3
    Lists <- MCLists
    Faults = FALSE
    NoUser = NoUser
    NoCompany = NoCompany
    NoId = NoId
    NoRow = NoRow
    NoCall = NoCall
SPECIFICATION Spec
SYMMETRY Symmetry
INVARIANTS OwnerJoins


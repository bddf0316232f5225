\* Two operations and one lookup on the two sets cached of one user.
SPECIFICATION FairSpec
CONSTANTS
    Users = {u1}
    Companies = {c1}
    Roles = {staff}
    SystemRoles = {}
    Codes = {read}
    Grants = {{}, {read}}
    Admins = {a1, a2}
    Calls = {g1}
    NoCompany = NoCompany
    NoRole = NoRole
    None = None
    MaxChanges = 3
INVARIANTS TypeOK StaleHasCause
PROPERTIES DeletedRoleStays TTLHeals

SPECIFICATION PagesSpec
CONSTANTS
    Users = {u1}
    Keys = {k1, k2}
    Roles = {x1, x2}
    Permissions = {write, other}
    Processes = {i1, i2}
    Requests = {r1, r2}
    None = None
    WriteKeys = write
    i1 = i1
    write = write
    Workloads <- Both
    Orgs = {k1, k2}
    NoOrg = NoOrg
    Texts = {r1, r2}
    NoText = NoText
    MaxCalls = 2
    MaxOutside = 1
    Offices = {office1, office2}
    MaxKeys = 2
    MaxSent = 2
    MaxSwitches = 1
SYMMETRY Symmetry
INVARIANT NoStaleElevation
INVARIANT StaleForCause
INVARIANT KeysDieWithAccount
INVARIANT OrgPagesInv
PROPERTY NoEscalation
CHECK_DEADLOCK FALSE

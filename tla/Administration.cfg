SPECIFICATION AdministrationSpec
CONSTANTS
    Users = {u1, u2, u3}
    AdminCalls = {c1, c2}
    NoUser = NoUser
    Orgs = {o1, o2, o3, o4}
    Requests = {r1, r2}
    NoOrg = NoOrg
    MaxIterations = 4
SYMMETRY TreeSymmetry
INVARIANT SuperadminRemains
PROPERTY SuperadminProtected
INVARIANT ThreeLevels
PROPERTY RefusedForCause

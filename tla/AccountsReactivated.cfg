SPECIFICATION Spec
CONSTANTS
    u1 = u1
    u2 = u2
    o1 = o1
    Superadmin = superadmin
    DeleteIt = DeleteIt
    FirstOwner <- MCFirstOwner
    Users = {u1}
    Orgs = {}
    Requests = {r1}
    Batch = 2
    Kinds = {"delete", "reactivate"}
    Resolutions <- NoResolutions
SYMMETRY RequestSymmetry
CHECK_DEADLOCK FALSE
PROPERTY OnlyDeletedAnonymized

SPECIFICATION FairSpec
CONSTANTS
    u1 = u1
    u2 = u2
    o1 = o1
    Superadmin = superadmin
    DeleteIt = DeleteIt
    FirstOwner <- MCFirstOwner
    Users = {u1, u2}
    Orgs = {}
    Requests = {r1}
    Batch = 1
    Kinds = {"delete"}
    Resolutions <- NoResolutions
CHECK_DEADLOCK FALSE
PROPERTY EveryDueAccountAnonymized

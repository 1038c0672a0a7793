SPECIFICATION Spec
CONSTANTS
    u1 = u1
    u2 = u2
    o1 = o1
    Superadmin = superadmin
    DeleteIt = DeleteIt
    FirstOwner <- MCFirstOwner
    Users = {u1, u2}
    Orgs = {o1}
    Requests = {r1, r2}
    Batch = 2
    Kinds = {"delete", "purge"}
    Resolutions <- Handover
CHECK_DEADLOCK FALSE
PROPERTY HandoversArrive

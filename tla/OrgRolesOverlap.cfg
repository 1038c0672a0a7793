SPECIFICATION OverlapSpec
CONSTANTS
    Creator = m1
    Outsider = outsider
    Owner = Owner
    Admin = Admin
    Viewer = Viewer
    OwnerRole = Owner
    AdminRole = Admin
    ViewerRole = Viewer
    DefaultRoles <- MCDefaultRoles
    SeedSlug <- MCSeedSlug
    SeedPerms <- MCSeedPerms
    Grants <- MCSingleGrants
    NoRole = NoRole
    Unused = Unused
    Deleted = Deleted
    NoSlug = NoSlug
    NoGrant = NoGrant
    Slugs = {"owner", "admin", "viewer", "custom"}
    Members = {m1, m2}
    Requests = {r1, r2}
    CustomRoles = {c1}
    Permissions = {p1, p2}
    Kinds = {"adminChange", "adminRemove", "transfer", "rbacChange", "createRole", "updateRole", "deleteRole"}
    RenameTargets = {Owner, Viewer, c1}
    NewSlugs = {"custom", "viewer"}
    PatchSlugs = {NoSlug, "owner", "custom", "viewer"}
    InviteSlugs = {"viewer"}
SYMMETRY RequestSymmetry
CHECK_DEADLOCK FALSE
INVARIANT SlugsUnique
PROPERTY RemovedStaysOut
PROPERTY ResyncUndisturbed
PROPERTY OwnershipPromise
PROPERTY DanglesForCause

SPECIFICATION Spec
CONSTANTS
    Creator = m1
    Outsider = outsider
    Owner = Owner
    Admin = Admin
    Viewer = Viewer
    OwnerRole = Owner
    AdminRole = Admin
    ViewerRole = Viewer
    DefaultRoles <- MCDefaultRoles
    SeedSlug <- MCSeedSlug
    SeedPerms <- MCSeedPerms
    Grants <- MCGrants
    NoRole = NoRole
    Unused = Unused
    Deleted = Deleted
    NoSlug = NoSlug
    NoGrant = NoGrant
    Slugs = {"owner", "admin", "viewer", "custom"}
    Members = {m1, m2}
    Requests = {r1, r2}
    CustomRoles = {}
    Permissions = {}
    Kinds = {"adminChange"}
    RenameTargets = {}
    NewSlugs = {}
    PatchSlugs = {}
    InviteSlugs = {"viewer"}
SYMMETRY RequestSymmetry
CHECK_DEADLOCK FALSE
PROPERTY OwnerNeverLost

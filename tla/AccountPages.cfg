SPECIFICATION PagesSpec
CONSTANTS
    u1 = u1
    u2 = u2
    o1 = o1
    Superadmin = superadmin
    DeleteIt = DeleteIt
    FirstOwner <- MCFirstOwner
    Users = {u1, u2}
    Orgs = {o1}
    Requests = {r1, r2}
    Batch = 2
    Kinds = {"delete", "purge"}
    Resolutions <- Handovers
    Companies = {oa, ob}
    Me = Me
    Colleagues = {c}
    Undecided = Undecided
    Names = {na}
    NoName = NoName
    Clients = {k}
    Clubs = {ca, cb}
    NoClub = NoClub
    MaxRequests = 1
    Addresses = {ann}
    Others = {bob}
    Cooldown = 1
    MaxAsked = 2
SYMMETRY PagesSymmetry
CHECK_DEADLOCK FALSE
INVARIANT AnonymizedForCause
INVARIANT ClosingInv
INVARIANT ProfileInv
INVARIANT MembersInv
INVARIANT MailLinkInv

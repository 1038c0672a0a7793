SPECIFICATION Spec
CONSTANTS
    Calls = {c1, c2, c3}
    Tier = "auth"
    Limit = 2
    Ttl = 2
    BlockDuration = 3
    MaxTime = 4
    MaxHits = 4
    Emails = {e1}
    Actors = {a1, a2, a3}
    MaxId = 2
    Instances = {i1, i2}
    FlagCalls = {f1, f2, f3}
    Nobody = Nobody
    RowIds = {1, 2, 3}
    Times <- MCTimes
    Micros = 2
    PageSize = 1
    Settings = {s1, s2}
    SettingValues = {"a", "b", "bad"}
    Mistyped = {"bad"}
    Tenants = {d1, d2}
    NoTenant = NoTenant
    HttpRequests = {h1, h2}
    Connections = {k1, k2}
    NoConnection = NoConnection
    Persons = {p1}
    Anonymous = Anonymous
    Policies = {1, 2}
    MaxChoices = 2
    Texts = {"x", "y"}
    MaxHops = 5
    Worktrees = {w1, w2}
    Issues = {b1}
    NoIssue = NoIssue
    Nodes = {n1, n2, n3}
    NoParent = NoParent
    TreeLimit = 2
    MaxMoves = 1
    Bases = {"zinc", "stone"}
    Zinc = "zinc"
    Accents = {"blue"}
    NoAccent = "no accent"
    HandMade = {"mine", "other"}
    Shapes = {"system", "round"}
    SystemShape = "system"
    Shades = {"strong"}
    Lightnesses = {0, 100, 250, 300, 301, 400, 500, 501, 550, 600, 700, 900, 950, 1000}
    Hues = {0, 10, 45, 60, 75, 170, 300, 359}
    Sources <- MCSources
    StemOf <- MCStemOf
    Convention <- MCConvention
    Imports <- MCImports
    Collected = {"app", "ui"}
    Words = {"acme"}
    Options = {"archived"}
    NoWord = ""
    NoTimer = NoTimer
    MaxChanges = 1
    MaxQueries = 2
CHECK_DEADLOCK FALSE
INVARIANT WindowLimit
INVARIANT InviteInv
INVARIANT FlagInv
PROPERTY RefusedForCause
INVARIANT ListsInv
INVARIANT RequestsInv
INVARIANT PreferencesInv
PROPERTY ConsoleForCause
INVARIANT NavInv
INVARIANT ScriptsInv

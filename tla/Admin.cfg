SPECIFICATION Spec
CONSTANTS
    None = None

    Orgs = {1, 2}
    w1 = w1
    w2 = w2
    Workers = {w1, w2}
    Grants = {"g"}
    Backend = "redb"
    Faults = {"write", "read", "crash"}

    Logins = {"ann"}
    Roles = {"r"}
    Passwords = {"p"}
    HomeOrg = 1

    s1 = s1
    s2 = s2
    Tenants = {"boot", "b"}
    BootOrg = "boot"
    Names = {"v"}
    Sources = {"c"}
    OverViews = {"q"}
    ReadOnly = {}
    Products <- MCProducts
    Sessions = {s1, s2}
    Shared = FALSE
    StoreKind = "postgres"
    StoreFaults = {"get", "put", "delete", "crash"}
    MaxStatements = 3

    Events <- MCEvents
    Refusals = {"signature"}
    Configured <- MCConfigured
    MaxEvents = 3
SYMMETRY Symmetry
INVARIANTS
    SuccessIsEnforced LoginFindsOwner
    IsolatedUnlessMissed NewSessionsSeeStored AckedIsEnforced
PROPERTIES FailedCreateLeavesNothing

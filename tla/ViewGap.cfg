SPECIFICATION Spec
CONSTANTS
    None = None
    Orgs = {"boot"}
    BootOrg = "boot"
    Names = {"v"}
    Sources = {"c", "d"}
    OverViews = {}
    ReadOnly = {}
    Configured <- NoProduct
    Sessions = {"s1"}
    MaxStatements = 2
    Shared = FALSE
    Backend = "redb"
    Faults = {}
PROPERTIES CreateViewAtomic

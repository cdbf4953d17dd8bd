SPECIFICATION Spec
CONSTANTS
    None = None
    Orgs = {"a", "b"}
    w1 = w1
    w2 = w2
    w3 = w3
    Workers = {w1, w2, w3}
    OrgOf <- MCSessions
    Names = {1, 2}
    Masks = {"m1"}
    Filters = {"f1"}
    Bodies = {"x", "y", "bad"}
    Bad = {"bad"}
    Declared <- MCDeclared
    Faults = {"get", "put", "delete", "crash"}
SYMMETRY MCSymmetry
INVARIANTS
    CanBoot LiveMatchesStore StoredIsEnforced

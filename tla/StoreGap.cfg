SPECIFICATION Spec
CONSTANTS
    None = None
    Backends = {"redb"}
    Sessions = {"a", "b"}
    Bindings <- OneBinding
    Objects = {}
    Values = {1}
    Faults = {}
    MaxOps = 3
PROPERTY OnlyUpsertCreates
CHECK_DEADLOCK FALSE

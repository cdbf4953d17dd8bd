SPECIFICATION Spec
CONSTANTS
    None = None
    Columns = {"a", "b"}
    Sessions <- MCSessions
    Configs <- MCConfigs
    TenantMasks <- MCTenantMasks
    TenantFilters <- MCTenantFilters
    GrantSets <- MCGrantSets
    References <- MCReferences
    Defaults <- MCDefaults
    MaxRules = 2
    MaxPasses = 2
INVARIANTS MasksHold FiltersHold ReadsAllowed
PROPERTIES TenantIsolation
CHECK_DEADLOCK FALSE

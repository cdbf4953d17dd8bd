SPECIFICATION EdgesSpec
CONSTANTS
    None = None
    Null = Null
    Invalid = Invalid
    Callers = {"a", "b"}
    Margin = 2
    Timeout = 2
    Lifetimes = {1, 3, 5}
    LastTime = 8

    Absent = None
    Scans <- SmallScans
    Width = 2
    MaxPages = 3

    Schedulers = {1, 2}
    Offset <- Clocks
    MaxSkew = 1
    LeaseDuration = 6
    Heartbeat = 2
    MaxDelay = 1
    Horizon = 15
    MaxFaults = 3
    MaxExits = 2

    Conns = {1, 2, 3}
    Ips = {1, 2}
    Users = {1, 2}
    Arrivals <- Attempts
    Settings <- AllOrNothing
    GlobalMax = 2
    IpMax = 1
    UserMax = 1
    RateCap = 1
    Minute = 2
    LastTick = 3

    Nothing = Nothing
    Backends = {"embedded", "redb", "postgres"}
    Sessions = {"a", "b"}
    Bindings <- OneBinding
    Objects <- OneObject
    Values = {1, 2}
    Faults = {"write", "rename", "commit", "crash"}
    MaxOps = 3
CHECK_DEADLOCK FALSE
INVARIANTS
    HealthyLeaderKeepsLease LeadershipBounded NoSlotLeaks RateBounded
    TokenUsable ScanExact  FederationSound

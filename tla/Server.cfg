SPECIFICATION BothFairSpec
CONSTANTS
    Jobs = {j1, j2}
    BootTasks = {cache}
    Watchers = {governance}
    Siblings = {metrics}
    MaxAttempts = 2
    BootFails = {"bindFlight", "foreground", "watchers", "jobs", "serveFlight", "signals"}
    Batches = 4
    Slots = 2
    Capture = {TRUE, FALSE}
    Faults = {"lateId", "lostAnswer", "rpc", "statusLost", "exit"}
CHECK_DEADLOCK FALSE
INVARIANTS QuietExit EndMeansComplete
PROPERTIES ShutdownCompletes KeepsRefreshing QueryEnds

SPECIFICATION FairSpec
CONSTANTS
    Conns = {c1, c2}
    Kinds = {"planned", "unwrapped", "metadata", "ddl"}
    MaxRuns = 2
    MaxStreams = 2
    HistoryCap = 1
    StatsCap = 1
    MaxCancels = 1
    MaxStats = 1
CHECK_DEADLOCK FALSE
INVARIANTS LiveViewExact HistoryTellsTruth AbortsOnlyTheTarget
PROPERTY CancelStops

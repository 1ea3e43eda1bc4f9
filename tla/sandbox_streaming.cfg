SPECIFICATION TickingSpec
CONSTANTS
    Runs = {r1, r2}
    NoRun = NoRun
    Functions = {f1}
    Chains = {c1, c2}
    MaxCursors = 1
    StreamingEnabled = TRUE
    Kinds = {"other"}
    MaxSessions = 1
    MaxCallbacks = 1
    MaxSignals = 0
    WatchOptions = {TRUE}
INVARIANT ActiveMonitorTicks
PROPERTY PausedMonitorFallsSilent
CHECK_DEADLOCK FALSE

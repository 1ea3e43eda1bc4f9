SPECIFICATION Spec
CONSTANTS
    Runs = {r1, r2, r3}
    NoRun = NoRun
    Functions = {}
    Chains = {}
    MaxCursors = 1
    StreamingEnabled = FALSE
    Kinds = {"other"}
    MaxSessions = 2
    MaxCallbacks = 1
    MaxSignals = 0
    WatchOptions = {TRUE}
INVARIANT OneDeployAtATime
CHECK_DEADLOCK FALSE

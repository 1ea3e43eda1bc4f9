SPECIFICATION Spec
CONSTANTS
    Runs = {r1, r2}
    NoRun = NoRun
    Functions = {}
    Chains = {}
    MaxCursors = 1
    StreamingEnabled = FALSE
    Kinds = {"other"}
    MaxSessions = 1
    MaxCallbacks = 1
    MaxSignals = 0
    WatchOptions = {TRUE}
INVARIANT QueuedIsDeployed
CHECK_DEADLOCK FALSE

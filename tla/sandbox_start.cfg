SPECIFICATION DecliningSpec
CONSTANTS
    Runs = {r1, r2}
    NoRun = NoRun
    Functions = {}
    Chains = {}
    MaxCursors = 1
    StreamingEnabled = FALSE
    Kinds = {"ts", "other"}
    MaxSessions = 2
    MaxCallbacks = 2
    MaxSignals = 0
    WatchOptions = {TRUE, FALSE}
INVARIANT TypeScriptEditRemembered
PROPERTIES KeepsPromise OnceEnds
CHECK_DEADLOCK FALSE

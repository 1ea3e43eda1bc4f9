SPECIFICATION Spec
CONSTANTS
    Runs = {r1, r2, r3}
    NoRun = NoRun
    Functions = {}
    Chains = {}
    MaxCursors = 1
    StreamingEnabled = FALSE
    Kinds = {"other"}
    MaxSessions = 2
    MaxCallbacks = 1
    MaxSignals = 1
    WatchOptions = {TRUE, FALSE}
SYMMETRY RunSymmetry
INVARIANTS TypeOK LatchAdmitsOneRun TakenLatchHasRun OneDeployUntilRecreated NoChangeLost
CHECK_DEADLOCK FALSE

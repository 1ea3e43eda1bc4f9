CONSTANTS
    MaxOperations = 4
    CallsFail = TRUE
    Variables = {v1, v2}
    Shared = {s1}
    MaxEntries = 2
    MaxChanges = 3
    Lookups = {l1, l2}
SPECIFICATION DeployedBackendSpec
INVARIANTS
    DeployedBackendTypeOK
    SpacedOutputsCurrent
    OutputsOfSuccess
PROPERTY EnvironmentFollows
CHECK_DEADLOCK FALSE

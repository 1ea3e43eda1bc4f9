CONSTANTS
    Resources = {r1, r2}
    MaxDeploys = 3
    Processes = {p1, p2}
    Slots = {1}
    Ids = {"o", "d"}
    Frequency <- MCFrequency
    MaxTicks = 2
    MaxActivations = 3
SYMMETRY Symmetry
SPECIFICATION CommandLineSpec
INVARIANTS
    CommandLineTypeOK
    OnlySoundAppsDeployed
    TerminalTellsThisDeployment
    AssemblyNotLeaked
    AcknowledgedStaysAway
    NothingWithheldUnseen
CHECK_DEADLOCK FALSE

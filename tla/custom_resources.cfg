CONSTANTS
    Secrets = {s1, s2}
    MaxTime = 4
    MaxDeployments = 3
    Misreads = TRUE
    MaxStacks = 2
    MaxDeliveries = 3
    MaxEdits = 2
SYMMETRY Symmetry
SPECIFICATION CustomResourcesSpec
INVARIANTS
    CustomResourcesTypeOK
    SetSecretsArrive
    SharedSecretsArrive
    LinkFollowsStack
    EditsSurvive
CHECK_DEADLOCK FALSE

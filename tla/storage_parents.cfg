CONSTANTS
    Names = {"a"}
    MaxDepth = 3
    MaxPaths = 3
    MaxPermissions = 3
    Groups = {}
    Resources = {}
    UserActions = {"read"}
SPECIFICATION AccessSpec
INVARIANTS OneParentByValidation
CHECK_DEADLOCK FALSE

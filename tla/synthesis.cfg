CONSTANTS
    Names = {"a", "b"}
    MaxDepth = 2
    MaxPaths = 2
    MaxPermissions = 4
    Groups = {"g"}
    Resources = {"fn"}
    UserActions = {"read"}
    Definitions <- MCDefinitions
    WithAccess <- MCWithAccess
    CustomParts <- MCCustomParts
    MinorVersions = {0, 1, 2, 4}
    MaxStatements = 3
SPECIFICATION SynthesisSpec
INVARIANTS
    SynthesisTypeOK DeepestRuleDecides OutputsListTheRules
    ConfigTellsTheBackend CustomPartsArrive NoOutputTwice
CHECK_DEADLOCK FALSE

SPECIFICATION Spec
CONSTANTS
    Branches = {"main", "dev"}
    Main = "main"
    Protected = {"main"}
    Databases = {"postgres", "app"}
    Default = "postgres"
    Library <- MCLibrary
    MaxEvents = 3
INVARIANTS
    TypeOK
    ShownInContext
    SavedInContext
    BusyHonest
PROPERTIES
    WritesInContext
CHECK_DEADLOCK FALSE

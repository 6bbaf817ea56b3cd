SPECIFICATION FairSpec
CONSTANTS
    Owners = {"A", "B"}
    Groups = {"g1"}
    Singles = {"x", "y"}
    Reducing = {"g1"}
    GroupGate = "gate"
    PodGate = "box"
    SessionCap = 1
    PodCap = 1
    Window = 1
    ItemsOf <- NestedItemsOf
    OwnerOf <- NestedOwnerOf
    Limiters <- NestedLimiters
    Clients <- NestedClients
PROPERTIES
    FanoutEnds
CHECK_DEADLOCK FALSE

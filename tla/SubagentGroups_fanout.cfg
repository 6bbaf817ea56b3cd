SPECIFICATION Spec
CONSTANTS
    Owners = {"A", "B"}
    Groups = {"g1", "g2"}
    Singles = {}
    Reducing = {"g1"}
    GroupGate = "gate"
    PodGate = "box"
    SessionCap = 3
    PodCap = 3
    Window = 1
    ItemsOf <- FanoutItemsOf
    OwnerOf <- FanoutOwnerOf
    Limiters <- FanoutLimiters
    Clients <- FanoutClients
INVARIANTS
    SlotsAreSound
    BatchIsHonest
PROPERTIES
    NoItemStartsAfterAbort
CHECK_DEADLOCK FALSE

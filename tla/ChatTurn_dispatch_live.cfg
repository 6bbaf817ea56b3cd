SPECIFICATION FairSpec
CONSTANTS
    a1 = a1
    a2 = a2
    b1 = b1
    d1 = d1
    d2 = d2
    Attempts = {a1, b1}
    Dispatches = {d1, d2}
    DispatchOf <- TwoDispatchOf
    Nobody = Nobody
    AnyTurn = AnyTurn
    Durable = {d2}
    Strict = {d2}
    MaxTroubles = 2
INVARIANTS
    OneTerminal
PROPERTIES
    TurnSettles
CHECK_DEADLOCK FALSE

SPECIFICATION Spec
CONSTANTS
    a1 = a1
    a2 = a2
    b1 = b1
    d1 = d1
    d2 = d2
    Attempts = {a1, a2}
    Dispatches = {d1, d2}
    DispatchOf <- TwoDispatchOf
    Nobody = Nobody
    AnyTurn = AnyTurn
    Durable = {}
    Strict = {d2}
    MaxTroubles = 0
INVARIANT ConfirmedDispatchRan
CHECK_DEADLOCK FALSE

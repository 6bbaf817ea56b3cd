SPECIFICATION FairSpec
CONSTANTS
    Sessions = {x, y}
    Callers = {c1, c2, c3}
    Steers = {k1}
    Boxes = {b1, b2}
    Nobody = Nobody
    NoBox = NoBox
INVARIANTS
    TypeOK
    LockIsSound
    EntryIsSound
PROPERTIES
    ImplementsTurnMutex
    NobodyIsStuck

SPECIFICATION Spec

CONSTANTS
    w1 = w1
    w2 = w2
    w3 = w3
    Worker = {w1, w2, w3}
    Bundle = {"b1", "b2"}
    Listed <- MCListed
    Peer = {"self", "p", "q"}
    Self = "self"
    TTL = 1
    MaxTime = 1
    MAX_AUDIT_EVENTS = 3
    MaxRequests = 6

SYMMETRY Workers

INVARIANTS
    TypeOK
    AnsweredIsRecorded
    NewestIsShown
    BrokenIsFrozen
    LimitHolds

PROPERTIES
    PeersOnlyLeave

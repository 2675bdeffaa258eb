SPECIFICATION Spec

CONSTANTS
    w1 = w1
    w2 = w2
    k1 = k1
    k2 = k2
    k3 = k3
    a1 = a1
    a2 = a2
    NoKey = NoKey
    Worker = {w1}
    Key = {k1, k2, k3}
    Address = {a1}
    MaxRedirects = 1
    Lockdown = TRUE
    Limit = 2
    Window = 2
    MaxTime = 2
    MaxRequests = 1
    MaxRestarts = 0

SYMMETRY Renamings

INVARIANTS
    NodeAndOfflineAgree


SPECIFICATION FairSpec

CONSTANTS
    o1 = o1
    o2 = o2
    o3 = o3
    a = a
    b = b
    n1 = n1
    n2 = n2
    n3 = n3
    Observation = {o1, o2, o3}
    Signed = {o1, o2, o3}
    Object = {a, b}
    Observer = {"observer"}
    Content = {"same", "other"}
    Url = {"url"}
    Evidence = {"none", "rfc3161"}
    Archive = {o1, o2, o3}
    Node = {n1, n2, n3}
    Mirror = {n3}
    MaxPosts = 1
    MaxFailures = 1
    Links <- Chain
    objectOf <- MCObjectOf
    observerOf <- MCObserverOf
    contentOf <- MCContentOf
    archiveOf <- MCArchiveOf
    capturedAt <- MCCapturedAt
    urlOf <- MCUrlOf

INVARIANTS
    TypeOK
    PulledIsHeld
    UndatedBounded
    MirrorIsNotRefused

PROPERTIES
    MirrorCatchesUp

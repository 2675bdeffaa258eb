SPECIFICATION Spec

CONSTANTS
    o1 = o1
    o2 = o2
    o3 = o3
    o4 = o4
    bad = bad
    a = a
    b = b
    w1 = w1
    w2 = w2
    Observation = {o1, o2, o3, o4, bad}
    Signed = {o1, o2, o3, o4}
    Object = {a, b}
    Observer = {"observer-a", "observer-b"}
    Content = {"c1", "c2", "c4"}
    Worker = {w1}
    Evidence = {"none", "local-declaration", "rfc3161"}
    MaxRequests = 5
    MaxFailures = 2
    Archive <- MCArchive
    Url <- MCUrl
    objectOf <- MCObjectOf
    observerOf <- MCObserverOf
    contentOf <- MCContentOf
    archiveOf <- MCArchiveOf
    capturedAt <- MCCapturedAt
    urlOf <- OneUrl

INVARIANTS
    StoredVerify
    CleanLogIsStored
    CleanGraphIsComplete

SPECIFICATION Spec

CONSTANTS
    o1 = o1
    o2 = o2
    o3 = o3
    o4 = o4
    bad = bad
    a = a
    b = b
    w1 = w1
    w2 = w2
    Observation = {o1, o2, o3, bad}
    Signed = {o1, o2, o3}
    Object = {a}
    Observer = {"observer-a", "observer-b"}
    Content = {"c1", "c2", "c4"}
    Worker = {w1, w2}
    Evidence = {"local-declaration", "rfc3161"}
    MaxRequests = 3
    MaxFailures = 1
    Archive <- MCArchive
    Url <- MCUrl
    objectOf <- MCObjectOf
    observerOf <- MCObserverOf
    contentOf <- MCContentOf
    archiveOf <- MCArchiveOf
    capturedAt <- MCCapturedAt
    urlOf <- MCUrlOf

SYMMETRY Workers

INVARIANTS
    TypeOK
    StoredIsBacked
    CreatedAreLinked
    ConflictsAreCorrect

PROPERTIES
    HistoryKept
    ImplementsStore

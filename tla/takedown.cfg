SPECIFICATION Spec

CONSTANTS
    r1 = r1
    r2 = r2
    r3 = r3
    forged = forged
    id1 = id1
    id2 = id2
    w1 = w1
    w2 = w2
    Worker = {w1, w2}
    Request = {r1, r2, r3, forged}
    Signed = {r1, r2, r3}
    RequestId = {id1, id2}
    idOf <- MCIdOf
    MaxRequests = 5
    MaxFailures = 2

SYMMETRY Workers

INVARIANTS
    TypeOK
    ReceivedOnce

PROPERTY
    ImplementsIntake

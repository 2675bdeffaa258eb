SPECIFICATION Spec

CONSTANTS
    oa = oa
    ob = ob
    k1 = k1
    k2 = k2
    k3 = k3
    c1 = c1
    c2 = c2
    NoKey = NoKey
    TornKey = TornKey
    NoOperator = NoOperator
    NoObservation = NoObservation
    Operator = {oa, ob}
    Key = {k1, k2, k3}
    Observation = {c1, c2}
    MaxPackages = 2
    Fragile = {"archive", "remark", "operator_descriptor"}
    MaxCommands = 6
    MaxDisturbances = 1

SYMMETRY Renamings

INVARIANTS
    TypeOK
    CustodyIsKept
    RetainedIsBound
    EvidenceIsKept
    SteadyIsFound

PROPERTIES
    ExportsAreBound

CHECK_DEADLOCK FALSE

SPECIFICATION Spec

CONSTANTS
    Verifier = {"python", "node"}
    MaxDistinct = 9
    MaxRepeating = 3
    Entry <- MCEntry
    Logs <- MCLogs

CHECK_DEADLOCK FALSE

INVARIANTS
    HonestIsAccepted
    OnlyHonestIsAccepted
    AcceptedIsLogged

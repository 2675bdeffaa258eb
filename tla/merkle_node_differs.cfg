SPECIFICATION Spec

CONSTANTS
    Verifier = {"node"}
    MaxDistinct = 2
    MaxRepeating = 1
    Entry <- MCEntry
    Logs <- MCLogs

CHECK_DEADLOCK FALSE

INVARIANTS
    AlignedWithPython

CONSTANTS
    Timeout = 1
    Grace = 1
    MaxCalls = 1
    MaxLate = 0
SPECIFICATION Spec
INVARIANTS
    MissingCaptureFails
CHECK_DEADLOCK FALSE

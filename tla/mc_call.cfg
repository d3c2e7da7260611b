CONSTANTS
    Timeout = 3
    Grace = 2
    MaxCalls = 2
    MaxLate = 2
SPECIFICATION Spec
INVARIANTS
    TypeOK
    HonestAnswer
    ChildEndedOrReported
    CallBounded
    OneTerminalPhase
CHECK_DEADLOCK FALSE

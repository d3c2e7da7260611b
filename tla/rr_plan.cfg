CONSTANTS
    src = src
    old = old
    third = third
    e1 = e1
    e2 = e2
    Executors = {e1, e2}
    Contents = {src, old, third}
    Source <- MCSource
    Absent = Absent
    Torn = Torn
    FaultKinds = {"write", "short"}
    MaxFaults = 2
    MaxForeign = 1
    MaxCrashes = 1
SPECIFICATION MCSpec
INVARIANTS
    TypeOK
    NoTornDestination
    HonestOutcome
    HalfAppliedIsConfessed
    WithinPlanCeiling
    SuccessReceiptValidates
    OwnedOnce
    ReconciledUnlessUndone
PROPERTIES
    NoUnsavedOverwrite
    Termination

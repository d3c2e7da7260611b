CONSTANTS
    src = src
    old = old
    third = third
    e1 = e1
    e2 = e2
    Executors = {e1}
    Contents = {src, old}
    Source <- MCSource
    Absent = Absent
    Torn = Torn
    FaultKinds = {"read"}
    MaxFaults = 2
    MaxForeign = 0
    MaxCrashes = 0
SPECIFICATION FreshSpec
INVARIANTS
    IncompleteRecoveryReported

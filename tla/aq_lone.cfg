CONSTANTS
    o1 = o1
    o2 = o2
    x1 = x1
    x2 = x2
    x3 = x3
    A = A
    B = B
    Operators = {o1}
    Proposals = {x1, x2, x3}
    Fingerprint <- MCFingerprint
    Absent = Absent
    Torn = Torn
    MaxJobs = 4
    MaxFaults = 2
    MaxCrashes = 1
SPECIFICATION Spec
INVARIANTS
    TypeOK
    NeverLost
    IdempotentCreation
    OneCopyUnderVerdict
CHECK_DEADLOCK FALSE

CONSTANTS
    o1 = o1
    o2 = o2
    x1 = x1
    x2 = x2
    x3 = x3
    A = A
    B = B
    Operators = {o1, o2}
    Proposals = {x1}
    Fingerprint <- MCFingerprint
    Absent = Absent
    Torn = Torn
    MaxJobs = 4
    MaxFaults = 0
    MaxCrashes = 0
SPECIFICATION Spec
INVARIANTS
    KeptAtRest
CHECK_DEADLOCK FALSE

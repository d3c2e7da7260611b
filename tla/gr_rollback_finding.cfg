CONSTANTS
    i1 = i1
    i2 = i2
    Callers = {i1, i2}
    LabelSets = {"governed", "battle", "none"}
    MaxStarts = 3
    MaxKills = 1
    LanesRun = {"recipe", "recovery", "proof", "remediation", "rollback"}
SPECIFICATION Spec
INVARIANTS
    RollbackBlocksUnlabeled
CHECK_DEADLOCK FALSE
SYMMETRY MCSymmetry

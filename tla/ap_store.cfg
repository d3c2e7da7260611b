CONSTANTS
    p1 = p1
    p2 = p2
    b1 = b1
    b2 = b2
    Publishers = {p1, p2}
    Bundles = {b1, b2}
    Kinds = {"bundle", "approval", "link", "solution"}
    FileCount = 2
    NoDirectory = NoDirectory
    MaxFaults = 1
    MaxKills = 1
    MaxPowerLosses = 1
SPECIFICATION Spec
INVARIANTS
    TypeOK
    ResidueConfessed
    LoserFindsBundle
PROPERTIES
    StoreImplemented
SYMMETRY Symmetry

CONSTANTS
    b1 = b1
    e1 = e1
    e2 = e2
    p1 = p1
    p2 = p2
    Bundles = {b1}
    Exporters = {e1, e2}
    Pruners = {p1, p2}
    KindsSaved = {"ops", "packet", "handoff", "summary", "snapshot", "detailed", "preflight", "receipt", "recovery", "audit"}
    KindsExported = {"ops", "packet", "handoff", "summary", "snapshot", "detailed", "receipt"}
    Torn = Torn
    NoDirectory = NoDirectory
    MaxKills = 1
    MaxInvoked = 3
SPECIFICATION MCSpec
INVARIANTS
    TypeOK
    SavedBundleValidates
    AnsweredExportIsSound
    SoundExportHoldsSource
    UnracedPruneArchives
SYMMETRY MCSymmetry
CHECK_DEADLOCK FALSE

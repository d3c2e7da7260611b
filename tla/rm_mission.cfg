CONSTANTS
    i1 = i1
    i2 = i2
    nobody = nobody
    Callers = {i1, i2}
    Nobody = nobody
    LabelSets = {"none"}
    MaxStarts = 2
    MaxKills = 1
SPECIFICATION Spec
INVARIANTS
    TypeOK
    RecordedRestartHappened
    ResultLostOnlyByRaceOrCut
PROPERTIES
    MissionCommandsEnd
CHECK_DEADLOCK FALSE

CONSTANTS
    Operators = {o1,o2}
    Visitors = {o2}
    Candidates = {a,b}
    None = None
    Torn = Torn
    Mixed = Mixed
    MaxChanges = 1
    MaxJumps = 1
    MaxKills = 1
SPECIFICATION Spec
INVARIANTS
    TypeOK
    EvidenceChain
PROPERTIES
    NoStaleArchive

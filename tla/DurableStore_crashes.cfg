SPECIFICATION Spec
CONSTANTS
    Term = {ta, tb}
    Free = Free
    Writer = {w1, w2}
    Policies = {"EveryBatch", "Every"}
    Faults = {}
    MaxVersion = 2
    MaxSlot = 2
    MaxRecords = 2
    MaxGen = 1
    MaxCrashes = 2
SYMMETRY Symmetry
INVARIANTS
    TypeOK
    OpenNeverFails
    AckedSurvives
    ContentsMatchHistory

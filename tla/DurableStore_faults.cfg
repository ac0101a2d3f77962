SPECIFICATION Spec
CONSTANTS
    Term = {ta}
    Free = Free
    Writer = {w1}
    Policies = {"EveryBatch"}
    Faults <- AllFaults
    MaxVersion = 3
    MaxSlot = 2
    MaxRecords = 3
    MaxGen = 2
    MaxCrashes = 1
SYMMETRY Symmetry
CONSTRAINT UntilLost
CHECK_DEADLOCK FALSE
INVARIANTS
    OpenNeverFails
    AckedSurvives
    ContentsMatchHistory
    OneIndexPerTerm

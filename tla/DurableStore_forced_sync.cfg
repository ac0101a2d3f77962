SPECIFICATION Spec
CONSTANTS
    Term = {ta}
    Free = Free
    Writer = {w1}
    Policies = {"Every"}
    Faults = {}
    MaxVersion = 3
    MaxSlot = 1
    MaxRecords = 4
    MaxGen = 1
    MaxCrashes = 2
SYMMETRY Symmetry
INVARIANTS
    ForcedSyncSurvives

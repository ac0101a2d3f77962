SPECIFICATION Spec
CONSTANTS
    Term = {ta}
    Free = Free
    Writer = {w1}
    Policies = {"EveryBatch"}
    Faults = {"append_write"}
    MaxVersion = 3
    MaxSlot = 1
    MaxRecords = 4
    MaxGen = 1
    MaxCrashes = 1
SYMMETRY Symmetry
CHECK_DEADLOCK FALSE
INVARIANTS
    AckedAlwaysSurvives

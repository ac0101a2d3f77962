SPECIFICATION Spec
CONSTANTS
    Node = {"a", "b", "c"}
    ClosurePredicate = "partOf"
    Fact <- MCFacts
    Rule <- MCRules
    Instance <- MCInstances
    MaxRounds = 11
    Operation <- MCOperations
    Seed <- MCSeed
    Bulk <- MCBulk
    Capacity = 5
    MaxOps = 2
    MaxFaults = 1
INVARIANTS
    TypeOK
    TickAssertionsHold
    IncrementalStateExact
    DerivedRowsOwned
    ClosureExact
    AssertedIsDefaultGraph
    MirrorIsDerivedBase
    QueriesSeeEntailed
PROPERTIES
    FailedRequestUndone

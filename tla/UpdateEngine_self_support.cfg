SPECIFICATION Spec
CONSTANTS
    Node = {"x"}
    ClosurePredicate = "partOf"
    Fact <- MCSymmetricFacts
    Rule <- MCSymmetricRules
    Instance <- MCSymmetricInstances
    MaxRounds = 8
    Operation <- MCSymmetricOperations
    Seed = {}
    Bulk = {}
    Capacity = 2
    MaxOps = 1
    MaxFaults = 0
INVARIANTS
    NoSelfSupport

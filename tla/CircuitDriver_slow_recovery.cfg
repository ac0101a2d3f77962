SPECIFICATION Spec
CONSTANTS
    Node = {"a", "b", "c"}
    ClosurePredicate = "partOf"
    Fact <- MCFacts
    Rule <- MCRules
    Instance <- MCInstances
    MaxRounds = 10
    Input <- MCInput
    Setup <- MCSetup
    SlowRecovery = TRUE
    MaxEvents = 4
    Blocking = {}
    Slow = {}
    ChannelCapacity = 1
    Period = 4
INVARIANTS
    NoInputTruncated

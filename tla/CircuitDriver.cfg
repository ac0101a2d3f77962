SPECIFICATION Spec
CONSTANTS
    Node = {"a", "b", "c"}
    ClosurePredicate = "partOf"
    Fact <- MCFacts
    Rule <- MCRules
    Instance <- MCInstances
    MaxRounds = 10
    Input <- MCInput
    Setup <- MCSetup
    SlowRecovery = FALSE
    MaxEvents = 4
    Blocking = {"b"}
    Slow = {"s"}
    ChannelCapacity = 1
    Period = 4
INVARIANTS
    TypeOK
    TickAssertionsHold
    CircuitExact
    PresentIsEntailed
    InputsAccounted
    CrashLosesNothing
    GroupingKept
    TimesIncrease
    SubscriberStream
PROPERTIES
    NetRecordsExact
    TickEnds
    RecoveryEnds

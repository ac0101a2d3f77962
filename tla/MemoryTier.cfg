SPECIFICATION Spec
CONSTANTS
    pa = pa
    Quad = {q1, q2}
    Partition = {pa}
    NoPartition = NoPartition
    PartitionOf <- OnePartition
    Reader = {r1, r2}
    Janitor = {j1}
    UNSET_END = 4
SYMMETRY Symmetry
INVARIANTS
    TypeOK
    LifetimesDisjoint
    ColdNeedsNoStamps
    PinnedRowsRetained
PROPERTIES
    BatchEffect
    ImplementsVersionedSet

SPECIFICATION StoreSpec
CONSTANTS
    pa = pa
    Quad = {1, 2}
    Partition = {pa}
    NoPartition = NoPartition
    PartitionOf <- AllInOne
    Reader = {r1}
    Janitor = {j1}
    UNSET_END = 5
    Term = {ta}
    Free = Free
    Writer = {w1, w2}
    MaxSlot = 2
SYMMETRY Symmetry
INVARIANTS
    LiveRowsAlwaysResolve

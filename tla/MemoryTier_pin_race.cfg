SPECIFICATION Spec
CONSTANTS
    pa = pa
    Quad = {q1}
    Partition = {pa}
    NoPartition = NoPartition
    PartitionOf <- OnePartition
    Reader = {r1}
    Janitor = {j1}
    UNSET_END = 4
INVARIANTS
    EveryPinRetainsRows

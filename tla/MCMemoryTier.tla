---------------------------- MODULE MCMemoryTier ----------------------------
(* Instances of MemoryTier for TLC: two quads that share one partition, so   *)
(* that a dead row of one keeps the other from going cold, and two readers.  *)
EXTENDS MemoryTier, TLC

CONSTANTS pa

OnePartition == [q \in Quad |-> pa]

Symmetry == Permutations(Reader) \cup Permutations(Quad)
=============================================================================

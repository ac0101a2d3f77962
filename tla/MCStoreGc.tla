----------------------------- MODULE MCStoreGc -----------------------------
(* Instances of StoreGc for TLC: one term and two dictionary indices, so    *)
(* that a swept term can be interned again, and one partition.              *)
EXTENDS StoreGc, TLC

CONSTANTS pa

AllInOne == [i \in Quad |-> pa]
Symmetry == Permutations(Term) \cup Permutations(Writer) \cup Permutations(Reader)

\* What readers rely on is only promised while writes and compact() are kept
\* apart, so behaviours in which they overlap are followed without readers.
ReadersOnlyWhenQuiet == overlapped => \A r \in Reader : reader[r].pc = "idle"
=============================================================================

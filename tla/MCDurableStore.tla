--------------------------- MODULE MCDurableStore ---------------------------
(* Instances of DurableStore for TLC.                                        *)
EXTENDS DurableStore

Symmetry == Permutations(Term) \cup Permutations(Writer)

AllFaults == {"append_write", "append_sync", "wal", "wal_sync", "manifest",
              "dir_sync", "reopen"}

\* Nothing is promised once a crash has met a marked file.
UntilLost == fault = "lost" => status # "up"
=============================================================================

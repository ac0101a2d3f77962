---------------------------- MODULE VersionedSet ----------------------------
(***************************************************************************)
(* What the memory tier promises its callers, with no rows, stamps, pins,  *)
(* partitions or compaction in it: one set of quads behind a commit clock, *)
(* changed only by a batch that ticks the clock, and readers that keep the *)
(* set they opened for as long as they hold it.                            *)
(***************************************************************************)
EXTENDS Naturals

CONSTANTS Quad, Reader

VARIABLES
    version,    \* the commit clock
    contents,   \* the quads visible at the clock
    views       \* [Reader -> what the reader sees]

avars == <<version, contents, views>>

\* A reader that holds no view.
Closed == [open |-> FALSE, version |-> 0, quads |-> {}]
Opened(v, q) == [open |-> TRUE, version |-> v, quads |-> q]

AInit ==
    /\ version = 0
    /\ contents = {}
    /\ views = [r \in Reader |-> Closed]

\* One committed batch: deletions before insertions, one tick of the clock.
ACommit(dels, adds) ==
    /\ version' = version + 1
    /\ contents' = (contents \ dels) \cup adds
    /\ UNCHANGED views

AOpen(r) ==
    /\ ~views[r].open
    /\ views' = [views EXCEPT ![r] = Opened(version, contents)]
    /\ UNCHANGED <<version, contents>>

AShare(r, s) ==
    /\ views[r].open /\ ~views[s].open
    /\ views' = [views EXCEPT ![s] = views[r]]
    /\ UNCHANGED <<version, contents>>

AClose(r) ==
    /\ views[r].open
    /\ views' = [views EXCEPT ![r] = Closed]
    /\ UNCHANGED <<version, contents>>

ANext ==
    \/ \E dels, adds \in SUBSET Quad : ACommit(dels, adds)
    \/ \E r \in Reader : AOpen(r) \/ AClose(r)
    \/ \E r, s \in Reader : AShare(r, s)

ASpec == AInit /\ [][ANext]_avars
=============================================================================

----------------------------- MODULE MemoryTier -----------------------------
(***************************************************************************)
(* The in-memory storage tier (crates/storage/src/memory_tier.rs): an      *)
(* immutable, versioned snapshot behind one pointer, a writer lock that    *)
(* serialises batches and maintenance, and a table of reader pins that     *)
(* bounds what compaction may reclaim.                                     *)
(*                                                                         *)
(* A row of a partition is a quad with a lifetime [begin, end).  A cold    *)
(* partition keeps no lifetimes: its file holds bare rows and the version  *)
(* they were encoded at.  The model keeps that version as the rows' begin, *)
(* which is what decoding the file gives them back (cold.rs).              *)
(***************************************************************************)
EXTENDS Integers, FiniteSets

CONSTANTS
    Quad,          \* the quads a batch may name
    Partition,     \* the (graph, predicate) pairs
    NoPartition,   \* not a partition: compact() has no target
    PartitionOf,   \* the partition that holds a quad
    Reader,        \* handles a PinnedSnapshot can live in
    Janitor,       \* threads that run compact() or demote()
    UNSET_END      \* the end stamp of a live row; also bounds the clock

ASSUME ConstantsAssumption ==
    /\ PartitionOf \in [Quad -> Partition]
    /\ NoPartition \notin Partition
    /\ UNSET_END \in Nat \ {0}
    /\ IsFiniteSet(Reader)

VARIABLES
    current,       \* the live TierSnapshot
    pins,          \* version -> number of live pins
    reader,        \* each reader handle: where it is in snapshot(), what it holds
    maint,         \* each janitor: where it is in compact() / demote()
    exposed        \* history: readers a compaction's horizon read overtook
                   \* between cloning the pointer and registering the pin

vars == <<current, pins, reader, maint, exposed>>

Version == 0 .. UNSET_END - 1
Row == [quad : Quad, begin : Version, end : 1 .. UNSET_END]
Snapshot == [version : Version, rows : SUBSET Row,
             parts : SUBSET Partition, cold : SUBSET Partition]

Live(row) == row.end = UNSET_END
Visible(row, at) == row.begin <= at /\ at < row.end
PartitionsOf(quads) == {PartitionOf[q] : q \in quads}
InPartition(row, p) == PartitionOf[row.quad] = p

\* What a holder of `snap` reads: every row of a cold partition, and of a warm
\* one the rows visible at the snapshot's own version.
View(snap) ==
    {q \in Quad : \E row \in snap.rows :
        /\ row.quad = q
        /\ PartitionOf[q] \in snap.cold \/ Visible(row, snap.version)}

\* What the dictionary's mark phase finds: rows of any lifetime.
StoredQuads(snap) == {q \in Quad : \E row \in snap.rows : row.quad = q}

EmptySnapshot == [version |-> 0, rows |-> {}, parts |-> {}, cold |-> {}]
IdleReader == [pc |-> "idle", snap |-> EmptySnapshot]
IdleJanitor == [pc |-> "idle", horizon |-> 0, target |-> NoPartition]

Init ==
    /\ current = EmptySnapshot
    /\ pins = [v \in Version |-> 0]
    /\ reader = [r \in Reader |-> IdleReader]
    /\ maint = [j \in Janitor |-> IdleJanitor]
    /\ exposed = {}

(***************************************************************************)
(* Writers.  Each batch is one read-modify-swap under the writer lock,     *)
(* which compaction holds from its horizon read to its swap.               *)
(***************************************************************************)
WriterFree == \A j \in Janitor : maint[j].pc # "compacting"
NewVersion == current.version + 1
ClockNotFull == NewVersion < UNSET_END

\* Live rows that begin at v.
NewRows(quads, v) == [quad : quads, begin : {v}, end : {UNSET_END}]

\* Mutant: rows are sorted but duplicates of a live quad are kept.
SortDedup_KeepsDuplicates(rows) == rows

\* Of two live rows of one quad the earlier survives; dead rows are history
\* and stay.  (The code collapses neighbours in begin order; no dead row lies
\* between two live ones, see LifetimesDisjoint.)
SortDedup(rows) ==
    {row \in rows :
        Live(row) => \A other \in rows :
            (other.quad = row.quad /\ Live(other)) => row.begin <= other.begin}

EndRows(rows, quads, v) ==
    {row \in rows : ~(Live(row) /\ row.quad \in quads)}
        \cup {[row EXCEPT !.end = v] :
                 row \in {x \in rows : Live(x) /\ x.quad \in quads}}

LiveQuads(rows) == {q \in Quad : \E row \in rows : row.quad = q /\ Live(row)}

\* Mutant: a write leaves a cold partition cold.
Install_LeavesCold(rows, written, created) ==
    current' = [version |-> NewVersion, rows |-> rows,
                parts |-> current.parts \cup created, cold |-> current.cold]

\* A write to a cold partition promotes it, so the partitions written to are
\* warm in the snapshot the batch installs.
Install(rows, written, created) ==
    current' = [version |-> NewVersion, rows |-> rows,
                parts |-> current.parts \cup created,
                cold |-> current.cold \ written]

InsertBatch(quads) ==
    /\ WriterFree /\ ClockNotFull
    /\ quads # {}
    /\ Install(SortDedup(current.rows \cup NewRows(quads, NewVersion)),
               PartitionsOf(quads), PartitionsOf(quads))
    /\ UNCHANGED <<pins, reader, maint, exposed>>

\* Mutant: liveness is tested before the batch's own deletions.
Genuine_BeforeDeletions(rows, dels, adds) == adds \ LiveQuads(rows)

\* The insertions of a batch that are not live once its deletions are applied.
Genuine(rows, dels, adds) == adds \ (LiveQuads(rows) \ dels)

\* A batch with no net effect installs nothing and leaves the clock alone.
ApplyBatch(dels, adds) ==
    LET fresh == Genuine(current.rows, dels, adds)
    IN  /\ WriterFree /\ ClockNotFull
        /\ dels \cap LiveQuads(current.rows) # {} \/ fresh # {}
        /\ Install(EndRows(current.rows, dels, NewVersion)
                       \cup NewRows(fresh, NewVersion),
                   PartitionsOf(dels \cup fresh), PartitionsOf(fresh))
        /\ UNCHANGED <<pins, reader, maint, exposed>>

RetractBatch(quads) ==
    /\ WriterFree /\ ClockNotFull
    /\ quads \cap LiveQuads(current.rows) # {}
    /\ Install(EndRows(current.rows, quads, NewVersion), PartitionsOf(quads), {})
    /\ UNCHANGED <<pins, reader, maint, exposed>>

(***************************************************************************)
(* Readers.  snapshot() clones the pointer under one lock and registers    *)
(* the pin under another: anything may run in between.                     *)
(***************************************************************************)
SnapshotClone(r) ==
    /\ reader[r].pc = "idle"
    /\ reader' = [reader EXCEPT ![r] = [pc |-> "cloned", snap |-> current]]
    /\ UNCHANGED <<current, pins, maint, exposed>>

\* Mutant: the pin is handed out without being counted.
SnapshotPin_Uncounted(r) ==
    /\ reader[r].pc = "cloned"
    /\ reader' = [reader EXCEPT ![r].pc = "pinned"]
    /\ UNCHANGED <<current, pins, maint, exposed>>

SnapshotPin(r) ==
    /\ reader[r].pc = "cloned"
    /\ pins' = [pins EXCEPT ![reader[r].snap.version] = @ + 1]
    /\ reader' = [reader EXCEPT ![r].pc = "pinned"]
    /\ UNCHANGED <<current, maint, exposed>>

Repin(r, s) ==
    /\ reader[r].pc = "pinned" /\ reader[s].pc = "idle"
    /\ pins' = [pins EXCEPT ![reader[r].snap.version] = @ + 1]
    /\ reader' = [reader EXCEPT ![s] = reader[r]]
    /\ exposed' = exposed \cup (IF r \in exposed THEN {s} ELSE {})
    /\ UNCHANGED <<current, maint>>

DropPin(r) ==
    /\ reader[r].pc = "pinned"
    /\ pins' = [pins EXCEPT ![reader[r].snap.version] = @ - 1]
    /\ reader' = [reader EXCEPT ![r] = IdleReader]
    /\ exposed' = exposed \ {r}
    /\ UNCHANGED <<current, maint>>

(***************************************************************************)
(* Maintenance.                                                            *)
(***************************************************************************)
\* min_pinned(): the lowest pinned version, the current one if none is pinned.
IsHorizon(h) ==
    \/ /\ h = current.version
       /\ \A v \in Version : pins[v] = 0
    \/ /\ pins[h] > 0
       /\ \A v \in Version : v < h => pins[v] = 0

Overtaken == {r \in Reader : reader[r].pc = "cloned"}

\* compact() takes the writer lock and reads its horizon.  demote() starts with
\* a whole compact() of its own; `target` remembers which of the two this is.
CompactStart(j, target) ==
    /\ maint[j].pc = "idle" /\ WriterFree
    /\ \E h \in Version :
        /\ IsHorizon(h)
        /\ maint' = [maint EXCEPT ![j] =
               [pc |-> "compacting", horizon |-> h, target |-> target]]
    /\ exposed' = exposed \cup Overtaken
    /\ UNCHANGED <<current, pins, reader>>

\* Mutant: every dead row goes, whoever has it pinned.
Reclaim_AllDead(rows, cold, horizon) ==
    {row \in rows : PartitionOf[row.quad] \in cold \/ Live(row)}

Reclaim(rows, cold, horizon) ==
    {row \in rows : PartitionOf[row.quad] \in cold \/ row.end > horizon}

\* The rebuilt partitions go in under the same version and the lock is released.
CompactSwap(j) ==
    /\ maint[j].pc = "compacting"
    /\ current' = [current EXCEPT
           !.rows = Reclaim(current.rows, current.cold, maint[j].horizon)]
    /\ maint' = [maint EXCEPT ![j] =
           IF maint[j].target = NoPartition THEN IdleJanitor
           ELSE [@ EXCEPT !.pc = "demoting"]]
    /\ UNCHANGED <<pins, reader, exposed>>

HasRetractions(p) == \E row \in current.rows : InPartition(row, p) /\ ~Live(row)
VisibleIn(p) == {q \in View(current) : PartitionOf[q] = p}

Demotable(p) ==
    /\ p \in current.parts \ current.cold
    /\ VisibleIn(p) # {}
    /\ ~HasRetractions(p)

\* Mutant: the header carries the version the next batch will mint.
Encoded_NextVersion(p) == NewRows(VisibleIn(p), NewVersion)

\* The rows a file encoded now holds, stamped with the version in its header.
Encoded(p) == NewRows(VisibleIn(p), current.version)

\* Second critical section of demote(): encode and swap, same version.
DemoteSwap(j) ==
    LET p == maint[j].target
    IN  /\ maint[j].pc = "demoting" /\ WriterFree
        /\ Demotable(p)
        /\ current' = [current EXCEPT
               !.rows = {row \in @ : ~InPartition(row, p)} \cup Encoded(p),
               !.cold = @ \cup {p}]
        /\ maint' = [maint EXCEPT ![j] = IdleJanitor]
        /\ UNCHANGED <<pins, reader, exposed>>

\* The partition cannot go cold now, or writing its file failed.
DemoteRefused(j) ==
    /\ maint[j].pc = "demoting" /\ WriterFree
    /\ maint' = [maint EXCEPT ![j] = IdleJanitor]
    /\ UNCHANGED <<current, pins, reader, exposed>>

Promote(p) ==
    /\ WriterFree
    /\ p \in current.cold
    /\ current' = [current EXCEPT !.cold = @ \ {p}]
    /\ UNCHANGED <<pins, reader, maint, exposed>>

Write ==
    \/ \E quads \in SUBSET Quad : InsertBatch(quads) \/ RetractBatch(quads)
    \/ \E dels, adds \in SUBSET Quad : ApplyBatch(dels, adds)

Read ==
    \/ \E r \in Reader : SnapshotClone(r) \/ SnapshotPin(r) \/ DropPin(r)
    \/ \E r, s \in Reader : Repin(r, s)

Maintain ==
    \/ \E j \in Janitor :
        \/ \E target \in Partition \cup {NoPartition} : CompactStart(j, target)
        \/ CompactSwap(j) \/ DemoteSwap(j) \/ DemoteRefused(j)
    \/ \E p \in Partition : Promote(p)

Next == Write \/ Read \/ Maintain

Spec == Init /\ [][Next]_vars
(***************************************************************************)
(* Properties.                                                             *)
(***************************************************************************)
ReaderState == [pc : {"idle", "cloned", "pinned"}, snap : Snapshot]
JanitorState == [pc : {"idle", "compacting", "demoting"}, horizon : Version,
                 target : Partition \cup {NoPartition}]

\* Type invariant: every stamp, version and pin count stays in its range, and a
\* demotion always has a partition to demote.
TypeOK ==
    /\ current \in Snapshot
    /\ pins \in [Version -> Nat]
    /\ reader \in [Reader -> ReaderState]
    /\ maint \in [Janitor -> JanitorState]
    /\ \A j \in Janitor : maint[j].pc = "demoting" => maint[j].target \in Partition
    /\ exposed \in SUBSET Reader

\* The rows of one quad have disjoint lifetimes: no batch, re-insertion,
\* compaction or trip through a cold file leaves a quad live twice, or alive
\* while it is recorded as dead (sort_dedup, apply_at, cold promote).
LifetimesDisjoint ==
    \A a, b \in current.rows :
        (a.quad = b.quad /\ a # b) => (a.end <= b.begin \/ b.end <= a.begin)

\* Every snapshot that exists: the live one and the ones readers hold.
Snapshots == {current} \cup {reader[r].snap : r \in Reader}

\* A cold file needs no stamps (the argument in demote()'s comment): in every
\* snapshot that holds a cold partition, each of its rows is visible at that
\* snapshot's version, so reading the file whole reads the right set.
ColdNeedsNoStamps ==
    \A snap \in Snapshots : \A row \in snap.rows :
        PartitionOf[row.quad] \in snap.cold => Visible(row, snap.version)

\* What a pin is for: a quad that a pinned reader sees is still stored in some
\* row of the live snapshot, so the dictionary sweep, which marks from the
\* live rows, keeps its terms.  It holds for every reader that no compaction
\* overtook between the two locks of snapshot().
PinnedRowsRetained ==
    \A r \in Reader \ exposed :
        reader[r].pc = "pinned" => View(reader[r].snap) \subseteq StoredQuads(current)

\* The same for every pinned reader, as snapshot()'s comment has it.
EveryPinRetainsRows ==
    \A r \in Reader :
        reader[r].pc = "pinned" => View(reader[r].snap) \subseteq StoredQuads(current)

\* A batch leaves visible what its caller asked for.
BatchStep ==
    /\ \A dels, adds \in SUBSET Quad : ApplyBatch(dels, adds) =>
          View(current)' = (View(current) \ dels) \cup adds
    /\ \A quads \in SUBSET Quad :
          /\ InsertBatch(quads) => View(current)' = View(current) \cup quads
          /\ RetractBatch(quads) => View(current)' = View(current) \ quads

\* What a batch does to the visible set, computed from stamps, is what its
\* caller asked for: deletions first, then insertions, and a quad both
\* deleted and inserted ends present (insert_at, apply_at, retract_quad_batch).
BatchEffect == [][BatchStep]_current

\* The tier implements a versioned set: compaction, demotion and promotion are
\* invisible, only a batch that ticks the clock changes what is visible, and
\* what a reader sees is what was visible when it cloned the pointer.
Abstract == INSTANCE VersionedSet WITH
    version <- current.version,
    contents <- View(current),
    views <- [r \in Reader |->
        IF reader[r].pc = "idle"
        THEN [open |-> FALSE, version |-> 0, quads |-> {}]
        ELSE [open |-> TRUE, version |-> reader[r].snap.version,
              quads |-> View(reader[r].snap)]]

ImplementsVersionedSet == Abstract!ASpec
=============================================================================

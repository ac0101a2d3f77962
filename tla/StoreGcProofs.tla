---------------------------- MODULE StoreGcProofs ----------------------------
(***************************************************************************)
(* Proofs about MemoryTier for every set of quads, partitions, readers and *)
(* janitors and every bound on the clock; and about the store's writes and *)
(* its dictionary sweep, for every set of terms and writers: no term has   *)
(* two indices, and while callers keep compact() apart from writes, the    *)
(* sweep frees no index that a row, a pinned view, a writer or the log     *)
(* still needs.  The first part uses MemoryTier alone.                     *)
(***************************************************************************)
EXTENDS StoreGc, FiniteSetTheorems, TLAPS

(***************************************************************************)
(* What the row operators return.                                          *)
(***************************************************************************)
\* The rows a batch adds are live, begin at its version and are of its quads.
LEMMA NewRowsFacts ==
    ASSUME NEW quads \in SUBSET Quad, NEW v \in Version
    PROVE  /\ NewRows(quads, v) \subseteq Row
           /\ \A row \in NewRows(quads, v) :
                row.quad \in quads /\ row.begin = v /\ Live(row)
           /\ \A q \in quads : \E row \in NewRows(quads, v) : row.quad = q
<1>1. \A row \in NewRows(quads, v) :
        row \in Row /\ row.quad \in quads /\ row.begin = v /\ Live(row)
  BY ConstantsAssumption DEF NewRows, Row, Version, Live
<1>2. ASSUME NEW q \in quads
      PROVE  \E row \in NewRows(quads, v) : row.quad = q
  <2> DEFINE new == [quad |-> q, begin |-> v, end |-> UNSET_END]
  <2>1. new \in NewRows(quads, v) /\ new.quad = q
    BY DEF NewRows
  <2> QED BY <2>1
<1> QED BY <1>1, <1>2

\* A row of EndRows is an old row left alone, or a live one ended at v; and
\* every old row is there, ended or not.
LEMMA EndRowsFacts ==
    ASSUME NEW rows \in SUBSET Row, NEW quads \in SUBSET Quad, NEW v \in Version, v > 0
    PROVE  /\ EndRows(rows, quads, v) \subseteq Row
           /\ \A x \in EndRows(rows, quads, v) :
                \/ x \in rows /\ ~(Live(x) /\ x.quad \in quads)
                \/ \E y \in rows : /\ Live(y) /\ y.quad \in quads
                                   /\ x.quad = y.quad /\ x.begin = y.begin /\ x.end = v
           /\ \A y \in rows : \E x \in EndRows(rows, quads, v) :
                /\ x.quad = y.quad /\ x.begin = y.begin
                /\ IF Live(y) /\ y.quad \in quads THEN x.end = v ELSE x = y
<1> DEFINE hit(y) == Live(y) /\ y.quad \in quads
           ended(y) == [y EXCEPT !.end = v]
<1>1. \A y \in rows : /\ ended(y) \in Row /\ ended(y).quad = y.quad
                      /\ ended(y).begin = y.begin /\ ended(y).end = v
  BY ConstantsAssumption DEF Row, Version
<1>2. \A x : x \in EndRows(rows, quads, v) <=>
              \/ x \in rows /\ ~hit(x)
              \/ \E y \in rows : hit(y) /\ x = ended(y)
  BY DEF EndRows
<1> HIDE DEF ended
<1>3. \A x \in EndRows(rows, quads, v) : x \in Row
  BY <1>1, <1>2
<1>4. \A x \in EndRows(rows, quads, v) :
        \/ x \in rows /\ ~hit(x)
        \/ \E y \in rows : hit(y) /\ x.quad = y.quad /\ x.begin = y.begin /\ x.end = v
  BY <1>1, <1>2
<1>5. ASSUME NEW y \in rows
      PROVE  \E x \in EndRows(rows, quads, v) :
                /\ x.quad = y.quad /\ x.begin = y.begin
                /\ IF hit(y) THEN x.end = v ELSE x = y
  <2>1. CASE hit(y)
    <3>1. ended(y) \in EndRows(rows, quads, v) BY <1>2, <2>1
    <3> QED BY <1>1, <2>1, <3>1
  <2>2. CASE ~hit(y) BY <1>2, <2>2
  <2> QED BY <2>1, <2>2
<1> QED BY <1>3, <1>4, <1>5

\* sort_dedup only drops rows, never a dead one, and leaves at most one live row of
\* a quad.
LEMMA SortDedupFacts ==
    ASSUME NEW rows \in SUBSET Row
    PROVE  /\ SortDedup(rows) \subseteq rows
           /\ \A row \in rows : ~Live(row) => row \in SortDedup(rows)
           /\ \A x, y \in SortDedup(rows) :
                (Live(x) /\ Live(y) /\ x.quad = y.quad) => x = y
<1>1. ASSUME NEW x \in SortDedup(rows), NEW y \in SortDedup(rows),
             Live(x), Live(y), x.quad = y.quad
      PROVE  x = y
  <2>1. x \in Row /\ y \in Row /\ x.begin <= y.begin /\ y.begin <= x.begin
    BY <1>1 DEF SortDedup
  <2>2. x.begin = y.begin /\ x.end = y.end
    BY <1>1, <2>1, ConstantsAssumption DEF Row, Version, Live
  <2>3. x = [quad |-> x.quad, begin |-> x.begin, end |-> x.end]
    BY <2>1 DEF Row
  <2>4. y = [quad |-> y.quad, begin |-> y.begin, end |-> y.end]
    BY <2>1 DEF Row
  <2> QED BY <1>1, <2>2, <2>3, <2>4
<1> QED BY <1>1 DEF SortDedup

(***************************************************************************)
(* Type correctness.                                                       *)
(***************************************************************************)
\* The snapshot of a new tier is a snapshot.
LEMMA EmptySnapshotType == EmptySnapshot \in Snapshot
  BY ConstantsAssumption DEF EmptySnapshot, Snapshot, Version

\* What a batch installs is a snapshot.
LEMMA InstallType ==
    ASSUME TypeOK, ClockNotFull, NEW rows \in SUBSET Row,
           NEW written, NEW created \in SUBSET Partition,
           Install(rows, written, created)
    PROVE  current' \in Snapshot
  BY ConstantsAssumption DEF TypeOK, Install, Snapshot, Version, ClockNotFull, NewVersion

\* The version a batch mints is in range and above the current one.
LEMMA NewVersionType ==
    ASSUME TypeOK, ClockNotFull
    PROVE  NewVersion \in Version /\ NewVersion > 0 /\ NewVersion > current.version
  BY ConstantsAssumption DEF TypeOK, Snapshot, Version, ClockNotFull, NewVersion

\* The partitions of a batch are partitions.
LEMMA PartitionsOfType == \A quads \in SUBSET Quad : PartitionsOf(quads) \in SUBSET Partition
  BY ConstantsAssumption DEF PartitionsOf

\* A new tier is well typed.
LEMMA TypeInit == Init => TypeOK
  BY EmptySnapshotType, ConstantsAssumption
     DEF Init, TypeOK, IdleReader, IdleJanitor, ReaderState, JanitorState, Version

\* The rows a batch installs are rows.
LEMMA WriteRowsType ==
    ASSUME TypeOK, ClockNotFull, NEW dels \in SUBSET Quad, NEW adds \in SUBSET Quad
    PROVE  /\ SortDedup(current.rows \cup NewRows(adds, NewVersion)) \in SUBSET Row
           /\ EndRows(current.rows, dels, NewVersion) \in SUBSET Row
           /\ Genuine(current.rows, dels, adds) \in SUBSET Quad
           /\ EndRows(current.rows, dels, NewVersion)
                 \cup NewRows(Genuine(current.rows, dels, adds), NewVersion) \in SUBSET Row
<1>1. NewVersion \in Version /\ NewVersion > 0 BY NewVersionType
<1>2. current.rows \in SUBSET Row BY DEF TypeOK, Snapshot
<1>3. Genuine(current.rows, dels, adds) \in SUBSET Quad BY DEF Genuine
<1>4. /\ NewRows(adds, NewVersion) \subseteq Row
      /\ NewRows(Genuine(current.rows, dels, adds), NewVersion) \subseteq Row
  BY <1>1, <1>3, NewRowsFacts
<1>5. EndRows(current.rows, dels, NewVersion) \subseteq Row
  BY <1>1, <1>2, EndRowsFacts
<1>6. SortDedup(current.rows \cup NewRows(adds, NewVersion)) \in SUBSET Row
  BY <1>2, <1>4 DEF SortDedup
<1> QED BY <1>3, <1>4, <1>5, <1>6

\* A batch keeps the tier well typed (insert_at, apply_at, retract_quad_batch).
LEMMA TypeWrite == TypeOK /\ Write => TypeOK'
<1> SUFFICES ASSUME TypeOK, Write PROVE TypeOK'
  OBVIOUS
<1>1. current' \in Snapshot /\ UNCHANGED <<pins, reader, maint, exposed>>
  <2>1. ASSUME NEW quads \in SUBSET Quad, InsertBatch(quads)
        PROVE  current' \in Snapshot /\ UNCHANGED <<pins, reader, maint, exposed>>
    BY <2>1, WriteRowsType, InstallType, PartitionsOfType DEF InsertBatch
  <2>2. ASSUME NEW quads \in SUBSET Quad, RetractBatch(quads)
        PROVE  current' \in Snapshot /\ UNCHANGED <<pins, reader, maint, exposed>>
    <3>1. {} \in SUBSET Partition OBVIOUS
    <3>2. EndRows(current.rows, quads, NewVersion) \in SUBSET Row
      BY <2>2, WriteRowsType DEF RetractBatch
    <3> QED BY <2>2, <3>1, <3>2, InstallType DEF RetractBatch
  <2>3. ASSUME NEW dels \in SUBSET Quad, NEW adds \in SUBSET Quad, ApplyBatch(dels, adds)
        PROVE  current' \in Snapshot /\ UNCHANGED <<pins, reader, maint, exposed>>
    BY <2>3, WriteRowsType, InstallType, PartitionsOfType DEF ApplyBatch
  <2> QED BY <2>1, <2>2, <2>3 DEF Write
<1> QED BY <1>1 DEF TypeOK

\* So do compact(), demote() and promote().
LEMMA TypeMaintain == TypeOK /\ Maintain => TypeOK'
<1> SUFFICES ASSUME TypeOK, Maintain PROVE TypeOK'
  OBVIOUS
<1>1. IdleJanitor \in JanitorState /\ IdleJanitor.pc = "idle"
  BY ConstantsAssumption DEF IdleJanitor, JanitorState, Version
<1>2. ASSUME NEW j \in Janitor, NEW target \in Partition \cup {NoPartition},
             CompactStart(j, target)
      PROVE  TypeOK'
  <2>1. PICK h \in Version : maint' = [maint EXCEPT ![j] =
               [pc |-> "compacting", horizon |-> h, target |-> target]]
    BY <1>2 DEF CompactStart
  <2>2. [pc |-> "compacting", horizon |-> h, target |-> target] \in JanitorState
    BY DEF JanitorState
  <2>3. exposed' \in SUBSET Reader BY <1>2 DEF CompactStart, TypeOK, Overtaken
  <2> QED BY <1>2, <2>1, <2>2, <2>3 DEF CompactStart, TypeOK
<1>3. ASSUME NEW j \in Janitor, CompactSwap(j) PROVE TypeOK'
  <2>1. current' \in Snapshot
    BY <1>3 DEF CompactSwap, TypeOK, Snapshot, Reclaim
  <2>2. CASE maint[j].target = NoPartition
    BY <1>1, <1>3, <2>1, <2>2 DEF CompactSwap, TypeOK
  <2>3. CASE maint[j].target # NoPartition
    <3>1. maint' = [maint EXCEPT ![j] = [@ EXCEPT !.pc = "demoting"]]
      BY <1>3, <2>3 DEF CompactSwap
    <3>2. /\ [maint[j] EXCEPT !.pc = "demoting"] \in JanitorState
          /\ [maint[j] EXCEPT !.pc = "demoting"].target \in Partition
      BY <2>3 DEF TypeOK, JanitorState
    <3> QED BY <1>3, <2>1, <3>1, <3>2 DEF CompactSwap, TypeOK
  <2> QED BY <2>2, <2>3
<1>4. ASSUME NEW j \in Janitor, DemoteSwap(j) PROVE TypeOK'
  <2>1. VisibleIn(maint[j].target) \in SUBSET Quad
    BY DEF VisibleIn, View
  <2>2. Encoded(maint[j].target) \subseteq Row
    BY <2>1, NewRowsFacts DEF Encoded, TypeOK, Snapshot
  <2>3. current' \in Snapshot
    BY <1>4, <2>2 DEF DemoteSwap, TypeOK, Snapshot
  <2> QED BY <1>1, <1>4, <2>3 DEF DemoteSwap, TypeOK
<1>5. ASSUME NEW j \in Janitor, DemoteRefused(j) PROVE TypeOK'
  BY <1>1, <1>5 DEF DemoteRefused, TypeOK
<1>6. ASSUME NEW p \in Partition, Promote(p) PROVE TypeOK'
  BY <1>6 DEF Promote, TypeOK, Snapshot
<1> QED BY <1>2, <1>3, <1>4, <1>5, <1>6 DEF Maintain

(***************************************************************************)
(* The pin table counts the pins.  Dropping a pin subtracts one, so the    *)
(* counts stay natural numbers only because of this.                       *)
(***************************************************************************)
PinnedAt(v) == {r \in Reader : reader[r].pc = "pinned" /\ reader[r].snap.version = v}
PinsCounted == \A v \in Version : pins[v] = Cardinality(PinnedAt(v))

\* Finitely many readers pin a version, so they can be counted.
LEMMA PinnedAtFinite == \A v : IsFiniteSet(PinnedAt(v)) /\ Cardinality(PinnedAt(v)) \in Nat
<1> SUFFICES ASSUME NEW v PROVE IsFiniteSet(PinnedAt(v)) /\ Cardinality(PinnedAt(v)) \in Nat
  OBVIOUS
<1>1. PinnedAt(v) \subseteq Reader BY DEF PinnedAt
<1>2. IsFiniteSet(Reader) BY ConstantsAssumption
<1>3. IsFiniteSet(PinnedAt(v)) BY <1>1, <1>2, FS_Subset
<1> QED BY <1>3, FS_CardinalityType

\* A pinned reader accounts for one pin at its version.
LEMMA PinnedHasCount ==
    ASSUME TypeOK, PinsCounted, NEW r \in Reader, reader[r].pc = "pinned"
    PROVE  reader[r].snap.version \in Version /\ pins[reader[r].snap.version] > 0
<1> DEFINE v == reader[r].snap.version
<1>1. v \in Version BY DEF TypeOK, ReaderState, Snapshot
<1>2. r \in PinnedAt(v) BY DEF PinnedAt
<1>3. Cardinality(PinnedAt(v)) # 0
  <2>1. PinnedAt(v) # {} BY <1>2
  <2> QED BY <2>1, PinnedAtFinite, FS_EmptySet
<1>4. Cardinality(PinnedAt(v)) \in Nat BY PinnedAtFinite
<1>5. pins[v] = Cardinality(PinnedAt(v)) BY <1>1 DEF PinsCounted
<1> QED BY <1>1, <1>3, <1>4, <1>5

\* A reader that gains a pin: its version's count and its pinned set grow by one.
LEMMA PinGained ==
    ASSUME TypeOK, PinsCounted, NEW s \in Reader, NEW v \in Version,
           reader[s].pc # "pinned",
           reader'[s].pc = "pinned", reader'[s].snap.version = v,
           \A t \in Reader \ {s} : reader'[t] = reader[t],
           pins' = [pins EXCEPT ![v] = @ + 1]
    PROVE  PinsCounted' /\ pins' \in [Version -> Nat]
<1>1. ASSUME NEW w \in Version PROVE pins'[w] = Cardinality(PinnedAt(w)')
  <2>1. CASE w = v
    <3>1. PinnedAt(w)' = PinnedAt(w) \cup {s}
      BY <2>1 DEF PinnedAt
    <3>2. s \notin PinnedAt(w) BY DEF PinnedAt
    <3>3. Cardinality(PinnedAt(w) \cup {s}) = Cardinality(PinnedAt(w)) + 1
      BY <3>2, PinnedAtFinite, FS_AddElement
    <3>4. pins[w] = Cardinality(PinnedAt(w)) BY DEF PinsCounted
    <3>5. pins'[w] = pins[w] + 1 BY <2>1 DEF TypeOK
    <3> QED BY <3>1, <3>3, <3>4, <3>5
  <2>2. CASE w # v
    <3>1. PinnedAt(w)' = PinnedAt(w)
      BY <2>2 DEF PinnedAt
    <3>2. pins'[w] = pins[w] BY <2>2 DEF TypeOK
    <3> QED BY <3>1, <3>2 DEF PinsCounted
  <2> QED BY <2>1, <2>2
<1>2. pins' \in [Version -> Nat] BY DEF TypeOK
<1> QED BY <1>1, <1>2 DEF PinsCounted

\* A reader that drops its pin: count and set shrink by one (Drop).
LEMMA PinDropped ==
    ASSUME TypeOK, PinsCounted, NEW r \in Reader, DropPin(r)
    PROVE  PinsCounted' /\ pins' \in [Version -> Nat]
<1> DEFINE v == reader[r].snap.version
<1>0. reader[r].pc = "pinned" /\ pins' = [pins EXCEPT ![v] = @ - 1]
  BY DEF DropPin
<1>1. v \in Version /\ pins[v] > 0 BY <1>0, PinnedHasCount
<1>2. /\ reader'[r].pc = "idle" /\ \A t \in Reader \ {r} : reader'[t] = reader[t]
  BY DEF DropPin, IdleReader, TypeOK
<1>3. ASSUME NEW w \in Version PROVE pins'[w] = Cardinality(PinnedAt(w)')
  <2>1. CASE w = v
    <3>1. PinnedAt(w)' = PinnedAt(w) \ {r}
      BY <1>2, <2>1 DEF PinnedAt
    <3>2. r \in PinnedAt(w) BY <1>0, <2>1 DEF PinnedAt
    <3>3. Cardinality(PinnedAt(w) \ {r}) = Cardinality(PinnedAt(w)) - 1
      BY <3>2, PinnedAtFinite, FS_RemoveElement
    <3>4. pins[w] = Cardinality(PinnedAt(w)) BY DEF PinsCounted
    <3>5. pins'[w] = pins[w] - 1 BY <1>0, <2>1 DEF TypeOK
    <3> QED BY <3>1, <3>3, <3>4, <3>5
  <2>2. CASE w # v
    <3>1. PinnedAt(w)' = PinnedAt(w)
      BY <1>0, <1>2, <2>2 DEF PinnedAt
    <3>2. pins'[w] = pins[w] BY <1>0, <2>2 DEF TypeOK
    <3> QED BY <3>1, <3>2 DEF PinsCounted
  <2> QED BY <2>1, <2>2
<1>4. pins' \in [Version -> Nat] BY <1>0, <1>1 DEF TypeOK
<1> QED BY <1>3, <1>4 DEF PinsCounted

\* Readers keep the tier well typed and the pins counted: a decrement needs the
\* count to cover the reader that drops.
LEMMA TypeAndPinsRead == TypeOK /\ PinsCounted /\ Read => TypeOK' /\ PinsCounted'
<1> SUFFICES ASSUME TypeOK, PinsCounted, Read PROVE TypeOK' /\ PinsCounted'
  OBVIOUS
<1>1. ASSUME NEW r \in Reader, SnapshotClone(r) PROVE TypeOK' /\ PinsCounted'
  <2>1. [pc |-> "cloned", snap |-> current] \in ReaderState
    BY DEF TypeOK, ReaderState
  <2>2. \A v : PinnedAt(v)' = PinnedAt(v)
    BY <1>1 DEF SnapshotClone, TypeOK, PinnedAt
  <2>3. PinsCounted' BY <1>1, <2>2 DEF SnapshotClone, PinsCounted
  <2> QED BY <1>1, <2>1, <2>3 DEF SnapshotClone, TypeOK
<1>2. ASSUME NEW r \in Reader, SnapshotPin(r) PROVE TypeOK' /\ PinsCounted'
  <2> DEFINE v == reader[r].snap.version
  <2>1. v \in Version BY DEF TypeOK, ReaderState, Snapshot
  <2>2. /\ [reader[r] EXCEPT !.pc = "pinned"] \in ReaderState
        /\ [reader[r] EXCEPT !.pc = "pinned"].pc = "pinned"
        /\ [reader[r] EXCEPT !.pc = "pinned"].snap = reader[r].snap
    BY DEF TypeOK, ReaderState
  <2>3. /\ reader[r].pc # "pinned" /\ reader'[r].pc = "pinned"
        /\ reader'[r].snap.version = v
        /\ \A t \in Reader \ {r} : reader'[t] = reader[t]
        /\ reader' \in [Reader -> ReaderState]
    BY <1>2, <2>2 DEF SnapshotPin, TypeOK
  <2>4. PinsCounted' /\ pins' \in [Version -> Nat]
    BY <1>2, <2>1, <2>3, PinGained DEF SnapshotPin
  <2> QED BY <1>2, <2>3, <2>4 DEF SnapshotPin, TypeOK
<1>3. ASSUME NEW r \in Reader, DropPin(r) PROVE TypeOK' /\ PinsCounted'
  <2>1. IdleReader \in ReaderState
    BY EmptySnapshotType DEF IdleReader, ReaderState
  <2>2. PinsCounted' /\ pins' \in [Version -> Nat] BY <1>3, PinDropped
  <2> QED BY <1>3, <2>1, <2>2 DEF DropPin, TypeOK
<1>4. ASSUME NEW r \in Reader, NEW s \in Reader, Repin(r, s) PROVE TypeOK' /\ PinsCounted'
  <2> DEFINE v == reader[r].snap.version
  <2>1. v \in Version BY DEF TypeOK, ReaderState, Snapshot
  <2>2. /\ reader[s].pc # "pinned" /\ reader'[s].pc = "pinned"
        /\ reader'[s].snap.version = v
        /\ \A t \in Reader \ {s} : reader'[t] = reader[t]
        /\ reader' \in [Reader -> ReaderState]
    BY <1>4 DEF Repin, TypeOK
  <2>3. PinsCounted' /\ pins' \in [Version -> Nat]
    BY <1>4, <2>1, <2>2, PinGained DEF Repin
  <2> QED BY <1>4, <2>2, <2>3 DEF Repin, TypeOK
<1> QED BY <1>1, <1>2, <1>3, <1>4 DEF Read

\* Every step keeps the tier well typed and the pins counted.
LEMMA TypeAndPins == TypeOK /\ PinsCounted /\ [Next]_vars => TypeOK' /\ PinsCounted'
<1> SUFFICES ASSUME TypeOK, PinsCounted, [Next]_vars PROVE TypeOK' /\ PinsCounted'
  OBVIOUS
<1>1. ASSUME UNCHANGED <<pins, reader>> PROVE PinsCounted'
  BY <1>1 DEF PinsCounted, PinnedAt
<1>2. CASE Write
  <2>1. UNCHANGED <<pins, reader>>
    BY <1>2 DEF Write, InsertBatch, RetractBatch, ApplyBatch
  <2> QED BY <1>1, <1>2, <2>1, TypeWrite
<1>3. CASE Maintain
  <2>1. UNCHANGED <<pins, reader>>
    BY <1>3 DEF Maintain, CompactStart, CompactSwap, DemoteSwap, DemoteRefused, Promote
  <2> QED BY <1>1, <1>3, <2>1, TypeMaintain
<1>4. CASE Read BY <1>4, TypeAndPinsRead
<1>5. CASE UNCHANGED vars BY <1>1, <1>5 DEF vars, TypeOK
<1> QED BY <1>2, <1>3, <1>4, <1>5 DEF Next

\* A new tier has no pins and no pinned readers.
LEMMA PinsInit == Init => PinsCounted
<1> SUFFICES ASSUME Init, NEW v \in Version PROVE pins[v] = Cardinality(PinnedAt(v))
  BY DEF PinsCounted
<1>1. PinnedAt(v) = {} BY DEF Init, PinnedAt, IdleReader
<1> QED BY <1>1, FS_EmptySet DEF Init

\* Every reachable state of the tier is well typed: in particular no clock
\* stamp leaves its range and no pin count goes below zero, however readers
\* clone, pin, repin and drop (snapshot, repin, Drop for PinnedSnapshot).
THEOREM TypeCorrect == Spec => []TypeOK
<1>1. Init => TypeOK /\ PinsCounted BY TypeInit, PinsInit
<1>2. TypeOK /\ PinsCounted /\ [Next]_vars => (TypeOK /\ PinsCounted)' BY TypeAndPins
<1> QED BY <1>1, <1>2, PTL DEF Spec

(***************************************************************************)
(* Safety: lifetimes are disjoint, cold partitions need no stamps, and a   *)
(* pinned reader's quads stay stored.  None of the three is inductive      *)
(* alone.                                                                  *)
(***************************************************************************)
\* No row of the live snapshot was born or ended after its version, and the
\* rows of cold partitions are live.
RowsSane ==
    \A row \in current.rows :
        /\ row.begin <= current.version
        /\ Live(row) \/ row.end <= current.version
        /\ PartitionOf[row.quad] \in current.cold => Live(row)

Shielded(r) == r \notin exposed /\ reader[r].pc # "idle"

\* The snapshot a reader holds is not ahead of the tier, and its cold
\* partitions hold visible rows only.
HeldSane ==
    \A r \in Reader :
        /\ reader[r].snap.version <= current.version
        /\ \A row \in reader[r].snap.rows :
            PartitionOf[row.quad] \in reader[r].snap.cold
                => Visible(row, reader[r].snap.version)

\* Each quad a reader sees has a row in the live snapshot that ends after the
\* reader's version: the rows that compaction must not take.
Protected ==
    \A r \in Reader : Shielded(r) =>
        \A q \in View(reader[r].snap) : \E row \in current.rows :
            row.quad = q /\ row.end > reader[r].snap.version

\* The horizon a compaction works with is not above any held version.
HorizonBelow ==
    \A j \in Janitor : maint[j].pc = "compacting" =>
        /\ maint[j].horizon <= current.version
        /\ \A r \in Reader : Shielded(r) => maint[j].horizon <= reader[r].snap.version

TierInv ==
    /\ TypeOK /\ PinsCounted
    /\ RowsSane /\ LifetimesDisjoint
    /\ HeldSane /\ Protected /\ HorizonBelow

(***************************************************************************)
(* What a batch does to the rows, whichever batch it is.                   *)
(***************************************************************************)
\* A row the batch left alone, a row it added, a row it ended.
Kept(x) == x \in current.rows
Added(x) == /\ x.begin = NewVersion /\ Live(x) /\ x.quad \in Quad
            /\ PartitionOf[x.quad] \notin current'.cold
Ended(x) == /\ \E y \in current.rows : /\ Live(y) /\ x.quad = y.quad
                                       /\ x.begin = y.begin
            /\ x.end = NewVersion
            /\ PartitionOf[x.quad] \notin current'.cold

BatchRows ==
    /\ current'.version = NewVersion
    /\ current'.cold \subseteq current.cold
    /\ \A x \in current'.rows : Kept(x) \/ Added(x) \/ Ended(x)
    /\ \A y \in current.rows : \E x \in current'.rows :
        x.quad = y.quad /\ (x = y \/ (Live(y) /\ x.end = NewVersion))
    /\ UNCHANGED <<pins, reader, maint, exposed>>
    /\ WriterFree /\ ClockNotFull

\* A batch writes to the partition of each of its quads.
LEMMA InPartitionsOf == \A quads : \A q \in quads : PartitionOf[q] \in PartitionsOf(quads)
  BY DEF PartitionsOf

\* Two live rows of one quad cannot be disjoint: they are the same row.
LEMMA OneLiveRow ==
    ASSUME TypeOK, RowsSane, LifetimesDisjoint, NEW x \in current.rows, NEW y \in current.rows,
           x.quad = y.quad, Live(x), Live(y)
    PROVE  x = y
<1>1. x \in Row /\ y \in Row BY DEF TypeOK, Snapshot
<1>2. x.begin \in Version /\ y.begin \in Version BY <1>1 DEF Row
<1>3. ~(x.end <= y.begin) /\ ~(y.end <= x.begin)
  BY <1>2, ConstantsAssumption DEF Live, Version
<1> QED BY <1>3 DEF LifetimesDisjoint

\* The deduplication that ends insert_at drops no row the tier had: a live row
\* that is inserted again keeps its older begin stamp.
LEMMA InsertKeeps ==
    ASSUME TypeOK, RowsSane, LifetimesDisjoint, ClockNotFull, NEW quads \in SUBSET Quad,
           NEW y \in current.rows
    PROVE  y \in SortDedup(current.rows \cup NewRows(quads, NewVersion))
<1> DEFINE all == current.rows \cup NewRows(quads, NewVersion)
<1>1. NewVersion \in Version /\ NewVersion > current.version BY NewVersionType
<1>2. /\ NewRows(quads, NewVersion) \subseteq Row
      /\ \A row \in NewRows(quads, NewVersion) : row.begin = NewVersion /\ Live(row)
  BY <1>1, NewRowsFacts
<1>3. current.rows \in SUBSET Row BY DEF TypeOK, Snapshot
<1>4. CASE ~Live(y) BY <1>4 DEF SortDedup
<1>5. CASE Live(y)
  <2>1. ASSUME NEW other \in all, other.quad = y.quad, Live(other)
        PROVE  y.begin <= other.begin
    <3>1. CASE other \in current.rows
      <4>1. other = y BY <1>5, <2>1, <3>1, OneLiveRow
      <4> QED BY <1>3, <4>1 DEF Row, Version
    <3>2. CASE other \in NewRows(quads, NewVersion)
      <4>1. other.begin = NewVersion BY <1>2, <3>2
      <4>2. y.begin <= current.version BY DEF RowsSane
      <4>3. y.begin \in Version /\ current.version \in Version
        BY <1>3 DEF Row, TypeOK, Snapshot
      <4> QED BY <1>1, <4>1, <4>2, <4>3 DEF Version
    <3> QED BY <3>1, <3>2
  <2> QED BY <2>1 DEF SortDedup
<1> QED BY <1>4, <1>5

\* insert_at does to the rows what BatchRows allows a batch.
LEMMA InsertRows ==
    ASSUME TypeOK, RowsSane, LifetimesDisjoint, NEW quads \in SUBSET Quad, InsertBatch(quads)
    PROVE  BatchRows
<1> DEFINE all == current.rows \cup NewRows(quads, NewVersion)
<1>1. /\ current'.version = NewVersion /\ current'.rows = SortDedup(all)
      /\ current'.cold = current.cold \ PartitionsOf(quads)
      /\ UNCHANGED <<pins, reader, maint, exposed>> /\ WriterFree /\ ClockNotFull
  BY DEF InsertBatch, Install
<1>2. NewVersion \in Version /\ NewVersion > current.version BY <1>1, NewVersionType
<1>3. /\ NewRows(quads, NewVersion) \subseteq Row
      /\ \A row \in NewRows(quads, NewVersion) :
            row.quad \in quads /\ row.begin = NewVersion /\ Live(row)
  BY <1>2, NewRowsFacts
<1>4. current.rows \in SUBSET Row BY DEF TypeOK, Snapshot
<1>5. all \in SUBSET Row BY <1>3, <1>4
<1>6. SortDedup(all) \subseteq all /\ \A row \in all : ~Live(row) => row \in SortDedup(all)
  BY <1>5, SortDedupFacts
<1>7. \A x \in current'.rows : Kept(x) \/ Added(x)
  BY <1>1, <1>3, <1>6, InPartitionsOf DEF Kept, Added
<1>8. \A y \in current.rows : y \in current'.rows BY <1>1, InsertKeeps
<1> QED BY <1>1, <1>7, <1>8 DEF BatchRows

\* EndRows over partitions the batch writes to.
LEMMA EndedRows ==
    ASSUME TypeOK, ClockNotFull, NEW dels \in SUBSET Quad,
           \A q \in dels : PartitionOf[q] \notin current'.cold
    PROVE  /\ \A x \in EndRows(current.rows, dels, NewVersion) : Kept(x) \/ Ended(x)
           /\ \A y \in current.rows : \E x \in EndRows(current.rows, dels, NewVersion) :
                x.quad = y.quad /\ (x = y \/ (Live(y) /\ x.end = NewVersion))
<1>1. NewVersion \in Version /\ NewVersion > 0 BY NewVersionType
<1>2. current.rows \in SUBSET Row BY DEF TypeOK, Snapshot
<1>3. /\ \A x \in EndRows(current.rows, dels, NewVersion) :
            \/ x \in current.rows /\ ~(Live(x) /\ x.quad \in dels)
            \/ \E y \in current.rows : /\ Live(y) /\ y.quad \in dels
                  /\ x.quad = y.quad /\ x.begin = y.begin /\ x.end = NewVersion
      /\ \A y \in current.rows : \E x \in EndRows(current.rows, dels, NewVersion) :
            /\ x.quad = y.quad /\ x.begin = y.begin
            /\ IF Live(y) /\ y.quad \in dels THEN x.end = NewVersion ELSE x = y
  BY <1>1, <1>2, EndRowsFacts
<1>4. \A x \in EndRows(current.rows, dels, NewVersion) : Kept(x) \/ Ended(x)
  BY <1>3 DEF Kept, Ended
<1>5. \A y \in current.rows : \E x \in EndRows(current.rows, dels, NewVersion) :
                x.quad = y.quad /\ (x = y \/ (Live(y) /\ x.end = NewVersion))
  BY <1>3
<1> QED BY <1>4, <1>5

\* So does retract_quad_batch.
LEMMA RetractRows ==
    ASSUME TypeOK, NEW quads \in SUBSET Quad, RetractBatch(quads)
    PROVE  BatchRows
<1>1. /\ current'.version = NewVersion
      /\ current'.rows = EndRows(current.rows, quads, NewVersion)
      /\ current'.cold = current.cold \ PartitionsOf(quads)
      /\ UNCHANGED <<pins, reader, maint, exposed>> /\ WriterFree /\ ClockNotFull
  BY DEF RetractBatch, Install
<1>2. \A q \in quads : PartitionOf[q] \notin current'.cold BY <1>1, InPartitionsOf
<1> QED BY <1>1, <1>2, EndedRows DEF BatchRows

\* So does apply_at.
LEMMA ApplyRows ==
    ASSUME TypeOK, NEW dels \in SUBSET Quad, NEW adds \in SUBSET Quad, ApplyBatch(dels, adds)
    PROVE  BatchRows
<1> DEFINE fresh == Genuine(current.rows, dels, adds)
<1>1. /\ current'.version = NewVersion
      /\ current'.rows = EndRows(current.rows, dels, NewVersion) \cup NewRows(fresh, NewVersion)
      /\ current'.cold = current.cold \ PartitionsOf(dels \cup fresh)
      /\ UNCHANGED <<pins, reader, maint, exposed>> /\ WriterFree /\ ClockNotFull
  BY DEF ApplyBatch, Install
<1>2. \A q \in dels \cup fresh : PartitionOf[q] \notin current'.cold BY <1>1, InPartitionsOf
<1>3. fresh \in SUBSET Quad BY DEF Genuine
<1>4. NewVersion \in Version BY <1>1, NewVersionType
<1>5. \A x \in NewRows(fresh, NewVersion) : Added(x)
  BY <1>2, <1>3, <1>4, NewRowsFacts DEF Added
<1>6. /\ \A x \in EndRows(current.rows, dels, NewVersion) : Kept(x) \/ Ended(x)
      /\ \A y \in current.rows : \E x \in EndRows(current.rows, dels, NewVersion) :
            x.quad = y.quad /\ (x = y \/ (Live(y) /\ x.end = NewVersion))
  BY <1>1, <1>2, EndedRows
<1> QED BY <1>1, <1>5, <1>6 DEF BatchRows

\* So does every batch.
LEMMA WriteRows == TypeOK /\ RowsSane /\ LifetimesDisjoint /\ Write => BatchRows
  BY InsertRows, RetractRows, ApplyRows DEF Write

(***************************************************************************)
(* A batch preserves the invariant.                                        *)
(***************************************************************************)
\* Every stamp and held version is a number, and a batch mints the successor of the
\* current version, below the stamp of a live row.
LEMMA VersionsOrdered ==
    ASSUME TypeOK, ClockNotFull
    PROVE  /\ current.version \in Nat /\ NewVersion \in Nat
           /\ NewVersion = current.version + 1 /\ NewVersion < UNSET_END
           /\ UNSET_END \in Nat
           /\ \A r \in Reader : reader[r].snap.version \in Nat
           /\ \A row \in current.rows : row.begin \in Nat /\ row.end \in Nat
  BY ConstantsAssumption
     DEF TypeOK, Snapshot, ReaderState, Row, Version, ClockNotFull, NewVersion

\* A batch keeps stamps in order and the rows of cold partitions live.
LEMMA WriteRowsSane ==
    ASSUME TypeOK, RowsSane, BatchRows
    PROVE  RowsSane'
<1>1. ClockNotFull /\ current'.version = NewVersion /\ current'.cold \subseteq current.cold
  BY DEF BatchRows
<1>2. ASSUME NEW x \in current'.rows
      PROVE  /\ x.begin <= current'.version
             /\ Live(x) \/ x.end <= current'.version
             /\ PartitionOf[x.quad] \in current'.cold => Live(x)
  <2>1. CASE Kept(x)
    BY <1>1, <2>1, VersionsOrdered DEF Kept, RowsSane
  <2>2. CASE Added(x)
    BY <1>1, <2>2, VersionsOrdered DEF Added
  <2>3. CASE Ended(x)
    BY <1>1, <2>3, VersionsOrdered DEF Ended, RowsSane
  <2> QED BY <2>1, <2>2, <2>3 DEF BatchRows
<1> QED BY <1>2 DEF RowsSane, Live

\* A batch keeps what readers hold sane and protected, and no horizon overtakes them.
LEMMA WriteHeld ==
    ASSUME TypeOK, HeldSane, Protected, HorizonBelow, BatchRows
    PROVE  HeldSane' /\ Protected' /\ HorizonBelow'
<1>1. /\ ClockNotFull /\ current'.version = NewVersion
      /\ reader' = reader /\ maint' = maint /\ exposed' = exposed
      /\ WriterFree
  BY DEF BatchRows
<1>2. HeldSane'
  BY <1>1, VersionsOrdered DEF HeldSane, Visible
<1>3. HorizonBelow'
  BY <1>1 DEF WriterFree, HorizonBelow
<1>4. ASSUME NEW r \in Reader, Shielded(r), NEW q \in View(reader[r].snap)
      PROVE  \E x \in current'.rows : x.quad = q /\ x.end > reader[r].snap.version
  <2>1. PICK y \in current.rows : y.quad = q /\ y.end > reader[r].snap.version
    BY <1>4 DEF Protected
  <2>2. PICK x \in current'.rows :
            x.quad = y.quad /\ (x = y \/ (Live(y) /\ x.end = NewVersion))
    BY DEF BatchRows
  <2>3. reader[r].snap.version < NewVersion
    BY <1>1, VersionsOrdered DEF HeldSane
  <2>4. x.end > reader[r].snap.version
    BY <1>1, <2>1, <2>2, <2>3, VersionsOrdered
  <2> QED BY <2>1, <2>2, <2>4
<1>5. Protected'
  BY <1>1, <1>4 DEF Protected, Shielded, View, Visible
<1> QED BY <1>2, <1>3, <1>5

\* A row that is dead at NewVersion is over before a row added at NewVersion.
LEMMA DeadBeforeAdded ==
    ASSUME TypeOK, ClockNotFull, NEW a, NEW b, b.begin = NewVersion,
           a.end = NewVersion \/ (a \in current.rows /\ a.end <= current.version)
    PROVE  a.end <= b.begin
  BY VersionsOrdered

\* insert_at keeps lifetimes disjoint, by the deduplication that ends it.
LEMMA InsertDisjoint ==
    ASSUME TypeOK, RowsSane, LifetimesDisjoint, NEW quads \in SUBSET Quad, InsertBatch(quads)
    PROVE  LifetimesDisjoint'
<1> DEFINE new == NewRows(quads, NewVersion)
           all == current.rows \cup new
<1>1. current'.rows = SortDedup(all) /\ ClockNotFull
  BY DEF InsertBatch, Install
<1>2. NewVersion \in Version BY <1>1, NewVersionType
<1>3. /\ new \subseteq Row
      /\ \A row \in new : row.begin = NewVersion /\ Live(row)
  BY <1>2, NewRowsFacts
<1>4. all \in SUBSET Row BY <1>3 DEF TypeOK, Snapshot
<1>5. /\ SortDedup(all) \subseteq all
      /\ \A x, y \in SortDedup(all) : (Live(x) /\ Live(y) /\ x.quad = y.quad) => x = y
  BY <1>4, SortDedupFacts
<1> HIDE DEF new
<1>6. ASSUME NEW a \in current'.rows, NEW b \in current'.rows, a.quad = b.quad, a # b
      PROVE  a.end <= b.begin \/ b.end <= a.begin
  <2>1. a \in all /\ b \in all /\ ~(Live(a) /\ Live(b)) BY <1>1, <1>5, <1>6
  <2>2. CASE a \in current.rows /\ b \in current.rows
    BY <1>6, <2>2 DEF LifetimesDisjoint
  <2>3. CASE a \in new
    <3>1. b \in current.rows /\ b.end <= current.version
      BY <1>3, <2>1, <2>3 DEF RowsSane
    <3> QED BY <1>1, <1>3, <2>3, <3>1, DeadBeforeAdded
  <2>4. CASE b \in new
    <3>1. a \in current.rows /\ a.end <= current.version
      BY <1>3, <2>1, <2>4 DEF RowsSane
    <3> QED BY <1>1, <1>3, <2>4, <3>1, DeadBeforeAdded
  <2> QED BY <2>1, <2>2, <2>3, <2>4
<1> QED BY <1>6 DEF LifetimesDisjoint

\* Ending live rows at NewVersion keeps lifetimes disjoint.
LEMMA EndDisjoint ==
    ASSUME TypeOK, ClockNotFull, RowsSane, LifetimesDisjoint, NEW dels \in SUBSET Quad,
           NEW a \in EndRows(current.rows, dels, NewVersion),
           NEW b \in EndRows(current.rows, dels, NewVersion), a.quad = b.quad, a # b
    PROVE  a.end <= b.begin \/ b.end <= a.begin
<1> DEFINE Hit(y) == Live(y) /\ y.quad \in dels
           From(x, y) == /\ x.quad = y.quad /\ x.begin = y.begin
                         /\ \/ x = y /\ ~Hit(y)
                            \/ Hit(y) /\ x.end = NewVersion
<1>1. NewVersion \in Version /\ NewVersion > 0 BY NewVersionType
<1>2. current.rows \in SUBSET Row BY DEF TypeOK, Snapshot
<1>3. /\ EndRows(current.rows, dels, NewVersion) \subseteq Row
      /\ \A x \in EndRows(current.rows, dels, NewVersion) : \E y \in current.rows : From(x, y)
  BY <1>1, <1>2, EndRowsFacts
<1>4. PICK c \in current.rows : From(a, c) BY <1>3
<1>5. PICK d \in current.rows : From(b, d) BY <1>3
<1>6. c # d
  <2> SUFFICES ASSUME c = d PROVE FALSE
    OBVIOUS
  <2>1. a \in Row /\ b \in Row BY <1>3
  <2>2. a = [quad |-> a.quad, begin |-> a.begin, end |-> a.end] BY <2>1 DEF Row
  <2>3. b = [quad |-> b.quad, begin |-> b.begin, end |-> b.end] BY <2>1 DEF Row
  <2>4. a.begin = b.begin /\ a.end = b.end BY <1>4, <1>5
  <2> QED BY <2>2, <2>3, <2>4
<1>7. c.end <= d.begin \/ d.end <= c.begin
  BY <1>4, <1>5, <1>6 DEF LifetimesDisjoint
<1>8. a.end <= c.end /\ b.end <= d.end
  BY <1>4, <1>5, VersionsOrdered DEF Live
<1>9. /\ a.end \in Nat /\ b.end \in Nat /\ c.end \in Nat /\ d.end \in Nat
      /\ a.begin = c.begin /\ b.begin = d.begin /\ a.begin \in Nat /\ b.begin \in Nat
  BY <1>4, <1>5, VersionsOrdered
<1> QED BY <1>7, <1>8, <1>9

\* retract_quad_batch keeps lifetimes disjoint.
LEMMA RetractDisjoint ==
    ASSUME TypeOK, RowsSane, LifetimesDisjoint, NEW quads \in SUBSET Quad, RetractBatch(quads)
    PROVE  LifetimesDisjoint'
<1>1. current'.rows = EndRows(current.rows, quads, NewVersion) /\ ClockNotFull
  BY DEF RetractBatch, Install
<1> QED BY <1>1, EndDisjoint DEF LifetimesDisjoint

\* apply_at keeps lifetimes disjoint: a genuine insertion is not live once the
\* deletions are applied.
LEMMA ApplyDisjoint ==
    ASSUME TypeOK, RowsSane, LifetimesDisjoint,
           NEW dels \in SUBSET Quad, NEW adds \in SUBSET Quad, ApplyBatch(dels, adds)
    PROVE  LifetimesDisjoint'
<1> DEFINE fresh == Genuine(current.rows, dels, adds)
           old == EndRows(current.rows, dels, NewVersion)
           new == NewRows(fresh, NewVersion)
<1>1. current'.rows = old \cup new /\ ClockNotFull
  BY DEF ApplyBatch, Install
<1>2. NewVersion \in Version /\ NewVersion > 0 BY <1>1, NewVersionType
<1>3. /\ new \subseteq Row
      /\ \A row \in new : row.quad \in fresh /\ row.begin = NewVersion /\ row.end = UNSET_END
  BY <1>2, NewRowsFacts DEF Genuine, Live
<1>4. current.rows \in SUBSET Row BY DEF TypeOK, Snapshot
<1>5. \A x \in old :
        \/ x \in current.rows /\ ~(Live(x) /\ x.quad \in dels)
        \/ x.end = NewVersion
  BY <1>2, <1>4, EndRowsFacts
<1>6. ASSUME NEW a \in old, NEW b \in new, a.quad = b.quad PROVE a.end <= b.begin
  <2>1. b.quad \in fresh /\ b.begin = NewVersion BY <1>3
  <2>2. CASE a.end = NewVersion BY <1>1, <2>1, <2>2, DeadBeforeAdded
  <2>3. CASE a \in current.rows /\ ~(Live(a) /\ a.quad \in dels)
    <3>1. ~Live(a)
      <4> SUFFICES ASSUME Live(a) PROVE FALSE
        OBVIOUS
      <4>1. a.quad \in Quad BY <1>4, <2>3 DEF Row
      <4>2. a.quad \in LiveQuads(current.rows) \ dels BY <2>3, <4>1 DEF LiveQuads
      <4> QED BY <1>6, <2>1, <4>2 DEF Genuine
    <3>2. a.end <= current.version BY <2>3, <3>1 DEF RowsSane
    <3> QED BY <1>1, <2>1, <2>3, <3>2, DeadBeforeAdded
  <2> QED BY <1>5, <2>2, <2>3
<1>7. ASSUME NEW a \in new, NEW b \in new, a.quad = b.quad PROVE a = b
  <2>1. a \in Row /\ b \in Row BY <1>3
  <2>2. a = [quad |-> a.quad, begin |-> a.begin, end |-> a.end] BY <2>1 DEF Row
  <2>3. b = [quad |-> b.quad, begin |-> b.begin, end |-> b.end] BY <2>1 DEF Row
  <2>4. a.begin = b.begin /\ a.end = b.end BY <1>3
  <2> QED BY <1>7, <2>2, <2>3, <2>4
<1>8. ASSUME NEW a \in old, NEW b \in old, a.quad = b.quad, a # b
      PROVE  a.end <= b.begin \/ b.end <= a.begin
  BY <1>1, <1>8, EndDisjoint
<1> HIDE DEF old, new
<1> QED BY <1>1, <1>6, <1>7, <1>8 DEF LifetimesDisjoint

\* A batch preserves the invariant.
LEMMA InvWrite == TierInv /\ Write => (RowsSane /\ LifetimesDisjoint /\ HeldSane /\ Protected /\ HorizonBelow)'
<1> SUFFICES ASSUME TierInv, Write
             PROVE  RowsSane' /\ LifetimesDisjoint' /\ HeldSane' /\ Protected' /\ HorizonBelow'
  OBVIOUS
<1>1. BatchRows BY WriteRows DEF TierInv
<1>2. RowsSane' BY <1>1, WriteRowsSane DEF TierInv
<1>3. HeldSane' /\ Protected' /\ HorizonBelow' BY <1>1, WriteHeld DEF TierInv
<1>4. LifetimesDisjoint' BY InsertDisjoint, RetractDisjoint, ApplyDisjoint DEF Write, TierInv
<1> QED BY <1>2, <1>3, <1>4

(***************************************************************************)
(* Readers preserve it.  A snapshot just cloned protects itself; the pin   *)
(* and a repin take over what the handle they came from already had.       *)
(***************************************************************************)
\* A snapshot just cloned from the live pointer is protected by it.
LEMMA CurrentProtected ==
    ASSUME TypeOK, RowsSane, NEW q \in View(current)
    PROVE  \E row \in current.rows : row.quad = q /\ row.end > current.version
<1>1. PICK x \in current.rows :
        /\ x.quad = q
        /\ PartitionOf[q] \in current.cold \/ Visible(x, current.version)
  BY DEF View
<1>2. x.end > current.version
  <2>1. current.version < UNSET_END /\ current.version \in Nat /\ UNSET_END \in Nat
    BY ConstantsAssumption DEF TypeOK, Snapshot, Version
  <2>2. CASE PartitionOf[q] \in current.cold
    BY <1>1, <2>1, <2>2 DEF RowsSane, Live
  <2>3. CASE Visible(x, current.version)
    BY <2>1, <2>3 DEF Visible
  <2> QED BY <1>1, <2>2, <2>3
<1> QED BY <1>1, <1>2

\* In the live snapshot the rows of cold partitions are visible.
LEMMA CurrentColdVisible ==
    ASSUME TypeOK, RowsSane, NEW row \in current.rows, PartitionOf[row.quad] \in current.cold
    PROVE  Visible(row, current.version)
<1>1. current.version < UNSET_END BY ConstantsAssumption DEF TypeOK, Snapshot, Version
<1> QED BY <1>1 DEF RowsSane, Visible, Live

\* Clone, pin, repin and drop preserve the invariant.
LEMMA InvRead == TierInv /\ Read => (RowsSane /\ LifetimesDisjoint /\ HeldSane /\ Protected /\ HorizonBelow)'
<1> SUFFICES ASSUME TierInv, Read
             PROVE  RowsSane' /\ LifetimesDisjoint' /\ HeldSane' /\ Protected' /\ HorizonBelow'
  OBVIOUS
<1> USE DEF TierInv
<1>1. current' = current /\ maint' = maint
  BY DEF Read, SnapshotClone, SnapshotPin, DropPin, Repin
<1>2. RowsSane' /\ LifetimesDisjoint' BY <1>1 DEF RowsSane, LifetimesDisjoint, Live
<1>3. current.version \in Nat BY DEF TypeOK, Snapshot, Version
\* Origin(r): what r holds after the step is nothing, the current snapshot, or
\* what it or another reader held before.
<1> DEFINE Origin(r) ==
        \/ reader'[r] = IdleReader
        \/ reader'[r] = [pc |-> "cloned", snap |-> current]
        \/ \E t \in Reader : /\ reader'[r].snap = reader[t].snap
                             /\ r \notin exposed' => t \notin exposed
                             /\ reader'[r].pc = "idle" \/ reader[t].pc # "idle"
<1>4. ASSUME NEW r \in Reader PROVE Origin(r)
  <2>1. ASSUME NEW s \in Reader, SnapshotClone(s) PROVE Origin(r)
    <3>1. \/ reader'[r] = [pc |-> "cloned", snap |-> current]
          \/ reader'[r] = reader[r] /\ exposed' = exposed
      BY <2>1 DEF SnapshotClone, TypeOK
    <3> QED BY <3>1
  <2>2. ASSUME NEW s \in Reader, SnapshotPin(s) PROVE Origin(r)
    <3>1. /\ reader'[r].snap = reader[r].snap /\ exposed' = exposed
          /\ reader'[r].pc = "idle" \/ reader[r].pc # "idle"
      BY <2>2 DEF SnapshotPin, TypeOK, ReaderState
    <3> QED BY <3>1
  <2>3. ASSUME NEW s \in Reader, DropPin(s) PROVE Origin(r)
    <3>1. \/ reader'[r] = IdleReader
          \/ reader'[r] = reader[r] /\ (r \notin exposed' => r \notin exposed)
      BY <2>3 DEF DropPin, TypeOK
    <3> QED BY <3>1
  <2>4. ASSUME NEW u \in Reader, NEW s \in Reader, Repin(u, s) PROVE Origin(r)
    <3>1. CASE r = s
      <4>1. reader'[r] = reader[u] /\ (r \notin exposed' => u \notin exposed)
        BY <2>4, <3>1 DEF Repin, TypeOK
      <4> QED BY <4>1
    <3>2. CASE r # s
      <4>1. reader'[r] = reader[r] /\ (r \notin exposed' => r \notin exposed)
        BY <2>4, <3>2 DEF Repin, TypeOK
      <4> QED BY <4>1
    <3> QED BY <3>1, <3>2
  <2> QED BY <2>1, <2>2, <2>3, <2>4 DEF Read
<1>5. HeldSane'
  <2> SUFFICES ASSUME NEW r \in Reader
               PROVE  /\ reader'[r].snap.version <= current.version
                      /\ \A row \in reader'[r].snap.rows :
                            PartitionOf[row.quad] \in reader'[r].snap.cold
                               => Visible(row, reader'[r].snap.version)
    BY <1>1 DEF HeldSane, Visible
  <2>1. CASE reader'[r] = IdleReader
    BY <1>3, <2>1 DEF IdleReader, EmptySnapshot
  <2>2. CASE reader'[r] = [pc |-> "cloned", snap |-> current]
    BY <1>3, <2>2, CurrentColdVisible
  <2>3. CASE \E t \in Reader : reader'[r].snap = reader[t].snap
    BY <2>3 DEF HeldSane
  <2> QED BY <1>4, <2>1, <2>2, <2>3
<1>6. Protected'
  <2> SUFFICES ASSUME NEW r \in Reader, r \notin exposed', reader'[r].pc # "idle",
                      NEW q \in View(reader'[r].snap)
               PROVE  \E row \in current.rows :
                          row.quad = q /\ row.end > reader'[r].snap.version
    BY <1>1 DEF Protected, Shielded, View, Visible
  <2>1. reader'[r] # IdleReader BY DEF IdleReader
  <2>2. CASE reader'[r] = [pc |-> "cloned", snap |-> current]
    BY <2>2, CurrentProtected
  <2>3. CASE \E t \in Reader : /\ reader'[r].snap = reader[t].snap
                               /\ t \notin exposed /\ reader[t].pc # "idle"
    BY <2>3 DEF Protected, Shielded
  <2> QED BY <1>4, <2>1, <2>2, <2>3
<1>7. HorizonBelow'
  <2> SUFFICES ASSUME NEW j \in Janitor, maint[j].pc = "compacting",
                      NEW r \in Reader, r \notin exposed', reader'[r].pc # "idle"
               PROVE  maint[j].horizon <= reader'[r].snap.version
    BY <1>1 DEF HorizonBelow, Shielded
  <2>1. reader'[r] # IdleReader BY DEF IdleReader
  <2>2. CASE reader'[r] = [pc |-> "cloned", snap |-> current]
    BY <2>2 DEF HorizonBelow
  <2>3. CASE \E t \in Reader : /\ reader'[r].snap = reader[t].snap
                               /\ t \notin exposed /\ reader[t].pc # "idle"
    BY <2>3 DEF HorizonBelow, Shielded
  <2> QED BY <1>4, <2>1, <2>2, <2>3
<1> QED BY <1>2, <1>5, <1>6, <1>7

(***************************************************************************)
(* Maintenance preserves it.                                               *)
(***************************************************************************)
\* The heart of the argument: the horizon compaction reads is not above the
\* version of any reader it does not expose.
LEMMA StartHorizon ==
    ASSUME TierInv, NEW j \in Janitor, NEW target, CompactStart(j, target)
    PROVE  HorizonBelow'
<1> USE DEF TierInv
<1>1. PICK h \in Version :
        /\ IsHorizon(h)
        /\ maint' = [maint EXCEPT ![j] =
               [pc |-> "compacting", horizon |-> h, target |-> target]]
  BY DEF CompactStart
<1>2. /\ current' = current /\ reader' = reader
      /\ exposed' = exposed \cup Overtaken /\ WriterFree
  BY DEF CompactStart
<1>3. h \in Nat /\ current.version \in Nat /\ \A v \in Version : pins[v] \in Nat
  BY DEF Version, TypeOK, Snapshot
<1>4. ASSUME NEW r \in Reader, r \notin exposed', reader[r].pc # "idle"
      PROVE  h <= reader[r].snap.version
  <2>1. reader[r].pc = "pinned"
    BY <1>2, <1>4 DEF Overtaken, TypeOK, ReaderState
  <2>2. reader[r].snap.version \in Version /\ pins[reader[r].snap.version] > 0
    BY <2>1, PinnedHasCount
  <2> QED BY <1>1, <1>3, <2>2 DEF IsHorizon, Version
<1>5. h <= current.version
  <2>1. CASE h = current.version BY <1>3, <2>1
  <2>2. CASE pins[h] > 0
    <3>1. Cardinality(PinnedAt(h)) > 0 BY <2>2 DEF PinsCounted
    <3>2. PinnedAt(h) # {} BY <3>1, FS_EmptySet
    <3>3. PICK r \in Reader : reader[r].snap.version = h BY <3>2 DEF PinnedAt
    <3> QED BY <3>3 DEF HeldSane
  <2> QED BY <1>1, <2>1, <2>2 DEF IsHorizon
<1>6. \A k \in Janitor : maint'[k].pc = "compacting" => k = j /\ maint'[k].horizon = h
  BY <1>1, <1>2 DEF WriterFree, TypeOK
<1> QED BY <1>2, <1>4, <1>5, <1>6 DEF HorizonBelow, Shielded

\* The swap of compact() preserves the invariant: what it reclaims ended at or
\* before the horizon, so no protected reader sees it.
LEMMA InvCompactSwap ==
    ASSUME TierInv, NEW j \in Janitor, CompactSwap(j)
    PROVE  RowsSane' /\ LifetimesDisjoint' /\ HeldSane' /\ Protected' /\ HorizonBelow'
<1> USE DEF TierInv
<1>1. /\ current'.version = current.version /\ current'.cold = current.cold
      /\ current'.rows = Reclaim(current.rows, current.cold, maint[j].horizon)
      /\ reader' = reader /\ exposed' = exposed /\ maint[j].pc = "compacting"
  BY DEF CompactSwap, TypeOK, Snapshot
<1>2. current'.rows \subseteq current.rows BY <1>1 DEF Reclaim
<1>3. RowsSane' /\ LifetimesDisjoint'
  BY <1>1, <1>2 DEF RowsSane, LifetimesDisjoint, Live
<1>4. HeldSane' BY <1>1 DEF HeldSane, Visible
<1>5. ASSUME NEW r \in Reader, Shielded(r), NEW q \in View(reader[r].snap)
      PROVE  \E x \in current'.rows : x.quad = q /\ x.end > reader[r].snap.version
  <2>1. PICK y \in current.rows : y.quad = q /\ y.end > reader[r].snap.version
    BY <1>5 DEF Protected
  <2>2. maint[j].horizon <= reader[r].snap.version BY <1>1, <1>5 DEF HorizonBelow
  <2>3. maint[j].horizon \in Nat /\ reader[r].snap.version \in Nat /\ y.end \in Nat
    BY ConstantsAssumption
       DEF TypeOK, JanitorState, ReaderState, Snapshot, Row, Version
  <2>4. y.end > maint[j].horizon BY <2>1, <2>2, <2>3
  <2>5. y \in current'.rows BY <1>1, <2>4 DEF Reclaim
  <2> QED BY <2>1, <2>5
<1>6. Protected' BY <1>1, <1>5 DEF Protected, Shielded, View, Visible
<1>7. \A k \in Janitor : maint'[k].pc = "compacting" => maint'[k] = maint[k]
  <2>1. CASE maint[j].target = NoPartition
    BY <2>1 DEF CompactSwap, TypeOK, IdleJanitor
  <2>2. CASE maint[j].target # NoPartition
    <3>1. maint' = [maint EXCEPT ![j] = [maint[j] EXCEPT !.pc = "demoting"]]
      BY <2>2 DEF CompactSwap
    <3>2. [maint[j] EXCEPT !.pc = "demoting"].pc = "demoting"
      BY DEF TypeOK, JanitorState
    <3> QED BY <3>1, <3>2 DEF TypeOK
  <2> QED BY <2>1, <2>2
<1>8. HorizonBelow' BY <1>1, <1>7 DEF HorizonBelow, Shielded
<1> QED BY <1>3, <1>4, <1>6, <1>8

\* Demotion replaces the rows of a partition without dead rows by one live row
\* for each quad that was live in it.
LEMMA InvDemoteSwap ==
    ASSUME TierInv, NEW j \in Janitor, DemoteSwap(j)
    PROVE  RowsSane' /\ LifetimesDisjoint' /\ HeldSane' /\ Protected' /\ HorizonBelow'
<1> USE DEF TierInv
<1> DEFINE p == maint[j].target
           new == NewRows(VisibleIn(p), current.version)
<1>1. /\ current'.version = current.version /\ current'.cold = current.cold \cup {p}
      /\ current'.rows = {row \in current.rows : ~InPartition(row, p)} \cup new
      /\ reader' = reader /\ exposed' = exposed /\ Demotable(p) /\ WriterFree
      /\ maint' = [maint EXCEPT ![j] = IdleJanitor]
  BY DEF DemoteSwap, TypeOK, Snapshot, Encoded
<1>2. current.version \in Version BY DEF TypeOK, Snapshot
<1>3. VisibleIn(p) \in SUBSET Quad /\ \A q \in VisibleIn(p) : PartitionOf[q] = p
  BY DEF VisibleIn, View
<1>4. /\ new \subseteq Row
      /\ \A row \in new : row.quad \in VisibleIn(p) /\ row.begin = current.version /\ Live(row)
      /\ \A q \in VisibleIn(p) : \E row \in new : row.quad = q
  BY <1>2, <1>3, NewRowsFacts
<1> HIDE DEF new, p
<1>5. \A x \in current'.rows :
        \/ x \in current.rows /\ PartitionOf[x.quad] # p
        \/ x \in new
  BY <1>1 DEF InPartition
<1>6. RowsSane'
  <2> SUFFICES ASSUME NEW x \in current'.rows
               PROVE  /\ x.begin <= current.version
                      /\ Live(x) \/ x.end <= current.version
                      /\ PartitionOf[x.quad] \in current.cold \cup {p} => Live(x)
    BY <1>1 DEF RowsSane, Live
  <2>1. CASE x \in new BY <1>2, <1>4, <2>1 DEF Version
  <2>2. CASE x \in current.rows /\ PartitionOf[x.quad] # p BY <2>2 DEF RowsSane
  <2> QED BY <1>5, <2>1, <2>2
<1>7. LifetimesDisjoint'
  <2> SUFFICES ASSUME NEW a \in current'.rows, NEW b \in current'.rows, a.quad = b.quad, a # b
               PROVE  a.end <= b.begin \/ b.end <= a.begin
    BY DEF LifetimesDisjoint
  <2>1. CASE a \in current.rows /\ b \in current.rows BY <2>1 DEF LifetimesDisjoint
  <2>2. CASE a \in new /\ b \in new
    <3>1. a \in Row /\ b \in Row BY <1>4, <2>2
    <3>2. a = [quad |-> a.quad, begin |-> a.begin, end |-> a.end] BY <3>1 DEF Row
    <3>3. b = [quad |-> b.quad, begin |-> b.begin, end |-> b.end] BY <3>1 DEF Row
    <3>4. a.begin = b.begin /\ a.end = b.end BY <1>4, <2>2 DEF Live
    <3> QED BY <3>2, <3>3, <3>4
  <2>3. ~(a \in new /\ b \notin new) /\ ~(b \in new /\ a \notin new)
    BY <1>3, <1>4, <1>5
  <2> QED BY <1>5, <2>1, <2>2, <2>3
<1>8. HeldSane' BY <1>1 DEF HeldSane, Visible
<1>9. ASSUME NEW r \in Reader, Shielded(r), NEW q \in View(reader[r].snap)
      PROVE  \E x \in current'.rows : x.quad = q /\ x.end > reader[r].snap.version
  <2>1. PICK y \in current.rows : y.quad = q /\ y.end > reader[r].snap.version
    BY <1>9 DEF Protected
  <2>2. CASE ~InPartition(y, p) BY <1>1, <2>1, <2>2
  <2>3. CASE InPartition(y, p)
    <3>1. Live(y) BY <1>1, <2>3 DEF Demotable, HasRetractions
    <3>2. Visible(y, current.version)
      BY <1>2, <3>1, ConstantsAssumption DEF RowsSane, Visible, Live, Version
    <3>3. q \in Quad BY <2>1 DEF TypeOK, Snapshot, Row
    <3>4. q \in VisibleIn(p) BY <2>1, <2>3, <3>2, <3>3 DEF VisibleIn, View, InPartition
    <3>5. PICK x \in new : x.quad = q BY <1>4, <3>4
    <3>6. x.end > reader[r].snap.version
      BY <1>4, <3>1, <2>1 DEF Live
    <3> QED BY <1>1, <3>5, <3>6
  <2> QED BY <2>2, <2>3
<1>10. Protected' BY <1>1, <1>9 DEF Protected, Shielded, View, Visible
<1>11. HorizonBelow'
  BY <1>1 DEF HorizonBelow, WriterFree, TypeOK, IdleJanitor
<1> QED BY <1>6, <1>7, <1>8, <1>10, <1>11

\* Maintenance preserves the invariant.
LEMMA InvMaintain == TierInv /\ Maintain => (RowsSane /\ LifetimesDisjoint /\ HeldSane /\ Protected /\ HorizonBelow)'
<1> SUFFICES ASSUME TierInv, Maintain
             PROVE  RowsSane' /\ LifetimesDisjoint' /\ HeldSane' /\ Protected' /\ HorizonBelow'
  OBVIOUS
<1> USE DEF TierInv
<1>1. ASSUME NEW j \in Janitor, NEW target, CompactStart(j, target)
      PROVE  RowsSane' /\ LifetimesDisjoint' /\ HeldSane' /\ Protected' /\ HorizonBelow'
  <2>1. /\ current' = current /\ reader' = reader /\ exposed' = exposed \cup Overtaken
    BY <1>1 DEF CompactStart
  <2>2. RowsSane' /\ LifetimesDisjoint' /\ HeldSane'
    BY <2>1 DEF RowsSane, LifetimesDisjoint, HeldSane, Live, Visible
  <2>3. Protected' BY <2>1 DEF Protected, Shielded, View, Visible
  <2> QED BY <1>1, <2>2, <2>3, StartHorizon
<1>2. ASSUME NEW j \in Janitor, DemoteRefused(j)
      PROVE  RowsSane' /\ LifetimesDisjoint' /\ HeldSane' /\ Protected' /\ HorizonBelow'
  <2>1. /\ current' = current /\ reader' = reader /\ exposed' = exposed
        /\ \A k \in Janitor : maint'[k].pc # "compacting"
    BY <1>2 DEF DemoteRefused, WriterFree, TypeOK, IdleJanitor
  <2>2. RowsSane' /\ LifetimesDisjoint' /\ HeldSane'
    BY <2>1 DEF RowsSane, LifetimesDisjoint, HeldSane, Live, Visible
  <2>3. Protected' BY <2>1 DEF Protected, Shielded, View, Visible
  <2> QED BY <2>1, <2>2, <2>3 DEF HorizonBelow
<1>3. ASSUME NEW p \in Partition, Promote(p)
      PROVE  RowsSane' /\ LifetimesDisjoint' /\ HeldSane' /\ Protected' /\ HorizonBelow'
  <2>1. /\ current'.rows = current.rows /\ current'.version = current.version
        /\ current'.cold \subseteq current.cold
        /\ reader' = reader /\ exposed' = exposed /\ maint' = maint /\ WriterFree
    BY <1>3 DEF Promote, TypeOK, Snapshot
  <2>2. RowsSane' /\ LifetimesDisjoint' /\ HeldSane'
    BY <2>1 DEF RowsSane, LifetimesDisjoint, HeldSane, Live, Visible
  <2>3. Protected' BY <2>1 DEF Protected, Shielded, View, Visible
  <2> QED BY <2>1, <2>2, <2>3 DEF HorizonBelow, WriterFree
<1> QED BY <1>1, <1>2, <1>3, InvCompactSwap, InvDemoteSwap DEF Maintain

(***************************************************************************)
(* The theorems.                                                           *)
(***************************************************************************)
\* A new tier satisfies the invariant.
LEMMA InvInit == Init => TierInv
<1> SUFFICES ASSUME Init PROVE TierInv
  OBVIOUS
<1>1. TypeOK /\ PinsCounted BY TypeInit, PinsInit
<1>2. /\ current.rows = {} /\ current.version = 0
      /\ \A r \in Reader : /\ reader[r].pc = "idle"
                           /\ reader[r].snap.version = 0 /\ reader[r].snap.rows = {}
      /\ \A j \in Janitor : maint[j].pc = "idle"
  BY DEF Init, EmptySnapshot, IdleReader, IdleJanitor
<1> QED BY <1>1, <1>2
        DEF TierInv, RowsSane, LifetimesDisjoint, HeldSane, Protected, HorizonBelow, Shielded

\* Every step preserves the invariant.
LEMMA InvNext == TierInv /\ [Next]_vars => TierInv'
<1> SUFFICES ASSUME TierInv, [Next]_vars PROVE TierInv'
  OBVIOUS
<1>1. TypeOK' /\ PinsCounted' BY TypeAndPins DEF TierInv
<1>2. CASE Next
  BY <1>1, <1>2, InvWrite, InvRead, InvMaintain DEF Next, TierInv
<1>3. CASE UNCHANGED vars
  BY <1>1, <1>3 DEF vars, TierInv, RowsSane, LifetimesDisjoint, HeldSane, Protected,
                    HorizonBelow, Shielded, View, Visible, Live
<1> QED BY <1>2, <1>3

\* The inductive invariant behind the three theorems below holds of every tier:
\* pins count pinned readers, stamps are in order, lifetimes disjoint, and every
\* reader no compaction overtook is protected from the horizon.
THEOREM InvHolds == Spec => []TierInv
  BY InvInit, InvNext, PTL DEF Spec

\* No quad is ever live twice, and no lifetime overlaps another of its quad,
\* through any sequence of insert, apply and retract batches, compactions and
\* trips through a cold file.
THEOREM LifetimesAlwaysDisjoint == Spec => []LifetimesDisjoint
<1>1. TierInv => LifetimesDisjoint BY DEF TierInv
<1> QED BY <1>1, InvHolds, PTL

\* The argument of demote()'s comment: a reader of any snapshot that holds a
\* cold partition may read the file whole.
THEOREM ColdFilesNeedNoStamps == Spec => []ColdNeedsNoStamps
<1>1. TierInv => ColdNeedsNoStamps
  <2> SUFFICES ASSUME TierInv, NEW snap \in Snapshots, NEW row \in snap.rows,
                      PartitionOf[row.quad] \in snap.cold
               PROVE  Visible(row, snap.version)
    BY DEF ColdNeedsNoStamps
  <2>1. CASE snap = current BY <2>1, CurrentColdVisible DEF TierInv
  <2>2. CASE \E r \in Reader : snap = reader[r].snap BY <2>2 DEF TierInv, HeldSane
  <2> QED BY <2>1, <2>2 DEF Snapshots
<1> QED BY <1>1, InvHolds, PTL

\* Compaction and demotion keep, in the live snapshot, a row of every quad that
\* a pinned reader sees, unless the horizon was read between the reader's
\* clone of the pointer and its pin.
THEOREM PinsRetainRows == Spec => []PinnedRowsRetained
<1>1. TierInv => PinnedRowsRetained
  <2> SUFFICES ASSUME TierInv, NEW r \in Reader \ exposed, reader[r].pc = "pinned",
                      NEW q \in View(reader[r].snap)
               PROVE  q \in StoredQuads(current)
    BY DEF PinnedRowsRetained
  <2>1. \E row \in current.rows : row.quad = q
    BY DEF TierInv, Protected, Shielded
  <2>2. q \in Quad BY DEF View
  <2> QED BY <2>1, <2>2 DEF StoredQuads
<1> QED BY <1>1, InvHolds, PTL

(***************************************************************************)
(* Refinement: the tier implements VersionedSet.  What is visible is what  *)
(* is live, so a batch changes it as its caller asked, and maintenance     *)
(* does not change it at all.                                              *)
(***************************************************************************)
(***************************************************************************)
(* The visible set is the live set.                                        *)
(***************************************************************************)
\* RowsSane of any snapshot, not only of the live one.
Sane(snap) ==
    \A row \in snap.rows :
        /\ row.begin <= snap.version
        /\ Live(row) \/ row.end <= snap.version
        /\ PartitionOf[row.quad] \in snap.cold => Live(row)

\* In a snapshot whose stamps are in order, reading by visibility (a warm
\* partition) or whole (a cold one) yields the quads that have a live row.
LEMMA VisibleIsLive ==
    ASSUME NEW snap \in Snapshot, Sane(snap)
    PROVE  View(snap) = LiveQuads(snap.rows)
<1>1. /\ snap.version \in Nat /\ UNSET_END \in Nat /\ snap.version < UNSET_END
      /\ \A row \in snap.rows : row.begin \in Nat /\ row.end \in Nat
  BY ConstantsAssumption DEF Snapshot, Version, Row
<1>2. ASSUME NEW row \in snap.rows
      PROVE  (PartitionOf[row.quad] \in snap.cold \/ Visible(row, snap.version)) <=> Live(row)
  <2>1. CASE Live(row) BY <1>1, <2>1 DEF Sane, Visible, Live
  <2>2. CASE ~Live(row) BY <1>1, <2>2 DEF Sane, Visible
  <2> QED BY <2>1, <2>2
<1> QED BY <1>2 DEF View, LiveQuads

\* So it is in the live snapshot, before and after every step.
LEMMA ViewIsLive ==
    ASSUME TierInv, TierInv'
    PROVE  /\ View(current) = LiveQuads(current.rows)
           /\ View(current)' = LiveQuads(current'.rows)
<1>1. current \in Snapshot /\ current' \in Snapshot BY DEF TierInv, TypeOK
<1>2. Sane(current) /\ Sane(current')
  BY DEF TierInv, RowsSane, Sane, Live
<1>3. View(current)' = View(current') BY DEF View, Visible
<1> QED BY <1>1, <1>2, <1>3, VisibleIsLive

(***************************************************************************)
(* What each operation does to the live set.                               *)
(***************************************************************************)
\* insert_at adds its quads.
LEMMA InsertLive ==
    ASSUME TierInv, NEW quads \in SUBSET Quad, InsertBatch(quads)
    PROVE  LiveQuads(current'.rows) = LiveQuads(current.rows) \cup quads
<1> DEFINE new == NewRows(quads, NewVersion)
           all == current.rows \cup new
<1>1. current'.rows = SortDedup(all) /\ ClockNotFull
  BY DEF InsertBatch, Install
<1>2. NewVersion \in Version BY <1>1, NewVersionType DEF TierInv
<1>3. /\ \A row \in new : row.quad \in quads /\ row.begin = NewVersion /\ Live(row)
      /\ \A q \in quads : \E row \in new : row.quad = q
  BY <1>2, NewRowsFacts
<1>4. \A row \in current.rows : row \in current'.rows
  BY <1>1, InsertKeeps DEF TierInv
<1> HIDE DEF new
<1>5. \A row \in current'.rows : row \in current.rows \/ row \in new
  BY <1>1 DEF SortDedup
<1>6. ASSUME NEW q \in quads PROVE \E row \in current'.rows : row.quad = q /\ Live(row)
  <2>1. CASE \E row \in current.rows : row.quad = q /\ Live(row) BY <1>4, <2>1
  <2>2. CASE ~ \E row \in current.rows : row.quad = q /\ Live(row)
    <3>1. PICK row \in new : row.quad = q BY <1>3
    <3>2. \A other \in all : (other.quad = row.quad /\ Live(other)) => row.begin <= other.begin
      BY <1>2, <1>3, <2>2, <3>1 DEF Version
    <3>3. row \in SortDedup(all) BY <3>2 DEF SortDedup
    <3> QED BY <1>1, <1>3, <3>1, <3>3
  <2> QED BY <2>1, <2>2
<1> QED BY <1>3, <1>4, <1>5, <1>6 DEF LiveQuads

\* Ending the live rows of some quads takes those quads, and no other, from the
\* live set.
LEMMA EndedLive ==
    ASSUME TierInv, ClockNotFull, NEW dels \in SUBSET Quad
    PROVE  LiveQuads(EndRows(current.rows, dels, NewVersion)) = LiveQuads(current.rows) \ dels
<1> DEFINE old == EndRows(current.rows, dels, NewVersion)
<1>1. NewVersion \in Version /\ NewVersion > 0 BY NewVersionType DEF TierInv
<1>2. current.rows \in SUBSET Row BY DEF TierInv, TypeOK, Snapshot
<1>3. /\ \A x \in old :
            \/ x \in current.rows /\ ~(Live(x) /\ x.quad \in dels)
            \/ x.end = NewVersion
      /\ \A y \in current.rows : \E x \in old :
            x.quad = y.quad /\ (IF Live(y) /\ y.quad \in dels THEN x.end = NewVersion ELSE x = y)
  BY <1>1, <1>2, EndRowsFacts
<1>4. NewVersion # UNSET_END BY ConstantsAssumption, <1>1 DEF Version
<1> HIDE DEF old
<1>5. ASSUME NEW q \in LiveQuads(old) PROVE q \in LiveQuads(current.rows) \ dels
  BY <1>3, <1>4 DEF LiveQuads, Live
<1>6. ASSUME NEW q \in LiveQuads(current.rows) \ dels PROVE q \in LiveQuads(old)
  <2>1. q \in Quad /\ \E y \in current.rows : y.quad = q /\ Live(y) BY DEF LiveQuads
  <2>2. PICK y \in current.rows : y.quad = q /\ Live(y) BY <2>1
  <2>3. y \in old BY <1>3, <2>2
  <2> QED BY <2>1, <2>2, <2>3 DEF LiveQuads
<1> QED BY <1>5, <1>6 DEF old

\* retract_quad_batch removes its quads.
LEMMA RetractLive ==
    ASSUME TierInv, NEW quads \in SUBSET Quad, RetractBatch(quads)
    PROVE  LiveQuads(current'.rows) = LiveQuads(current.rows) \ quads
<1>1. current'.rows = EndRows(current.rows, quads, NewVersion) /\ ClockNotFull
  BY DEF RetractBatch, Install
<1> QED BY <1>1, EndedLive

\* apply_at deletes, then inserts: an insertion dropped as not genuine was live
\* and not deleted.
LEMMA ApplyLive ==
    ASSUME TierInv, NEW dels \in SUBSET Quad, NEW adds \in SUBSET Quad, ApplyBatch(dels, adds)
    PROVE  LiveQuads(current'.rows) = (LiveQuads(current.rows) \ dels) \cup adds
<1> DEFINE fresh == Genuine(current.rows, dels, adds)
           old == EndRows(current.rows, dels, NewVersion)
           new == NewRows(fresh, NewVersion)
<1>1. current'.rows = old \cup new /\ ClockNotFull
  BY DEF ApplyBatch, Install
<1>2. NewVersion \in Version BY <1>1, NewVersionType DEF TierInv
<1>3. fresh \in SUBSET Quad BY DEF Genuine
<1>4. LiveQuads(new) = fresh
  <2>1. /\ \A row \in new : row.quad \in fresh /\ Live(row)
        /\ \A q \in fresh : \E row \in new : row.quad = q
    BY <1>2, <1>3, NewRowsFacts
  <2> QED BY <1>3, <2>1 DEF LiveQuads
<1>5. LiveQuads(old) = LiveQuads(current.rows) \ dels BY <1>1, EndedLive
<1>6. LiveQuads(old \cup new) = LiveQuads(old) \cup LiveQuads(new) BY DEF LiveQuads
<1>7. (LiveQuads(current.rows) \ dels) \cup fresh = (LiveQuads(current.rows) \ dels) \cup adds
  BY DEF Genuine
<1> QED BY <1>1, <1>4, <1>5, <1>6, <1>7

\* compact(), demote() and promote() leave the live set and the clock alone.
LEMMA MaintainLive ==
    ASSUME TierInv, Maintain
    PROVE  /\ LiveQuads(current'.rows) = LiveQuads(current.rows)
           /\ current'.version = current.version
           /\ reader' = reader
<1> USE DEF TierInv
<1>1. ASSUME NEW j \in Janitor, CompactSwap(j)
      PROVE  LiveQuads(current'.rows) = LiveQuads(current.rows) /\ current'.version = current.version
  <2>1. /\ current'.rows = Reclaim(current.rows, current.cold, maint[j].horizon)
        /\ current'.version = current.version /\ maint[j].pc = "compacting"
    BY <1>1 DEF CompactSwap, TypeOK, Snapshot
  <2>2. maint[j].horizon < UNSET_END
    BY ConstantsAssumption DEF TypeOK, JanitorState, Version
  <2>3. \A row \in current.rows : Live(row) => row \in current'.rows
    BY <2>1, <2>2 DEF Reclaim, Live
  <2>4. current'.rows \subseteq current.rows BY <2>1 DEF Reclaim
  <2> QED BY <2>1, <2>3, <2>4 DEF LiveQuads
<1>2. ASSUME NEW j \in Janitor, DemoteSwap(j)
      PROVE  LiveQuads(current'.rows) = LiveQuads(current.rows) /\ current'.version = current.version
  <2> DEFINE p == maint[j].target
             new == NewRows(VisibleIn(p), current.version)
  <2>1. /\ current'.version = current.version
        /\ current'.rows = {row \in current.rows : ~InPartition(row, p)} \cup new
    BY <1>2 DEF DemoteSwap, TypeOK, Snapshot, Encoded
  <2>2. current \in Snapshot /\ Sane(current) BY DEF TypeOK, RowsSane, Sane
  <2>3. VisibleIn(p) = {q \in LiveQuads(current.rows) : PartitionOf[q] = p}
    BY <2>2, VisibleIsLive DEF VisibleIn
  <2>4. VisibleIn(p) \in SUBSET Quad BY DEF VisibleIn, View
  <2>5. /\ \A row \in new : row.quad \in VisibleIn(p) /\ Live(row)
        /\ \A q \in VisibleIn(p) : \E row \in new : row.quad = q
    BY <2>2, <2>4, NewRowsFacts DEF Snapshot
  <2> HIDE DEF p, new
  <2>6. ASSUME NEW q \in LiveQuads(current'.rows) PROVE q \in LiveQuads(current.rows)
    BY <2>1, <2>3, <2>5 DEF LiveQuads
  <2>7. ASSUME NEW q \in LiveQuads(current.rows) PROVE q \in LiveQuads(current'.rows)
    <3>1. CASE PartitionOf[q] = p BY <2>1, <2>3, <2>5, <3>1 DEF LiveQuads
    <3>2. CASE PartitionOf[q] # p BY <2>1, <3>2 DEF LiveQuads, InPartition
    <3> QED BY <3>1, <3>2
  <2> QED BY <2>1, <2>6, <2>7
<1>3. ASSUME NEW p \in Partition, Promote(p)
      PROVE  LiveQuads(current'.rows) = LiveQuads(current.rows) /\ current'.version = current.version
  BY <1>3 DEF Promote, TypeOK, Snapshot
<1>4. ASSUME NEW j \in Janitor, NEW target, CompactStart(j, target) \/ DemoteRefused(j)
      PROVE  current' = current
  BY <1>4 DEF CompactStart, DemoteRefused
<1>5. reader' = reader
  BY DEF Maintain, CompactStart, CompactSwap, DemoteSwap, DemoteRefused, Promote
<1>6. \/ \E j \in Janitor : CompactSwap(j)
      \/ \E j \in Janitor : DemoteSwap(j)
      \/ \E p \in Partition : Promote(p)
      \/ \E j \in Janitor : \E target \in Partition \cup {NoPartition} :
            CompactStart(j, target) \/ DemoteRefused(j)
  BY DEF Maintain
<1> QED BY <1>1, <1>2, <1>3, <1>4, <1>5, <1>6

(***************************************************************************)
(* The theorems.                                                           *)
(***************************************************************************)
\* Deletions first, then insertions, whatever dead rows, cold partitions and
\* pending compactions the batch meets: the effect that apply_at, insert_at and
\* retract_quad_batch have on the visible set, computed from stamps, is the one
\* their callers asked for.
THEOREM BatchesDoWhatIsAsked == Spec => BatchEffect
<1>1. ASSUME TierInv, TierInv' PROVE BatchStep
  BY <1>1, ViewIsLive, InsertLive, RetractLive, ApplyLive DEF BatchStep
<1>2. TierInv /\ TierInv' => [BatchStep]_current BY <1>1
<1> QED BY <1>2, InvHolds, PTL DEF BatchEffect

\* The abstract view of a reader handle: the mapping of `views`.
ViewOf(rd) ==
    IF rd.pc = "idle" THEN [open |-> FALSE, version |-> 0, quads |-> {}]
    ELSE [open |-> TRUE, version |-> rd.snap.version, quads |-> View(rd.snap)]

Views == [r \in Reader |-> ViewOf(reader[r])]

\* A batch is a commit of the abstract set.
LEMMA WriteCommits ==
    ASSUME TierInv, TierInv', Write
    PROVE  Abstract!ANext
<1>1. BatchRows BY WriteRows DEF TierInv
<1>2. current'.version = current.version + 1 /\ reader' = reader
  BY <1>1 DEF BatchRows, NewVersion
<1>3. \E dels, adds \in SUBSET Quad : View(current)' = (View(current) \ dels) \cup adds
  <2>1. ASSUME NEW quads \in SUBSET Quad, InsertBatch(quads)
        PROVE  View(current)' = (View(current) \ {}) \cup quads
    BY <2>1, ViewIsLive, InsertLive
  <2>2. ASSUME NEW quads \in SUBSET Quad, RetractBatch(quads)
        PROVE  View(current)' = (View(current) \ quads) \cup {}
    BY <2>2, ViewIsLive, RetractLive
  <2>3. ASSUME NEW dels \in SUBSET Quad, NEW adds \in SUBSET Quad, ApplyBatch(dels, adds)
        PROVE  View(current)' = (View(current) \ dels) \cup adds
    BY <2>3, ViewIsLive, ApplyLive
  <2>4. \/ \E quads \in SUBSET Quad : InsertBatch(quads)
        \/ \E quads \in SUBSET Quad : RetractBatch(quads)
        \/ \E dels, adds \in SUBSET Quad : ApplyBatch(dels, adds)
    BY DEF Write
  <2>5. CASE \E quads \in SUBSET Quad : InsertBatch(quads)
    <3>1. PICK quads \in SUBSET Quad : InsertBatch(quads) BY <2>5
    <3> WITNESS {} \in SUBSET Quad, quads \in SUBSET Quad
    <3> QED BY <2>1, <3>1
  <2>6. CASE \E quads \in SUBSET Quad : RetractBatch(quads)
    <3>1. PICK quads \in SUBSET Quad : RetractBatch(quads) BY <2>6
    <3> WITNESS quads \in SUBSET Quad, {} \in SUBSET Quad
    <3> QED BY <2>2, <3>1
  <2>7. CASE \E dels, adds \in SUBSET Quad : ApplyBatch(dels, adds)
    BY <2>3, <2>7
  <2> QED BY <2>4, <2>5, <2>6, <2>7
<1>4. Views' = Views BY <1>2 DEF Views, ViewOf, View, Visible
<1> QED BY <1>2, <1>3, <1>4 DEF Abstract!ANext, Abstract!ACommit, Views, ViewOf

\* A reader that clones the pointer opens the abstract set, one that repins
\* shares it, one that drops its pin closes it; registering the pin is a
\* stutter.
LEMMA ReadRefines ==
    ASSUME TierInv, Read
    PROVE  Abstract!ANext \/ UNCHANGED Abstract!avars
<1>1. current' = current /\ View(current)' = View(current)
  BY DEF Read, SnapshotClone, SnapshotPin, DropPin, Repin, View, Visible
<1>2. \A r \in Reader : Views[r] = ViewOf(reader[r]) /\ Views'[r] = ViewOf(reader'[r])
  BY DEF Views, ViewOf, View, Visible
<1>3. \A r \in Reader : ViewOf(reader[r]).open <=> reader[r].pc # "idle"
  BY DEF ViewOf
<1>4. ASSUME NEW r \in Reader, SnapshotClone(r) PROVE Abstract!AOpen(r)
  <2>1. /\ reader[r].pc = "idle"
        /\ reader' = [reader EXCEPT ![r] = [pc |-> "cloned", snap |-> current]]
    BY <1>4 DEF SnapshotClone
  <2>2. ViewOf(reader'[r]) = Abstract!Opened(current.version, View(current))
    BY <2>1 DEF ViewOf, Abstract!Opened, TierInv, TypeOK
  <2>3. \A t \in Reader \ {r} : reader'[t] = reader[t] BY <2>1 DEF TierInv, TypeOK
  <2>4. Views' = [Views EXCEPT ![r] = Abstract!Opened(current.version, View(current))]
    BY <1>2, <2>2, <2>3 DEF Views
  <2>5. ~Views[r].open BY <1>2, <1>3, <2>1
  <2> QED BY <1>1, <2>4, <2>5 DEF Abstract!AOpen, Views, ViewOf
<1>5. ASSUME NEW r \in Reader, SnapshotPin(r) PROVE UNCHANGED Abstract!avars
  <2>1. /\ reader[r].pc = "cloned" /\ reader'[r].pc = "pinned"
        /\ reader'[r].snap = reader[r].snap
        /\ \A t \in Reader \ {r} : reader'[t] = reader[t]
    BY <1>5 DEF SnapshotPin, TierInv, TypeOK, ReaderState
  <2>2. \A t \in Reader : ViewOf(reader'[t]) = ViewOf(reader[t])
    BY <2>1 DEF ViewOf
  <2>3. Views' = Views BY <1>2, <2>2 DEF Views
  <2> QED BY <1>1, <2>3 DEF Abstract!avars, Views, ViewOf
<1>6. ASSUME NEW r \in Reader, DropPin(r) PROVE Abstract!AClose(r)
  <2>1. reader[r].pc = "pinned" /\ reader' = [reader EXCEPT ![r] = IdleReader]
    BY <1>6 DEF DropPin
  <2>2. ViewOf(reader'[r]) = Abstract!Closed
    BY <2>1 DEF ViewOf, IdleReader, Abstract!Closed, TierInv, TypeOK
  <2>3. \A t \in Reader \ {r} : reader'[t] = reader[t] BY <2>1 DEF TierInv, TypeOK
  <2>4. Views' = [Views EXCEPT ![r] = Abstract!Closed]
    BY <1>2, <2>2, <2>3 DEF Views
  <2>5. Views[r].open BY <1>2, <1>3, <2>1
  <2> QED BY <1>1, <2>4, <2>5 DEF Abstract!AClose, Views, ViewOf
<1>7. ASSUME NEW r \in Reader, NEW s \in Reader, Repin(r, s) PROVE Abstract!AShare(r, s)
  <2>1. /\ reader[r].pc = "pinned" /\ reader[s].pc = "idle"
        /\ reader' = [reader EXCEPT ![s] = reader[r]]
    BY <1>7 DEF Repin
  <2>2. ViewOf(reader'[s]) = ViewOf(reader[r]) BY <2>1 DEF TierInv, TypeOK
  <2>3. \A t \in Reader \ {s} : reader'[t] = reader[t] BY <2>1 DEF TierInv, TypeOK
  <2>4. Views' = [Views EXCEPT ![s] = Views[r]]
    BY <1>2, <2>2, <2>3 DEF Views
  <2>5. Views[r].open /\ ~Views[s].open BY <1>2, <1>3, <2>1
  <2> QED BY <1>1, <2>4, <2>5 DEF Abstract!AShare, Views, ViewOf
<1> QED BY <1>4, <1>5, <1>6, <1>7 DEF Read, Abstract!ANext

\* compact(), demote() and promote() are invisible.
LEMMA MaintainStutters ==
    ASSUME TierInv, TierInv', Maintain
    PROVE  UNCHANGED Abstract!avars
<1>1. View(current)' = View(current) /\ current'.version = current.version /\ reader' = reader
  BY ViewIsLive, MaintainLive
<1>2. Views' = Views BY <1>1 DEF Views, ViewOf, View, Visible
<1> QED BY <1>1, <1>2 DEF Abstract!avars, Views, ViewOf

\* The tier implements a versioned set: a batch is one commit at the next
\* version, a reader keeps the set it opened, and compaction, demotion,
\* promotion and the pin table are invisible.
THEOREM TierImplementsVersionedSet == Spec => ImplementsVersionedSet
<1>1. Init => Abstract!AInit
  <2> SUFFICES ASSUME Init PROVE Abstract!AInit
    OBVIOUS
  <2>1. current.version = 0 /\ View(current) = {}
    BY DEF Init, EmptySnapshot, View
  <2>2. Views = [r \in Reader |-> Abstract!Closed]
    BY DEF Init, Views, ViewOf, IdleReader, Abstract!Closed
  <2> QED BY <2>1, <2>2 DEF Abstract!AInit, Views, ViewOf
<1>2. TierInv /\ TierInv' /\ [Next]_vars => [Abstract!ANext]_(Abstract!avars)
  <2> SUFFICES ASSUME TierInv, TierInv', [Next]_vars
               PROVE  Abstract!ANext \/ UNCHANGED Abstract!avars
    OBVIOUS
  <2>1. CASE UNCHANGED vars
    BY <2>1 DEF vars, Abstract!avars, View, Visible
  <2> QED BY <2>1, WriteCommits, ReadRefines, MaintainStutters DEF Next
<1> QED BY <1>1, <1>2, InvHolds, PTL DEF Spec, ImplementsVersionedSet, Abstract!ASpec

-----------------------------------------------------------------------------
(* The store: writes and the dictionary sweep.                               *)

WriterState == [pc : {"idle", "missed", "holding"}, op : {"none", "insert", "delete"},
                term : Term \cup {Free}, id : 0 .. MaxSlot]
GcState == [pc : {"idle", "log", "size", "mark", "recheck", "sweep"}, slots : 0 .. MaxSlot,
            marks : SUBSET Index, version : Version]

\* Types of the store's variables: StoreTypeOK with the shape of every record.
StoreTypes ==
    /\ slot \in [Index -> Term \cup {Free}]
    /\ dictLen \in 0 .. MaxSlot /\ loggedLen \in 0 .. dictLen
    /\ writer \in [Writer -> WriterState]
    /\ gc \in [Janitor -> GcState]
    /\ opened \in [Reader -> [Index -> Term \cup {Free}]]
    /\ overlapped \in BOOLEAN
    /\ \A w \in Writer :
        /\ writer[w].pc # "idle" => writer[w].term \in Term
        /\ writer[w].pc = "holding" => writer[w].id \in 1 .. dictLen
    /\ \A j \in Janitor : gc[j].slots \in 0 .. dictLen

\* Slots past the last index issued are free, and no term has two of the others.
DictInv == (\A i \in Index : i > dictLen => slot[i] = Free) /\ OneIndexPerTerm

\* Nobody writes while somebody compacts.
Apart == ~(CompactingStore /\ Writing)

\* The index a writer is about to store resolves.
HeldIdsResolve == \A w \in Writer : writer[w].pc = "holding" => slot[writer[w].id] # Free

\* Every stored row, dead or alive, names a term that resolves.
StoredResolve == \A i \in StoredQuads(current) : slot[i] # Free

\* From its rows-less record to its sweep, compact() finds every index logged.
SweepLogged ==
    \A j \in Janitor :
        gc[j].pc \in {"size", "mark", "recheck", "sweep"} => loggedLen = dictLen

\* What is stored when the sweep runs was stored when the marks were taken.
MarksCover ==
    \A j \in Janitor :
        gc[j].pc \in {"recheck", "sweep"} => StoredQuads(current) \subseteq gc[j].marks

\* Each id that a reader no compaction overtook sees means what it meant.
ViewsKeepMeaning ==
    \A r \in Reader : Shielded(r) =>
        \A i \in View(reader[r].snap) : slot[i] = opened[r][i]

Quiet ==
    /\ Apart /\ HeldIdsResolve /\ StoredResolve /\ Loggable
    /\ SweepLogged /\ MarksCover /\ ViewsKeepMeaning

StoreInv ==
    /\ TierInv /\ StoreTypes /\ DictInv
    /\ ~overlapped => Quiet

(***************************************************************************)
(* The store drives the tier: each of its steps is a tier step or none.    *)
(***************************************************************************)
\* An index is a quad of the tier, and a writer's batch names quads.
LEMMA BatchOfWriter ==
    ASSUME StoreTypes, NEW w \in Writer, writer[w].pc = "holding"
    PROVE  /\ writer[w].id \in Quad
           /\ Dels(w) \in SUBSET Quad /\ Adds(w) \in SUBSET Quad
           /\ Dels(w) \cup Adds(w) \subseteq {writer[w].id}
<1>1. writer[w].id \in 1 .. MaxSlot BY StoreAssumption DEF StoreTypes
<1> QED BY <1>1, StoreAssumption DEF Dels, Adds

\* Every step of the store is a step of the tier or leaves the tier alone.
LEMMA StoreStepIsTierStep == StoreTypes /\ [StoreNext]_allVars => [Next]_vars
<1> SUFFICES ASSUME StoreTypes, [StoreNext]_allVars PROVE Next \/ UNCHANGED vars
  OBVIOUS
<1>1. CASE WriteStep
  <2>1. PICK w \in Writer :
          \/ \E t \in Term : ProbeMiss(w, t) \/ \E op \in {"insert", "delete"} : ProbeHit(w, op, t)
          \/ InternMiss(w) \/ InternFull(w) \/ WriteCommit(w) \/ WriteFail(w)
    BY <1>1 DEF WriteStep
  <2>2. CASE WriteCommit(w)
    <3>1. writer[w].pc = "holding" BY <2>2 DEF WriteCommit
    <3>2. ApplyBatch(Dels(w), Adds(w)) \/ UNCHANGED vars BY <2>2 DEF WriteCommit
    <3>3. Dels(w) \in SUBSET Quad /\ Adds(w) \in SUBSET Quad BY <3>1, BatchOfWriter
    <3> QED BY <3>2, <3>3 DEF Next, Write
  <2>3. CASE ~WriteCommit(w)
    BY <2>1, <2>3 DEF ProbeMiss, ProbeHit, InternMiss, InternFull, WriteFail
  <2> QED BY <2>2, <2>3
<1>2. CASE GcStep
  <2>1. PICK j \in Janitor :
          \/ TierCompactStart(j) \/ TierCompactSwap(j)
          \/ \E p \in Partition : TierDemoteStart(j, p)
          \/ GcLog(j) \/ GcLogFails(j) \/ GcSize(j) \/ GcMark(j) \/ GcRecheck(j) \/ GcSweep(j)
    BY <1>2 DEF GcStep
  <2>2. CASE TierCompactStart(j) \/ TierCompactSwap(j) \/ \E p \in Partition : TierDemoteStart(j, p)
    BY <2>2 DEF TierCompactStart, TierCompactSwap, TierDemoteStart, Next, Maintain
  <2>3. CASE GcLog(j) \/ GcLogFails(j) \/ GcSize(j) \/ GcMark(j) \/ GcRecheck(j) \/ GcSweep(j)
    BY <2>3 DEF GcLog, GcLogFails, GcSize, GcMark, GcRecheck, GcSweep
  <2> QED BY <2>1, <2>2, <2>3
<1>3. CASE TierStep
  BY <1>3 DEF TierStep, Next, Read, Maintain
<1>4. CASE \/ \E r \in Reader : StoreSnapshot(r)
           \/ \E r, s \in Reader : StoreSnapshotAt(r, s)
  BY <1>4 DEF StoreSnapshot, StoreSnapshotAt, Next, Read
<1>5. CASE UNCHANGED allVars BY <1>5 DEF allVars
<1> QED BY <1>1, <1>2, <1>3, <1>4, <1>5 DEF StoreNext

(***************************************************************************)
(* Types.                                                                  *)
(***************************************************************************)
\* The idle records of a writer and of a janitor are of their types.
LEMMA IdleTypes == /\ NoOp \in WriterState /\ NoOp.pc = "idle"
                   /\ GcIdle \in GcState /\ GcIdle.slots = 0 /\ GcIdle.pc = "idle"
  BY StoreAssumption, ConstantsAssumption DEF NoOp, GcIdle, WriterState, GcState, Version

\* A new store is well typed.
LEMMA StoreTypesInit == StoreInit => StoreTypes
<1> SUFFICES ASSUME StoreInit PROVE StoreTypes
  OBVIOUS
<1>1. slot \in [Index -> Term \cup {Free}] BY DEF StoreInit
<1>2. opened \in [Reader -> [Index -> Term \cup {Free}]] BY <1>1 DEF StoreInit
<1>3. dictLen \in 0 .. MaxSlot /\ loggedLen \in 0 .. dictLen /\ dictLen = 0
  BY StoreAssumption DEF StoreInit
<1>4. overlapped \in BOOLEAN BY DEF StoreInit
<1>5. writer \in [Writer -> WriterState] /\ \A w \in Writer : writer[w].pc = "idle"
  BY IdleTypes DEF StoreInit
<1>6. gc \in [Janitor -> GcState] /\ \A j \in Janitor : gc[j].slots = 0
  BY IdleTypes DEF StoreInit
<1> QED BY <1>1, <1>2, <1>3, <1>4, <1>5, <1>6 DEF StoreTypes

\* A write keeps the store well typed.
LEMMA StoreTypesWrite ==
    ASSUME StoreTypes, WriteStep
    PROVE  StoreTypes'
<1>0. PICK w \in Writer :
        \/ \E t \in Term : ProbeMiss(w, t) \/ \E op \in {"insert", "delete"} : ProbeHit(w, op, t)
        \/ InternMiss(w) \/ InternFull(w) \/ WriteCommit(w) \/ WriteFail(w)
  BY DEF WriteStep
<1>1. ASSUME NEW t \in Term, NEW op \in {"insert", "delete"}, NEW i \in 1 .. dictLen
      PROVE  /\ Holding(op, t, i) \in WriterState /\ Holding(op, t, i).pc = "holding"
             /\ Holding(op, t, i).term = t /\ Holding(op, t, i).id = i
  BY StoreAssumption DEF Holding, WriterState, StoreTypes
<1>2. ASSUME NEW t \in Term, ProbeMiss(w, t) PROVE StoreTypes'
  <2> DEFINE m == [pc |-> "missed", op |-> "insert", term |-> t, id |-> 0]
  <2>1. m \in WriterState /\ m.pc = "missed" /\ m.term = t
    BY StoreAssumption DEF WriterState
  <2>2. overlapped' \in BOOLEAN BY <1>2 DEF ProbeMiss, NoteWrite
  <2>3. UNCHANGED <<slot, dictLen, loggedLen, gc, opened>> /\ writer' = [writer EXCEPT ![w] = m]
    BY <1>2 DEF ProbeMiss, dictVars
  <2> HIDE DEF m
  <2> QED BY <2>1, <2>2, <2>3 DEF StoreTypes
<1>3. ASSUME NEW t \in Term, NEW op \in {"insert", "delete"}, ProbeHit(w, op, t)
      PROVE  StoreTypes'
  <2>1. PICK i \in 1 .. dictLen : writer' = [writer EXCEPT ![w] = Holding(op, t, i)]
    BY <1>3 DEF ProbeHit, IdsOf
  <2>2. overlapped' \in BOOLEAN BY <1>3 DEF ProbeHit, NoteWrite
  <2>3. UNCHANGED <<slot, dictLen, loggedLen, gc, opened>> BY <1>3 DEF ProbeHit, dictVars
  <2> QED BY <1>1, <2>1, <2>2, <2>3 DEF StoreTypes
<1>4. ASSUME InternMiss(w) PROVE StoreTypes'
  <2> DEFINE t == writer[w].term
  <2>1. t \in Term BY <1>4 DEF InternMiss, StoreTypes
  <2>2. UNCHANGED <<gc, opened, overlapped, loggedLen>>
    BY <1>4 DEF InternMiss, dictVars
  <2>3. CASE UNCHANGED dictVars /\ \E i \in IdsOf(t) : writer' = [writer EXCEPT ![w] = Holding("insert", t, i)]
    <3>1. PICK i \in 1 .. dictLen : writer' = [writer EXCEPT ![w] = Holding("insert", t, i)]
      BY <2>3 DEF IdsOf
    <3> HIDE DEF t
    <3> QED BY <1>1, <2>1, <2>2, <2>3, <3>1 DEF StoreTypes, dictVars
  <2>4. CASE /\ dictLen < MaxSlot /\ dictLen' = dictLen + 1
             /\ slot' = [slot EXCEPT ![dictLen + 1] = t]
             /\ writer' = [writer EXCEPT ![w] = Holding("insert", t, dictLen + 1)]
    <3> HIDE DEF t
    <3>1. /\ dictLen' \in 0 .. MaxSlot /\ loggedLen' \in 0 .. dictLen'
          /\ dictLen + 1 \in 1 .. dictLen' /\ 1 .. dictLen \subseteq 1 .. dictLen'
          /\ 0 .. dictLen \subseteq 0 .. dictLen'
      BY StoreAssumption, <2>2, <2>4 DEF StoreTypes
    <3>2. slot' \in [Index -> Term \cup {Free}] BY <2>1, <2>4 DEF StoreTypes
    <3>3. /\ Holding("insert", t, dictLen + 1) \in WriterState
          /\ Holding("insert", t, dictLen + 1).term = t
          /\ Holding("insert", t, dictLen + 1).id = dictLen + 1
      BY <2>1, <3>1, <2>4, StoreAssumption DEF Holding, WriterState, StoreTypes
    <3> QED BY <2>1, <2>2, <2>4, <3>1, <3>2, <3>3 DEF StoreTypes
  <2> QED BY <1>4, <2>3, <2>4 DEF InternMiss
<1>5. ASSUME InternFull(w) \/ WriteFail(w) PROVE StoreTypes'
  <2>1. /\ UNCHANGED <<slot, dictLen, loggedLen, gc, opened, overlapped>>
        /\ writer' = [writer EXCEPT ![w] = NoOp]
    BY <1>5 DEF InternFull, WriteFail, dictVars
  <2> QED BY <2>1, IdleTypes DEF StoreTypes
<1>6. ASSUME WriteCommit(w) PROVE StoreTypes'
  <2>1. /\ UNCHANGED <<slot, dictLen, gc, opened, overlapped>> /\ loggedLen' = dictLen
        /\ writer' = [writer EXCEPT ![w] = NoOp]
    BY <1>6 DEF WriteCommit
  <2>2. loggedLen' \in 0 .. dictLen' BY <2>1 DEF StoreTypes
  <2> QED BY <2>1, <2>2, IdleTypes DEF StoreTypes
<1> QED BY <1>0, <1>2, <1>3, <1>4, <1>5, <1>6


\* Compaction, and each step of the sweep, keeps the store well typed.
LEMMA StoreTypesGc ==
    ASSUME TypeOK, StoreTypes, GcStep
    PROVE  StoreTypes'
<1>0. PICK j \in Janitor :
        \/ TierCompactStart(j) \/ TierCompactSwap(j)
        \/ \E p \in Partition : TierDemoteStart(j, p)
        \/ GcLog(j) \/ GcLogFails(j) \/ GcSize(j) \/ GcMark(j) \/ GcRecheck(j) \/ GcSweep(j)
  BY DEF GcStep
<1>1. ASSUME NEW g, g \in GcState, g.slots \in 0 .. dictLen, gc' = [gc EXCEPT ![j] = g],
             UNCHANGED <<slot, dictLen, writer, opened, overlapped>>,
             loggedLen' = loggedLen \/ loggedLen' = dictLen
      PROVE  StoreTypes'
  <2>1. loggedLen' \in 0 .. dictLen' BY <1>1 DEF StoreTypes
  <2> QED BY <1>1, <2>1 DEF StoreTypes
<1>2. /\ gc[j] \in GcState /\ gc[j].slots \in 0 .. dictLen
      /\ 0 \in 0 .. dictLen /\ dictLen \in 0 .. dictLen /\ dictLen \in 0 .. MaxSlot
  BY StoreAssumption DEF StoreTypes
<1>3. CASE TierCompactStart(j)
  <2>1. overlapped' \in BOOLEAN BY <1>3 DEF TierCompactStart, NoteCompact
  <2>2. UNCHANGED <<slot, dictLen, loggedLen, writer, gc, opened>>
    BY <1>3 DEF TierCompactStart, dictVars
  <2> QED BY <2>1, <2>2 DEF StoreTypes
<1>4. CASE \E p \in Partition : TierDemoteStart(j, p)
  BY <1>4 DEF TierDemoteStart, storeVars, dictVars, StoreTypes
<1>5. CASE TierCompactSwap(j)
  <2>1. /\ UNCHANGED <<slot, dictLen, loggedLen, writer, opened, overlapped>>
        /\ gc' = gc \/ gc' = [gc EXCEPT ![j].pc = "log"]
    BY <1>5 DEF TierCompactSwap, dictVars
  <2>2. CASE gc' = gc BY <2>1, <2>2 DEF StoreTypes
  <2>3. CASE gc' = [gc EXCEPT ![j].pc = "log"]
    <3>1. /\ [gc[j] EXCEPT !.pc = "log"] \in GcState
          /\ [gc[j] EXCEPT !.pc = "log"].slots = gc[j].slots
      BY <1>2 DEF GcState
    <3> QED BY <1>1, <1>2, <2>1, <2>3, <3>1
  <2> QED BY <2>1, <2>2, <2>3
<1>6. CASE GcLog(j)
  <2>1. /\ UNCHANGED <<slot, dictLen, writer, opened, overlapped>> /\ loggedLen' = dictLen
        /\ gc' = [gc EXCEPT ![j].pc = "size"]
    BY <1>6 DEF GcLog
  <2>2. /\ [gc[j] EXCEPT !.pc = "size"] \in GcState
        /\ [gc[j] EXCEPT !.pc = "size"].slots = gc[j].slots
    BY <1>2 DEF GcState
  <2> QED BY <1>1, <1>2, <2>1, <2>2
<1>7. CASE GcLogFails(j)
  <2>1. /\ UNCHANGED <<slot, dictLen, loggedLen, writer, opened, overlapped>>
        /\ gc' = [gc EXCEPT ![j] = GcIdle]
    BY <1>7 DEF GcLogFails, dictVars
  <2> QED BY <1>1, <1>2, <2>1, IdleTypes
<1>8. CASE GcSize(j)
  <2> DEFINE g == IF dictLen = 0 THEN GcIdle
                  ELSE [gc[j] EXCEPT !.pc = "mark", !.slots = dictLen]
  <2>1. /\ UNCHANGED <<slot, dictLen, loggedLen, writer, opened, overlapped>>
        /\ gc' = [gc EXCEPT ![j] = g]
    BY <1>8 DEF GcSize, dictVars
  <2>2. /\ [gc[j] EXCEPT !.pc = "mark", !.slots = dictLen] \in GcState
        /\ [gc[j] EXCEPT !.pc = "mark", !.slots = dictLen].slots = dictLen
    BY <1>2 DEF GcState
  <2>3. g \in GcState /\ g.slots \in 0 .. dictLen BY <1>2, <2>2, IdleTypes
  <2> HIDE DEF g
  <2> QED BY <1>1, <2>1, <2>3
<1>9. CASE GcMark(j)
  <2> DEFINE g == [gc[j] EXCEPT !.pc = "recheck", !.marks = Marks, !.version = current.version]
  <2>1. /\ UNCHANGED <<slot, dictLen, loggedLen, writer, opened, overlapped>>
        /\ gc' = [gc EXCEPT ![j] = g]
    BY <1>9 DEF GcMark, dictVars
  <2>2. Marks \in SUBSET Index BY StoreAssumption DEF Marks, StoredQuads, Index
  <2>3. current.version \in Version BY DEF TypeOK, Snapshot
  <2>4. g \in GcState /\ g.slots = gc[j].slots BY <1>2, <2>2, <2>3 DEF GcState
  <2> HIDE DEF g
  <2> QED BY <1>1, <1>2, <2>1, <2>4
<1>10. CASE GcRecheck(j)
  <2> DEFINE g == IF current.version # gc[j].version THEN GcIdle
                  ELSE [gc[j] EXCEPT !.pc = "sweep"]
  <2>1. /\ UNCHANGED <<slot, dictLen, loggedLen, writer, opened, overlapped>>
        /\ gc' = [gc EXCEPT ![j] = g]
    BY <1>10 DEF GcRecheck, dictVars
  <2>2. /\ [gc[j] EXCEPT !.pc = "sweep"] \in GcState
        /\ [gc[j] EXCEPT !.pc = "sweep"].slots = gc[j].slots
    BY <1>2 DEF GcState
  <2>3. g \in GcState /\ g.slots \in 0 .. dictLen BY <1>2, <2>2, IdleTypes
  <2> HIDE DEF g
  <2> QED BY <1>1, <2>1, <2>3
<1>11. CASE GcSweep(j)
  <2>1. /\ UNCHANGED <<dictLen, loggedLen, writer, opened, overlapped>>
        /\ gc' = [gc EXCEPT ![j] = GcIdle]
        /\ slot' = [i \in Index |-> IF i \in Swept(j) THEN Free ELSE slot[i]]
    BY <1>11 DEF GcSweep
  <2>2. slot' \in [Index -> Term \cup {Free}] BY <2>1 DEF StoreTypes
  <2> QED BY <1>2, <2>1, <2>2, IdleTypes DEF StoreTypes
<1> QED BY <1>0, <1>3, <1>4, <1>5, <1>6, <1>7, <1>8, <1>9, <1>10, <1>11

\* Every step keeps the store well typed.
LEMMA StoreTypesNext == TypeOK /\ StoreTypes /\ [StoreNext]_allVars => StoreTypes'
<1> SUFFICES ASSUME TypeOK, StoreTypes, [StoreNext]_allVars PROVE StoreTypes'
  OBVIOUS
<1>1. CASE TierStep BY <1>1 DEF TierStep, storeVars, dictVars, StoreTypes
<1>2. ASSUME NEW r \in Reader, StoreSnapshot(r) PROVE StoreTypes'
  BY <1>2 DEF StoreSnapshot, dictVars, StoreTypes
<1>3. ASSUME NEW r \in Reader, NEW s \in Reader, StoreSnapshotAt(r, s) PROVE StoreTypes'
  BY <1>3 DEF StoreSnapshotAt, dictVars, StoreTypes
<1>4. CASE UNCHANGED allVars BY <1>4 DEF allVars, storeVars, dictVars, StoreTypes
<1> QED BY <1>1, <1>2, <1>3, <1>4, StoreTypesWrite, StoreTypesGc DEF StoreNext

(***************************************************************************)
(* The dictionary: terms and indices are one to one.                       *)
(***************************************************************************)
\* intern_miss appends: the term is under no index yet and gets the next one.
Appended(w) ==
    LET t == writer[w].term
    IN  /\ writer[w].pc = "missed"
        /\ IdsOf(t) = {} /\ dictLen < MaxSlot
        /\ dictLen' = dictLen + 1
        /\ slot' = [slot EXCEPT ![dictLen + 1] = t]

\* The dictionary changes only when intern_miss appends or the sweep frees.
LEMMA DictChanges ==
    [StoreNext]_allVars =>
        \/ UNCHANGED <<slot, dictLen>>
        \/ \E w \in Writer : Appended(w)
        \/ \E j \in Janitor : GcSweep(j)
<1> SUFFICES ASSUME [StoreNext]_allVars
             PROVE  \/ UNCHANGED <<slot, dictLen>>
                    \/ \E w \in Writer : Appended(w)
                    \/ \E j \in Janitor : GcSweep(j)
  OBVIOUS
<1> USE DEF dictVars, storeVars
<1>1. CASE WriteStep
  BY <1>1 DEF WriteStep, ProbeMiss, ProbeHit, InternMiss, InternFull, WriteCommit, WriteFail, Appended
<1>2. CASE GcStep
  BY <1>2 DEF GcStep, TierCompactStart, TierCompactSwap, TierDemoteStart, GcLog, GcLogFails,
              GcSize, GcMark, GcRecheck
<1>3. CASE TierStep BY <1>3 DEF TierStep
<1>4. CASE \/ \E r \in Reader : StoreSnapshot(r)
           \/ \E r, s \in Reader : StoreSnapshotAt(r, s)
  BY <1>4 DEF StoreSnapshot, StoreSnapshotAt
<1>5. CASE UNCHANGED allVars BY <1>5 DEF allVars
<1> QED BY <1>1, <1>2, <1>3, <1>4, <1>5 DEF StoreNext

\* What appending a term does to the slots.
LEMMA AppendFacts ==
    ASSUME StoreTypes, NEW w \in Writer, Appended(w)
    PROVE  /\ dictLen + 1 \in Index /\ dictLen' = dictLen + 1
           /\ writer[w].term \in Term /\ slot'[dictLen + 1] = writer[w].term
           /\ \A i \in Index : i # dictLen + 1 => slot'[i] = slot[i]
<1>1. dictLen + 1 \in Index BY StoreAssumption DEF StoreTypes, Appended, Index
<1>2. writer[w].term \in Term BY DEF StoreTypes, Appended
<1> QED BY <1>1, <1>2 DEF StoreTypes, Appended

\* What the sweep does to them: it frees the unmarked ones of those it sized.
LEMMA SweepFacts ==
    ASSUME StoreTypes, NEW j \in Janitor, GcSweep(j)
    PROVE  /\ dictLen' = dictLen
           /\ \A i \in Index : slot'[i] = IF i \in Swept(j) THEN Free ELSE slot[i]
  BY DEF GcSweep

\* Probes and interns of any number of writers, and sweeps, keep it one to one:
\* intern_miss looks again under the lock before it appends.
LEMMA DictNext == StoreTypes /\ DictInv /\ [StoreNext]_allVars => DictInv'
<1> SUFFICES ASSUME StoreTypes, DictInv, [StoreNext]_allVars PROVE DictInv'
  OBVIOUS
<1>1. CASE UNCHANGED <<slot, dictLen>> BY <1>1 DEF DictInv, OneIndexPerTerm
<1>2. ASSUME NEW w \in Writer, Appended(w) PROVE DictInv'
  <2>1. /\ dictLen + 1 \in Index /\ dictLen' = dictLen + 1 /\ dictLen \in Nat
        /\ writer[w].term \in Term /\ slot'[dictLen + 1] = writer[w].term
        /\ \A i \in Index : i # dictLen + 1 => slot'[i] = slot[i]
    BY <1>2, AppendFacts DEF StoreTypes
  <2>2. \A i \in Index : i > dictLen' => slot'[i] = Free
    BY <2>1 DEF DictInv, Index
  <2>3. ASSUME NEW i \in Index PROVE slot[i] # writer[w].term
    <3>1. CASE i \in 1 .. dictLen BY <1>2, <3>1 DEF Appended, IdsOf
    <3>2. CASE i \notin 1 .. dictLen
      BY <2>1, <3>2, StoreAssumption DEF DictInv, Index
    <3> QED BY <3>1, <3>2
  <2>4. OneIndexPerTerm'
    BY <2>1, <2>3 DEF DictInv, OneIndexPerTerm
  <2> QED BY <2>2, <2>4 DEF DictInv
<1>3. ASSUME NEW j \in Janitor, GcSweep(j) PROVE DictInv'
  BY <1>3, SweepFacts DEF DictInv, OneIndexPerTerm
<1> QED BY <1>1, <1>2, <1>3, DictChanges

(***************************************************************************)
(* What is stored.                                                         *)
(***************************************************************************)
\* Stored quads are indices, and every quad a protected reader sees is stored.
LEMMA StoredFacts ==
    ASSUME TierInv
    PROVE  /\ StoredQuads(current) \subseteq Index
           /\ View(current) \subseteq StoredQuads(current)
           /\ \A r \in Reader : Shielded(r) => View(reader[r].snap) \subseteq StoredQuads(current)
<1>1. StoredQuads(current) \subseteq Index BY StoreAssumption DEF StoredQuads, Index
<1>2. View(current) \subseteq StoredQuads(current) BY DEF View, StoredQuads
<1>3. ASSUME NEW r \in Reader, Shielded(r), NEW q \in View(reader[r].snap)
      PROVE  q \in StoredQuads(current)
  <2>1. q \in Quad BY DEF View
  <2> QED BY <1>3, <2>1 DEF TierInv, Protected, StoredQuads
<1> QED BY <1>1, <1>2, <1>3

\* Maintenance stores no quad that was not stored: compaction drops rows, and
\* demotion writes out what was visible.
LEMMA MaintainStored ==
    ASSUME TierInv, Maintain
    PROVE  StoredQuads(current') \subseteq StoredQuads(current)
<1>1. ASSUME NEW j \in Janitor, CompactSwap(j) PROVE current'.rows \subseteq current.rows
  BY <1>1 DEF CompactSwap, Reclaim, TierInv, TypeOK, Snapshot
<1>2. ASSUME NEW j \in Janitor, DemoteSwap(j)
      PROVE  \A x \in current'.rows : x \in current.rows \/ x.quad \in View(current)
  <2> DEFINE p == maint[j].target
  <2>1. current'.rows = {row \in current.rows : ~InPartition(row, p)} \cup Encoded(p)
    BY <1>2 DEF DemoteSwap, TierInv, TypeOK, Snapshot
  <2>2. VisibleIn(p) \in SUBSET Quad /\ VisibleIn(p) \subseteq View(current)
    BY DEF VisibleIn, View
  <2>3. current.version \in Version BY DEF TierInv, TypeOK, Snapshot
  <2>4. \A x \in Encoded(p) : x.quad \in VisibleIn(p)
    BY <2>2, <2>3, NewRowsFacts DEF Encoded
  <2> QED BY <2>1, <2>2, <2>4
<1>3. ASSUME NEW p \in Partition, Promote(p) PROVE current'.rows = current.rows
  BY <1>3 DEF Promote, TierInv, TypeOK, Snapshot
<1>4. ASSUME NEW j \in Janitor, NEW target, CompactStart(j, target) \/ DemoteRefused(j)
      PROVE  current' = current
  BY <1>4 DEF CompactStart, DemoteRefused
<1>5. \A x \in current'.rows : x \in current.rows \/ x.quad \in View(current)
  <2>1. \/ \E j \in Janitor : CompactSwap(j)
        \/ \E j \in Janitor : DemoteSwap(j)
        \/ \E p \in Partition : Promote(p)
        \/ \E j \in Janitor : \E target \in Partition \cup {NoPartition} :
              CompactStart(j, target) \/ DemoteRefused(j)
    BY DEF Maintain
  <2> QED BY <1>1, <1>2, <1>3, <1>4, <2>1
<1> QED BY <1>5, StoredFacts DEF StoredQuads

\* A batch stores its insertions and nothing else that is new.
LEMMA ApplyStored ==
    ASSUME TierInv, NEW dels \in SUBSET Quad, NEW adds \in SUBSET Quad, ApplyBatch(dels, adds)
    PROVE  StoredQuads(current') \subseteq StoredQuads(current) \cup adds
<1> DEFINE fresh == Genuine(current.rows, dels, adds)
<1>1. /\ current'.rows = EndRows(current.rows, dels, NewVersion) \cup NewRows(fresh, NewVersion)
      /\ ClockNotFull
  BY DEF ApplyBatch, Install
<1>2. NewVersion \in Version /\ NewVersion > 0 BY <1>1, NewVersionType DEF TierInv
<1>3. current.rows \in SUBSET Row BY DEF TierInv, TypeOK, Snapshot
<1>4. fresh \in SUBSET Quad /\ fresh \subseteq adds BY DEF Genuine
<1>5. \A x \in NewRows(fresh, NewVersion) : x.quad \in adds BY <1>2, <1>4, NewRowsFacts
<1>6. \A x \in EndRows(current.rows, dels, NewVersion) : \E y \in current.rows : x.quad = y.quad
  BY <1>2, <1>3, EndRowsFacts
<1> QED BY <1>1, <1>5, <1>6 DEF StoredQuads

(***************************************************************************)
(* Writes and compact() kept apart.                                        *)
(***************************************************************************)
\* The history flag is never lowered, and stays down through the first step of a
\* write or of a compact() only if nobody was inside the other.
LEMMA StillApart ==
    ASSUME StoreInv, [StoreNext]_allVars, ~overlapped'
    PROVE  /\ Quiet
           /\ WriteStep => ~CompactingStore
           /\ \A j \in Janitor : TierCompactStart(j) => ~Writing
<1> USE DEF storeVars
<1>1. ~overlapped
  <2>1. CASE WriteStep
    BY <2>1, Zenon DEF WriteStep, ProbeMiss, ProbeHit, InternMiss, InternFull, WriteCommit, WriteFail,
                NoteWrite
  <2>2. CASE GcStep
    BY <2>2, Zenon DEF GcStep, TierCompactStart, TierCompactSwap, TierDemoteStart, GcLog, GcLogFails,
                GcSize, GcMark, GcRecheck, GcSweep, NoteCompact
  <2>3. CASE TierStep BY <2>3 DEF TierStep
  <2>4. CASE \/ \E r \in Reader : StoreSnapshot(r)
             \/ \E r, s \in Reader : StoreSnapshotAt(r, s)
    BY <2>4 DEF StoreSnapshot, StoreSnapshotAt
  <2>5. CASE UNCHANGED allVars BY <2>5 DEF allVars
  <2> QED BY <2>1, <2>2, <2>3, <2>4, <2>5 DEF StoreNext
<1>2. Quiet BY <1>1 DEF StoreInv
<1>3. ASSUME WriteStep PROVE ~CompactingStore
  <2>1. PICK w \in Writer :
          \/ \E t \in Term : ProbeMiss(w, t) \/ \E op \in {"insert", "delete"} : ProbeHit(w, op, t)
          \/ InternMiss(w) \/ InternFull(w) \/ WriteCommit(w) \/ WriteFail(w)
    BY <1>3 DEF WriteStep
  <2>2. CASE \E t \in Term : ProbeMiss(w, t) \/ \E op \in {"insert", "delete"} : ProbeHit(w, op, t)
    BY <2>2, Zenon DEF ProbeMiss, ProbeHit, NoteWrite
  <2>3. CASE InternMiss(w) \/ InternFull(w) \/ WriteCommit(w) \/ WriteFail(w)
    <3>1. writer[w].pc # "idle" BY <2>3 DEF InternMiss, InternFull, WriteCommit, WriteFail
    <3> QED BY <1>2, <3>1 DEF Quiet, Apart, Writing
  <2> QED BY <2>1, <2>2, <2>3
<1>4. ASSUME NEW j \in Janitor, TierCompactStart(j) PROVE ~Writing
  BY <1>4, Zenon DEF TierCompactStart, NoteCompact
<1> QED BY <1>2, <1>3, <1>4

\* A write, step by step: no sweep is under way, so the index it holds keeps its
\* term until the row that names it is stored.
LEMMA QuietWrite ==
    ASSUME StoreInv, WriteStep, ~overlapped'
    PROVE  Quiet'
<1>1. Quiet /\ ~CompactingStore BY StillApart DEF StoreNext
<1>2. PICK w \in Writer :
        \/ \E t \in Term : ProbeMiss(w, t) \/ \E op \in {"insert", "delete"} : ProbeHit(w, op, t)
        \/ InternMiss(w) \/ InternFull(w) \/ WriteCommit(w) \/ WriteFail(w)
  BY DEF WriteStep
<1>3. UNCHANGED <<gc, maint, reader, exposed, opened>>
  BY <1>2 DEF ProbeMiss, ProbeHit, InternMiss, InternFull, WriteCommit, WriteFail, ApplyBatch, vars
<1>4. ~CompactingStore' BY <1>1, <1>3 DEF CompactingStore
<1>5. Apart' /\ SweepLogged' /\ MarksCover'
  BY <1>4 DEF Apart, SweepLogged, MarksCover, CompactingStore
<1>6. StoreTypes /\ DictInv /\ TierInv BY DEF StoreInv
<1>7. SUFFICES HeldIdsResolve' /\ StoredResolve' /\ Loggable' /\ ViewsKeepMeaning'
  BY <1>5 DEF Quiet
<1>8. ASSUME NEW t \in Term, ProbeMiss(w, t) \/ \E op \in {"insert", "delete"} : ProbeHit(w, op, t)
      PROVE  HeldIdsResolve' /\ StoredResolve' /\ Loggable' /\ ViewsKeepMeaning'
  <2>1. UNCHANGED <<current, slot, dictLen, loggedLen>>
    BY <1>8 DEF ProbeMiss, ProbeHit, vars, dictVars
  <2>2. HeldIdsResolve'
    <3>1. writer \in [Writer -> WriterState] /\ t # Free
      BY <1>6, StoreAssumption DEF StoreTypes
    <3>2. CASE ProbeMiss(w, t)
      BY <1>1, <2>1, <3>1, <3>2 DEF ProbeMiss, HeldIdsResolve, Quiet
    <3>3. ASSUME NEW op \in {"insert", "delete"}, ProbeHit(w, op, t) PROVE HeldIdsResolve'
      <4>1. PICK i \in IdsOf(t) : writer' = [writer EXCEPT ![w] = Holding(op, t, i)]
        BY <3>3 DEF ProbeHit
      <4>2. Holding(op, t, i).id = i BY DEF Holding
      <4>3. slot[i] # Free BY <3>1 DEF IdsOf
      <4> QED BY <1>1, <2>1, <3>1, <4>1, <4>2, <4>3 DEF HeldIdsResolve, Quiet
    <3> QED BY <1>8, <3>2, <3>3
  <2>3. StoredResolve' /\ Loggable'
    BY <1>1, <2>1 DEF Quiet, StoredResolve, StoredQuads, Loggable
  <2>4. ViewsKeepMeaning'
    BY <1>1, <1>3, <2>1 DEF Quiet, ViewsKeepMeaning, Shielded, View, Visible
  <2> QED BY <2>2, <2>3, <2>4
<1>9. ASSUME InternMiss(w)
      PROVE  HeldIdsResolve' /\ StoredResolve' /\ Loggable' /\ ViewsKeepMeaning'
  <2> DEFINE t == writer[w].term
  <2>1. t \in Term /\ t # Free BY <1>6, <1>9, StoreAssumption DEF InternMiss, StoreTypes
  <2>2. current' = current /\ loggedLen' = loggedLen
    BY <1>9 DEF InternMiss, vars, dictVars
  <2>3. CASE UNCHANGED dictVars /\ \E i \in IdsOf(t) : writer' = [writer EXCEPT ![w] = Holding("insert", t, i)]
    <3>1. PICK i \in IdsOf(t) : writer' = [writer EXCEPT ![w] = Holding("insert", t, i)]
      BY <2>3
    <3>2. Holding("insert", t, i).id = i BY DEF Holding
    <3>3. slot[i] # Free BY <2>1 DEF IdsOf
    <3>4. UNCHANGED <<slot, dictLen>> BY <2>3 DEF dictVars
    <3> HIDE DEF t
    <3>5. HeldIdsResolve'
      BY <1>1, <1>6, <3>1, <3>2, <3>3, <3>4 DEF HeldIdsResolve, Quiet, StoreTypes
    <3>6. StoredResolve' /\ Loggable'
      BY <1>1, <2>2, <3>4 DEF Quiet, StoredResolve, StoredQuads, Loggable
    <3>7. ViewsKeepMeaning'
      BY <1>1, <1>3, <3>4 DEF Quiet, ViewsKeepMeaning, Shielded, View, Visible
    <3> QED BY <3>5, <3>6, <3>7
  <2>4. CASE Appended(w) /\ writer' = [writer EXCEPT ![w] = Holding("insert", t, dictLen + 1)]
    <3>1. /\ dictLen + 1 \in Index /\ dictLen' = dictLen + 1 /\ dictLen \in Nat
          /\ slot'[dictLen + 1] = t
          /\ \A i \in Index : i # dictLen + 1 => slot'[i] = slot[i]
      BY <1>6, <2>4, AppendFacts DEF StoreTypes
    <3>2. slot[dictLen + 1] = Free BY <1>6, <3>1 DEF DictInv
    <3>3. \A i \in Index : slot[i] # Free => slot'[i] = slot[i] BY <3>1, <3>2
    <3>4. HeldIdsResolve'
      <4> SUFFICES ASSUME NEW v \in Writer, writer'[v].pc = "holding"
                   PROVE  slot'[writer'[v].id] # Free
        BY DEF HeldIdsResolve
      <4>1. CASE v = w
        BY <1>6, <2>1, <2>4, <3>1, <4>1 DEF Holding, StoreTypes
      <4>2. CASE v # w
        <5>1. writer'[v] = writer[v] BY <2>4, <4>2, <1>6 DEF StoreTypes
        <5>2. writer[v].id \in Index
          BY <1>6, <5>1, StoreAssumption DEF StoreTypes, Index
        <5> QED BY <1>1, <3>3, <5>1, <5>2 DEF Quiet, HeldIdsResolve
      <4> QED BY <4>1, <4>2
    <3>5. StoredResolve'
      BY <1>1, <1>6, <2>2, <3>3, StoredFacts DEF Quiet, StoredResolve, StoredQuads
    <3>6. Loggable'
      <4>1. loggedLen \in Nat BY <1>6 DEF StoreTypes
      <4>2. \A i \in loggedLen + 1 .. dictLen' : i \in Index
        BY <3>1, <4>1, StoreAssumption DEF Index
      <4>3. \A i \in loggedLen + 1 .. dictLen' : i = dictLen + 1 \/ i \in loggedLen + 1 .. dictLen
        BY <3>1, <4>1
      <4> HIDE DEF t
      <4> QED BY <1>1, <2>1, <2>2, <3>1, <3>3, <4>2, <4>3 DEF Quiet, Loggable
    <3>7. ASSUME NEW r \in Reader, Shielded(r), NEW i \in View(reader[r].snap)
          PROVE  slot'[i] = opened[r][i]
      <4>1. i \in StoredQuads(current) /\ i \in Index BY <1>6, <3>7, StoredFacts
      <4>2. slot[i] # Free BY <1>1, <4>1 DEF Quiet, StoredResolve
      <4> QED BY <1>1, <3>3, <3>7, <4>1, <4>2 DEF Quiet, ViewsKeepMeaning
    <3>8. ViewsKeepMeaning'
      BY <1>3, <3>7 DEF ViewsKeepMeaning, Shielded, View, Visible
    <3> QED BY <3>4, <3>5, <3>6, <3>8
  <2> QED BY <1>9, <2>3, <2>4 DEF InternMiss, Appended
<1>10. ASSUME InternFull(w) \/ WriteFail(w)
       PROVE  HeldIdsResolve' /\ StoredResolve' /\ Loggable' /\ ViewsKeepMeaning'
  <2>1. UNCHANGED <<current, slot, dictLen, loggedLen>> /\ writer' = [writer EXCEPT ![w] = NoOp]
    BY <1>10 DEF InternFull, WriteFail, vars, dictVars
  <2>2. HeldIdsResolve'
    BY <1>1, <1>6, <2>1, IdleTypes DEF HeldIdsResolve, Quiet, StoreTypes
  <2>3. StoredResolve' /\ Loggable'
    BY <1>1, <2>1 DEF Quiet, StoredResolve, StoredQuads, Loggable
  <2>4. ViewsKeepMeaning'
    BY <1>1, <1>3, <2>1 DEF Quiet, ViewsKeepMeaning, Shielded, View, Visible
  <2> QED BY <2>2, <2>3, <2>4
<1>11. ASSUME WriteCommit(w)
       PROVE  HeldIdsResolve' /\ StoredResolve' /\ Loggable' /\ ViewsKeepMeaning'
  <2>1. /\ UNCHANGED <<slot, dictLen>> /\ loggedLen' = dictLen /\ writer[w].pc = "holding"
        /\ writer' = [writer EXCEPT ![w] = NoOp]
        /\ ApplyBatch(Dels(w), Adds(w)) \/ current' = current
    BY <1>11 DEF WriteCommit, vars
  <2>2. HeldIdsResolve'
    BY <1>1, <1>6, <2>1, IdleTypes DEF HeldIdsResolve, Quiet, StoreTypes
  <2>3. Loggable' BY <1>6, <2>1 DEF Loggable, StoreTypes
  <2>4. ViewsKeepMeaning'
    BY <1>1, <1>3, <2>1 DEF Quiet, ViewsKeepMeaning, Shielded, View, Visible
  <2>5. StoredQuads(current') \subseteq StoredQuads(current) \cup {writer[w].id}
    <3>1. CASE current' = current BY <3>1
    <3>2. CASE ApplyBatch(Dels(w), Adds(w))
      BY <1>6, <2>1, <3>2, BatchOfWriter, ApplyStored
    <3> QED BY <2>1, <3>1, <3>2
  <2>6. StoredResolve'
    BY <1>1, <2>1, <2>5 DEF Quiet, StoredResolve, HeldIdsResolve, StoredQuads
  <2> QED BY <2>2, <2>3, <2>4, <2>6
<1> QED BY <1>2, <1>8, <1>9, <1>10, <1>11

\* The tier's part of compact() and of demote(): what is stored only shrinks.
LEMMA QuietCompact ==
    ASSUME StoreInv, NEW j \in Janitor, ~overlapped',
           TierCompactStart(j) \/ TierCompactSwap(j) \/ \E p \in Partition : TierDemoteStart(j, p)
    PROVE  Quiet'
<1>1. GcStep BY DEF GcStep
<1>2. Quiet /\ (TierCompactStart(j) => ~Writing) BY <1>1, StillApart DEF StoreNext
<1>3. /\ UNCHANGED <<slot, dictLen, loggedLen, writer, opened, reader>>
      /\ exposed \subseteq exposed'
  BY DEF TierCompactStart, TierCompactSwap, TierDemoteStart, CompactStart, CompactSwap,
         storeVars, dictVars
<1>4. TierInv /\ StoreTypes /\ TypeOK BY DEF StoreInv, TierInv
<1>5. StoredQuads(current') \subseteq StoredQuads(current)
  <2>1. Maintain BY DEF Maintain, TierCompactStart, TierCompactSwap, TierDemoteStart
  <2> QED BY <1>4, <2>1, MaintainStored
<1>6. Apart'
  <2>1. CASE TierCompactStart(j)
    BY <1>2, <1>3, <2>1 DEF Apart, Writing
  <2>2. CASE TierCompactSwap(j)
    <3>1. CompactingStore' => CompactingStore
      <4>1. /\ gc' = (IF maint[j].target = NoPartition THEN [gc EXCEPT ![j].pc = "log"] ELSE gc)
            /\ maint[j].pc = "compacting"
            /\ maint' = [maint EXCEPT ![j] = IF maint[j].target = NoPartition THEN IdleJanitor
                                             ELSE [@ EXCEPT !.pc = "demoting"]]
        BY <2>2 DEF TierCompactSwap, CompactSwap
      <4>2. \A k \in Janitor \ {j} : gc'[k] = gc[k] /\ maint'[k] = maint[k]
        BY <1>4, <4>1 DEF StoreTypes, TypeOK
      <4>3. CASE maint[j].target = NoPartition BY <4>1, <4>3 DEF CompactingStore
      <4>4. CASE maint[j].target # NoPartition
        <5>1. gc' = gc /\ maint'[j].pc = "demoting"
          BY <1>4, <4>1, <4>4 DEF TypeOK, JanitorState
        <5> QED BY <4>2, <5>1 DEF CompactingStore
      <4> QED BY <4>3, <4>4
    <3> QED BY <1>2, <1>3, <3>1 DEF Quiet, Apart, Writing
  <2>3. ASSUME NEW p \in Partition, TierDemoteStart(j, p) PROVE Apart'
    <3>1. gc' = gc BY <2>3 DEF TierDemoteStart, storeVars
    <3>2. PICK h \in Version :
            maint' = [maint EXCEPT ![j] = [pc |-> "compacting", horizon |-> h, target |-> p]]
      BY <2>3 DEF TierDemoteStart, CompactStart
    <3>3. maint'[j].target # NoPartition /\ \A k \in Janitor \ {j} : maint'[k] = maint[k]
      BY <1>4, <3>2, ConstantsAssumption DEF TypeOK
    <3>4. CompactingStore' => CompactingStore BY <3>1, <3>3 DEF CompactingStore
    <3> QED BY <1>2, <1>3, <3>4 DEF Quiet, Apart, Writing
  <2> QED BY <2>1, <2>2, <2>3
<1>7. \A k \in Janitor : gc'[k].pc \in {"size", "mark", "recheck", "sweep"} => gc'[k] = gc[k]
  <2>1. gc' = gc \/ gc' = [gc EXCEPT ![j].pc = "log"]
    BY DEF TierCompactStart, TierCompactSwap, TierDemoteStart, storeVars
  <2>2. [gc[j] EXCEPT !.pc = "log"].pc = "log" BY <1>4 DEF StoreTypes, GcState
  <2> QED BY <1>4, <2>1, <2>2 DEF StoreTypes
<1>8. SweepLogged' BY <1>2, <1>3, <1>7 DEF Quiet, SweepLogged
<1>9. MarksCover' BY <1>2, <1>5, <1>7 DEF Quiet, MarksCover, StoredQuads
<1>10. HeldIdsResolve' /\ StoredResolve' /\ Loggable'
  BY <1>2, <1>3, <1>5 DEF Quiet, HeldIdsResolve, StoredResolve, StoredQuads, Loggable
<1>11. ViewsKeepMeaning'
  BY <1>2, <1>3 DEF Quiet, ViewsKeepMeaning, Shielded, View, Visible
<1> QED BY <1>6, <1>8, <1>9, <1>10, <1>11 DEF Quiet

\* The store's part of compact(): nobody is writing, every index is logged, and
\* what is stored is marked, so the sweep frees only what nothing names.
LEMMA QuietSweep ==
    ASSUME StoreInv, NEW j \in Janitor, ~overlapped',
           \/ GcLog(j) \/ GcLogFails(j) \/ GcSize(j) \/ GcMark(j) \/ GcRecheck(j) \/ GcSweep(j)
    PROVE  Quiet'
<1>1. Quiet
  <2>1. GcStep BY DEF GcStep
  <2> QED BY <2>1, StillApart DEF StoreNext
<1>2. TierInv /\ StoreTypes BY DEF StoreInv
<1>3. /\ gc[j].pc # "idle"
      /\ UNCHANGED <<current, maint, reader, exposed, dictLen, writer, opened>>
      /\ \A k \in Janitor \ {j} : gc'[k] = gc[k]
  BY <1>2 DEF GcLog, GcLogFails, GcSize, GcMark, GcRecheck, GcSweep, vars, dictVars, StoreTypes
<1>4. CompactingStore /\ ~Writing
  BY <1>1, <1>3 DEF CompactingStore, Quiet, Apart
<1>5. Apart' BY <1>3, <1>4 DEF Apart, Writing
<1>6. HeldIdsResolve' BY <1>3, <1>4 DEF HeldIdsResolve, Writing
<1>7. gc[j] \in GcState BY <1>2 DEF StoreTypes
<1>8. CASE GcSweep(j)
  <2>1. gc[j].pc = "sweep" /\ gc' = [gc EXCEPT ![j] = GcIdle] /\ loggedLen' = loggedLen
    BY <1>8 DEF GcSweep
  <2>2. gc'[j].pc = "idle" BY <1>2, <2>1, IdleTypes DEF StoreTypes
  <2>3. ASSUME NEW i \in StoredQuads(current) PROVE slot'[i] = slot[i]
    <3>1. i \in Index /\ i \notin Swept(j)
      BY <1>1, <1>2, <2>1, StoredFacts DEF Quiet, MarksCover, Swept
    <3> QED BY <1>2, <1>8, <3>1, SweepFacts
  <2>4. loggedLen = dictLen BY <1>1, <2>1 DEF Quiet, SweepLogged
  <2>5. StoredResolve' BY <1>1, <1>3, <2>3 DEF Quiet, StoredResolve, StoredQuads
  <2>6. Loggable' BY <1>2, <1>3, <2>1, <2>4 DEF Loggable, StoreTypes
  <2>7. SweepLogged' /\ MarksCover'
    BY <1>1, <1>3, <2>1, <2>2 DEF Quiet, SweepLogged, MarksCover, StoredQuads
  <2>8. ASSUME NEW r \in Reader, Shielded(r), NEW i \in View(reader[r].snap)
        PROVE  slot'[i] = opened[r][i]
    <3>1. i \in StoredQuads(current) BY <1>2, <2>8, StoredFacts
    <3> QED BY <1>1, <2>3, <2>8, <3>1 DEF Quiet, ViewsKeepMeaning
  <2>9. ViewsKeepMeaning' BY <1>3, <2>8 DEF ViewsKeepMeaning, Shielded, View, Visible
  <2> QED BY <1>5, <1>6, <2>5, <2>6, <2>7, <2>9 DEF Quiet
<1>9. CASE ~GcSweep(j)
  <2>1. slot' = slot BY <1>9 DEF GcLog, GcLogFails, GcSize, GcMark, GcRecheck, dictVars
  <2>2. StoredResolve' /\ ViewsKeepMeaning'
    BY <1>1, <1>3, <2>1 DEF Quiet, StoredResolve, StoredQuads, ViewsKeepMeaning, Shielded, View, Visible
  <2>3. CASE GcLog(j)
    <3>1. gc' = [gc EXCEPT ![j].pc = "size"] /\ loggedLen' = dictLen BY <2>3 DEF GcLog
    <3>2. gc'[j].pc = "size" BY <1>2, <1>7, <3>1 DEF StoreTypes, GcState
    <3>3. Loggable' /\ SweepLogged' /\ MarksCover'
      BY <1>1, <1>2, <1>3, <3>1, <3>2 DEF Loggable, SweepLogged, Quiet, MarksCover, StoredQuads, StoreTypes
    <3> QED BY <1>5, <1>6, <2>2, <3>3 DEF Quiet
  <2>4. CASE ~GcLog(j)
    <3>1. loggedLen' = loggedLen
      BY <1>9, <2>4 DEF GcLogFails, GcSize, GcMark, GcRecheck, dictVars
    <3>2. Loggable' BY <1>1, <1>3, <2>1, <3>1 DEF Quiet, Loggable
    <3>3. /\ gc'[j].pc \in {"size", "mark", "recheck", "sweep"} =>
                gc[j].pc \in {"size", "mark", "recheck", "sweep"}
          /\ gc'[j].pc \in {"recheck", "sweep"} =>
                \/ gc'[j].marks = StoredQuads(current)
                \/ gc[j].pc = "recheck" /\ gc'[j].marks = gc[j].marks
      <4>1. CASE GcLogFails(j) BY <1>2, <4>1, IdleTypes DEF GcLogFails, StoreTypes
      <4>2. CASE GcSize(j)
        BY <1>2, <1>7, <4>2, IdleTypes DEF GcSize, StoreTypes, GcState
      <4>3. CASE GcMark(j)
        BY <1>2, <1>7, <4>3 DEF GcMark, StoreTypes, GcState, Marks
      <4>4. CASE GcRecheck(j)
        BY <1>2, <1>7, <4>4, IdleTypes DEF GcRecheck, StoreTypes, GcState
      <4> QED BY <1>9, <2>4, <4>1, <4>2, <4>3, <4>4
    <3>4. SweepLogged' BY <1>1, <1>3, <3>1, <3>3 DEF Quiet, SweepLogged
    <3>5. MarksCover' BY <1>1, <1>3, <3>3 DEF Quiet, MarksCover, StoredQuads
    <3> QED BY <1>5, <1>6, <2>2, <3>2, <3>4, <3>5 DEF Quiet
  <2> QED BY <2>3, <2>4
<1> QED BY <1>8, <1>9

\* Readers and the tier's own maintenance: a snapshot is opened under the
\* reverse map of that moment, a repin shares the view and its meaning.
LEMMA QuietTier ==
    ASSUME StoreInv, ~overlapped',
           \/ TierStep
           \/ \E r \in Reader : StoreSnapshot(r)
           \/ \E r, s \in Reader : StoreSnapshotAt(r, s)
    PROVE  Quiet'
<1>1. Quiet BY StillApart DEF StoreNext
<1>2. TierInv /\ StoreTypes /\ TypeOK BY DEF StoreInv, TierInv
<1>3. UNCHANGED <<slot, dictLen, loggedLen, writer, gc>>
  BY DEF TierStep, StoreSnapshot, StoreSnapshotAt, storeVars, dictVars
<1>4. \/ Maintain
      \/ current' = current /\ maint' = maint
  BY DEF TierStep, StoreSnapshot, StoreSnapshotAt, Maintain, SnapshotPin, DropPin, SnapshotClone, Repin
<1>5. StoredQuads(current') \subseteq StoredQuads(current)
  BY <1>2, <1>4, MaintainStored
<1>6. \A k \in Janitor : maint'[k].pc = "compacting" => maint'[k] = maint[k]
  <2>1. \/ maint' = maint
        \/ \E j \in Janitor : maint' = [maint EXCEPT ![j] = IdleJanitor]
    BY DEF TierStep, StoreSnapshot, StoreSnapshotAt, SnapshotPin, DropPin, SnapshotClone, Repin,
           DemoteSwap, DemoteRefused, Promote
  <2> QED BY <1>2, <2>1 DEF TypeOK, IdleJanitor
<1>7. Apart' BY <1>1, <1>3, <1>6 DEF Quiet, Apart, Writing, CompactingStore
<1>8. HeldIdsResolve' /\ StoredResolve' /\ Loggable' /\ SweepLogged' /\ MarksCover'
  BY <1>1, <1>3, <1>5 DEF Quiet, HeldIdsResolve, StoredResolve, StoredQuads, Loggable,
                          SweepLogged, MarksCover
<1>9. ASSUME NEW r \in Reader, r \notin exposed', reader'[r].pc # "idle",
             NEW i \in View(reader'[r].snap)
      PROVE  slot[i] = opened'[r][i]
  <2>1. ASSUME NEW s \in Reader, StoreSnapshot(s) PROVE slot[i] = opened'[r][i]
    <3>1. CASE r = s
      BY <1>2, <2>1, <3>1 DEF StoreSnapshot, StoreTypes
    <3>2. CASE r # s
      <4>1. reader'[r] = reader[r] /\ opened'[r] = opened[r] /\ exposed' = exposed
        BY <1>2, <2>1, <3>2 DEF StoreSnapshot, SnapshotClone, TypeOK, StoreTypes
      <4> QED BY <1>1, <1>9, <4>1 DEF Quiet, ViewsKeepMeaning, Shielded
    <3> QED BY <3>1, <3>2
  <2>2. ASSUME NEW u \in Reader, NEW s \in Reader, StoreSnapshotAt(u, s)
        PROVE  slot[i] = opened'[r][i]
    <3>1. CASE r = s
      <4>1. /\ reader'[r] = reader[u] /\ opened'[r] = opened[u] /\ reader[u].pc # "idle"
            /\ u \notin exposed
        BY <1>2, <1>9, <2>2, <3>1 DEF StoreSnapshotAt, Repin, TypeOK, StoreTypes
      <4> QED BY <1>1, <1>9, <4>1 DEF Quiet, ViewsKeepMeaning, Shielded
    <3>2. CASE r # s
      <4>1. reader'[r] = reader[r] /\ opened'[r] = opened[r] /\ r \notin exposed
        BY <1>2, <1>9, <2>2, <3>2 DEF StoreSnapshotAt, Repin, TypeOK, StoreTypes
      <4> QED BY <1>1, <1>9, <4>1 DEF Quiet, ViewsKeepMeaning, Shielded
    <3> QED BY <3>1, <3>2
  <2>3. CASE TierStep
    <3>1. opened' = opened BY <2>3 DEF TierStep, storeVars
    <3>2. reader'[r].snap = reader[r].snap /\ reader[r].pc # "idle" /\ r \notin exposed
      <4>1. ASSUME NEW s \in Reader, SnapshotPin(s)
            PROVE  reader'[r].snap = reader[r].snap /\ reader[r].pc # "idle" /\ r \notin exposed
        BY <1>2, <1>9, <4>1 DEF SnapshotPin, TypeOK, ReaderState
      <4>2. ASSUME NEW s \in Reader, DropPin(s)
            PROVE  reader'[r].snap = reader[r].snap /\ reader[r].pc # "idle" /\ r \notin exposed
        BY <1>2, <1>9, <4>2 DEF DropPin, TypeOK, IdleReader
      <4>3. ASSUME NEW k \in Janitor, DemoteSwap(k) \/ DemoteRefused(k)
            PROVE  reader' = reader /\ exposed' = exposed
        BY <4>3 DEF DemoteSwap, DemoteRefused
      <4>4. ASSUME NEW p \in Partition, Promote(p)
            PROVE  reader' = reader /\ exposed' = exposed
        BY <4>4 DEF Promote
      <4> QED BY <1>9, <2>3, <4>1, <4>2, <4>3, <4>4 DEF TierStep
    <3> QED BY <1>1, <1>9, <3>1, <3>2 DEF Quiet, ViewsKeepMeaning, Shielded
  <2> QED BY <2>1, <2>2, <2>3
<1>10. ViewsKeepMeaning'
  BY <1>3, <1>9 DEF ViewsKeepMeaning, Shielded, View, Visible
<1> QED BY <1>7, <1>8, <1>10 DEF Quiet

(***************************************************************************)
(* The theorems.                                                           *)
(***************************************************************************)
\* A new store satisfies the invariant.
LEMMA StoreInvInit == StoreInit => StoreInv
<1> SUFFICES ASSUME StoreInit PROVE StoreInv
  OBVIOUS
<1>1. TierInv BY InvInit DEF StoreInit
<1>2. StoreTypes BY StoreTypesInit
<1>3. DictInv BY DEF StoreInit, DictInv, OneIndexPerTerm
<1>4. /\ \A w \in Writer : writer[w].pc = "idle"
      /\ \A k \in Janitor : gc[k].pc = "idle"
      /\ current.rows = {} /\ \A r \in Reader : reader[r].pc = "idle"
  BY DEF StoreInit, Init, NoOp, GcIdle, EmptySnapshot, IdleReader
<1>5. StoredQuads(current) = {} BY <1>4 DEF StoredQuads
<1>6. Loggable BY DEF StoreInit, Loggable
<1>7. Quiet
  BY <1>4, <1>5, <1>6 DEF Quiet, Apart, Writing, HeldIdsResolve, StoredResolve, SweepLogged,
                          MarksCover, ViewsKeepMeaning, Shielded
<1> QED BY <1>1, <1>2, <1>3, <1>7 DEF StoreInv

\* Every step preserves it.
LEMMA StoreInvNext == StoreInv /\ [StoreNext]_allVars => StoreInv'
<1> SUFFICES ASSUME StoreInv, [StoreNext]_allVars PROVE StoreInv'
  OBVIOUS
<1>1. TierInv' BY StoreStepIsTierStep, InvNext DEF StoreInv
<1>2. StoreTypes' BY StoreTypesNext DEF StoreInv, TierInv
<1>3. DictInv' BY DictNext DEF StoreInv
<1>4. ASSUME ~overlapped' PROVE Quiet'
  <2>1. CASE WriteStep BY <1>4, <2>1, QuietWrite
  <2>2. CASE GcStep BY <1>4, <2>2, QuietCompact, QuietSweep DEF GcStep
  <2>3. CASE \/ TierStep
             \/ \E r \in Reader : StoreSnapshot(r)
             \/ \E r, s \in Reader : StoreSnapshotAt(r, s)
    BY <1>4, <2>3, QuietTier
  <2>4. CASE UNCHANGED allVars
    <3>1. Quiet BY <1>4, StillApart
    <3> QED BY <2>4, <3>1
            DEF allVars, vars, storeVars, dictVars, Quiet, Apart, Writing, CompactingStore,
                HeldIdsResolve, StoredResolve, StoredQuads, Loggable, SweepLogged, MarksCover,
                ViewsKeepMeaning, Shielded, View, Visible
  <2> QED BY <2>1, <2>2, <2>3, <2>4 DEF StoreNext
<1> QED BY <1>1, <1>2, <1>3, <1>4 DEF StoreInv

\* The inductive invariant of the store.
THEOREM StoreInvHolds == StoreSpec => []StoreInv
  BY StoreInvInit, StoreInvNext, PTL DEF StoreSpec

\* Whatever the store does with its tier, the tier's own specification allows: its
\* theorems are theorems of the store.
THEOREM StoreRunsTheTier == StoreSpec => Spec
<1>1. StoreInit => Init BY DEF StoreInit
<1>2. StoreInv /\ [StoreNext]_allVars => [Next]_vars BY StoreStepIsTierStep DEF StoreInv
<1> QED BY <1>1, <1>2, StoreInvHolds, PTL DEF StoreSpec, Spec

\* Every reachable state of the store is well typed: an index a writer holds has
\* been issued, the sweep's mark vector is no longer than the dictionary, and the
\* log is never ahead of it.
THEOREM StoreTypeCorrect == StoreSpec => []StoreTypeOK
<1>1. StoreInv => StoreTypeOK
  <2> SUFFICES ASSUME StoreInv PROVE StoreTypeOK
    OBVIOUS
  <2>1. TypeOK /\ StoreTypes BY DEF StoreInv, TierInv
  <2> QED BY <2>1 DEF StoreTypes, StoreTypeOK, GcState
<1> QED BY <1>1, StoreInvHolds, PTL

\* No term is ever under two indices, however the probes and interns of any number
\* of writers interleave with sweeps (intern, intern_miss, gc).
THEOREM TermsKeepOneIndex == StoreSpec => []OneIndexPerTerm
<1>1. StoreInv => OneIndexPerTerm BY DEF StoreInv, DictInv
<1> QED BY <1>1, StoreInvHolds, PTL

\* While compact() and writes are kept apart, every quad a new reader sees resolves.
THEOREM VisibleTermsResolve == StoreSpec => []LiveRowsResolve
<1>1. StoreInv => LiveRowsResolve
  BY StoredFacts DEF StoreInv, LiveRowsResolve, Quiet, StoredResolve
<1> QED BY <1>1, StoreInvHolds, PTL

\* A pinned view keeps the meaning of its ids through every sweep that does not
\* overlap a write, unless a compaction overtook the reader inside snapshot().
THEOREM PinnedViewsKeepTheirTerms == StoreSpec => []PinnedViewKeepsMeaning
<1>1. StoreInv => PinnedViewKeepsMeaning
  BY DEF StoreInv, PinnedViewKeepsMeaning, Quiet, ViewsKeepMeaning, Shielded
<1> QED BY <1>1, StoreInvHolds, PTL

\* The sweep never frees an index the log has not recorded (compact, terms_after).
THEOREM SweepsFreeOnlyLogged == StoreSpec => []SweptIndicesLogged
<1>1. StoreInv => SweptIndicesLogged BY DEF StoreInv, SweptIndicesLogged, Quiet
<1> QED BY <1>1, StoreInvHolds, PTL

=============================================================================

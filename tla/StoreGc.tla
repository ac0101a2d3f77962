------------------------------- MODULE StoreGc -------------------------------
(***************************************************************************)
(* The store's write path and its compaction (crates/storage/src/store.rs) *)
(* over the memory tier: batches intern their terms in the shared          *)
(* dictionary, append a log record, and only then install rows; compact()  *)
(* reclaims dead rows and sweeps the dictionary terms that no stored row   *)
(* mentions any more.                                                      *)
(*                                                                         *)
(* Each quad has one term of its own, and the tier stores term ids: the    *)
(* quad named i is the one whose term has dictionary index i.  A term that *)
(* is swept and interned again comes back under another index.             *)
(***************************************************************************)
EXTENDS MemoryTier

CONSTANTS
    Term,        \* the terms callers use
    Free,        \* what a reclaimed or not yet issued slot holds
    Writer,      \* threads inside a Store write
    MaxSlot      \* bound on dictionary indices (MAX_DICT_INDEX)

ASSUME StoreAssumption ==
    /\ MaxSlot \in Nat
    /\ Quad = 1 .. MaxSlot
    /\ Free \notin Term

VARIABLES
    slot,        \* dictionary index -> term: the reverse map
    dictLen,     \* indices ever handed out
    loggedLen,   \* indices the write-ahead log has recorded
    writer,      \* each writer: where it is in apply_quads()
    gc,          \* each janitor: where it is in compact() past the tier's part
    opened,      \* history: the reverse map when each reader cloned the pointer
    overlapped   \* history: some write was in flight during a compact()

dictVars == <<slot, dictLen, loggedLen>>
storeVars == <<dictVars, writer, gc, opened, overlapped>>
allVars == <<vars, storeVars>>

Index == 1 .. MaxSlot
NoOp == [pc |-> "idle", op |-> "none", term |-> Free, id |-> 0]
GcIdle == [pc |-> "idle", slots |-> 0, marks |-> {}, version |-> 0]

StoreInit ==
    /\ Init
    /\ slot = [i \in Index |-> Free]
    /\ dictLen = 0
    /\ loggedLen = 0
    /\ writer = [w \in Writer |-> NoOp]
    /\ gc = [j \in Janitor |-> GcIdle]
    /\ opened = [r \in Reader |-> slot]
    /\ overlapped = FALSE

(***************************************************************************)
(* The dictionary.  The forward map holds exactly the terms of the issued, *)
(* unreclaimed slots: both sides change under the reverse map's lock.      *)
(***************************************************************************)
IdsOf(t) == {i \in 1 .. dictLen : slot[i] = t}

\* terms_after: the log needs the term of every index past loggedLen.
Loggable == \A i \in loggedLen + 1 .. dictLen : slot[i] # Free

(***************************************************************************)
(* Writers.                                                                *)
(***************************************************************************)
CompactingStore ==
    \E j \in Janitor :
        \/ gc[j].pc # "idle"
        \/ maint[j].pc = "compacting" /\ maint[j].target = NoPartition
Writing == \E w \in Writer : writer[w].pc # "idle"

\* The first step of a write, and of a compact(), note whether they overlap.
NoteWrite == overlapped' = (overlapped \/ CompactingStore)
NoteCompact == overlapped' = (overlapped \/ Writing)

Holding(op, t, i) == [pc |-> "holding", op |-> op, term |-> t, id |-> i]

\* An insertion's term is already interned, or a deletion's term is known.
ProbeHit(w, op, t) ==
    /\ writer[w].pc = "idle"
    /\ NoteWrite
    /\ \E i \in IdsOf(t) : writer' = [writer EXCEPT ![w] = Holding(op, t, i)]
    /\ UNCHANGED <<vars, dictVars, gc, opened>>

\* An insertion's term is not in the forward map: on to intern_miss.  (A
\* deletion of an unknown term is dropped from its batch.)
ProbeMiss(w, t) ==
    /\ writer[w].pc = "idle"
    /\ NoteWrite
    /\ IdsOf(t) = {}
    /\ writer' = [writer EXCEPT ![w] =
           [pc |-> "missed", op |-> "insert", term |-> t, id |-> 0]]
    /\ UNCHANGED <<vars, dictVars, gc, opened>>

\* Mutant: no second look, so two threads that missed both append.
InternMiss_NoSecondLook(w) ==
    LET t == writer[w].term
    IN  /\ writer[w].pc = "missed" /\ dictLen < MaxSlot
        /\ dictLen' = dictLen + 1
        /\ slot' = [slot EXCEPT ![dictLen + 1] = t]
        /\ writer' = [writer EXCEPT ![w] = Holding("insert", t, dictLen + 1)]
        /\ UNCHANGED <<loggedLen, vars, gc, opened, overlapped>>

\* Under the reverse map's lock: look again, else append a fresh index.
InternMiss(w) ==
    LET t == writer[w].term
    IN  /\ writer[w].pc = "missed"
        /\ \/ /\ \E i \in IdsOf(t) :
                    writer' = [writer EXCEPT ![w] = Holding("insert", t, i)]
              /\ UNCHANGED dictVars
           \/ /\ IdsOf(t) = {} /\ dictLen < MaxSlot
              /\ dictLen' = dictLen + 1
              /\ slot' = [slot EXCEPT ![dictLen + 1] = t]
              /\ writer' = [writer EXCEPT ![w] = Holding("insert", t, dictLen + 1)]
              /\ UNCHANGED loggedLen
        /\ UNCHANGED <<vars, gc, opened, overlapped>>

\* Mutant: the failed intern has already counted its index.
InternFull_Counted(w) ==
    /\ writer[w].pc = "missed"
    /\ IdsOf(writer[w].term) = {} /\ dictLen = MaxSlot
    /\ dictLen' = dictLen + 1
    /\ writer' = [writer EXCEPT ![w] = NoOp]
    /\ UNCHANGED <<vars, slot, loggedLen, gc, opened, overlapped>>

\* MAX_DICT_INDEX reached: the batch fails before anything is logged.
InternFull(w) ==
    /\ writer[w].pc = "missed"
    /\ IdsOf(writer[w].term) = {} /\ dictLen = MaxSlot
    /\ writer' = [writer EXCEPT ![w] = NoOp]
    /\ UNCHANGED <<vars, dictVars, gc, opened, overlapped>>

Dels(w) == IF writer[w].op = "delete" THEN {writer[w].id} ELSE {}
Adds(w) == IF writer[w].op = "insert" THEN {writer[w].id} ELSE {}
NetEmpty(w) ==
    /\ Dels(w) \cap LiveQuads(current.rows) = {}
    /\ Genuine(current.rows, Dels(w), Adds(w)) = {}

\* logged(): append the record and run the write, under the log's lock.
WriteCommit(w) ==
    /\ writer[w].pc = "holding"
    /\ Loggable
    /\ loggedLen' = dictLen
    /\ \/ ApplyBatch(Dels(w), Adds(w))
       \/ NetEmpty(w) /\ WriterFree /\ UNCHANGED vars
    /\ writer' = [writer EXCEPT ![w] = NoOp]
    /\ UNCHANGED <<slot, dictLen, gc, opened, overlapped>>

\* The append fails, for want of a term or with an I/O error, and so does the
\* batch; the indices it interned stay issued and unlogged.
WriteFail(w) ==
    /\ writer[w].pc = "holding"
    /\ writer' = [writer EXCEPT ![w] = NoOp]
    /\ UNCHANGED <<vars, dictVars, gc, opened, overlapped>>

(***************************************************************************)
(* Store::compact: the tier's compaction, a rows-less record, the sweep.   *)
(***************************************************************************)
TierCompactStart(j) ==
    /\ gc[j].pc = "idle"
    /\ CompactStart(j, NoPartition)
    /\ NoteCompact
    /\ UNCHANGED <<dictVars, writer, gc, opened>>

TierDemoteStart(j, p) ==
    /\ gc[j].pc = "idle"
    /\ CompactStart(j, p)
    /\ UNCHANGED storeVars

TierCompactSwap(j) ==
    /\ CompactSwap(j)
    /\ gc' = IF maint[j].target = NoPartition
             THEN [gc EXCEPT ![j].pc = "log"] ELSE gc
    /\ UNCHANGED <<dictVars, writer, opened, overlapped>>

\* Mutant: compact() goes on to the sweep without its rows-less record.
GcLog_NoRecord(j) ==
    /\ gc[j].pc = "log"
    /\ gc' = [gc EXCEPT ![j].pc = "size"]
    /\ UNCHANGED <<vars, dictVars, writer, opened, overlapped>>

GcLog(j) ==
    /\ gc[j].pc = "log"
    /\ Loggable
    /\ loggedLen' = dictLen
    /\ gc' = [gc EXCEPT ![j].pc = "size"]
    /\ UNCHANGED <<vars, slot, dictLen, writer, opened, overlapped>>

\* The rows-less record cannot be appended: compact() returns the error.
GcLogFails(j) ==
    /\ gc[j].pc = "log"
    /\ gc' = [gc EXCEPT ![j] = GcIdle]
    /\ UNCHANGED <<vars, dictVars, writer, opened, overlapped>>

\* gc_dictionary sizes its mark vector before it pins the snapshot it marks.
GcSize(j) ==
    /\ gc[j].pc = "size"
    /\ gc' = [gc EXCEPT ![j] =
           IF dictLen = 0 THEN GcIdle ELSE [@ EXCEPT !.pc = "mark", !.slots = dictLen]]
    /\ UNCHANGED <<vars, dictVars, writer, opened, overlapped>>

\* Mutant: only the rows that a new reader would see are marked.
Marks_VisibleOnly == View(current)

\* Mutant: rows in cold files are not scanned.
Marks_WarmOnly == {i \in StoredQuads(current) : PartitionOf[i] \notin current.cold}

\* for_each_term_id: the ids in every row, visible or not, warm or cold.
Marks == StoredQuads(current)

GcMark(j) ==
    /\ gc[j].pc = "mark"
    /\ gc' = [gc EXCEPT ![j] = [@ EXCEPT !.pc = "recheck",
           !.marks = Marks, !.version = current.version]]
    /\ UNCHANGED <<vars, dictVars, writer, opened, overlapped>>

GcRecheck(j) ==
    /\ gc[j].pc = "recheck"
    /\ gc' = [gc EXCEPT ![j] =
           IF current.version # gc[j].version THEN GcIdle
           ELSE [@ EXCEPT !.pc = "sweep"]]
    /\ UNCHANGED <<vars, dictVars, writer, opened, overlapped>>

Swept(j) == 1 .. gc[j].slots \ gc[j].marks

GcSweep(j) ==
    /\ gc[j].pc = "sweep"
    /\ slot' = [i \in Index |-> IF i \in Swept(j) THEN Free ELSE slot[i]]
    /\ gc' = [gc EXCEPT ![j] = GcIdle]
    /\ UNCHANGED <<vars, dictLen, loggedLen, writer, opened, overlapped>>

(***************************************************************************)
(* The tier's other operations.                                            *)
(***************************************************************************)
StoreSnapshot(r) ==
    /\ SnapshotClone(r)
    /\ opened' = [opened EXCEPT ![r] = slot]
    /\ UNCHANGED <<dictVars, writer, gc, overlapped>>

StoreSnapshotAt(r, s) ==
    /\ Repin(r, s)
    /\ opened' = [opened EXCEPT ![s] = opened[r]]
    /\ UNCHANGED <<dictVars, writer, gc, overlapped>>

TierStep ==
    /\ \/ \E r \in Reader : SnapshotPin(r) \/ DropPin(r)
       \/ \E j \in Janitor : DemoteSwap(j) \/ DemoteRefused(j)
       \/ \E p \in Partition : Promote(p)
    /\ UNCHANGED storeVars

WriteStep ==
    \E w \in Writer :
        \/ \E t \in Term : ProbeMiss(w, t) \/ \E op \in {"insert", "delete"} : ProbeHit(w, op, t)
        \/ InternMiss(w) \/ InternFull(w) \/ WriteCommit(w) \/ WriteFail(w)

GcStep ==
    \E j \in Janitor :
        \/ TierCompactStart(j) \/ TierCompactSwap(j)
        \/ \E p \in Partition : TierDemoteStart(j, p)
        \/ GcLog(j) \/ GcLogFails(j) \/ GcSize(j) \/ GcMark(j) \/ GcRecheck(j) \/ GcSweep(j)

StoreNext ==
    \/ WriteStep
    \/ GcStep
    \/ TierStep
    \/ \E r \in Reader : StoreSnapshot(r)
    \/ \E r, s \in Reader : StoreSnapshotAt(r, s)

StoreSpec == StoreInit /\ [][StoreNext]_allVars

(***************************************************************************)
(* Properties.                                                             *)
(***************************************************************************)
\* Type invariant of the store's own state, over the tier's.
StoreTypeOK ==
    /\ TypeOK
    /\ slot \in [Index -> Term \cup {Free}]
    /\ dictLen \in 0 .. MaxSlot /\ loggedLen \in 0 .. dictLen
    /\ \A w \in Writer : writer[w].pc = "holding" => writer[w].id \in 1 .. dictLen
    /\ \A j \in Janitor : gc[j].slots \in 0 .. dictLen /\ gc[j].marks \subseteq Index

\* No term is held under two indices at once, however probes and interns of
\* several threads and sweeps interleave: a quad would otherwise be stored
\* under one id and looked up under the other (intern, intern_miss, gc).
OneIndexPerTerm ==
    \A i, k \in Index : (slot[i] = slot[k] /\ slot[i] # Free) => i = k

\* Every quad a new reader would see names a term that resolves, if callers
\* kept compact() and writes apart.
LiveRowsResolve == ~overlapped => \A i \in View(current) : slot[i] # Free

\* The same whenever compact() runs: its comment has it that a Store write, which
\* interns and installs inside one call, is not exposed to the sweep.
LiveRowsAlwaysResolve == \A i \in View(current) : slot[i] # Free

\* A pinned view never loses or changes a term: each id in it means what it
\* meant when the view was opened, through every sweep, unless a compaction
\* overtook the reader inside snapshot() or a write (Store::snapshot,
\* gc_dictionary).
PinnedViewKeepsMeaning ==
    ~overlapped => \A r \in Reader \ exposed : reader[r].pc = "pinned" =>
        \A i \in View(reader[r].snap) : slot[i] = opened[r][i]

\* The sweep never frees an index the log has not seen, so no later record
\* fails for want of its term (compact, terms_after).
SweptIndicesLogged == ~overlapped => Loggable
=============================================================================

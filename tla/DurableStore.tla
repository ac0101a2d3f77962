---------------------------- MODULE DurableStore ----------------------------
(***************************************************************************)
(* The durable store: the write-ahead log (crates/storage/src/wal.rs), the *)
(* batches, checkpoints and replay that store.rs builds on it, and the     *)
(* dictionary indices a record spells out.  Processes are killed, machines *)
(* lose power, and I/O calls fail at the points Faults names.              *)
(*                                                                         *)
(* As in StoreGc, the quad named i is the one whose own term has           *)
(* dictionary index i; what a store contains is the set of terms its       *)
(* visible rows resolve to.  The file system is external: appended records *)
(* reach the disk in order, a power cut keeps a prefix of the unsynced     *)
(* ones, and the record at the cut may be torn.                            *)
(***************************************************************************)
EXTENDS Naturals, Sequences, FiniteSets, SequencesExt

CONSTANTS
    Term,         \* the terms callers use
    Free,         \* what a reclaimed dictionary slot holds
    Writer,       \* threads inside a Store write
    Policies,     \* the SyncPolicy values a store may be opened with
    Faults,       \* the I/O calls that may fail
    MaxVersion, MaxSlot, MaxRecords, MaxGen, MaxCrashes  \* bounds

ASSUME DurableAssumption ==
    /\ Free \notin Term
    /\ {MaxVersion, MaxSlot, MaxRecords, MaxGen, MaxCrashes} \subseteq Nat
    /\ Policies \subseteq {"EveryBatch", "Every"}
    /\ Faults \subseteq {"append_write", "append_sync", "wal", "wal_sync",
                         "manifest", "dir_sync", "reopen"}

VARIABLES
    status,       \* "up", "down", "opening" or "broken" (open returned an error)
    dict,         \* the dictionary's slots, index by index
    mem,          \* the tier: commit version and visible rows
    writer,       \* each writer: idle, or holding the index of its quad
    log,          \* the open Wal: gen, the generation its file handle is of,
                  \* logged_len, dirty, policy
    lock,         \* the log mutex: free, or the step its holder is at
    wal,          \* generation -> records of wal.<gen>, and how many are synced
    base,         \* generation -> slots of dict.<gen>
    manifest,     \* the generation MANIFEST names, now and on stable storage
    hist,         \* history: hist[v + 1] is the contents committed at version v
    acked,        \* history: the last version whose write returned Ok, which a
                  \* killed process must come back with
    durable,      \* history: the last one the policy promises to a power cut too
    forced,       \* history: the version a sync_wal() returned Ok at, where that
                  \* promises more than durable
    fault,        \* history: an I/O error left its mark on the files: "none",
                  \* "marked", or "lost" once a crash has met it
    crashes       \* crashes so far

vars == <<status, dict, mem, writer, log, lock, wal, base, manifest,
          hist, acked, durable, forced, fault, crashes>>
disk == <<wal, base, manifest>>
ghosts == <<hist, acked, durable, forced>>

Gen == 0 .. MaxGen
Torn == [kind |-> "torn"]
NoWal == [recs |-> <<>>, synced |-> 0]
Unlocked == [pc |-> "free", kind |-> "none", who |-> {}, id |-> 0, slots |-> 0]
IdleWriter == [pc |-> "idle", kind |-> "none", id |-> 0]

Opened(g, logged, policy) ==
    [gen |-> g, file |-> g, logged |-> logged, dirty |-> FALSE, policy |-> policy]

Meaning(d, rows) == {d[i] : i \in rows}

Init ==
    /\ status = "up"
    /\ dict = <<>>
    /\ mem = [version |-> 0, rows |-> {}]
    /\ writer = [w \in Writer |-> IdleWriter]
    /\ \E p \in Policies : log = Opened(0, 0, p)
    /\ lock = Unlocked
    /\ wal = [g \in Gen |-> NoWal]
    /\ base = [g \in Gen |-> <<>>]
    /\ manifest = [now |-> 0, stable |-> 0]
    /\ hist = <<{}>>
    /\ acked = 0 /\ durable = 0 /\ forced = 0
    /\ fault = "none"
    /\ crashes = 0

(***************************************************************************)
(* What a batch does to the tier, live and on replay.                      *)
(***************************************************************************)
\* Insert always mints a version; Apply only if its net effect is not empty.
Applied(m, rec) ==
    LET rows == (m.rows \ rec.dels) \cup rec.adds
        net  == rec.dels \cap m.rows # {} \/ rec.adds \ (m.rows \ rec.dels) # {}
    IN  IF rec.kind = "insert" \/ net
        THEN [version |-> rec.version, rows |-> rows] ELSE m

\* Mutant: first counts the terms already logged instead of naming the next.
Record_FirstOffByOne(kind, dels, adds) ==
    [kind |-> kind, version |-> mem.version + 1, first |-> log.logged,
     terms |-> SubSeq(dict, log.logged + 1, Len(dict)), dels |-> dels, adds |-> adds]

\* The record of a batch: the terms interned since the last record, and the
\* version the write will mint.
Record(kind, dels, adds) ==
    [kind |-> kind, version |-> mem.version + 1, first |-> log.logged + 1,
     terms |-> SubSeq(dict, log.logged + 1, Len(dict)), dels |-> dels, adds |-> adds]

BatchRecord(op, id) ==
    CASE op = "insert" -> Record("insert", {}, {id})
      [] op = "apply"  -> Record("apply", {}, {id})
      [] op = "delete" -> Record("apply", {id}, {})
      [] op = "sweep"  -> Record("apply", {}, {})

(***************************************************************************)
(* Writers.                                                                *)
(***************************************************************************)
IdsOf(t) == {i \in DOMAIN dict : dict[i] = t}
Sweeping == lock.kind = "sweep"

Intern(w, op, t) ==
    /\ status = "up" /\ writer[w].pc = "idle" /\ ~Sweeping
    /\ \/ /\ \E i \in IdsOf(t) : writer' = [writer EXCEPT ![w] =
                  [pc |-> "holding", kind |-> op, id |-> i]]
          /\ UNCHANGED dict
       \/ /\ op # "delete" /\ IdsOf(t) = {} /\ Len(dict) < MaxSlot
          /\ dict' = Append(dict, t)
          /\ writer' = [writer EXCEPT ![w] =
                 [pc |-> "holding", kind |-> op, id |-> Len(dict) + 1]]
    /\ UNCHANGED <<status, mem, log, lock, disk, ghosts, fault, crashes>>

HasRoom == Len(wal[log.file].recs) < MaxRecords /\ mem.version < MaxVersion

AppendToLog(entry) ==
    wal' = [wal EXCEPT ![log.file].recs = Append(@, entry)]

\* What the store will hold once the record is applied is what a crash from
\* here on may bring back.
Attempt(rec) ==
    LET next == Applied(mem, rec)
        past == SubSeq(hist, 1, mem.version + 1)
    IN  hist' = IF next.version = mem.version THEN past
                ELSE Append(past, Meaning(dict, next.rows))

\* logged(): take the lock and write the record's frame.
AppendWrite(w) ==
    LET rec == BatchRecord(writer[w].kind, writer[w].id)
    IN  /\ status = "up" /\ lock.pc = "free" /\ writer[w].pc = "holding" /\ HasRoom
        /\ AppendToLog(rec)
        /\ log' = [log EXCEPT !.dirty = TRUE]
        /\ lock' = [Unlocked EXCEPT !.pc = "sync", !.kind = writer[w].kind,
                        !.who = {w}, !.id = writer[w].id, !.slots = Len(dict)]
        /\ Attempt(rec)
        /\ UNCHANGED <<status, dict, mem, writer, base, manifest,
                       acked, durable, forced, fault, crashes>>

\* compact() on a quiet store logs a rows-less record before it sweeps.
SweepWrite ==
    /\ status = "up" /\ lock.pc = "free" /\ HasRoom
    /\ \A w \in Writer : writer[w].pc = "idle"
    /\ AppendToLog(BatchRecord("sweep", 0))
    /\ log' = [log EXCEPT !.dirty = TRUE]
    /\ lock' = [Unlocked EXCEPT !.pc = "sync", !.kind = "sweep", !.slots = Len(dict)]
    /\ UNCHANGED <<status, dict, mem, writer, base, manifest, ghosts, fault, crashes>>

\* Mutant: the file is flushed but never synced.
Synced_FlushOnly(file) == file

\* sync_data on a log file.
Synced(file) == [file EXCEPT !.synced = Len(file.recs)]

\* EveryBatch always syncs; Every syncs when its interval has passed, which may
\* be now or not.
AppendSync ==
    /\ status = "up" /\ lock.pc = "sync"
    /\ wal' = [wal EXCEPT ![log.file] = Synced(@)]
    /\ log' = [log EXCEPT !.dirty = FALSE]
    /\ lock' = [lock EXCEPT !.pc = "install"]
    /\ UNCHANGED <<status, dict, mem, writer, base, manifest, ghosts, fault, crashes>>

AppendNoSync ==
    /\ status = "up" /\ lock.pc = "sync" /\ log.policy = "Every"
    /\ lock' = [lock EXCEPT !.pc = "install"]
    /\ UNCHANGED <<status, dict, mem, writer, log, disk, ghosts, fault, crashes>>

\* Mutant: whatever other threads interned meanwhile counts as logged.
LoggedLen_AtInstall == Len(dict)

\* logged_len once the record is in: the dictionary as the record spelt it out.
LoggedLen == lock.slots

\* The batch becomes visible and its caller is told Ok.
Install ==
    LET next == Applied(mem, BatchRecord(lock.kind, lock.id))
    IN  /\ status = "up" /\ lock.pc = "install"
        /\ mem' = next
        /\ log' = [log EXCEPT !.logged = LoggedLen]
        /\ dict' = IF Sweeping
                   THEN [i \in DOMAIN dict |-> IF i \in mem.rows THEN dict[i] ELSE Free]
                   ELSE dict
        /\ acked' = next.version
        /\ durable' = IF log.policy = "EveryBatch" \/ ~log.dirty
                      THEN next.version ELSE durable
        /\ writer' = [w \in Writer |-> IF w \in lock.who THEN IdleWriter ELSE writer[w]]
        /\ lock' = Unlocked
        /\ UNCHANGED <<status, disk, hist, forced, fault, crashes>>

\* sync_wal(): fsync if anything was appended through this handle.
SyncWal ==
    /\ status = "up" /\ lock.pc = "free"
    /\ IF log.dirty
       THEN /\ wal' = [wal EXCEPT ![log.file] = Synced(@)]
            /\ durable' = mem.version
       ELSE UNCHANGED <<wal, durable>>
    /\ log' = [log EXCEPT !.dirty = FALSE]
    /\ forced' = IF log.dirty \/ mem.version <= durable THEN forced ELSE mem.version
    /\ UNCHANGED <<status, dict, mem, writer, lock, base, manifest, hist, acked, fault, crashes>>

(***************************************************************************)
(* Failed appends.  The caller gets an error; the file keeps what was      *)
(* written to it.                                                          *)
(***************************************************************************)
Marked == IF fault = "none" THEN "marked" ELSE fault

Abandon(who) ==
    writer' = [w \in Writer |-> IF w \in who THEN IdleWriter ELSE writer[w]]

AppendWriteFails(w) ==
    /\ "append_write" \in Faults
    /\ status = "up" /\ lock.pc = "free" /\ writer[w].pc = "holding" /\ HasRoom
    /\ AppendToLog(Torn)
    /\ Abandon({w})
    /\ fault' = Marked
    /\ UNCHANGED <<status, dict, mem, log, lock, base, manifest, ghosts, crashes>>

AppendSyncFails ==
    /\ "append_sync" \in Faults
    /\ status = "up" /\ lock.pc = "sync"
    /\ Abandon(lock.who)
    /\ lock' = Unlocked
    /\ fault' = Marked
    /\ UNCHANGED <<status, dict, mem, log, disk, ghosts, crashes>>

(***************************************************************************)
(* Checkpoint: the steps of Store::checkpoint and commit_generation, under *)
(* the log's lock.  Interning goes on meanwhile.                           *)
(***************************************************************************)
NextGen == log.gen + 1

CkDict ==
    /\ status = "up" /\ lock.pc = "free" /\ log.gen < MaxGen
    /\ base' = [base EXCEPT ![NextGen] = dict]
    /\ lock' = [Unlocked EXCEPT !.pc = "wal", !.slots = Len(dict)]
    /\ UNCHANGED <<status, dict, mem, writer, log, wal, manifest, ghosts, fault, crashes>>

\* Mutant: the checkpoint is stamped with the version of the next batch.
CkRecord_NextVersion(rows) ==
    [kind |-> "checkpoint", version |-> mem.version + 1, first |-> 0,
     terms |-> <<>>, dels |-> {}, adds |-> rows]

CkRecord(rows) ==
    [kind |-> "checkpoint", version |-> mem.version, first |-> 0,
     terms |-> <<>>, dels |-> {}, adds |-> rows]

\* Mutant: the last chunk is not flushed.
CkRecords_LastChunkLost ==
    LET rows == SetToSeq(mem.rows)
    IN  [i \in 1 .. Len(rows) - 1 |-> CkRecord({rows[i]})] \o <<CkRecord({})>>

\* One row to a chunk, and always a last record so that an empty store still
\* restores its clock.
CkRecords ==
    LET rows == SetToSeq(mem.rows)
    IN  [i \in 1 .. Len(rows) |-> CkRecord({rows[i]})] \o <<CkRecord({})>>

CkWal ==
    /\ status = "up" /\ lock.pc = "wal"
    /\ wal' = [wal EXCEPT ![NextGen] = [recs |-> CkRecords, synced |-> 0]]
    /\ lock' = [lock EXCEPT !.pc = "wal_sync"]
    /\ UNCHANGED <<status, dict, mem, writer, log, base, manifest, ghosts, fault, crashes>>

\* Mutant: the manifest is switched to a file that was never synced.
CkWalSync_Skipped ==
    /\ status = "up" /\ lock.pc = "wal_sync"
    /\ lock' = [lock EXCEPT !.pc = "manifest"]
    /\ UNCHANGED <<status, dict, mem, writer, log, disk, ghosts, fault, crashes>>

CkWalSync ==
    /\ status = "up" /\ lock.pc = "wal_sync"
    /\ wal' = [wal EXCEPT ![NextGen] = Synced(@)]
    /\ lock' = [lock EXCEPT !.pc = "manifest"]
    /\ UNCHANGED <<status, dict, mem, writer, log, base, manifest, ghosts, fault, crashes>>

\* MANIFEST is replaced by rename, and the directory synced after it.
CkManifest ==
    /\ status = "up" /\ lock.pc = "manifest"
    /\ manifest' = [manifest EXCEPT !.now = NextGen]
    /\ lock' = [lock EXCEPT !.pc = "dir_sync"]
    /\ UNCHANGED <<status, dict, mem, writer, log, wal, base, ghosts, fault, crashes>>

CkDirSync ==
    /\ status = "up" /\ lock.pc = "dir_sync"
    /\ manifest' = [manifest EXCEPT !.stable = manifest.now]
    /\ lock' = [lock EXCEPT !.pc = "reopen"]
    /\ UNCHANGED <<status, dict, mem, writer, log, wal, base, ghosts, fault, crashes>>

\* Drop the old generation and go on in the new one.
CkReopen ==
    /\ status = "up" /\ lock.pc = "reopen"
    /\ wal' = [wal EXCEPT ![log.gen] = NoWal]
    /\ base' = [base EXCEPT ![log.gen] = <<>>]
    /\ log' = Opened(NextGen, lock.slots, log.policy)
    /\ lock' = Unlocked
    /\ durable' = mem.version
    /\ fault' = IF fault = "marked" THEN "none" ELSE fault
    /\ UNCHANGED <<status, dict, mem, writer, manifest, hist, acked, forced, crashes>>

\* An I/O error ends the checkpoint and leaves the log as it was, except that
\* reopening the new file fails after the generation number is already set.
CkFails ==
    /\ status = "up" /\ lock.pc \in Faults \ {"append_write", "append_sync"}
    /\ lock' = Unlocked
    /\ IF lock.pc = "reopen"
       THEN log' = [log EXCEPT !.gen = NextGen]
       ELSE UNCHANGED log
    /\ fault' = IF lock.pc \in {"dir_sync", "reopen"} THEN Marked ELSE fault
    /\ UNCHANGED <<status, dict, mem, writer, disk, ghosts, crashes>>

(***************************************************************************)
(* Crashes.                                                                *)
(***************************************************************************)
Volatile ==
    /\ status' = "down"
    /\ dict' = <<>>
    /\ mem' = [version |-> 0, rows |-> {}]
    /\ writer' = [w \in Writer |-> IdleWriter]
    /\ log' = Opened(0, 0, log.policy)
    /\ lock' = Unlocked
    /\ fault' = IF fault = "marked" THEN "lost" ELSE fault
    /\ crashes' = crashes + 1

MayCrash == status \in {"up", "opening"} /\ crashes < MaxCrashes

\* The process dies; the kernel still has every byte that was written.
Kill ==
    /\ MayCrash
    /\ Volatile
    /\ UNCHANGED <<disk, ghosts>>

\* What may be left of a log file: the synced records, some of the others, and
\* perhaps a torn frame where the writing stopped.  All of it is on disk.
Survivors(file) ==
    {[recs |-> SubSeq(file.recs, 1, k), synced |-> k] :
        k \in file.synced .. Len(file.recs)}
    \cup {[recs |-> Append(SubSeq(file.recs, 1, k), Torn), synced |-> k + 1] :
        k \in file.synced .. Len(file.recs) - 1}

PowerLoss ==
    /\ MayCrash
    /\ Volatile
    /\ \E m \in {manifest.now, manifest.stable} :
        /\ manifest' = [now |-> m, stable |-> m]
        /\ \E left \in Survivors(wal[m]) : wal' = [wal EXCEPT ![m] = left]
    /\ acked' = durable
    /\ UNCHANGED <<base, hist, durable, forced>>

(***************************************************************************)
(* Store::open: sweep the files of other generations, then replay.         *)
(***************************************************************************)
OpenSweep ==
    /\ status = "down"
    /\ wal' = [g \in Gen |-> IF g = manifest.now THEN wal[g] ELSE NoWal]
    /\ base' = [g \in Gen |-> IF g = manifest.now THEN base[g] ELSE <<>>]
    /\ manifest' = [manifest EXCEPT !.stable = manifest.now]
    /\ status' = "opening"
    /\ UNCHANGED <<dict, mem, writer, log, lock, ghosts, fault, crashes>>

\* Mutant: the older slot keeps the term.
ReplayTerm_KeepsOld(d, t) == Append(d, t)

\* replay_append: the term goes to the next index; an older slot that still
\* holds it was swept before it was interned again.
ReplayTerm(d, t) ==
    Append([i \in DOMAIN d |-> IF d[i] = t THEN Free ELSE d[i]], t)

\* Mutant: replay starts from an empty dictionary.
ReplayStart_NoBase(g) ==
    [ok |-> TRUE, dict |-> <<>>, seen |-> FALSE, mem |-> [version |-> 0, rows |-> {}]]

ReplayStart(g) ==
    [ok |-> TRUE, dict |-> base[g], seen |-> FALSE,
     mem |-> [version |-> 0, rows |-> {}]]

ReplayRecord(st, rec) ==
    LET m     == st.mem
        fresh == rec.terms = <<>> \/ rec.first = Len(st.dict) + 1
        valid == IF rec.kind = "checkpoint"
                 THEN ~st.seen /\ (m.version = 0 \/ m.version = rec.version)
                 ELSE rec.version = m.version + 1
    IN  IF ~st.ok THEN st
        ELSE [ok   |-> fresh /\ valid,
              dict |-> FoldLeft(ReplayTerm, st.dict, rec.terms),
              seen |-> st.seen \/ rec.kind # "checkpoint",
              mem  |-> IF rec.kind = "checkpoint"
                       THEN [version |-> rec.version, rows |-> m.rows \cup rec.adds]
                       ELSE Applied(m, rec)]

Replayed(g, recs) == FoldLeft(ReplayRecord, ReplayStart(g), recs)

\* The records before the first torn frame: all that a replay can reach.
Intact(recs) == SelectInSeq(recs, LAMBDA rec : rec = Torn)
Readable(recs) == IF Intact(recs) = 0 THEN recs ELSE SubSeq(recs, 1, Intact(recs) - 1)

\* A torn frame at the end is dropped.  One with records after it is taken for
\* the tail when the length it announces runs past the end of the file, and is
\* a checksum error when it does not.
OpenReplay ==
    LET g    == manifest.now
        recs == Readable(wal[g].recs)
        st   == Replayed(g, recs)
    IN  /\ status = "opening" /\ st.ok
        /\ status' = "up"
        /\ dict' = st.dict
        /\ mem' = st.mem
        /\ wal' = [wal EXCEPT ![g] = [recs |-> recs,
               synced |-> IF recs = wal[g].recs THEN wal[g].synced ELSE Len(recs)]]
        /\ \E p \in Policies : log' = Opened(g, Len(st.dict), p)
        /\ hist' = IF Len(hist) > st.mem.version THEN SubSeq(hist, 1, st.mem.version + 1) ELSE hist
        /\ UNCHANGED <<writer, lock, base, manifest, acked, durable, forced, fault, crashes>>

OpenFails ==
    LET recs == wal[manifest.now].recs
        read == Readable(recs)
    IN  /\ status = "opening"
        /\ ~Replayed(manifest.now, read).ok \/ Len(read) + 1 < Len(recs)
        /\ status' = "broken"
        /\ UNCHANGED <<dict, mem, writer, log, lock, disk, ghosts, fault, crashes>>

Next ==
    \/ \E w \in Writer :
        \/ \E op \in {"insert", "apply", "delete"}, t \in Term : Intern(w, op, t)
        \/ AppendWrite(w) \/ AppendWriteFails(w)
    \/ SweepWrite \/ AppendSync \/ AppendNoSync \/ AppendSyncFails \/ Install \/ SyncWal
    \/ CkDict \/ CkWal \/ CkWalSync \/ CkManifest \/ CkDirSync \/ CkReopen \/ CkFails
    \/ Kill \/ PowerLoss
    \/ OpenSweep \/ OpenReplay \/ OpenFails

Spec == Init /\ [][Next]_vars

(***************************************************************************)
(* Properties.                                                             *)
(***************************************************************************)
\* Type invariant.
TypeOK ==
    /\ status \in {"up", "down", "opening", "broken"}
    /\ dict \in Seq(Term \cup {Free}) /\ Len(dict) <= MaxSlot
    /\ mem \in [version : 0 .. MaxVersion, rows : SUBSET DOMAIN dict]
    /\ log \in [gen : Gen, file : Gen, logged : 0 .. Len(dict), dirty : BOOLEAN,
               policy : Policies]
    /\ \A g \in Gen : wal[g].synced \in 0 .. Len(wal[g].recs)
    /\ manifest \in [now : Gen, stable : Gen]

\* Whatever the store was doing when it died, it can be opened again: no crash
\* leaves a log whose records replay rejects (Store::replay, Wal::replay),
\* unless it meets an I/O error that no completed checkpoint has cleared away.
OpenNeverFails == fault # "lost" => status # "broken"

\* An acknowledged batch survives: a reopened store is not behind the last
\* version whose write returned Ok (after a power loss under Every, the last
\* one an fsync covered), with the same exception.
AckedSurvives == (fault # "lost" /\ status = "up") => acked <= mem.version

\* The same without it, as SyncPolicy's comment has it.
AckedAlwaysSurvives ==
    /\ status = "up" => acked <= mem.version
    /\ status = "broken" => acked = 0

\* A store holds exactly what was committed at its version, term by term: a
\* recovered one has no row of a later batch, misses none of an earlier one,
\* and none of its ids resolves to another term than before.
ContentsMatchHistory ==
    (fault # "lost" /\ status = "up") =>
        /\ mem.version < Len(hist)
        /\ Meaning(dict, mem.rows) = hist[mem.version + 1]

\* Replay brings compacted history back, but never a term under two indices.
OneIndexPerTerm ==
    \A i, k \in DOMAIN dict : (dict[i] = dict[k] /\ dict[i] # Free) => i = k

\* sync_wal() forces the log to stable storage: once it returned Ok, the store
\* never comes back behind the version it had then.
ForcedSyncSurvives == status = "up" => forced <= mem.version
=============================================================================

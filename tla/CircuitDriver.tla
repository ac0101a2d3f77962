--------------------------- MODULE CircuitDriver ---------------------------
(***************************************************************************)
(* A circuit with a durable input log (crates/incremental: circuit.rs,     *)
(* delta_log.rs, checkpoint.rs) over a store's write-ahead log: inputs are *)
(* logged as they come, a tick folds them into the bases, publishes its    *)
(* records and writes a marker, a checkpoint truncates the log, and after  *)
(* a crash the log is replayed tick by tick.                               *)
(*                                                                         *)
(* How the store appends, syncs and switches log generations is the        *)
(* subject of DurableStore; here an append is one step, a crash leaves the *)
(* synced records and any part of the others, and a checkpoint is atomic.  *)
(***************************************************************************)
EXTENDS CircuitInvariants, ChangeFeed

CONSTANTS
    Input,             \* the driver's inputs: triples and +1 or -1
    Setup,             \* sync policies, and circuits with the fallback or not
    SlowRecovery,      \* may the checkpoint interval run out during recover()
    MaxEvents          \* bound: inputs, subscriptions and crashes together

SyncPolicy == {"EveryBatch", "Every"}
ASSUME EventsAssumption == MaxEvents \in Nat
ASSUME SetupAssumption == Setup \subseteq [policy : SyncPolicy, fallback : BOOLEAN]
ASSUME InputAssumption == Input \subseteq Record

VARIABLES
    phase,             \* what the driver's thread is doing
    circuit,           \* the circuit, but for its log and feed
    pending,           \* DeltaLog: the records of the next tick
    clock,             \* DeltaLog: next_time
    wal,               \* inputs and tick markers, since the last checkpoint
    synced,            \* how many of them a power failure leaves
    policy,            \* the store's SyncPolicy
    baseline,          \* the asserted base the checkpoint stands for
    recovered,         \* what recover() has still to replay
    replaying,         \* the tick is one of recover()'s
    batch,             \* the records the tick in progress has drained
    events,            \* the counter of the bound
    issued,            \* history: the sum of the inputs appended and not lost
    grouping,          \* history: the inputs of each tick since the checkpoint
    resealed           \* history: a replayed tick's marker closed an open batch

log == <<pending, clock, wal, synced, policy, baseline>>
control == <<phase, recovered, replaying, batch>>
history == <<issued, grouping, resealed>>
vars == <<circuit, log, control, events, history, feed>>

InputEntry(seq, t, m) == [kind |-> "input", seq |-> seq, triple |-> t, mult |-> m]
TickCommit == [kind |-> "tick"]
NothingRecovered == [ticks |-> <<>>, pending |-> <<>>]

Init ==
    /\ phase = "idle"
    /\ \E setup \in Setup : /\ circuit = NewCircuit(setup.fallback)
                           /\ policy = setup.policy
    /\ pending = <<>>
    /\ clock = 0
    /\ wal = <<>>
    /\ synced = 0
    /\ baseline = EmptyZset
    /\ recovered = NothingRecovered
    /\ replaying = FALSE
    /\ batch = <<>>
    /\ events = 0
    /\ issued = EmptyZset
    /\ grouping = <<>>
    /\ resealed = FALSE
    /\ FeedInit

Counted == events < MaxEvents /\ events' = events + 1

-----------------------------------------------------------------------------
(* Inputs.                                                                   *)

\* Durable on return under EveryBatch; under Every, whenever the interval of
\* the store happens to have run out.
AppendInput(d) ==
    LET entry == InputEntry(clock, d.triple, d.mult) IN
    /\ phase = "idle"
    /\ Counted
    /\ wal' = Append(wal, entry)
    /\ pending' = Append(pending, entry)
    /\ clock' = clock + 1
    /\ \/ synced' = Len(wal')
       \/ policy = "Every" /\ synced' = synced
    /\ issued' = Plus(issued, NetDelta(<<entry>>))
    /\ UNCHANGED <<circuit, policy, baseline, control, grouping, resealed, feed>>

-----------------------------------------------------------------------------
(* The tick: fold the pending records in, publish them and what they derive, *)
(* write the marker, and see whether a checkpoint is due.                    *)

\* Without a subscriber there is nobody to publish to.
Drain(records) ==
    LET done == Tick(circuit, records) IN
    /\ circuit' = done
    /\ pending' = <<>>
    /\ batch' = records
    /\ outbox' = IF subscribers = <<>> THEN 0 ELSE Len(records) + DerivedMerged(done)
    /\ phase' = "ticking"
    /\ UNCHANGED <<subscribers, queue, receiving, sent, targets, failed, heard>>

\* A tick with nothing pending only looks at the cadence, as checkpoint() does.
BeginTick ==
    /\ phase = "idle"
    /\ pending # <<>>
    /\ Drain(pending)
    /\ UNCHANGED <<clock, wal, synced, policy, baseline, recovered, replaying, events, history>>

\* Mutant: the tick leaves no trace in the log.
LogTickCommit_None(entries) == entries

LogTickCommit(entries) == Append(entries, TickCommit)

\* The marker goes to the end of the log if the tick drained anything, and
\* syncs the log.
EndTick ==
    /\ phase = "ticking"
    /\ Published
    /\ circuit' = [circuit EXCEPT !.pending = NoEmission]
    /\ IF batch # <<>>
       THEN /\ wal' = LogTickCommit(wal)
            /\ synced' = Len(wal')
            /\ grouping' = IF replaying THEN grouping ELSE Append(grouping, batch)
            /\ resealed' = (resealed \/ (replaying /\ recovered.pending # <<>>))
       ELSE UNCHANGED <<wal, synced, grouping, resealed>>
    /\ batch' = <<>>
    /\ phase' = "cadence"
    /\ UNCHANGED <<pending, clock, policy, baseline, recovered, replaying, events, issued, feed>>

\* Mutant: the length of the old log is taken for the new one's.
TakeCheckpoint_OldLength ==
    /\ wal' = <<>>
    /\ synced' = synced
    /\ baseline' = circuit.asserted
    /\ grouping' = <<>>

\* store.checkpoint: the rows are the driver's outcomes so far, and the log
\* starts again after them.
TakeCheckpoint ==
    /\ wal' = <<>>
    /\ synced' = 0
    /\ baseline' = circuit.asserted
    /\ grouping' = <<>>

\* The cadence counts deltas and time.  Replay adds up to no more deltas than
\* the ticks did before the crash, so only at the last batch can the count be
\* due again; the interval starts anew at the attach, and may run out.
Due == \/ ~replaying
       \/ SlowRecovery
       \/ recovered = NothingRecovered

AfterTick == IF replaying THEN "recovering" ELSE "idle"

MaybeCheckpoint ==
    /\ phase = "cadence"
    /\ Due
    /\ TakeCheckpoint
    /\ phase' = AfterTick
    /\ UNCHANGED <<circuit, pending, clock, policy, recovered, replaying, batch, events,
                   issued, resealed, feed>>

\* Not due; or called by the driver, and the store returned an error.
SkipCheckpoint ==
    /\ phase = "cadence"
    /\ phase' = AfterTick
    /\ UNCHANGED <<circuit, log, recovered, replaying, batch, events, history, feed>>

\* Mutant: the log is truncated under what is pending.
Checkpoint_NoTick ==
    /\ phase = "idle"
    /\ phase' = "cadence"
    /\ UNCHANGED <<circuit, log, recovered, replaying, batch, events, history, feed>>

\* checkpoint(): what is pending is ticked first.
Checkpoint ==
    /\ phase = "idle"
    /\ IF pending # <<>>
       THEN Drain(pending)
       ELSE /\ phase' = "cadence"
            /\ UNCHANGED <<circuit, pending, batch, feed>>
    /\ UNCHANGED <<clock, wal, synced, policy, baseline, recovered, replaying, events, history>>

-----------------------------------------------------------------------------
(* Crash and recovery.                                                       *)

\* Mutant: inputs no marker closed are dropped.
Replayed_ClosedOnly(entries) ==
    [ticks |-> FoldLeft(LAMBDA r, e :
                   IF e.kind = "input"
                   THEN [r EXCEPT !.pending = Append(@, e)]
                   ELSE [ticks |-> Append(r.ticks, r.pending), pending |-> <<>>],
                   NothingRecovered, entries).ticks,
     pending |-> <<>>]

\* The inputs of each closed batch, and the open one.  A marker with nothing
\* before it closes nothing.
Replayed(entries) ==
    FoldLeft(LAMBDA r, e :
                 IF e.kind = "input" THEN [r EXCEPT !.pending = Append(@, e)]
                 ELSE IF r.pending = <<>> THEN r
                 ELSE [ticks |-> Append(r.ticks, r.pending), pending |-> <<>>],
             NothingRecovered, entries)

Inputs(entries) ==
    FoldLeft(LAMBDA in, e : IF e.kind = "input" THEN Append(in, e) ELSE in, <<>>, entries)

\* The driver brings back the base its checkpointed rows stand for.
Restored(base) == Records({t \in Triple : base[t] # 0}, base)

\* At any point; n entries of the log are left.  The store reopens
\* and a new circuit is attached to it.
Crash(n) ==
    LET kept == SubSeq(wal, 1, n)
        lost == SubSeq(wal, n + 1, Len(wal))
    IN  /\ Counted
        /\ phase' = "recovering"
        /\ circuit' = [Tick(NewCircuit(circuit.fallback), Restored(baseline))
                          EXCEPT !.pending = NoEmission]
        /\ pending' = <<>>
        /\ clock' = 0
        /\ wal' = kept
        /\ synced' = n
        /\ recovered' = Replayed(kept)
        /\ replaying' = FALSE
        /\ batch' = <<>>
        /\ issued' = [t \in Triple |-> issued[t] - NetDelta(Inputs(lost))[t]]
        /\ FeedLost
        /\ UNCHANGED <<policy, baseline, grouping, resealed>>

\* Mutant: the clock starts again.
ClockAfter_Restarts(entries) == clock

\* append_recovered: nothing is logged again, the clock stays ahead.
ClockAfter(entries) == Max({clock} \cup {entries[n].seq + 1 : n \in DOMAIN entries})

ReplayTick ==
    /\ phase = "recovering"
    /\ recovered.ticks # <<>>
    /\ Drain(Head(recovered.ticks))
    /\ clock' = ClockAfter(Head(recovered.ticks))
    /\ recovered' = [recovered EXCEPT !.ticks = Tail(@)]
    /\ replaying' = TRUE
    /\ UNCHANGED <<wal, synced, policy, baseline, events, history>>

FinishRecovery ==
    /\ phase = "recovering"
    /\ recovered.ticks = <<>>
    /\ pending' = recovered.pending
    /\ clock' = ClockAfter(recovered.pending)
    /\ recovered' = NothingRecovered
    /\ replaying' = FALSE
    /\ phase' = "idle"
    /\ UNCHANGED <<circuit, wal, synced, policy, baseline, batch, events, history, feed>>

-----------------------------------------------------------------------------
(* The feed.  subscribe() borrows the circuit, so never during a tick.       *)

NewSubscriber(s) ==
    /\ phase \in {"idle", "recovering"}
    /\ Counted
    /\ Subscribe(s)
    /\ UNCHANGED <<circuit, log, control, history>>

PublishStep == Publish /\ UNCHANGED <<circuit, log, control, events, history>>
ConsumerStep(s) == Consume(s) /\ UNCHANGED <<circuit, log, control, events, history>>
ConsumerStops(s) == CloseReceiver(s) /\ UNCHANGED <<circuit, log, control, events, history>>

Next ==
    \/ \E d \in Input : AppendInput(d)
    \/ BeginTick
    \/ EndTick
    \/ MaybeCheckpoint
    \/ SkipCheckpoint
    \/ Checkpoint
    \/ \E n \in synced .. Len(wal) : Crash(n)
    \/ ReplayTick
    \/ FinishRecovery
    \/ \E s \in Subscriber : NewSubscriber(s) \/ ConsumerStep(s) \/ ConsumerStops(s)
    \/ PublishStep

\* A step of recover(): ReplayTick or FinishRecovery.
RecoverOn == phase = "recovering" /\ phase' \in {"ticking", "idle"}

\* The driver's thread runs on inside a call, and a Block consumer reads on or
\* drops its receiver.  Nothing makes the driver call again, a slow consumer
\* read, or a crash happen.
Fairness ==
    /\ WF_vars(PublishStep)
    /\ WF_vars(EndTick)
    /\ WF_vars(MaybeCheckpoint \/ SkipCheckpoint)
    /\ WF_phase(RecoverOn)
    /\ \A s \in Blocking : WF_vars(ConsumerStep(s))

Spec == Init /\ [][Next]_vars /\ Fairness

-----------------------------------------------------------------------------
(* Properties.                                                               *)

TypeOK ==
    /\ phase \in {"idle", "ticking", "cadence", "recovering"}
    /\ circuit.asserted \in Zset
    /\ policy \in SyncPolicy
    /\ synced \in 0 .. Len(wal)
    /\ clock \in 0 .. MaxEvents
    /\ events \in 0 .. MaxEvents
    /\ receiving \subseteq Subscriber

\* No assertion of tick() fires, over-retracted inputs, replayed ticks and the
\* recompute fallback included.
TickAssertionsHold == circuit.sound

\* After every tick and restart the circuit is what its debug_validate wants, and its
\* closure plan what the present edges close to, in both retraction regimes
\* and whatever multiplicity, also a negative one, an edge has come to.
BetweenTicks == phase \in {"cadence", "recovering"}
CircuitExact ==
    BetweenTicks =>
        IncrementalExact(circuit) /\ RowsOwned(circuit) /\ ClosurePlanExact(circuit)

\* What is present is what the present inputs entail, before a crash and after;
\* where no tick takes the asserted copy of a row that a rule owns, as none does
\* if no input is the head of a rule (Unshadows, and UpdateEngine).
PresentIsEntailed ==
    BetweenTicks => PresentSet(circuit) = Entailed(AssertedSet(circuit))

\* A subscriber that sums a tick's derived records per triple learns which rows
\* came and went.
TotalOf(c, t) == MapThenSumSet(LAMBDA k : c.pending[t][k], Kind)
NetRecordsExact ==
    [][phase # "ticking" /\ phase' = "ticking" =>
          /\ {t \in Triple : TotalOf(circuit', t) > 0} = DerivedSet(circuit') \ DerivedSet(circuit)
          /\ {t \in Triple : TotalOf(circuit', t) < 0} = DerivedSet(circuit) \ DerivedSet(circuit')]_vars

\* The inputs of a sequence of ticks, one after the other.
AllOf(ticks) == FoldLeft(LAMBDA in, b : in \o b, <<>>, ticks)

\* Every input is in the base, pending or about to be replayed, and only once:
\* whichever ticks, checkpoints, crashes and recoveries lie behind.
InputsAccounted ==
    issued = Plus(circuit.asserted,
                  NetDelta(pending \o AllOf(recovered.ticks) \o recovered.pending))

\* What checkpoint() says: no un-ticked input crosses a checkpoint boundary,
\* where truncation would drop it.  What the log no longer has is in the rows
\* the checkpoint stands for.
NoInputTruncated == issued = Plus(baseline, NetDelta(Inputs(wal)))

\* A crash at this point loses no input; a power failure only inputs that were
\* never ticked, and under EveryBatch none.
Unsynced == SubSeq(wal, synced + 1, Len(wal))
CrashLosesNothing ==
    /\ NoInputTruncated
    /\ policy = "EveryBatch" => Unsynced = <<>>
    /\ phase \in {"idle", "cadence"} => IsSuffix(Unsynced, pending)

\* RecoveredInputs: a replay would have the ticks that were run, and the inputs
\* that were not ticked are still pending; until the marker of a replayed tick
\* lands behind an open batch.
GroupingKept ==
    phase = "idle" /\ ~resealed => Replayed(wal) = [ticks |-> grouping, pending |-> pending]

\* The logical times in the log increase, across recoveries.
TimesIncrease ==
    LET in == Inputs(wal) IN \A m, n \in DOMAIN in : m < n => in[m].seq < in[n].seq

\* A tick ends: a subscriber that lags, or has gone, does not hold it up.
TickEnds == phase = "ticking" ~> phase # "ticking"

\* recover() returns, unless there is a crash again.
RecoveryEnds == phase = "recovering" ~> phase = "idle"
=============================================================================

---------------------------- MODULE UpdateEngine ----------------------------
(***************************************************************************)
(* SPARQL Update over a store with a circuit attached: a request's         *)
(* operations, the journal that undoes them (crates/sparql/src/update.rs), *)
(* the write funnel that commits base rows and the circuit's derived rows  *)
(* as one batch (exec/horn.rs), and the engine's own subscription to the   *)
(* change feed (exec/circuit.rs).                                          *)
(*                                                                         *)
(* One named graph stands for all of them.  Terms are interned and data    *)
(* patterns evaluated: an operation is the quads it deletes and adds.      *)
(***************************************************************************)
EXTENDS CircuitInvariants

CONSTANTS
    Operation,         \* the operations a request is made of
    Seed,              \* default rows at the first attach
    Bulk,              \* triples a bulk load brings in
    Capacity,          \* FEED_CAPACITY
    MaxOps,            \* bound: operations per request
    MaxFaults          \* bound: failed storage commits and restarts

Default == "default"
Named == "named"
Graph == {Default, Named}
Quad == Graph \X Triple

ASSUME OperationAssumption ==
    \A op \in Operation : op.kind = "data" => op.dels \subseteq Quad /\ op.adds \subseteq Quad
ASSUME LoadAssumption == Seed \subseteq Triple /\ Bulk \subseteq Triple
ASSUME FaultsAssumption == MaxFaults \in Nat

VARIABLES
    circuit,           \* the attached circuit
    rows,              \* the committed rows of the user's graphs
    mirror,            \* the committed rows of the derived graph
    request,           \* the update request in progress
    faults,            \* the counter of the bound
    bulk,              \* history: default rows the circuit was not told of
    rolledBack,        \* history: a tick has been undone by its inverse
    unshadowed         \* history: a tick met Unshadows

store == <<rows, mirror>>
history == <<bulk, rolledBack, unshadowed>>
vars == <<circuit, store, request, faults, history>>

EmptyRows == [g \in Graph |-> {}]

\* `todo` counts the operations still to come, `sweeping` that the named half
\* of a CLEAR ALL is one of them; `journal` has the first reading of each quad
\* touched, `start` the rows before a
\* journalled request.
NoRequest == [phase |-> "idle", todo |-> 0, sweeping |-> FALSE,
              journalled |-> FALSE, journal |-> {}, start |-> EmptyRows]

\* attach_circuit: the default graph is asserted in one tick.
RecordsOf(ts, m) == Records(ts, OneFor(ts, m))
Flushed(c) == [c EXCEPT !.pending = NoEmission]
Attached(default) == Flushed(Tick(NewCircuit(FALSE), RecordsOf(default, 1)))

Init ==
    /\ circuit = Attached(Seed)
    /\ rows = [EmptyRows EXCEPT ![Default] = Seed]
    /\ mirror = DerivedSet(Attached(Seed))
    /\ request = NoRequest
    /\ faults = 0
    /\ bulk = {}
    /\ rolledBack = FALSE
    /\ unshadowed = FALSE

-----------------------------------------------------------------------------
(* The wiring between the funnel and the circuit.                            *)

Ticked(c, asserts, retracts) == Tick(c, RecordsOf(retracts, -1) \o RecordsOf(asserts, 1))

\* Mutant: whatever storage held is retracted.
FedRetracts_Unfiltered(retracts) == retracts

\* Only rows of the asserted base are retracted: storage also holds rows the
\* circuit never saw.
FedRetracts(retracts) == {t \in retracts : circuit.asserted[t] > 0}

\* More records than the subscription holds drop it part-way.
Overflows(done, asserts, retracts) ==
    Cardinality(asserts) + Cardinality(retracts) + DerivedMerged(done) > Capacity

\* Mutant: each record flips its row by itself.
NetDerived_PerRecord(done) ==
    [dels |-> {t \in Triple : \E k \in Kind : done.pending[t][k] < 0},
     adds |-> {t \in Triple : \E k \in Kind : done.pending[t][k] > 0}]

\* The rows a tick's records flip, netted per triple over the whole tick.
NetDerived(done) ==
    LET total(t) == MapThenSumSet(LAMBDA k : done.pending[t][k], Kind)
    IN  [dels |-> {t \in Triple : total(t) < 0}, adds |-> {t \in Triple : total(t) > 0}]

\* The difference between the derived base and what the graph holds.
Resync(done) == [dels |-> mirror \ DerivedSet(done), adds |-> DerivedSet(done) \ mirror]

MirrorFlips(done, asserts, retracts) ==
    LET net == IF Overflows(done, asserts, retracts) THEN Resync(done) ELSE NetDerived(done)
    IN  [dels |-> net.dels \cap mirror, adds |-> net.adds \ mirror]

-----------------------------------------------------------------------------
(* The funnel: tick on what the batch flips in the default graph, then       *)
(* commit the batch and the derived rows together.                           *)

After(dels, adds) == [g \in Graph |-> (rows[g] \ {q[2] : q \in {d \in dels : d[1] = g}})
                                          \cup {q[2] : q \in {a \in adds : a[1] = g}}]
Asserts(dels, adds) == After(dels, adds)[Default] \ rows[Default]
Retracts(dels, adds) == rows[Default] \ After(dels, adds)[Default]

\* The batch and the rows that the tick `done` flips go in together.
CommitTicked(done, asserts, retracts, dels, adds) ==
    /\ circuit' = Flushed(done)
    /\ rows' = After(dels, adds)
    /\ LET flips == MirrorFlips(done, asserts, retracts)
       IN  mirror' = (mirror \ flips.dels) \cup flips.adds
    /\ bulk' = bulk \cap rows'[Default]
    /\ rolledBack' = (rolledBack /\ ~Overflows(done, asserts, retracts))
    /\ unshadowed' = (unshadowed \/ Unshadows(circuit, done))
    /\ UNCHANGED faults

CommitQuads(dels, adds) ==
    LET asserts  == Asserts(dels, adds)
        retracts == FedRetracts(Retracts(dels, adds))
    IN  CommitTicked(Ticked(circuit, asserts, retracts), asserts, retracts, dels, adds)

\* Mutant: the circuit stays a tick ahead.
InverseTick_None(c, asserts, retracts) == c

InverseTick(c, asserts, retracts) == Ticked(c, retracts, asserts)

\* The commit fails: the circuit ticks the inverse of what it was fed, and
\* the subscription is replaced.
RollbackTicked(done, back) ==
    /\ faults < MaxFaults
    /\ faults' = faults + 1
    /\ circuit' = Flushed(back)
    /\ rolledBack' = TRUE
    /\ unshadowed' = (unshadowed \/ Unshadows(circuit, done) \/ Unshadows(done, back))
    /\ UNCHANGED <<rows, mirror, bulk>>

Rollback(dels, adds) ==
    LET asserts  == Asserts(dels, adds)
        retracts == FedRetracts(Retracts(dels, adds))
        done     == Flushed(Ticked(circuit, asserts, retracts))
    IN  RollbackTicked(done, InverseTick(done, asserts, retracts))

SweptQuads(g) == {g} \X rows[g]

-----------------------------------------------------------------------------
(* Requests.  An operation is a batch of quads, a CLEAR/DROP of a graph, a   *)
(* CREATE, or a pattern update whose graph variable binds a reserved graph.  *)

Existing(g) == rows[g] # {}

\* Existence is checked before anything is applied for the first operation,
\* and for every operation when its turn comes.
Rejected(op) ==
    \/ op.kind = "clear" /\ op.graph = Named /\ ~op.silent /\ ~Existing(Named)
    \/ op.kind = "create" /\ ~op.silent /\ Existing(Named)
    \/ op.kind = "reserved"
Preflight(op) == op.kind = "reserved" \/ ~Rejected(op)

\* The operations are picked as their turn comes.  One operation needs no
\* journal: it is taken for one atomic batch.
BeginRequest(n) ==
    /\ request.phase = "idle"
    /\ request' = [phase |-> "first", todo |-> n, sweeping |-> FALSE,
                   journalled |-> n > 1, journal |-> {},
                   start |-> IF n > 1 THEN rows ELSE EmptyRows]
    /\ UNCHANGED <<circuit, store, faults, history>>

\* Mutant: the last reading replaces the first.
Recorded_LastReading(quads) ==
    IF request.journalled
    THEN {e \in request.journal : e[1] \notin quads} \cup {<<q, q[2] \in rows[q[1]]>> : q \in quads}
    ELSE {}

\* The first reading of a quad is the one that is kept.
Recorded(quads) ==
    IF request.journalled
    THEN request.journal \cup
         {<<q, q[2] \in rows[q[1]]>> : q \in {p \in quads : \A e \in request.journal : e[1] # p}}
    ELSE {}

\* CLEAR ALL sweeps the default graph and then the named one: two batches.
SweepsAll(op) == op.kind = "clear" /\ op.graph = "all"
Dels(op) == CASE op.kind = "data" -> op.dels
              [] op.kind = "clear" -> SweptQuads(IF op.graph = Named THEN Named ELSE Default)
              [] OTHER -> {}
Adds(op) == IF op.kind = "data" THEN op.adds ELSE {}

\* A sweep of an empty graph returns before it commits anything.
Commits(op) == op.kind = "data" \/ Dels(op) # {}

NamedSweep == [kind |-> "clear", graph |-> Named, silent |-> TRUE]
Turn(op) == /\ request.phase \in {"first", "apply"}
            /\ request.phase = "first" => Preflight(op)
            /\ request.sweeping => op = NamedSweep

\* The request is over with its last operation, and the journal dropped.
ApplyOp(op) ==
    /\ Turn(op)
    /\ ~Rejected(op)
    /\ request' = IF request.todo = 1 /\ ~SweepsAll(op)
                  THEN NoRequest
                  ELSE [request EXCEPT !.phase = "apply",
                                       !.todo = IF SweepsAll(op) THEN @ ELSE @ - 1,
                                       !.sweeping = SweepsAll(op),
                                       !.journal = Recorded(Dels(op) \cup Adds(op))]
    /\ IF Commits(op) THEN CommitQuads(Dels(op), Adds(op))
                      ELSE UNCHANGED <<circuit, store, faults, history>>

RejectOp(op) ==
    /\ Turn(op)
    /\ Rejected(op)
    /\ request' = [request EXCEPT !.phase = "undo"]
    /\ UNCHANGED <<circuit, store, faults, history>>

FailOp(op) ==
    /\ Turn(op)
    /\ ~Rejected(op)
    /\ Commits(op)
    /\ Rollback(Dels(op), Adds(op))
    /\ request' = [request EXCEPT !.phase = "undo",
                                  !.journal = Recorded(Dels(op) \cup Adds(op))]

\* Journal::rollback: one batch that restores every recorded quad.
Restored(live) == {e[1] : e \in {r \in request.journal : r[2] = live}}

UndoRequest ==
    /\ request.phase = "undo"
    /\ IF request.journal # {}
       THEN CommitQuads(Restored(FALSE), Restored(TRUE))
       ELSE UNCHANGED <<circuit, store, faults, history>>
    /\ request' = NoRequest

\* Best effort: a rollback batch that fails is dropped.
FailUndo ==
    /\ request.phase = "undo"
    /\ request.journal # {}
    /\ Rollback(Restored(FALSE), Restored(TRUE))
    /\ request' = NoRequest

-----------------------------------------------------------------------------
\* A bulk load commits below the funnel: the circuit does not hear of it.
BulkLoad(t) ==
    /\ request.phase = "idle"
    /\ t \notin rows[Default]
    /\ rows' = [rows EXCEPT ![Default] = @ \cup {t}]
    /\ bulk' = bulk \cup {t}
    /\ UNCHANGED <<circuit, mirror, request, faults, rolledBack, unshadowed>>

\* Kill the process, open the store and attach a new circuit: the default
\* graph is asserted in one tick and the derived graph set by difference.
Reopen ==
    /\ faults < MaxFaults
    /\ faults' = faults + 1
    /\ circuit' = Attached(rows[Default])
    /\ mirror' = DerivedSet(circuit')
    /\ request' = NoRequest
    /\ bulk' = {}
    /\ rolledBack' = FALSE
    /\ unshadowed' = FALSE
    /\ UNCHANGED rows

Next ==
    \/ \E n \in 1 .. MaxOps : BeginRequest(n)
    \/ \E op \in Operation \cup {NamedSweep} : ApplyOp(op) \/ RejectOp(op) \/ FailOp(op)
    \/ UndoRequest
    \/ FailUndo
    \/ \E t \in Bulk : BulkLoad(t)
    \/ Reopen

Spec == Init /\ [][Next]_vars

-----------------------------------------------------------------------------
(* Properties.                                                               *)

\* The shape of the state; asserted multiplicities are 0 or 1 here, as the
\* funnel feeds flips only.
TypeOK ==
    /\ circuit.asserted \in [Triple -> {0, 1}]
    /\ circuit.attr \in [Triple -> Rule \cup {NoRule}]
    /\ circuit.support \subseteq EdgeTriple
    /\ circuit.closure \in Closure
    /\ rows \in [Graph -> SUBSET Triple]
    /\ mirror \subseteq Triple
    /\ request.phase \in {"idle", "first", "apply", "undo"}
    /\ request.journal \subseteq Quad \X BOOLEAN
    /\ faults \in 0 .. MaxFaults

\* No assert! or debug_assert! of tick() fires, in any tick an update, an
\* undo, the inverse tick of a failed commit or an attach runs: fixpoints
\* converge, weights move the way their phase says and never below zero, a row
\* with derivations is in the extent, and a net record is +1 or -1.
TickAssertionsHold == circuit.sound

\* debug_validate (i) and (ii) after every tick: the extent, the weights and
\* the traces, maintained by deltas through retractions, overdeletion and
\* inverse ticks, are what a recount gives.
IncrementalStateExact == IncrementalExact(circuit)

\* debug_validate (iii) and (iv), both ways: rules and closure share derived
\* rows without losing one or leaving one that nobody owns.
DerivedRowsOwned == RowsOwned(circuit)

\* The closure plan holds the closure of the asserted edges.
ClosureExact == ClosurePlanExact(circuit)

\* The circuit's asserted base is the default graph, minus the rows a bulk
\* load put there behind its back (HDB-150), after any mix of updates, undone
\* requests, failed commits, bulk loads and restarts.
AssertedIsDefaultGraph == AssertedSet(circuit) = rows[Default] \ bulk

\* The derived graph holds the circuit's derived rows, whether the records of
\* the tick fitted the subscription or forced a resync, until a commit fails.
MirrorIsDerivedBase == ~rolledBack => mirror = DerivedSet(circuit)

\* A query over the default union sees the default graph and exactly what its
\* asserted rows entail: a deleted row that is still entailed stays visible, a
\* consequence whose support is gone, also if it supports itself, does not.
\* Never fewer; more only after an asserted copy of a rule-owned row went.
Visible == rows[Default] \cup mirror
QueriesSeeEntailed ==
    ~rolledBack =>
        /\ Entailed(AssertedSet(circuit)) \subseteq Visible
        /\ ~unshadowed => Visible = Entailed(AssertedSet(circuit)) \cup bulk

\* A request that fails part-way, on an operation that later turns out to be
\* illegal or on a failed commit, leaves the rows as they were before it:
\* also when its operations touched one quad twice.  CLEAR ALL as the only
\* operation is several batches without a journal, and exempt.
FailedRequestUndone ==
    [][UndoRequest /\ request.journalled => rows' = request.start]_vars

\* What circuit.rs says of a retraction: a row whose rule weight is cyclic-only
\* is never kept.
NoSelfSupport == ~rolledBack => DerivedSet(circuit) \subseteq Entailed(AssertedSet(circuit))
=============================================================================

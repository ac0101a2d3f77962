------------------------------ MODULE Circuit ------------------------------
(***************************************************************************)
(* One tick of the incremental circuit (crates/incremental/src/circuit.rs, *)
(* operator.rs, closure_plan.rs): the records of the pending log are       *)
(* merged into the asserted base, the transitive-closure plan and then the *)
(* rules bring the derived base up to date, and the net derived records    *)
(* are what the change feed publishes.                                     *)
(*                                                                         *)
(* Rules appear as their ground instances, so a join is a product of       *)
(* multiplicities; the slices of the extent by predicate and the order the *)
(* planner picks change the cost of a join, not what it derives.           *)
(* Everything here is a function of the circuit's state, held in a record. *)
(***************************************************************************)
EXTENDS IncrementalClosure, Sequences, SequencesExt

CONSTANTS
    ClosurePredicate,  \* the predicate of the one transitive-closure plan
    Fact,              \* triples of other predicates
    Rule,              \* rule ids, in the order the plans were registered
    Instance,          \* ground instances of the rules
    MaxRounds          \* MAX_FIXPOINT_ROUNDS, and MAX_ROUNDS of the fallback

Edge(p) == <<p[1], ClosurePredicate, p[2]>>
EdgeTriple == {Edge(p) : p \in Pair}
Triple == EdgeTriple \cup Fact
PairOf(t) == <<t[1], t[3]>>

ASSUME RuleAssumption == Rule \subseteq Nat \ {0} /\ IsFiniteSet(Rule)
ASSUME FactAssumption == IsFiniteSet(Fact)
ASSUME RoundsAssumption == MaxRounds \in Nat \ {0}
ASSUME InstanceAssumption ==
    /\ IsFiniteSet(Instance)
    /\ \A i \in Instance : /\ i.rule \in Rule
                           /\ i.head \in Triple
                           /\ i.body \in Seq(Triple)
                           /\ Len(i.body) \in {2, 3}

NoRule == 0            \* absence from rule_attr
ClosureInferred == 0   \* the kind of a record; a rule's id is RuleInferred
Kind == Rule \cup {ClosureInferred}

\* The left input a three-atom plan keeps integrated between rounds.
Prefix == {<<i.body[1], i.body[2]>> : i \in {j \in Instance : Len(j.body) = 3}}

(***************************************************************************)
(* Z-sets: a triple, and a pending record, to its multiplicity.            *)
(***************************************************************************)
\* f itself.  TLC would recompute the function at each application, and so
\* all the functions it is built from; a comparison makes it compute a table.
Tabulated(f) == IF f = f THEN f ELSE f

Zset == [Triple -> Int]
EmptyZset == [t \in Triple |-> 0]
Plus(z, d) == Tabulated([t \in Triple |-> z[t] + d[t]])
OneFor(ts, n) == [t \in Triple |-> IF t \in ts THEN n ELSE 0]

NoEmission == [t \in Triple |-> [k \in Kind |-> 0]]
Emit(pending, ts, n, kindOf) ==
    Tabulated([t \in Triple |-> [k \in Kind |->
        pending[t][k] + IF t \in ts /\ k = kindOf[t] THEN n ELSE 0]])

CircuitState ==
    [asserted : Zset, derived : Zset, extent : Zset,
     weights : [Triple -> [Rule -> Int]], attr : [Triple -> Rule \cup {NoRule}],
     support : SUBSET EdgeTriple, closure : Closure,
     warm : BOOLEAN, trace : [Prefix -> Int],
     pending : [Triple -> [Kind -> Int]],
     fallback : BOOLEAN, sound : BOOLEAN]

\* `sound`: every assert! and debug_assert! evaluated so far held.
NewCircuit(recompute_fallback) ==
    [asserted |-> EmptyZset, derived |-> EmptyZset, extent |-> EmptyZset,
     weights |-> [t \in Triple |-> [r \in Rule |-> 0]],
     attr |-> [t \in Triple |-> NoRule],
     support |-> {}, closure |-> EmptyClosure,
     warm |-> FALSE, trace |-> [p \in Prefix |-> 0],
     pending |-> NoEmission, fallback |-> recompute_fallback, sound |-> TRUE]

Check(c, condition) == [c EXCEPT !.sound = @ /\ condition]

BasePresence(c, t) == c.asserted[t] > 0 \/ c.derived[t] > 0
Owned(c, t) == c.attr[t] # NoRule
TotalWeight(c, t) == MapThenSumSet(LAMBDA r : c.weights[t][r], {r \in Rule : c.weights[t][r] # 0})
FirstAttrRule(c, t) == Min({r \in Rule : c.weights[t][r] > 0})

\* What the bases imply for the extent membership of ts, on top of delta.
NotePresenceChange(c, ts, delta) ==
    Tabulated([t \in Triple |->
        LET now     == BasePresence(c, t)
            present == c.extent[t] + delta[t] > 0
        IN  delta[t] + CASE t \in ts /\ now /\ ~present -> 1
                         [] t \in ts /\ ~now /\ present -> -1
                         [] OTHER -> 0])

\* Mutant: the row is materialized and not published.
MaterializeRuleRows_Unpublished(c, ts) ==
    [c EXCEPT !.derived = Plus(@, OneFor(ts, 1)),
              !.attr    = Tabulated([t \in Triple |->
                                  IF t \in ts THEN FirstAttrRule(c, t) ELSE @[t]])]

MaterializeRuleRows(c, ts) ==
    [c EXCEPT !.derived = Plus(@, OneFor(ts, 1)),
              !.attr    = Tabulated([t \in Triple |->
                                  IF t \in ts THEN FirstAttrRule(c, t) ELSE @[t]]),
              !.pending = Emit(@, ts, 1, [t \in Triple |-> FirstAttrRule(c, t)])]

WithdrawDerivedRows(c, ts, kindOf) ==
    [c EXCEPT !.derived = Tabulated([t \in Triple |-> IF t \in ts THEN 0 ELSE @[t]]),
              !.pending = Emit(@, ts, -1, kindOf)]

\* Mutant: the closure does not note the rows it owns.
MaterializeClosureRows_Unowned(c, ts) ==
    [c EXCEPT !.derived = Plus(@, OneFor(ts, 1)),
              !.pending = Emit(@, ts, 1, [t \in Triple |-> ClosureInferred])]

MaterializeClosureRows(c, ts) ==
    [c EXCEPT !.derived = Plus(@, OneFor(ts, 1)),
              !.support = Listed(@ \cup ts),
              !.pending = Emit(@, ts, 1, [t \in Triple |-> ClosureInferred])]

(***************************************************************************)
(* The closure passes.  Each acts on every triple by itself, and records   *)
(* what it did to the extent in the delta that seeds the rules.            *)
(***************************************************************************)
\* Rows that lost their closure support go, unless a rule owns them: those
\* are the orphans.  A deleted edge still entailed is promoted to a derived
\* row.
ClosureWithdraw(c, outcome, delta) ==
    LET withdraw == {Edge(p) : p \in outcome.withdrawn}
        lost     == withdraw \cap c.support
        orphans  == {t \in lost : Owned(c, t)}
        cut      == [c EXCEPT !.closure = outcome.closure, !.support = Listed(@ \ withdraw)]
        zeroed   == WithdrawDerivedRows(cut, lost \ orphans, [t \in Triple |-> ClosureInferred])
        promote  == {t \in {Edge(p) : p \in outcome.survived} :
                        t \notin zeroed.support /\ c.asserted[t] <= 0}
        rows     == {t \in promote : zeroed.derived[t] <= 0}
        done     == [MaterializeClosureRows(zeroed, rows) EXCEPT !.support = Listed(@ \cup promote)]
    IN  [circuit |-> done,
         delta   |-> NotePresenceChange(done, (lost \ orphans) \cup rows, delta),
         orphans |-> orphans]

ClosureRetractPass(c, edges, delta) ==
    ClosureWithdraw(c, DeleteEdges(c.closure, {PairOf(t) : t \in edges}), delta)

\* Newly closed pairs absent from both bases become derived rows; those a
\* rule already derived get the closure as a second owner.
ClosureInsertionPass(c, edges, delta) ==
    LET closure  == InsertEdges(c.closure, {PairOf(t) : t \in edges})
        inferred == {Edge(p) : p \in closure.closed \ c.closure.closed}
        rows     == {t \in inferred : ~BasePresence(c, t)}
        shared   == {t \in inferred : BasePresence(c, t) /\ c.derived[t] # 0}
        done     == [MaterializeClosureRows(c, rows)
                        EXCEPT !.closure = closure, !.support = Listed(@ \cup shared)]
    IN  [circuit |-> done, delta |-> NotePresenceChange(done, rows, delta)]

(***************************************************************************)
(* The rules.  A round joins the delta with the extent as it was before    *)
(* the round, and then folds the delta into the extent.                    *)
(***************************************************************************)
InstancesOf == [t \in Triple |-> [r \in Rule |-> {i \in Instance : i.head = t /\ i.rule = r}]]

\* Mutant: the changes of both sides are not joined with each other.
JoinDelta_NoCross(a, b, da, db) == da * b + a * db

JoinDelta(a, b, da, db) == da * b + a * db + da * db
FirstJoinDelta(extent, delta, p) ==
    JoinDelta(extent[p[1]], extent[p[2]], delta[p[1]], delta[p[2]])

\* A plan's trace is rebuilt from the extent the first time it is used.
Trace(c) == IF c.warm THEN c.trace
            ELSE [p \in Prefix |-> c.extent[p[1]] * c.extent[p[2]]]

InstanceDelta(c, delta, i) ==
    LET p     == <<i.body[1], i.body[2]>>
        first == FirstJoinDelta(c.extent, delta, p)
    IN  IF Len(i.body) = 2 THEN first
        ELSE JoinDelta(Trace(c)[p], c.extent[i.body[3]], first, delta[i.body[3]])

FixpointRound(c, delta) ==
    [c EXCEPT
        !.weights = Tabulated([t \in Triple |-> [r \in Rule |->
            @[t][r] + MapThenSumSet(LAMBDA i : InstanceDelta(c, delta, i), InstancesOf[t][r])]]),
        !.trace   = Tabulated([p \in Prefix |->
            Trace(c)[p] + FirstJoinDelta(c.extent, delta, p)]),
        !.warm    = TRUE,
        !.extent  = Plus(@, delta)]

\* Rows whose weights the round moved, and those it lifted from zero.
Moved(c, d) == {t \in Triple : \E r \in Rule : c.weights[t][r] # d.weights[t][r]}
Crossed(c, d) == {t \in Moved(c, d) : TotalWeight(c, t) <= 0 /\ TotalWeight(d, t) > 0}
NoneBelowZero(c, d) == \A t \in Moved(c, d) : TotalWeight(d, t) >= 0
Grew(c, d) == \A t \in Moved(c, d) : TotalWeight(d, t) >= TotalWeight(c, t)
Shrank(c, d) == \A t \in Moved(c, d) : TotalWeight(d, t) <= TotalWeight(c, t)

\* Rounds until the delta is empty; more than MaxRounds is an assertion failure.
\* Settle(s, d) is what a phase makes of a round that took s.circuit to d.
Fixpoint(Settle(_, _), start) ==
    LET run[n \in 0 .. MaxRounds] ==
            IF n = 0 THEN start
            ELSE LET s == run[n - 1]
                 IN  IF s.delta = EmptyZset THEN s
                     ELSE Settle(s, FixpointRound(s.circuit, s.delta))
        last == run[MaxRounds]
    IN  [last EXCEPT !.circuit = Check(@, last.delta = EmptyZset)]

\* Insertions only: a row is materialized as soon as it gets a derivation,
\* unless it is asserted or derived already.
InsertionSettle(s, d) ==
    LET c    == s.circuit
        rows == {t \in Crossed(c, d) : d.asserted[t] <= 0 /\ d.derived[t] = 0}
        done == MaterializeRuleRows(Check(d, NoneBelowZero(c, d) /\ Grew(c, d)), rows)
    IN  [circuit |-> done, delta |-> NotePresenceChange(done, rows, EmptyZset)]

InsertionFixpoint(c, delta) ==
    Fixpoint(InsertionSettle, [circuit |-> c, delta |-> delta]).circuit

\* R1: every uncovered row that loses a derivation leaves the extent.
OverdeleteSettle(s, d) ==
    LET c    == s.circuit
        rows == {t \in Moved(c, d) \ s.candidates :
                    /\ TotalWeight(d, t) < TotalWeight(c, t)
                    /\ d.asserted[t] <= 0
                    /\ t \notin d.support}
    IN  [circuit    |-> Check(d, NoneBelowZero(c, d) /\ Shrank(c, d)),
         delta      |-> OneFor({t \in rows : d.extent[t] > 0}, -1),
         candidates |-> Listed(s.candidates \cup rows),
         touched    |-> Listed(s.touched \cup Moved(c, d))]

\* R2: what the survivors and the tick's additions derive comes back.
RederiveSettle(s, d) ==
    LET c == s.circuit
    IN  [s EXCEPT !.circuit = Check(d, NoneBelowZero(c, d) /\ Grew(c, d)),
                  !.delta   = OneFor({t \in Crossed(c, d) : d.extent[t] <= 0}, 1),
                  !.touched = Listed(@ \cup Moved(c, d))]

\* The row is the rules' if it is derivable and they had it, or nobody else has.
NetTransitions(c, touched) ==
    LET covered  == {t \in touched : c.asserted[t] > 0 \/ t \in c.support}
        should   == {t \in touched : /\ TotalWeight(c, t) > 0
                                     /\ c.extent[t] > 0
                                     /\ Owned(c, t) \/ t \notin covered}
        kept     == {t \in should : Owned(c, t)}
        fresh    == should \ kept
        lapsed   == {t \in touched \ should : Owned(c, t)}
        checked  == Check(c, /\ \A t \in touched : TotalWeight(c, t) <= 0 \/ c.extent[t] > 0
                             /\ \A t \in fresh : c.derived[t] = 0)
        renamed  == [checked EXCEPT !.attr = [t \in Triple |->
                        IF t \in kept THEN FirstAttrRule(c, t) ELSE @[t]]]
        added    == MaterializeRuleRows(renamed, fresh)
        gone     == WithdrawDerivedRows(added, lapsed \ c.support, c.attr)
    IN  [gone EXCEPT !.attr = [t \in Triple |-> IF t \in lapsed THEN NoRule ELSE @[t]]]

\* Mutant: only what the tick added is propagated.
RederiveSeed_GainOnly(c, candidates, gain) == gain

\* What R2 starts from: the tick's additions, and the overdeleted rows that
\* still have a derivation.
RederiveSeed(c, candidates, gain) ==
    Plus(gain, OneFor({t \in candidates : TotalWeight(c, t) > 0 /\ c.extent[t] + gain[t] <= 0}, 1))

\* R2 and the net transitions, after R1 has left `cut`.
Rederive(cut, gain) ==
    LET seeds == RederiveSeed(cut.circuit, cut.candidates, gain)
        grow  == Fixpoint(RederiveSettle, [cut EXCEPT !.delta = seeds])
    IN  NetTransitions(grow.circuit, grow.touched)

TwoPhaseFixpoint(c, delta) ==
    LET lost == {t \in Triple : delta[t] < 0}
        seed == {t \in lost : TotalWeight(c, t) > 0}
    IN  Rederive(Fixpoint(OverdeleteSettle,
                    [circuit    |-> c,
                     delta      |-> [t \in Triple |-> IF t \in lost THEN delta[t] ELSE 0],
                     candidates |-> seed, touched |-> seed]),
                 [t \in Triple |-> IF t \in lost THEN 0 ELSE delta[t]])

(***************************************************************************)
(* The debug fallback: recompute the rules from nothing and take the       *)
(* difference, then rebuild extent, weights and traces.                    *)
(***************************************************************************)
Derives(i, present) == \A n \in DOMAIN i.body : i.body[n] \in present

\* Rule-derived rows with the first rule that derived each, in rounds that
\* read the rows of the round before.  A round that adds a row must be followed
\* by another: the recompute has converged if the last one added none.
RecomputeRuleClosure(c) ==
    LET seed == {t \in Triple : c.asserted[t] > 0} \cup c.support
        round[n \in 0 .. MaxRounds] ==
            IF n = 0 THEN [rows |-> seed, attr |-> [t \in Triple |-> NoRule]]
            ELSE LET s     == round[n - 1]
                     rules == [t \in Triple |->
                                 {i.rule : i \in {j \in Instance :
                                              j.head = t /\ Derives(j, s.rows)}}]
                     new   == {t \in Triple \ s.rows : rules[t] # {}}
                 IN  [rows |-> s.rows \cup new,
                      attr |-> [t \in Triple |-> IF t \in new THEN Min(rules[t]) ELSE s.attr[t]]]
    IN  [attr      |-> round[MaxRounds].attr,
         converged |-> round[MaxRounds].rows = round[MaxRounds - 1].rows]

ResyncIncrementalState(c) ==
    LET present == {t \in Triple : BasePresence(c, t)}
    IN  [c EXCEPT
            !.extent  = OneFor(present, 1),
            !.weights = Tabulated([t \in Triple |-> [r \in Rule |->
                Cardinality({i \in InstancesOf[t][r] : Derives(i, present)})]]),
            !.warm    = FALSE,
            !.trace   = [p \in Prefix |-> 0]]

\* The rule rows become those of attr.
ReplaceRuleRows(c, attr) ==
    LET fresh  == {t \in Triple : attr[t] # NoRule /\ ~Owned(c, t)}
        lapsed == {t \in Triple : attr[t] = NoRule /\ Owned(c, t)} \ c.support
        added  == [c EXCEPT !.derived = Plus(@, OneFor(fresh, 1)),
                            !.pending = Emit(@, fresh, 1, attr)]
        gone   == WithdrawDerivedRows(added, lapsed, c.attr)
    IN  ResyncIncrementalState([gone EXCEPT !.attr = attr])

RecomputeRules(c) ==
    LET found == RecomputeRuleClosure(c)
    IN  ReplaceRuleRows(Check(c, found.converged), found.attr)

RecomputeFallback(c, insEdges, delEdges) ==
    LET cut == ClosureRetractPass(c, delEdges, EmptyZset).circuit
    IN  RecomputeRules(ClosureInsertionPass(cut, insEdges, EmptyZset).circuit)

(***************************************************************************)
(* The tick.  A record is a triple and +1 (assert) or -1 (retract).        *)
(***************************************************************************)
Record == [triple : Triple, mult : {1, -1}]

NetDelta(records) ==
    FoldLeft(LAMBDA z, rec : [z EXCEPT ![rec.triple] = @ + rec.mult], EmptyZset, records)

\* Records that bring the triples ts in, each with its multiplicity in z.
Records(ts, z) == FoldSet(LAMBDA t, s : Append(s, [triple |-> t, mult |-> z[t]]), <<>>, ts)

\* Mutant: any asserted copy more.
InsertedEdges_RawDelta(c, delta) == {t \in EdgeTriple : delta[t] > 0}

\* The edges the closure plan hears of: those present after the tick, and
\* those that are not, whatever their multiplicity was and is.
InsertedEdges(c, delta) == {t \in EdgeTriple : delta[t] > 0 /\ c.asserted[t] > 0}

\* Mutant: only an edge whose multiplicity is back at zero is gone.
DeletedEdges_AtZero(c, delta) == {t \in EdgeTriple : delta[t] < 0 /\ c.asserted[t] = 0}

DeletedEdges(c, delta) == {t \in EdgeTriple : delta[t] < 0 /\ c.asserted[t] <= 0}

\* Mutant: the row is taken at its weight.
OrphanReseed_None(c, orphans, delta) == delta

\* A rule-owned row that lost its closure support, and has no other cover, may
\* rest on its own consequences: it is put to the two-phase fixpoint.
OrphanReseed(c, orphans, delta) ==
    Plus(delta, OneFor({t \in orphans : /\ t \notin c.support
                                        /\ c.asserted[t] <= 0
                                        /\ Owned(c, t)
                                        /\ delta[t] = 0}, -1))

\* One retraction anywhere and all the rules take the two phases.
RunRules(c, delta) ==
    IF \E t \in Triple : delta[t] < 0
    THEN TwoPhaseFixpoint(c, delta)
    ELSE InsertionFixpoint(c, delta)

RulesAfterClosure(grown, orphans) ==
    RunRules(grown.circuit, OrphanReseed(grown.circuit, orphans, grown.delta))

InsertionsAndRules(cut, insEdges) ==
    RulesAfterClosure(ClosureInsertionPass(cut.circuit, insEdges, cut.delta), cut.orphans)

UnifiedPath(c, flipped, insEdges, delEdges, has_retraction) ==
    LET noted == NotePresenceChange(c, flipped, EmptyZset)
    IN  InsertionsAndRules(
            IF has_retraction THEN ClosureRetractPass(c, delEdges, noted)
                              ELSE [circuit |-> c, delta |-> noted, orphans |-> {}],
            insEdges)

\* The last debug assertion of a tick: a net record is +1 or -1.
NetRecordsChecked(c) == Check(c, \A t \in Triple, k \in Kind : c.pending[t][k] \in -1 .. 1)

\* The circuit after the tick; its `pending` are the net derived records the
\* tick publishes.
Tick(c, records) ==
    LET delta    == NetDelta(records)
        merged   == [c EXCEPT !.asserted = Plus(@, delta), !.pending = NoEmission]
        flipped  == {t \in Triple : (c.asserted[t] > 0) # (merged.asserted[t] > 0)}
        insEdges == InsertedEdges(merged, delta)
        delEdges == DeletedEdges(merged, delta)
        retracts == \E n \in DOMAIN records : records[n].mult < 0
    IN  NetRecordsChecked(
            IF c.fallback /\ retracts
            THEN RecomputeFallback(merged, insEdges, delEdges)
            ELSE UnifiedPath(merged, flipped, insEdges, delEdges, retracts))

\* How many net derived records the tick published.
DerivedMerged(c) == Cardinality({e \in Triple \X Kind : c.pending[e[1]][e[2]] # 0})
=============================================================================

-------------------------- MODULE CircuitExactness --------------------------
(***************************************************************************)
(* A tick keeps a circuit what its asserted base makes of it, whatever the *)
(* rules, the closure and the records are.  The plan is the closure of the *)
(* asserted edges and its support the closed pairs (TickPlan); extent,     *)
(* weights and traces are what a recount gives, and a row that is derived  *)
(* is present (TickExact); no assertion fails, given a round for every     *)
(* triple (TickSound); and nothing comes to be present that the asserted   *)
(* rows do not entail, unless a row's asserted copy is taken while a rule  *)
(* owns it (TickSupported).  Held is the invariant between two ticks.      *)
(***************************************************************************)
EXTENDS CircuitProofs

-----------------------------------------------------------------------------
(* The closure plan.                                                         *)

LEMMA ListedIs == \A S : Listed(S) = S
BY DEF Listed

EdgeOf(ps) == {Edge(p) : p \in ps}
PairsOf(ts) == {PairOf(t) : t \in ts}

\* Every closed pair is asserted or a row of the closure, and the closure has
\* no other rows.
SupportHolds(c) ==
    /\ c.support \subseteq EdgeOf(c.closure.closed)
    /\ \A p \in c.closure.closed : Edge(p) \in c.support \/ c.asserted[Edge(p)] > 0

\* The plan between two ticks.
PlanHolds(c) ==
    /\ PlanClosed(c.closure)
    /\ c.closure.base = PairsOf(AssertedSet(c) \cap EdgeTriple)
    /\ SupportHolds(c)

\* Records without a retraction add up to no retraction.
LEMMA NetAsserts ==
    ASSUME NEW X, Summable(X), NEW records \in Seq(X), ~(\E n \in DOMAIN records : records[n].mult < 0)
    PROVE  \A t \in Triple : NetDelta(records)[t] >= 0
<1> DEFINE Y == {x \in X : x.mult >= 0}
           P == {z \in Zset : \A t \in Triple : z[t] >= 0}
<1>1. records \in Seq(Y)
  <2>1. \A n \in 1 .. Len(records) : records[n] \in Y
    BY DEF Summable
  <2> HIDE DEF Y
  <2> QED BY <2>1
<1>2. \A y \in Y : y.triple \in Triple /\ y.mult \in Int /\ y.mult >= 0
  BY DEF Summable
<1>3. EmptyZset \in P
  BY DEF EmptyZset, Zset
<1>4. ASSUME NEW z \in P, NEW y \in Y PROVE [z EXCEPT ![y.triple] = @ + y.mult] \in P
  <2>1. z \in [Triple -> Int] /\ \A t \in Triple : z[t] >= 0
    BY DEF Zset
  <2>2. y.triple \in Triple /\ y.mult \in Int /\ y.mult >= 0
    BY <1>2
  <2> HIDE DEF P, Y
  <2>3. z[y.triple] + y.mult \in Int /\ z[y.triple] + y.mult >= 0
    BY <2>1, <2>2
  <2> QED BY <2>1, <2>2, <2>3 DEF P, Zset
<1>5. Net!Folded(0, EmptyZset, records) \in P
  <2> HIDE DEF P, Y
  <2> QED BY <1>1, <1>3, <1>4, NetInductive, Net!FoldIn
<1> QED BY <1>5, NetFold

\* ClosureWithdraw, given a deletion of the edges ps: what it does to the plan.
LEMMA WithdrawPlan ==
    ASSUME NEW c \in CircuitState, PlanClosed(c.closure), NEW ps \in SUBSET Pair, NEW delta,
           c.support \subseteq EdgeOf(c.closure.closed),
           \A p \in c.closure.closed : \/ Edge(p) \in c.support
                                       \/ c.asserted[Edge(p)] > 0
                                       \/ p \in ps \cap c.closure.base
    PROVE  LET outcome == [closure   |-> PlanOf(c.closure.base \ ps),
                           withdrawn |-> c.closure.closed \ Closed(c.closure.base \ ps),
                           survived  |-> ps \cap c.closure.base \cap Closed(c.closure.base \ ps)]
               d == ClosureWithdraw(c, outcome, delta).circuit
           IN  d.closure = PlanOf(c.closure.base \ ps) /\ d.asserted = c.asserted /\ SupportHolds(d)
<1> DEFINE base     == c.closure.base \ ps
           closed   == Closed(base)
           outcome  == [closure |-> PlanOf(base), withdrawn |-> c.closure.closed \ closed,
                        survived |-> ps \cap c.closure.base \cap closed]
           withdraw == {Edge(p) : p \in outcome.withdrawn}
           lost     == withdraw \cap c.support
           orphans  == {t \in lost : Owned(c, t)}
           cut      == [c EXCEPT !.closure = outcome.closure, !.support = Listed(@ \ withdraw)]
           zeroed   == WithdrawDerivedRows(cut, lost \ orphans, [t \in Triple |-> ClosureInferred])
           promote  == {t \in {Edge(p) : p \in outcome.survived} :
                           t \notin zeroed.support /\ c.asserted[t] <= 0}
           rows     == {t \in promote : zeroed.derived[t] <= 0}
           grown    == MaterializeClosureRows(zeroed, rows)
           done     == [grown EXCEPT !.support = Listed(@ \cup promote)]
<1>1. ClosureWithdraw(c, outcome, delta).circuit = done
  BY DEF ClosureWithdraw
<1>2. c.closure.base \subseteq Pair /\ c.closure.closed = Closed(c.closure.base) /\ c.support \subseteq EdgeTriple
      /\ c.asserted \in Zset
  BY PlanClosedForm, StateShape
<1>3. closed \subseteq c.closure.closed /\ closed \subseteq Pair /\ c.closure.closed \subseteq Pair
  <2>1. base \in SUBSET Pair /\ base \subseteq c.closure.base
    BY <1>2
  <2> HIDE DEF base
  <2> QED BY <1>2, <2>1, ClosedMonotone, ClosedIs
<1>4. /\ cut.closure = PlanOf(base) /\ cut.support = c.support \ withdraw /\ cut.asserted = c.asserted
      /\ DOMAIN cut = DOMAIN c
  BY <1>2, StateShape DEF Listed
<1>5. DOMAIN c = {"asserted", "derived", "extent", "weights", "attr", "support", "closure", "warm",
                  "trace", "pending", "fallback", "sound"}
  BY StateShape
<1> HIDE DEF cut
<1>6. /\ zeroed.closure = PlanOf(base) /\ zeroed.support = c.support \ withdraw
      /\ zeroed.asserted = c.asserted /\ DOMAIN zeroed = DOMAIN c
  BY <1>4, <1>5 DEF WithdrawDerivedRows
<1> HIDE DEF zeroed, lost, orphans
<1>7. /\ grown.closure = PlanOf(base) /\ grown.support = zeroed.support \cup rows
      /\ grown.asserted = c.asserted /\ DOMAIN grown = DOMAIN c
  BY <1>5, <1>6, ListedIs DEF MaterializeClosureRows
<1> HIDE DEF grown
<1>8. /\ done.closure = PlanOf(base) /\ done.support = grown.support \cup promote
      /\ done.asserted = c.asserted
  BY <1>5, <1>7, ListedIs
<1>9. done.support = (c.support \ withdraw) \cup promote
  BY <1>6, <1>7, <1>8
<1> HIDE DEF done
<1>10. done.closure.closed = closed
  BY <1>8 DEF PlanOf
<1>11. \A p \in Pair, q \in Pair : Edge(p) = Edge(q) => p = q
  BY EdgePairs
<1>12. ASSUME NEW t \in done.support PROVE t \in EdgeOf(closed)
  <2>1. CASE t \in promote
    BY <2>1 DEF EdgeOf
  <2>2. CASE t \in c.support /\ t \notin withdraw
    <3>1. PICK p \in c.closure.closed : t = Edge(p)
      BY <2>2 DEF EdgeOf
    <3>2. p \in closed
      BY <2>2, <3>1
    <3> QED BY <3>1, <3>2 DEF EdgeOf
  <2> QED BY <1>9, <2>1, <2>2
<1>13. ASSUME NEW p \in closed PROVE Edge(p) \in done.support \/ done.asserted[Edge(p)] > 0
  <2>1. Edge(p) \notin withdraw /\ p \in c.closure.closed
    BY <1>3, <1>11
  <2>2. CASE Edge(p) \in c.support
    BY <1>9, <2>1, <2>2
  <2>3. CASE c.asserted[Edge(p)] > 0
    BY <1>8, <2>3
  <2>4. CASE p \in ps \cap c.closure.base /\ ~(c.asserted[Edge(p)] > 0)
    <3>1. c.asserted[Edge(p)] <= 0
      <4>1. c.asserted[Edge(p)] \in Int
        <5>1. Edge(p) \in Triple
          BY <1>3, EdgePairs
        <5> QED BY <1>2, <5>1, ZsetAt
      <4> QED BY <2>4, <4>1
    <3>2. Edge(p) \in {Edge(q) : q \in outcome.survived}
      BY <2>4
    <3>3. Edge(p) \in zeroed.support \/ Edge(p) \in promote
      BY <3>1, <3>2
    <3> QED BY <1>6, <1>9, <3>3
  <2> QED BY <2>1, <2>2, <2>3, <2>4
<1>14. SupportHolds(done)
  BY <1>10, <1>12, <1>13 DEF SupportHolds
<1> HIDE DEF outcome
<1> QED BY <1>1, <1>8, <1>14 DEF outcome

LEMMA RetractPlan ==
    ASSUME NEW c \in CircuitState, PlanClosed(c.closure), NEW edges \in SUBSET EdgeTriple, NEW delta,
           c.support \subseteq EdgeOf(c.closure.closed),
           \A p \in c.closure.closed : \/ Edge(p) \in c.support
                                       \/ c.asserted[Edge(p)] > 0
                                       \/ p \in PairsOf(edges) \cap c.closure.base
    PROVE  LET d == ClosureRetractPass(c, edges, delta).circuit
           IN  d.closure = PlanOf(c.closure.base \ PairsOf(edges)) /\ SupportHolds(d)
<1> DEFINE ps == PairsOf(edges)
           outcome == [closure   |-> PlanOf(c.closure.base \ ps),
                       withdrawn |-> c.closure.closed \ Closed(c.closure.base \ ps),
                       survived  |-> ps \cap c.closure.base \cap Closed(c.closure.base \ ps)]
<1>1. ps \in SUBSET Pair /\ IsFiniteSet(ps)
  BY EdgePairs DEF PairsOf
<1>2. DeleteEdges(c.closure, ps) = outcome
  <2> HIDE DEF ps
  <2> QED BY <1>1, DeleteEdgesClosed
<1>3. ClosureRetractPass(c, edges, delta) = ClosureWithdraw(c, outcome, delta)
  BY <1>2 DEF ClosureRetractPass, PairsOf
<1> DEFINE d == ClosureWithdraw(c, outcome, delta).circuit
<1>4. d.closure = PlanOf(c.closure.base \ ps) /\ SupportHolds(d)
  <2> HIDE DEF ps
  <2>1. \A p \in c.closure.closed : \/ Edge(p) \in c.support
                                    \/ c.asserted[Edge(p)] > 0
                                    \/ p \in ps \cap c.closure.base
    BY DEF ps
  <2> QED BY <1>1, <2>1, WithdrawPlan
<1> HIDE DEF outcome, ps
<1> QED BY <1>3, <1>4 DEF ps

LEMMA InsertionPlan ==
    ASSUME NEW c \in CircuitState, PlanClosed(c.closure), NEW edges \in SUBSET EdgeTriple, NEW delta,
           SupportHolds(c)
    PROVE  LET d == ClosureInsertionPass(c, edges, delta).circuit
           IN  d.closure = PlanOf(c.closure.base \cup PairsOf(edges)) /\ SupportHolds(d)
<1> DEFINE ps       == PairsOf(edges)
           closure  == InsertEdges(c.closure, ps)
           inferred == {Edge(p) : p \in closure.closed \ c.closure.closed}
           rows     == {t \in inferred : ~BasePresence(c, t)}
           shared   == {t \in inferred : BasePresence(c, t) /\ c.derived[t] # 0}
           grown    == MaterializeClosureRows(c, rows)
           done     == [grown EXCEPT !.closure = closure, !.support = Listed(@ \cup shared)]
<1>1. ClosureInsertionPass(c, edges, delta).circuit = done
  BY DEF ClosureInsertionPass, PairsOf
<1>2. ps \in SUBSET Pair /\ IsFiniteSet(ps)
  BY EdgePairs DEF PairsOf
<1> HIDE DEF ps
<1>3. closure = PlanOf(c.closure.base \cup ps)
  BY <1>2, InsertEdgesClosed
<1>4. /\ c.closure.base \in SUBSET Pair /\ c.closure.closed = Closed(c.closure.base)
      /\ c.support \subseteq EdgeTriple /\ c.asserted \in Zset /\ c.derived \in Zset
  BY PlanClosedForm, StateShape
<1>5. c.closure.closed \subseteq closure.closed /\ closure.closed \subseteq Pair
  <2> DEFINE base == c.closure.base \cup ps
  <2>1. base \in SUBSET Pair /\ c.closure.base \subseteq base
    BY <1>2, <1>4
  <2>2. closure.closed = Closed(base)
    BY <1>3 DEF PlanOf
  <2> HIDE DEF base, closure
  <2> QED BY <1>4, <2>1, <2>2, ClosedMonotone, ClosedIs
<1>6. DOMAIN c = {"asserted", "derived", "extent", "weights", "attr", "support", "closure", "warm",
                  "trace", "pending", "fallback", "sound"}
  BY StateShape
<1> HIDE DEF closure
<1>7. \A t \in inferred : t \in rows \/ t \in shared \/ c.asserted[t] > 0
  <2> SUFFICES ASSUME NEW t \in inferred, BasePresence(c, t), c.derived[t] = 0 PROVE c.asserted[t] > 0
    OBVIOUS
  <2> QED BY DEF BasePresence
<1>8. rows \subseteq inferred /\ shared \subseteq inferred
  OBVIOUS
<1> HIDE DEF rows, shared
<1>9. /\ grown.support = c.support \cup rows /\ grown.asserted = c.asserted /\ DOMAIN grown = DOMAIN c
  BY <1>6, ListedIs DEF MaterializeClosureRows
<1> HIDE DEF grown
<1>10. done.closure = closure /\ done.asserted = c.asserted
       /\ done.support = c.support \cup rows \cup shared
  BY <1>6, <1>9, ListedIs
<1> HIDE DEF done
<1>11. ASSUME NEW t \in done.support PROVE t \in EdgeOf(closure.closed)
  BY <1>5, <1>8, <1>10 DEF SupportHolds, EdgeOf
<1>12. ASSUME NEW p \in closure.closed PROVE Edge(p) \in done.support \/ done.asserted[Edge(p)] > 0
  <2>1. CASE p \in c.closure.closed
    BY <1>10, <2>1 DEF SupportHolds
  <2>2. CASE p \notin c.closure.closed
    <3>1. Edge(p) \in inferred
      BY <2>2
    <3> HIDE DEF inferred
    <3> QED BY <1>7, <1>10, <3>1
  <2> QED BY <2>1, <2>2
<1>13. SupportHolds(done)
  BY <1>10, <1>11, <1>12 DEF SupportHolds
<1> QED BY <1>1, <1>3, <1>10, <1>13 DEF ps

\* The pairs the plan hears of are those the asserted base of edges won and lost.
LEMMA EdgesTold ==
    ASSUME NEW z \in Zset, NEW delta \in Zset, NEW c, c.asserted = Plus(z, delta)
    PROVE  PairsOf({t \in EdgeTriple : c.asserted[t] > 0}) =
              (PairsOf({t \in EdgeTriple : z[t] > 0}) \ PairsOf(DeletedEdges(c, delta)))
                  \cup PairsOf(InsertedEdges(c, delta))
<1> DEFINE before == {t \in EdgeTriple : z[t] > 0}
           after  == {t \in EdgeTriple : c.asserted[t] > 0}
           ins    == InsertedEdges(c, delta)
           del    == DeletedEdges(c, delta)
<1>1. \A t \in EdgeTriple : z[t] \in Int /\ delta[t] \in Int /\ c.asserted[t] = z[t] + delta[t]
  BY EdgePairs, PlusAt, ZsetAt
<1>2. after = (before \ del) \cup ins
  BY <1>1 DEF InsertedEdges, DeletedEdges
<1>3. before \subseteq EdgeTriple /\ del \subseteq EdgeTriple /\ ins \subseteq EdgeTriple
  BY DEF InsertedEdges, DeletedEdges
<1> HIDE DEF before, after, ins, del
<1>4. \A s, t \in EdgeTriple : PairOf(s) = PairOf(t) => s = t
  BY EdgePairs
<1>5. PairsOf(after) = (PairsOf(before) \ PairsOf(del)) \cup PairsOf(ins)
  BY <1>2, <1>3, <1>4 DEF PairsOf
<1> QED BY <1>5 DEF before, after, ins, del


\* The closure passes of a tick, in either regime: the plan is that of the new
\* asserted edges.
LEMMA ClosurePassesPlan ==
    ASSUME NEW c, WellFormed(c), PlanHolds(c), NEW delta \in Zset, NEW before \in Zset,
           NEW m, WellFormed(m), m.closure = c.closure, m.support = c.support,
           m.asserted = Plus(c.asserted, delta)
    PROVE  LET ins == InsertedEdges(m, delta)
               del == DeletedEdges(m, delta)
               cut == ClosureRetractPass(m, del, before)
           IN  /\ PlanHolds(ClosureInsertionPass(cut.circuit, ins, cut.delta).circuit)
               /\ PlanHolds(ClosureInsertionPass(cut.circuit, ins, before).circuit)
               /\ (\A t \in Triple : delta[t] >= 0)
                      => PlanHolds(ClosureInsertionPass(m, ins, before).circuit)
<1> DEFINE ins == InsertedEdges(m, delta)
           del == DeletedEdges(m, delta)
           cut == ClosureRetractPass(m, del, before)
<1>1. ins \in SUBSET EdgeTriple /\ del \in SUBSET EdgeTriple
  BY DEF InsertedEdges, DeletedEdges
<1>2. /\ c \in CircuitState /\ m \in CircuitState /\ c.asserted \in Zset /\ m.asserted \in Zset
      /\ PlanClosed(c.closure) /\ c.support \subseteq EdgeOf(c.closure.closed)
      /\ \A p \in c.closure.closed : Edge(p) \in c.support \/ c.asserted[Edge(p)] > 0
      /\ c.closure.base \in SUBSET Pair /\ c.closure.closed \in SUBSET Pair
      /\ c.closure.base \subseteq c.closure.closed
  BY StateShape, PlanClosedIs DEF WellFormed, PlanHolds, SupportHolds
<1>3. HasBase(m)
  <2> SUFFICES {"asserted", "support", "closure", "fallback", "sound"} \subseteq DOMAIN m
    BY DEF HasBase
  <2> QED BY <1>2, StateShape
<1>4. \A p \in Pair : /\ c.asserted[Edge(p)] \in Int /\ delta[Edge(p)] \in Int
                      /\ m.asserted[Edge(p)] = c.asserted[Edge(p)] + delta[Edge(p)]
  BY <1>2, EdgePairs, PlusAt, ZsetAt
<1>5. c.closure.base = PairsOf({t \in EdgeTriple : c.asserted[t] > 0})
  <2>1. AssertedSet(c) \cap EdgeTriple = {t \in EdgeTriple : c.asserted[t] > 0}
    BY EdgePairs DEF AssertedSet
  <2> QED BY <2>1 DEF PlanHolds
<1>6. PairsOf({t \in EdgeTriple : m.asserted[t] > 0}) = (c.closure.base \ PairsOf(del)) \cup PairsOf(ins)
  BY <1>2, <1>5, EdgesTold
<1>7. PairsOf(ins) \in SUBSET Pair /\ PairsOf(del) \in SUBSET Pair
  BY <1>1, EdgePairs DEF PairsOf
<1>8. ASSUME NEW d, PlanClosed(d.closure), d \in CircuitState, HasBase(d), d.asserted = m.asserted,
             d.closure = PlanOf(c.closure.base \ PairsOf(del)), SupportHolds(d),
             NEW any
      PROVE  PlanHolds(ClosureInsertionPass(d, ins, any).circuit)
  <2> DEFINE e == ClosureInsertionPass(d, ins, any).circuit
             base == (c.closure.base \ PairsOf(del)) \cup PairsOf(ins)
  <2>1. d.closure.base = c.closure.base \ PairsOf(del)
    BY <1>8 DEF PlanOf
  <2>2. e.closure = PlanOf(base) /\ SupportHolds(e)
    BY <1>1, <1>8, <2>1, InsertionPlan
  <2>3. e.asserted = m.asserted
    BY <1>8, ClosurePassesKeep DEF KeepsBase
  <2> HIDE DEF e
  <2>4. PlanClosed(e.closure) /\ e.closure.base = base
    <3>1. base \in SUBSET Pair
      BY <1>2, <1>7
    <3> HIDE DEF base
    <3> QED BY <2>2, <3>1, PlanOfClosed
  <2>5. AssertedSet(e) \cap EdgeTriple = {t \in EdgeTriple : m.asserted[t] > 0}
    BY <2>3, EdgePairs DEF AssertedSet
  <2>6. e.closure.base = PairsOf(AssertedSet(e) \cap EdgeTriple)
    BY <1>6, <2>4, <2>5
  <2> QED BY <2>2, <2>4, <2>6 DEF PlanHolds, e
<1> HIDE DEF ins, del
<1>9. /\ cut.circuit.closure = PlanOf(c.closure.base \ PairsOf(del)) /\ SupportHolds(cut.circuit)
      /\ PlanClosed(cut.circuit.closure) /\ cut.circuit \in CircuitState
      /\ HasBase(cut.circuit) /\ cut.circuit.asserted = m.asserted
  <2>1. \A p \in m.closure.closed : \/ Edge(p) \in m.support
                                    \/ m.asserted[Edge(p)] > 0
                                    \/ p \in PairsOf(del) \cap m.closure.base
    <3> SUFFICES ASSUME NEW p \in c.closure.closed, Edge(p) \notin c.support,
                        ~(m.asserted[Edge(p)] > 0)
                 PROVE  p \in PairsOf(del) \cap c.closure.base
      OBVIOUS
    <3>1. p \in Pair /\ Edge(p) \in EdgeTriple /\ PairOf(Edge(p)) = p
      BY <1>2, EdgePairs
    <3>2. c.asserted[Edge(p)] > 0 /\ delta[Edge(p)] < 0 /\ m.asserted[Edge(p)] <= 0
      BY <1>2, <1>4, <3>1
    <3>3. Edge(p) \in del
      BY <3>1, <3>2 DEF del, DeletedEdges
    <3> QED BY <1>5, <3>1, <3>2, <3>3 DEF PairsOf
  <2>2. PlanClosed(m.closure) /\ m.support \subseteq EdgeOf(m.closure.closed)
    BY <1>2
  <2> DEFINE d == cut.circuit
  <2>3. d.closure = PlanOf(m.closure.base \ PairsOf(del)) /\ SupportHolds(d)
    BY <1>1, <1>2, <2>1, <2>2, RetractPlan
  <2>4. Moves(m, d)
    BY <1>1, ClosurePassesMove
  <2>5. KeepsBase(m, d)
    BY <1>3, ClosurePassesKeep
  <2> HIDE DEF d
  <2>6. PlanClosed(d.closure)
    <3>1. m.closure.base \ PairsOf(del) \in SUBSET Pair
      BY <1>2
    <3> QED BY <2>3, <3>1, PlanOfClosed
  <2> QED BY <2>3, <2>4, <2>5, <2>6 DEF d, Moves, WellFormed, KeepsBase
<1>10. ASSUME \A t \in Triple : delta[t] >= 0
       PROVE  m.closure = PlanOf(c.closure.base \ PairsOf(del)) /\ SupportHolds(m)
  <2>1. del = {}
    <3>1. \A t \in EdgeTriple : delta[t] \in Int /\ delta[t] >= 0
      BY <1>10, EdgePairs, ZsetAt
    <3> QED BY <3>1 DEF del, DeletedEdges
  <2>2. c.closure.base \ PairsOf(del) = c.closure.base
    BY <2>1 DEF PairsOf
  <2>3. m.closure = PlanOf(c.closure.base)
    BY <1>2, PlanClosedForm
  <2>4. ASSUME NEW p \in c.closure.closed, c.asserted[Edge(p)] > 0 PROVE m.asserted[Edge(p)] > 0
    <3>1. p \in Pair /\ Edge(p) \in Triple
      BY <1>2, EdgePairs
    <3>2. delta[Edge(p)] >= 0
      BY <1>10, <3>1
    <3> QED BY <1>4, <2>4, <3>1, <3>2
  <2> QED BY <1>2, <2>2, <2>3, <2>4 DEF SupportHolds
<1> HIDE DEF cut
<1>11. /\ PlanHolds(ClosureInsertionPass(cut.circuit, ins, cut.delta).circuit)
       /\ PlanHolds(ClosureInsertionPass(cut.circuit, ins, before).circuit)
  BY <1>8, <1>9
<1>12. (\A t \in Triple : delta[t] >= 0) => PlanHolds(ClosureInsertionPass(m, ins, before).circuit)
  BY <1>2, <1>3, <1>8, <1>10
<1> QED BY <1>11, <1>12 DEF cut, ins, del


\* Circuit::tick keeps the plan: after it, whatever edges the records brought
\* and took, in one batch and in either regime, the plan's base are the asserted
\* edges, its closed relation is their transitive closure, and the closed pairs
\* nobody asserts are the closure's rows.
THEOREM TickPlan ==
    ASSUME NEW c, WellFormed(c), PlanHolds(c),
           NEW X, Summable(X), NEW records \in Seq(X), NetDelta(records) \in Zset
    PROVE  PlanHolds(Tick(c, records))
<1> DEFINE delta    == NetDelta(records)
           merged   == [c EXCEPT !.asserted = Plus(@, delta), !.pending = NoEmission]
           flipped  == {t \in Triple : (c.asserted[t] > 0) # (merged.asserted[t] > 0)}
           insEdges == InsertedEdges(merged, delta)
           delEdges == DeletedEdges(merged, delta)
           retracts == \E n \in DOMAIN records : records[n].mult < 0
           fallen   == RecomputeFallback(merged, insEdges, delEdges)
           unified  == UnifiedPath(merged, flipped, insEdges, delEdges, retracts)
<1>1. Tick(c, records) = NetRecordsChecked(IF c.fallback /\ retracts THEN fallen ELSE unified)
  BY DEF Tick
<1>2. insEdges \in SUBSET EdgeTriple /\ delEdges \in SUBSET EdgeTriple
  BY DEF InsertedEdges, DeletedEdges
<1>3. /\ merged \in CircuitState /\ merged.derived = c.derived /\ merged.attr = c.attr
      /\ merged.support = c.support /\ merged.closure = c.closure
      /\ merged.asserted = Plus(c.asserted, delta)
  <2>1. c.asserted \in Zset /\ c \in CircuitState
    BY StateShape DEF WellFormed
  <2>2. Plus(c.asserted, delta) \in Zset
    BY <2>1, PlusAt
  <2>3. NoEmission \in Emission
    BY DEF NoEmission, Emission
  <2> QED BY <2>1, <2>2, <2>3, StateShape
<1>4. WellFormed(merged) /\ delta \in Zset
  BY <1>3 DEF WellFormed, Owners, Owned
<1>5. \A d : WellFormed(d) => HasBase(d)
  BY StateShape DEF WellFormed, HasBase
<1>6. ASSUME NEW d, HasBase(d), PlanHolds(d), NEW e, Keeps(d, e) PROVE HasBase(e) /\ PlanHolds(e)
  BY <1>6 DEF PlanHolds, SupportHolds, AssertedSet, Keeps, KeepsBase
<1>7. ~retracts => \A t \in Triple : delta[t] >= 0
  BY NetAsserts
<1> HIDE DEF delta, merged, retracts
<1>8. /\ \A before \in Zset :
            LET cut == ClosureRetractPass(merged, delEdges, before)
            IN  /\ PlanHolds(ClosureInsertionPass(cut.circuit, insEdges, cut.delta).circuit)
                /\ PlanHolds(ClosureInsertionPass(cut.circuit, insEdges, before).circuit)
                /\ ~retracts => PlanHolds(ClosureInsertionPass(merged, insEdges, before).circuit)
  BY <1>3, <1>4, <1>7, ClosurePassesPlan
<1>9. \A before : HasBase(ClosureInsertionPass(ClosureRetractPass(merged, delEdges, before).circuit,
                                               insEdges, before).circuit)
  BY <1>4, <1>5, ClosurePassesKeep DEF KeepsBase
<1> HIDE DEF flipped, insEdges, delEdges
<1>10. HasBase(fallen) /\ PlanHolds(fallen)
  <2> DEFINE cut   == ClosureRetractPass(merged, delEdges, EmptyZset).circuit
             grown == ClosureInsertionPass(cut, insEdges, EmptyZset).circuit
  <2>1. PlanHolds(grown) /\ HasBase(grown)
    BY <1>8, <1>9, EmptySum
  <2>2. fallen = RecomputeRules(grown)
    BY DEF RecomputeFallback
  <2> HIDE DEF grown
  <2> QED BY <1>6, <2>1, <2>2, RecomputeRulesKeep
<1>11. HasBase(unified) /\ PlanHolds(unified)
  <2> DEFINE noted == NotePresenceChange(merged, flipped, EmptyZset)
             cut   == IF retracts THEN ClosureRetractPass(merged, delEdges, noted)
                      ELSE [circuit |-> merged, delta |-> noted, orphans |-> {}]
             grown == ClosureInsertionPass(cut.circuit, insEdges, cut.delta)
             seed  == OrphanReseed(grown.circuit, cut.orphans, grown.delta)
  <2>1. unified = RunRules(grown.circuit, seed)
    BY DEF UnifiedPath, InsertionsAndRules, RulesAfterClosure
  <2>2. noted \in Zset
    BY EmptySum, NoteTyped
  <2> HIDE DEF noted
  <2>3. PlanHolds(grown.circuit)
    BY <1>8, <2>2
  <2>4. HasBase(cut.circuit)
    <3>1. HasBase(ClosureRetractPass(merged, delEdges, noted).circuit) /\ HasBase(merged)
      BY <1>4, <1>5, ClosurePassesKeep DEF KeepsBase
    <3> QED BY <3>1
  <2> HIDE DEF cut
  <2>5. HasBase(grown.circuit)
    BY <2>4, ClosurePassesKeep DEF KeepsBase
  <2> DEFINE d == grown.circuit
             e == RunRules(d, seed)
  <2> HIDE DEF grown, seed
  <2>6. Keeps(d, e)
    BY <2>5, TwoPhaseFixpointKeeps, InsertionFixpointKeeps DEF RunRules
  <2> HIDE DEF e
  <2>7. HasBase(e) /\ PlanHolds(e)
    BY <1>6, <2>3, <2>5, <2>6
  <2> QED BY <2>1, <2>7 DEF e
<1> HIDE DEF fallen, unified
<1> DEFINE last == IF c.fallback /\ retracts THEN fallen ELSE unified
<1>12. HasBase(last) /\ PlanHolds(last)
  BY <1>10, <1>11
<1>13. Tick(c, records) = NetRecordsChecked(last)
  BY <1>1
<1> HIDE DEF last
<1>14. Keeps(last, NetRecordsChecked(last))
  BY <1>12, CheckKeeps DEF NetRecordsChecked
<1> QED BY <1>6, <1>12, <1>13, <1>14

\* The plan is what the runs check of it: the transitive closure of the asserted
\* edges, from which both deletion algorithms of
\* closure/src/closure/incremental.rs would drop the same pairs.
THEOREM PlanHoldsExact ==
    ASSUME NEW c, PlanHolds(c)
    PROVE  ClosurePlanExact(c)
<1>1. PlanClosed(c.closure) /\ c.closure.base \in SUBSET Pair /\ c.closure.closed = Closed(c.closure.base)
  BY PlanClosedForm DEF PlanHolds
<1>2. c.closure.base = {PairOf(t) : t \in AssertedSet(c) \cap EdgeTriple}
  BY DEF PlanHolds, PairsOf
<1>3. c.closure.closed = Reachable(c.closure.base)
  BY <1>1, ReachableClosed
<1>4. \A e \in c.closure.base : DeleteBySupport(c.closure, e) = DeleteByRecompute(c.closure, e)
  BY <1>1, DeletionsAgree
<1> QED BY <1>2, <1>3, <1>4 DEF ClosurePlanExact

LEMMA NewCircuitPlan ==
    ASSUME NEW fallback
    PROVE  PlanHolds(NewCircuit(fallback))
<1> DEFINE c == NewCircuit(fallback)
<1>1. c.closure = EmptyClosure /\ c.support = {} /\ c.asserted = EmptyZset
  BY DEF NewCircuit
<1> HIDE DEF c
<1>2. EmptyClosure = [base |-> {}, closed |-> {}] /\ {} \in SUBSET Pair
  BY DEF EmptyClosure
<1>3. Closed({}) = {}
  <2>1. {} \subseteq {} /\ Transitive({})
    BY DEF Transitive
  <2> QED BY <2>1, ClosedLeast, ClosedIs
<1>4. PlanClosed(EmptyClosure)
  BY <1>2, <1>3 DEF PlanClosed, Closure
<1>5. AssertedSet(c) = {}
  BY <1>1 DEF AssertedSet, EmptyZset
<1>6. PairsOf({}) = {}
  BY DEF PairsOf
<1>7. AssertedSet(c) \cap EdgeTriple = {}
  BY <1>5
<1>8. SupportHolds(c)
  BY <1>1, <1>2 DEF SupportHolds
<1> QED BY <1>1, <1>2, <1>4, <1>6, <1>7, <1>8 DEF PlanHolds, c

-----------------------------------------------------------------------------
(* A round keeps weights and traces what a recount over the extent gives.    *)

\* The extent has every triple once or not at all.
Unit(z) == \A t \in Triple : z[t] \in {0, 1}
In(z) == {t \in Triple : z[t] > 0}
DerivedBy(S, A) == {i \in S : Derives(i, A)}

Recounted(c) ==
    /\ Unit(c.extent)
    /\ \A t \in Triple, r \in Rule : c.weights[t][r] = Cardinality(DerivedBy(InstancesOf[t][r], In(c.extent)))
    /\ c.warm => \A p \in Prefix : c.trace[p] = c.extent[p[1]] * c.extent[p[2]]

LEMMA InstancesFinite ==
    \A t \in Triple, r \in Rule : InstancesOf[t][r] \subseteq Instance /\ IsFiniteSet(InstancesOf[t][r])
<1> SUFFICES ASSUME NEW t \in Triple, NEW r \in Rule
             PROVE  InstancesOf[t][r] \subseteq Instance /\ IsFiniteSet(InstancesOf[t][r])
  OBVIOUS
<1>1. InstancesOf[t][r] = {i \in Instance : i.head = t /\ i.rule = r}
  BY DEF InstancesOf
<1> QED BY <1>1, InstanceAssumption, FS_Subset

\* One instance more or less.
LEMMA DerivedByOne ==
    ASSUME NEW S, IsFiniteSet(S), NEW A, NEW y \in S
    PROVE  /\ Cardinality(DerivedBy(S, A)) \in Nat /\ Cardinality(DerivedBy(S \ {y}, A)) \in Nat
           /\ Cardinality(DerivedBy(S, A)) =
                 Cardinality(DerivedBy(S \ {y}, A)) + (IF Derives(y, A) THEN 1 ELSE 0)
<1> DEFINE all == DerivedBy(S, A)
           rest == DerivedBy(S \ {y}, A)
<1>1. IsFiniteSet(all) /\ IsFiniteSet(rest)
  BY FS_Subset DEF DerivedBy
<1>2. Cardinality(all) \in Nat /\ Cardinality(rest) \in Nat
  BY <1>1, FS_CardinalityType
<1>3. CASE Derives(y, A)
  <2>1. all = rest \cup {y} /\ y \notin rest
    BY <1>3 DEF DerivedBy
  <2> HIDE DEF all, rest
  <2>2. Cardinality(all) = Cardinality(rest) + 1
    BY <1>1, <2>1, FS_AddElement
  <2> QED BY <1>2, <1>3, <2>2 DEF all, rest
<1>4. CASE ~Derives(y, A)
  <2>1. all = rest
    BY <1>4 DEF DerivedBy
  <2> HIDE DEF all, rest
  <2> QED BY <1>2, <1>4, <2>1 DEF all, rest
<1> QED BY <1>3, <1>4

InstanceTotal(c, delta, S) == MapThenSumSet(LAMBDA i : InstanceDelta(c, delta, i), S)
One(condition) == IF condition THEN 1 ELSE 0
Shifts(c, delta, S, A, B) ==
    \A i \in S : InstanceDelta(c, delta, i) = One(Derives(i, B)) - One(Derives(i, A))

LEMMA TotalIsShift ==
    ASSUME NEW c, NEW delta, NEW S, IsFiniteSet(S), NEW A, NEW B, Shifts(c, delta, S, A, B)
    PROVE  Cardinality(DerivedBy(S, B)) = Cardinality(DerivedBy(S, A)) + InstanceTotal(c, delta, S)
<1> DEFINE ctx == <<c, delta>>
           N == {d \in SUBSET S : Cardinality(DerivedBy(d, B)) =
                                  InstanceSum!SetFolded(ctx, 0, d) + Cardinality(DerivedBy(d, A))}
<1>1. \A d : InstanceTotal(c, delta, d) = InstanceSum!SetFolded(ctx, 0, d)
  BY DEF InstanceTotal, MapThenSumSet, MapThenFoldSet, InstanceSum!SetFolded, InstanceSum!Picked,
         InstanceSum!MapThenFoldSet, DeltaAdded
<1>2. InstanceSum!Inductive /\ \A d \in SUBSET S : InstanceSum!Counted(d) /\ IsFiniteSet(d)
  BY Induction, FiniteCounted, FS_Subset DEF InstanceSum!Inductive, InstanceSum!Counted
<1>3. \A n \in Int, i \in S : DeltaAdded(ctx, n, i) \in Int
  BY DEF DeltaAdded, Shifts, One
<1>4. \A d \in SUBSET S : InstanceSum!SetFolded(ctx, 0, d) \in Int
  <2> SUFFICES ASSUME NEW d \in SUBSET S PROVE InstanceSum!SetFolded(ctx, 0, d) \in Int
    OBVIOUS
  <2>1. \A n \in Int, i \in d : DeltaAdded(ctx, n, i) \in Int
    BY <1>3
  <2> HIDE DEF ctx
  <2> QED BY <1>2, <2>1, InstanceSum!SetFoldIn
<1>5. {} \in N
  <2>1. \A X : DerivedBy({}, X) = {}
    BY DEF DerivedBy
  <2>2. InstanceSum!SetFolded(ctx, 0, {}) = 0
    <3> HIDE DEF ctx
    <3> QED BY <1>2, InstanceSum!SetFoldNone
  <2> QED BY <2>1, <2>2, FS_EmptySet
<1>6. ASSUME NEW d \in SUBSET S, d # {}, d \ {InstanceSum!Picked(d)} \in N PROVE d \in N
  <2> DEFINE y == InstanceSum!Picked(d)
             r == d \ {y}
             a == Cardinality(DerivedBy(r, A))
             b == Cardinality(DerivedBy(r, B))
             n == InstanceSum!SetFolded(ctx, 0, r)
  <2>1. y \in d /\ y \in S /\ IsFiniteSet(d) /\ InstanceSum!Counted(d)
    BY <1>2, <1>6 DEF InstanceSum!Picked
  <2>2. InstanceSum!SetFolded(ctx, 0, d) = DeltaAdded(ctx, n, y)
    <3> HIDE DEF ctx
    <3> QED BY <1>2, <1>6, <2>1, InstanceSum!SetFoldOn
  <2>3. DeltaAdded(ctx, n, y) = InstanceDelta(c, delta, y) + n
    BY DEF DeltaAdded
  <2> DEFINE i == InstanceDelta(c, delta, y)
             ya == One(Derives(y, A))
             yb == One(Derives(y, B))
  <2>4. i = yb - ya /\ ya \in {0, 1} /\ yb \in {0, 1}
    BY <2>1 DEF Shifts, One
  <2>5. b = n + a /\ n \in Int
    BY <1>4, <1>6
  <2> HIDE DEF y
  <2>6. /\ Cardinality(DerivedBy(d, A)) = a + ya /\ a \in Nat
        /\ Cardinality(DerivedBy(d, B)) = b + yb /\ b \in Nat
    BY <2>1, DerivedByOne DEF One
  <2> HIDE DEF a, b, n, i, ya, yb, r, ctx, N
  <2>7. Cardinality(DerivedBy(d, B)) = InstanceSum!SetFolded(ctx, 0, d) + Cardinality(DerivedBy(d, A))
    BY <2>2, <2>3, <2>4, <2>5, <2>6 DEF i
  <2> QED BY <2>7 DEF N
<1>7. \A d \in SUBSET S : d \in N
  <2> HIDE DEF N, ctx
  <2> QED BY <1>2, <1>5, <1>6, InstanceSum!SubsetInduction
<1>8. S \in N
  BY <1>7
<1>9. Cardinality(DerivedBy(S, A)) \in Nat
  BY FS_Subset, FS_CardinalityType DEF DerivedBy
<1> QED BY <1>1, <1>4, <1>8, <1>9


LEMMA DerivesAtoms ==
    ASSUME NEW i \in Instance, NEW A
    PROVE  Derives(i, A) <=> /\ i.body[1] \in A /\ i.body[2] \in A
                             /\ Len(i.body) = 2 \/ i.body[3] \in A
<1>1. i.body \in Seq(Triple) /\ (Len(i.body) = 2 \/ Len(i.body) = 3)
  BY InstanceAssumption
<1>2. CASE Len(i.body) = 2
  <2>1. DOMAIN i.body = {1, 2}
    BY <1>1, <1>2
  <2> QED BY <1>2, <2>1 DEF Derives
<1>3. CASE Len(i.body) = 3
  <2>1. DOMAIN i.body = {1, 2, 3}
    BY <1>1, <1>3
  <2> QED BY <1>3, <2>1 DEF Derives
<1> QED BY <1>1, <1>2, <1>3

LEMMA JoinIsShift ==
    \A a, b, da, db \in Int : JoinDelta(a, b, da, db) = (a + da) * (b + db) - a * b
BY DEF JoinDelta

LEMMA Products ==
    ASSUME NEW a \in {0, 1}, NEW b \in {0, 1}, NEW d \in {0, 1}
    PROVE  /\ a * b = One(a > 0 /\ b > 0) /\ a * b \in {0, 1}
           /\ (a * b) * d = One(a > 0 /\ b > 0 /\ d > 0)
BY DEF One

\* What a plan integrates between two rounds is what it was over the extent.
LEMMA TraceIs ==
    ASSUME NEW c, Recounted(c), NEW p \in Prefix
    PROVE  Trace(c)[p] = c.extent[p[1]] * c.extent[p[2]]
BY DEF Recounted, Trace

LEMMA FirstIsShift ==
    ASSUME NEW c \in CircuitState, NEW delta \in Zset, NEW s \in Triple, NEW t \in Triple
    PROVE  FirstJoinDelta(c.extent, delta, <<s, t>>) =
              (c.extent[s] + delta[s]) * (c.extent[t] + delta[t]) - c.extent[s] * c.extent[t]
<1>1. c.extent \in Zset
  BY StateShape
<1> DEFINE a == c.extent[s]
           b == c.extent[t]
           da == delta[s]
           db == delta[t]
<1>2. a \in Int /\ b \in Int /\ da \in Int /\ db \in Int
  BY <1>1, ZsetAt
<1>3. FirstJoinDelta(c.extent, delta, <<s, t>>) = JoinDelta(a, b, da, db)
  BY DEF FirstJoinDelta
<1> HIDE DEF a, b, da, db
<1>4. JoinDelta(a, b, da, db) = (a + da) * (b + db) - a * b
  BY <1>2, JoinIsShift
<1> QED BY <1>3, <1>4 DEF a, b, da, db

LEMMA InstanceIsShift ==
    ASSUME NEW c \in CircuitState, NEW delta \in Zset, Recounted(c), Unit(Plus(c.extent, delta)),
           NEW i \in Instance
    PROVE  InstanceDelta(c, delta, i) =
              One(Derives(i, In(Plus(c.extent, delta)))) - One(Derives(i, In(c.extent)))
<1> DEFINE s == i.body[1]
           t == i.body[2]
           u == i.body[3]
           p == <<s, t>>
           first == FirstJoinDelta(c.extent, delta, p)
           a == c.extent[s]
           b == c.extent[t]
           x == c.extent[u]
           na == a + delta[s]
           nb == b + delta[t]
           nx == x + delta[u]
<1>1. c.extent \in Zset /\ s \in Triple /\ t \in Triple
  BY StateShape, BodyTriples
<1>2. \A v \in Triple : /\ c.extent[v] \in {0, 1} /\ delta[v] \in Int
                        /\ Plus(c.extent, delta)[v] = c.extent[v] + delta[v]
                        /\ c.extent[v] + delta[v] \in {0, 1}
                        /\ v \in In(c.extent) <=> c.extent[v] > 0
                        /\ v \in In(Plus(c.extent, delta)) <=> c.extent[v] + delta[v] > 0
  BY <1>1, PlusAt, ZsetAt DEF Recounted, Unit, In
<1>3. first = na * nb - a * b
  BY <1>1, FirstIsShift
<1>4. a \in {0, 1} /\ b \in {0, 1} /\ na \in {0, 1} /\ nb \in {0, 1}
  BY <1>1, <1>2
<1>5. /\ s \in In(c.extent) <=> a > 0
      /\ t \in In(c.extent) <=> b > 0
      /\ s \in In(Plus(c.extent, delta)) <=> na > 0
      /\ t \in In(Plus(c.extent, delta)) <=> nb > 0
  BY <1>1, <1>2
<1>6. CASE Len(i.body) = 2
  <2>1. InstanceDelta(c, delta, i) = first
    BY <1>6 DEF InstanceDelta
  <2>2. /\ Derives(i, In(c.extent)) <=> a > 0 /\ b > 0
        /\ Derives(i, In(Plus(c.extent, delta))) <=> na > 0 /\ nb > 0
    BY <1>5, <1>6, DerivesAtoms
  <2> HIDE DEF s, t, p, first, a, b, na, nb
  <2>3. na * nb = One(na > 0 /\ nb > 0) /\ a * b = One(a > 0 /\ b > 0)
    BY <1>4, Products
  <2> QED BY <1>3, <2>1, <2>2, <2>3 DEF One
<1>7. CASE Len(i.body) # 2
  <2>1. u \in Triple /\ p \in Prefix
    BY <1>7, BodyTriples
  <2>2. InstanceDelta(c, delta, i) = JoinDelta(Trace(c)[p], x, first, delta[u])
    BY <1>7 DEF InstanceDelta
  <2>3. Trace(c)[p] = a * b
    BY <2>1, TraceIs
  <2>4. /\ x \in {0, 1} /\ nx \in {0, 1} /\ delta[u] \in Int
        /\ u \in In(c.extent) <=> x > 0
        /\ u \in In(Plus(c.extent, delta)) <=> nx > 0
    BY <1>2, <2>1
  <2>5. /\ Derives(i, In(c.extent)) <=> a > 0 /\ b > 0 /\ x > 0
        /\ Derives(i, In(Plus(c.extent, delta))) <=> na > 0 /\ nb > 0 /\ nx > 0
    BY <1>5, <1>7, <2>4, DerivesAtoms
  <2> DEFINE q == a * b
             nq == na * nb
             dx == delta[u]
  <2>6. nx = x + dx
    OBVIOUS
  <2> HIDE DEF s, t, u, p, first, a, b, x, na, nb, nx, dx
  <2>7. q \in {0, 1} /\ nq \in {0, 1}
    BY <1>4, Products
  <2>8. q * x = One(a > 0 /\ b > 0 /\ x > 0) /\ nq * nx = One(na > 0 /\ nb > 0 /\ nx > 0)
    BY <1>4, <2>4, Products
  <2>9. InstanceDelta(c, delta, i) = JoinDelta(q, x, nq - q, dx)
    BY <1>3, <2>2, <2>3 DEF dx
  <2> HIDE DEF q, nq
  <2>10. JoinDelta(q, x, nq - q, dx) = (q + (nq - q)) * (x + dx) - q * x
    <3>1. q \in Int /\ x \in Int /\ nq - q \in Int /\ dx \in Int
      BY <2>4, <2>7 DEF dx
    <3> QED BY <3>1, JoinIsShift
  <2>11. q + (nq - q) = nq
    BY <2>7
  <2>12. InstanceDelta(c, delta, i) = nq * nx - q * x
    BY <2>6, <2>9, <2>10, <2>11
  <2> QED BY <2>5, <2>8, <2>12 DEF One
<1> QED BY <1>6, <1>7


\* The fields a step leaves alone when it changes weights, traces and extent only.
Besides(c, d) ==
    /\ d.asserted = c.asserted /\ d.derived = c.derived /\ d.attr = c.attr
    /\ d.support = c.support /\ d.pending = c.pending

LEMMA RoundFields ==
    ASSUME NEW c, WellFormed(c), NEW delta \in Zset
    PROVE  LET d == FixpointRound(c, delta)
           IN  /\ WellFormed(d) /\ d \in CircuitState /\ Besides(c, d) /\ d.sound = c.sound
               /\ d.extent = Plus(c.extent, delta) /\ d.warm
               /\ \A p \in Prefix : d.trace[p] = Trace(c)[p] + FirstJoinDelta(c.extent, delta, p)
               /\ \A t \in Triple, r \in Rule :
                     d.weights[t][r] = c.weights[t][r] + InstanceTotal(c, delta, InstancesOf[t][r])
<1> DEFINE weights == [t \in Triple |-> [r \in Rule |->
                          c.weights[t][r] + InstanceTotal(c, delta, InstancesOf[t][r])]]
           trace   == [p \in Prefix |-> Trace(c)[p] + FirstJoinDelta(c.extent, delta, p)]
           extent  == Plus(c.extent, delta)
           d == [c EXCEPT !.weights = weights, !.trace = trace, !.warm = TRUE, !.extent = extent]
<1>1. FixpointRound(c, delta) = d
  BY DEF FixpointRound, Tabulated, InstanceTotal
<1>2. c \in CircuitState
  BY DEF WellFormed
<1>3. WellFormed(FixpointRound(c, delta)) /\ SameRows(c, FixpointRound(c, delta))
  BY RoundMoves DEF Moves
<1>4. /\ \A t \in Triple, r \in Rule :
            weights[t][r] = c.weights[t][r] + InstanceTotal(c, delta, InstancesOf[t][r])
      /\ \A p \in Prefix : trace[p] = Trace(c)[p] + FirstJoinDelta(c.extent, delta, p)
  OBVIOUS
<1> HIDE DEF weights, trace, extent
<1>5. /\ d.asserted = c.asserted /\ d.sound = c.sound /\ d.extent = extent /\ d.warm
      /\ d.trace = trace /\ d.weights = weights
  BY <1>2, StateShape
<1> HIDE DEF d
<1> QED BY <1>1, <1>3, <1>4, <1>5 DEF Besides, SameRows, WellFormed, extent

\* FixpointRound: semi-naive deltas, through the cross terms of a join and the
\* integrated prefix of a three-atom body, are what a recount would find.
LEMMA RoundRecounts ==
    ASSUME NEW c, WellFormed(c), NEW delta \in Zset, Recounted(c), Unit(Plus(c.extent, delta))
    PROVE  Recounted(FixpointRound(c, delta))
<1> DEFINE d == FixpointRound(c, delta)
           A == In(c.extent)
           B == In(Plus(c.extent, delta))
<1>1. /\ c \in CircuitState /\ d.extent = Plus(c.extent, delta)
      /\ \A p \in Prefix : d.trace[p] = Trace(c)[p] + FirstJoinDelta(c.extent, delta, p)
      /\ \A t \in Triple, r \in Rule :
            d.weights[t][r] = c.weights[t][r] + InstanceTotal(c, delta, InstancesOf[t][r])
  BY RoundFields DEF WellFormed
<1> HIDE DEF d
<1>2. ASSUME NEW t \in Triple, NEW r \in Rule
      PROVE  d.weights[t][r] = Cardinality(DerivedBy(InstancesOf[t][r], B))
  <2> DEFINE S == InstancesOf[t][r]
  <2>1. S \subseteq Instance /\ IsFiniteSet(S)
    BY InstancesFinite
  <2> HIDE DEF S
  <2>2. Shifts(c, delta, S, A, B)
    BY <1>1, <2>1, InstanceIsShift DEF Shifts
  <2>3. Cardinality(DerivedBy(S, B)) = Cardinality(DerivedBy(S, A)) + InstanceTotal(c, delta, S)
    <3> HIDE DEF A, B
    <3> QED BY <2>1, <2>2, TotalIsShift
  <2>4. c.weights[t][r] = Cardinality(DerivedBy(S, A))
    BY DEF Recounted, S
  <2> QED BY <1>1, <2>3, <2>4 DEF S
<1>3. ASSUME NEW p \in Prefix PROVE d.trace[p] = d.extent[p[1]] * d.extent[p[2]]
  <2> DEFINE s == p[1]
             t == p[2]
             a == c.extent[s]
             b == c.extent[t]
             na == a + delta[s]
             nb == b + delta[t]
  <2>1. s \in Triple /\ t \in Triple /\ p = <<s, t>>
    BY BodyTriples DEF Prefix
  <2>2. c.extent \in Zset
    BY <1>1, StateShape
  <2>3. d.extent[s] = na /\ d.extent[t] = nb
    BY <1>1, <2>1, <2>2, PlusAt
  <2>4. a \in Int /\ b \in Int /\ na \in Int /\ nb \in Int
    BY <2>1, <2>2, ZsetAt
  <2>5. Trace(c)[p] = a * b
    BY TraceIs
  <2>6. FirstJoinDelta(c.extent, delta, p) = na * nb - a * b
    BY <1>1, <2>1, FirstIsShift
  <2> DEFINE q == a * b
             nq == na * nb
  <2>7. q \in Int /\ nq \in Int
    BY <2>4, ProductsInt
  <2>8. d.trace[p] = q + (nq - q)
    BY <1>1, <2>5, <2>6
  <2>9. d.extent[p[1]] * d.extent[p[2]] = nq
    BY <2>3
  <2> HIDE DEF q, nq
  <2> QED BY <2>7, <2>8, <2>9
<1> QED BY <1>1, <1>2, <1>3 DEF Recounted, d


-----------------------------------------------------------------------------
(* The total weight of a row.                                                *)

Numbers(f, S) == \A k \in S : f[k] \in Int

LEMMA SumInt ==
    ASSUME NEW f, NEW S, IsFiniteSet(S), Numbers(f, S)
    PROVE  SumOf(f, S) \in Int
<1>1. Raised(f, f, S, 0, 0) /\ 0 \in Int
  BY DEF Raised, Numbers
<1> QED BY <1>1, SumRaised

\* A sum does not depend on where it starts.
LEMMA SumTake ==
    ASSUME NEW f, NEW S, IsFiniteSet(S), Numbers(f, S), NEW y \in S
    PROVE  SumOf(f, S) = f[y] + SumOf(f, S \ {y})
<1> DEFINE N == {n \in Nat : \A d \in SUBSET S : Cardinality(d) <= n =>
                    \A x \in d : SumOf(f, d) = f[x] + SumOf(f, d \ {x})}
<1>1. \A d \in SUBSET S : /\ IsFiniteSet(d) /\ Cardinality(d) \in Nat /\ SumOf(f, d) \in Int
                          /\ \A x \in d : Cardinality(d \ {x}) < Cardinality(d)
  <2>1. \A d \in SUBSET S : IsFiniteSet(d) /\ Numbers(f, d)
    BY FS_Subset DEF Numbers
  <2> QED BY <2>1, SumInt, FiniteCounted
<1>2. 0 \in N
  <2> SUFFICES ASSUME NEW d \in SUBSET S, Cardinality(d) <= 0, NEW x \in d PROVE FALSE
    OBVIOUS
  <2>1. Cardinality(d \ {x}) \in Nat /\ Cardinality(d \ {x}) < Cardinality(d)
    BY <1>1
  <2> QED BY <1>1, <2>1
<1>3. ASSUME NEW n \in Nat, n \in N PROVE n + 1 \in N
  <2> SUFFICES ASSUME NEW d \in SUBSET S, Cardinality(d) <= n + 1, NEW x \in d
               PROVE  SumOf(f, d) = f[x] + SumOf(f, d \ {x})
    OBVIOUS
  <2> DEFINE p == Su!Picked(d)
             less == d \ {p}
             rest == d \ {x}
             both == d \ {p, x}
  <2>1. p \in d /\ SumOf(f, d) = f[p] + SumOf(f, less)
    BY <1>1, SumOn
  <2> HIDE DEF p
  <2>2. CASE p = x
    BY <2>1, <2>2
  <2>3. CASE p # x
    <3>1. /\ less \in SUBSET S /\ rest \in SUBSET S /\ both \in SUBSET S
          /\ x \in less /\ p \in rest /\ less \ {x} = both /\ rest \ {p} = both
      BY <2>1, <2>3
    <3>2. Cardinality(less) <= n /\ Cardinality(rest) <= n
      <4>1. Cardinality(less) < Cardinality(d) /\ Cardinality(rest) < Cardinality(d)
        BY <1>1, <2>1
      <4>2. Cardinality(less) \in Nat /\ Cardinality(rest) \in Nat /\ Cardinality(d) \in Nat
        BY <1>1, <3>1
      <4> HIDE DEF less, rest
      <4> QED BY <4>1, <4>2
    <3>3. SumOf(f, less) = f[x] + SumOf(f, both)
      BY <1>3, <3>1, <3>2
    <3>4. SumOf(f, rest) = f[p] + SumOf(f, both)
      BY <1>3, <3>1, <3>2
    <3>5. f[x] \in Int /\ f[p] \in Int /\ SumOf(f, both) \in Int
      BY <1>1, <2>1, <3>1 DEF Numbers
    <3> DEFINE fx == f[x]
               fp == f[p]
               b == SumOf(f, both)
               l == SumOf(f, less)
               r == SumOf(f, rest)
    <3>6. l = fx + b /\ r = fp + b /\ fx \in Int /\ fp \in Int /\ b \in Int /\ SumOf(f, d) = fp + l
      BY <2>1, <3>3, <3>4, <3>5
    <3> HIDE DEF fx, fp, b, l, r
    <3>7. SumOf(f, d) = fx + r
      BY <3>6
    <3> QED BY <3>7 DEF fx, r
  <2> QED BY <2>2, <2>3
<1>4. \A n \in Nat : n \in N
  <2> HIDE DEF N
  <2> QED BY <1>2, <1>3, Induction
<1>5. Cardinality(S) \in N
  BY <1>1, <1>4
<1>6. Cardinality(S) <= Cardinality(S)
  BY <1>1
<1> QED BY <1>5, <1>6

\* Zero summands do not count.
LEMMA SumSupport ==
    ASSUME NEW f, NEW S, IsFiniteSet(S), Numbers(f, S)
    PROVE  SumOf(f, {k \in S : f[k] # 0}) = SumOf(f, S)
<1> DEFINE on(d) == {k \in d : f[k] # 0}
           N == {d \in SUBSET S : SumOf(f, on(d)) = SumOf(f, d)}
<1>1. {} \in N
  <2>1. on({}) = {}
    OBVIOUS
  <2> QED BY <2>1
<1>2. ASSUME NEW d \in SUBSET S, d # {}, d \ {Su!Picked(d)} \in N PROVE d \in N
  <2> DEFINE y == Su!Picked(d)
             r == d \ {y}
  <2>1. y \in d /\ SumOf(f, d) = f[y] + SumOf(f, r)
    BY <1>2, FS_Subset, SumOn
  <2>2. SumOf(f, on(r)) = SumOf(f, r)
    BY <1>2
  <2> HIDE DEF y
  <2>3. CASE f[y] = 0
    <3>1. on(d) = on(r)
      BY <2>3
    <3>2. SumOf(f, r) \in Int
      <4>1. IsFiniteSet(r) /\ Numbers(f, r)
        BY FS_Subset DEF Numbers
      <4> QED BY <4>1, SumInt
    <3>3. SumOf(f, d) = SumOf(f, r)
      <4> DEFINE b == SumOf(f, r)
      <4> HIDE DEF b, r
      <4> QED BY <2>1, <2>3, <3>2 DEF b
    <3> QED BY <2>2, <3>1, <3>3
  <2>4. CASE f[y] # 0
    <3>1. y \in on(d) /\ on(d) \ {y} = on(r)
      BY <2>1, <2>4
    <3>2. IsFiniteSet(on(d)) /\ Numbers(f, on(d))
      BY FS_Subset DEF Numbers
    <3> HIDE DEF on, r
    <3>3. SumOf(f, on(d)) = f[y] + SumOf(f, on(r))
      BY <3>1, <3>2, SumTake
    <3> QED BY <2>1, <2>2, <3>3
  <2> QED BY <2>3, <2>4
<1>3. \A d \in SUBSET S : d \in N
  <2> HIDE DEF N
  <2> QED BY <1>1, <1>2, SumFinite, Su!SubsetInduction
<1>4. S \in N
  BY <1>3
<1> QED BY <1>4

Below(f, g, S) == \A k \in S : f[k] \in Int /\ g[k] \in Int /\ f[k] <= g[k]

LEMMA SumBelow ==
    ASSUME NEW f, NEW g, NEW S, IsFiniteSet(S), Below(f, g, S)
    PROVE  /\ SumOf(f, S) \in Int /\ SumOf(g, S) \in Int /\ SumOf(f, S) <= SumOf(g, S)
           /\ \A x \in S : f[x] < g[x] => SumOf(f, S) < SumOf(g, S)
<1> DEFINE N == {d \in SUBSET S : SumOf(f, d) <= SumOf(g, d)}
<1>1. \A d \in SUBSET S : IsFiniteSet(d) /\ Numbers(f, d) /\ Numbers(g, d)
  BY FS_Subset DEF Below, Numbers
<1>2. \A d \in SUBSET S : SumOf(f, d) \in Int /\ SumOf(g, d) \in Int
  BY <1>1, SumInt
<1>3. {} \in N
  BY SumNone
<1>4. ASSUME NEW d \in SUBSET S, d # {}, d \ {Su!Picked(d)} \in N PROVE d \in N
  <2> DEFINE y == Su!Picked(d)
             r == d \ {y}
             fy == f[y]
             gy == g[y]
             fr == SumOf(f, r)
             gr == SumOf(g, r)
  <2>1. y \in d /\ SumOf(f, d) = fy + fr /\ SumOf(g, d) = gy + gr
    BY <1>1, <1>4, SumOn
  <2>2. fr <= gr /\ fr \in Int /\ gr \in Int
    BY <1>2, <1>4
  <2>3. fy \in Int /\ gy \in Int /\ fy <= gy
    BY <2>1 DEF Below
  <2> HIDE DEF fy, gy, fr, gr, y, r
  <2>4. SumOf(f, d) <= SumOf(g, d)
    BY <2>1, <2>2, <2>3
  <2> QED BY <2>4
<1>5. \A d \in SUBSET S : d \in N
  <2> HIDE DEF N
  <2> QED BY <1>3, <1>4, SumFinite, Su!SubsetInduction
<1>6. ASSUME NEW x \in S, f[x] < g[x] PROVE SumOf(f, S) < SumOf(g, S)
  <2> DEFINE r == S \ {x}
             fx == f[x]
             gx == g[x]
             fr == SumOf(f, r)
             gr == SumOf(g, r)
  <2>1. SumOf(f, S) = fx + fr /\ SumOf(g, S) = gx + gr
    BY <1>1, SumTake
  <2>2. fr <= gr /\ fr \in Int /\ gr \in Int
    BY <1>2, <1>5
  <2>3. fx \in Int /\ gx \in Int /\ fx < gx
    BY <1>6 DEF Below
  <2> HIDE DEF fx, gx, fr, gr, r
  <2> QED BY <2>1, <2>2, <2>3
<1>7. S \in N
  BY <1>5
<1> QED BY <1>2, <1>6, <1>7


LEMMA TotalIs ==
    ASSUME NEW c \in CircuitState, NEW t \in Triple
    PROVE  /\ TotalWeight(c, t) = SumOf(c.weights[t], Rule) /\ TotalWeight(c, t) \in Int
           /\ c.weights[t] \in [Rule -> Int] /\ c.weights \in Weighing
<1> DEFINE f == c.weights[t]
<1>1. c.weights \in Weighing
  BY StateShape
<1>2. f \in [Rule -> Int]
  BY <1>1 DEF Weighing
<1>3. Numbers(f, Rule) /\ IsFiniteSet(Rule)
  BY <1>2, RuleAssumption DEF Numbers
<1>4. TotalWeight(c, t) = SumOf(f, {r \in Rule : f[r] # 0})
  BY DEF TotalWeight, SumOf
<1> HIDE DEF f
<1>5. SumOf(f, {r \in Rule : f[r] # 0}) = SumOf(f, Rule) /\ SumOf(f, Rule) \in Int
  BY <1>3, SumSupport, SumInt
<1> QED BY <1>1, <1>2, <1>4, <1>5 DEF f

\* A weight above zero is a derivation over the extent.
LEMMA WeightMeans ==
    ASSUME NEW c \in CircuitState, Recounted(c), NEW t \in Triple
    PROVE  /\ \A r \in Rule : /\ c.weights[t][r] \in Nat
                              /\ c.weights[t][r] > 0 <=>
                                    \E i \in Instance : i.head = t /\ i.rule = r /\ Derives(i, In(c.extent))
           /\ TotalWeight(c, t) >= 0
           /\ \A r \in Rule : c.weights[t][r] > 0 => TotalWeight(c, t) > 0
           /\ TotalWeight(c, t) > 0 => \E i \in Instance : i.head = t /\ Derives(i, In(c.extent))
           /\ \A i \in Instance : i.head = t /\ Derives(i, In(c.extent)) => TotalWeight(c, t) > 0
<1> DEFINE f == c.weights[t]
           z == [r \in Rule |-> 0]
<1>1. ASSUME NEW r \in Rule
      PROVE  /\ f[r] \in Nat
             /\ f[r] > 0 <=> \E i \in Instance : i.head = t /\ i.rule = r /\ Derives(i, In(c.extent))
  <2> DEFINE S == InstancesOf[t][r]
             on == DerivedBy(S, In(c.extent))
  <2>1. S = {i \in Instance : i.head = t /\ i.rule = r} /\ IsFiniteSet(S)
    BY InstancesFinite DEF InstancesOf
  <2>2. IsFiniteSet(on) /\ f[r] = Cardinality(on)
    BY <2>1, FS_Subset DEF DerivedBy, Recounted
  <2>3. on = {i \in Instance : i.head = t /\ i.rule = r /\ Derives(i, In(c.extent))}
    BY <2>1 DEF DerivedBy
  <2> HIDE DEF f, on
  <2>4. Cardinality(on) \in Nat /\ (Cardinality(on) = 0 <=> on = {})
    BY <2>2, FS_CardinalityType, FS_EmptySet
  <2>5. f[r] > 0 <=> on # {}
    BY <2>2, <2>4
  <2> QED BY <2>2, <2>3, <2>4, <2>5
<1>2. TotalWeight(c, t) = SumOf(f, Rule) /\ TotalWeight(c, t) \in Int
  BY TotalIs
<1> HIDE DEF f
<1>3. Below(z, f, Rule) /\ IsFiniteSet(Rule) /\ SumOf(z, Rule) = 0
  <2>1. \A r \in Rule : z[r] = 0
    OBVIOUS
  <2>2. IsFiniteSet(Rule)
    BY RuleAssumption
  <2> HIDE DEF z
  <2>3. SumOf(z, Rule) = 0
    BY <2>1, <2>2, SumZero
  <2> QED BY <1>1, <2>1, <2>2, <2>3 DEF Below
<1>4. 0 <= TotalWeight(c, t) /\ \A r \in Rule : z[r] < f[r] => 0 < TotalWeight(c, t)
  <2> HIDE DEF z
  <2> QED BY <1>2, <1>3, SumBelow
<1>5. \A r \in Rule : f[r] > 0 => TotalWeight(c, t) > 0
  BY <1>1, <1>2, <1>4
<1>6. ASSUME TotalWeight(c, t) > 0 PROVE \E i \in Instance : i.head = t /\ Derives(i, In(c.extent))
  <2>1. \E r \in Rule : f[r] > 0
    <3>1. \A r \in Rule : f[r] \in Int
      BY <1>1
    <3> QED BY <1>2, <1>3, <1>6, <3>1, SumPositive
  <2> QED BY <1>1, <2>1
<1>7. ASSUME NEW i \in Instance, i.head = t, Derives(i, In(c.extent)) PROVE TotalWeight(c, t) > 0
  <2>1. i.rule \in Rule
    BY InstanceAssumption
  <2> QED BY <1>1, <1>5, <1>7, <2>1
<1> QED BY <1>1, <1>2, <1>4, <1>5, <1>6, <1>7 DEF f

\* Over a larger extent no weight is smaller, and if one moved the total did.
LEMMA Heavier ==
    ASSUME NEW b \in CircuitState, Recounted(b), NEW d \in CircuitState, Recounted(d),
           In(b.extent) \subseteq In(d.extent), NEW t \in Triple
    PROVE  /\ \A r \in Rule : b.weights[t][r] <= d.weights[t][r]
           /\ TotalWeight(b, t) <= TotalWeight(d, t)
           /\ b.weights[t] # d.weights[t] => TotalWeight(b, t) < TotalWeight(d, t)
<1> DEFINE f == b.weights[t]
           g == d.weights[t]
<1>1. ASSUME NEW r \in Rule PROVE f[r] \in Int /\ g[r] \in Int /\ f[r] <= g[r]
  <2> DEFINE S == InstancesOf[t][r]
             A == DerivedBy(S, In(b.extent))
             B == DerivedBy(S, In(d.extent))
  <2>1. A \subseteq B
    BY DEF DerivedBy, Derives
  <2>2. IsFiniteSet(S)
    BY InstancesFinite
  <2>3. IsFiniteSet(B)
    BY <2>2, FS_Subset DEF DerivedBy
  <2>4. f[r] = Cardinality(A) /\ g[r] = Cardinality(B)
    BY DEF Recounted
  <2> HIDE DEF A, B, f, g
  <2>5. Cardinality(A) \in Nat /\ Cardinality(B) \in Nat /\ Cardinality(A) <= Cardinality(B)
    BY <2>1, <2>3, FS_Subset, FS_CardinalityType
  <2> QED BY <2>4, <2>5
<1>2. /\ TotalWeight(b, t) = SumOf(f, Rule) /\ TotalWeight(d, t) = SumOf(g, Rule)
      /\ f \in [Rule -> Int] /\ g \in [Rule -> Int]
  BY TotalIs
<1> HIDE DEF f, g
<1>3. Below(f, g, Rule) /\ IsFiniteSet(Rule)
  BY <1>1, RuleAssumption DEF Below
<1>4. /\ TotalWeight(b, t) <= TotalWeight(d, t)
      /\ \A x \in Rule : f[x] < g[x] => TotalWeight(b, t) < TotalWeight(d, t)
  BY <1>2, <1>3, SumBelow
<1>5. f # g => \E x \in Rule : f[x] < g[x]
  <2> SUFFICES ASSUME f # g PROVE \E x \in Rule : f[x] < g[x]
    OBVIOUS
  <2>1. PICK x \in Rule : f[x] # g[x]
    BY <1>2
  <2> QED BY <1>1, <2>1
<1> QED BY <1>1, <1>4, <1>5 DEF f, g

-----------------------------------------------------------------------------
(* The closure passes tell the rules what they did to the extent.            *)

\* The extent, with the delta on top of it, is what the bases have.
Noted(c, delta) == \A t \in Triple : c.extent[t] + delta[t] = One(BasePresence(c, t))

\* A rule that owns a row derives it.
Owning(c) == \A t \in Triple : Owned(c, t) => c.weights[t][c.attr[t]] > 0

\* What an attributed row says of the weights, and what the weights say of the rows.
Exact(c) == Recounted(c) /\ Noted(c, EmptyZset) /\ Owning(c)
AllPresent(c) == \A t \in Triple : TotalWeight(c, t) > 0 => BasePresence(c, t)

\* The parts of a circuit that the closure passes leave alone.
Carried(c, d) ==
    /\ d \in CircuitState
    /\ d.asserted = c.asserted /\ d.extent = c.extent /\ d.weights = c.weights /\ d.attr = c.attr
    /\ d.warm = c.warm /\ d.trace = c.trace /\ d.sound = c.sound

LEMMA CarriedOn ==
    ASSUME NEW b, NEW c, NEW d, Carried(b, c), Carried(c, d)
    PROVE  Carried(b, d)
BY DEF Carried

LEMMA CarriedHolds ==
    ASSUME NEW c, NEW d, Carried(c, d)
    PROVE  /\ Recounted(c) => Recounted(d)
           /\ Owning(c) => Owning(d)
           /\ \A t \in Triple : TotalWeight(d, t) = TotalWeight(c, t)
BY DEF Carried, Recounted, Owning, Owned, TotalWeight

\* A row step leaves the assertions alone.
LEMMA RowStepsSound ==
    ASSUME NEW c, HasBase(c), NEW ts, NEW kindOf
    PROVE  /\ MaterializeRuleRows(c, ts).sound = c.sound
           /\ WithdrawDerivedRows(c, ts, kindOf).sound = c.sound
           /\ MaterializeClosureRows(c, ts).sound = c.sound
BY DEF HasBase, MaterializeRuleRows, WithdrawDerivedRows, MaterializeClosureRows

\* note_presence_change, for the rows whose presence may have changed.
LEMMA NoteFollows ==
    ASSUME NEW c, NEW d \in CircuitState, NEW delta \in Zset, NEW ts, Noted(c, delta), d.extent = c.extent,
           \A t \in Triple : t \notin ts => (BasePresence(d, t) <=> BasePresence(c, t))
    PROVE  Noted(d, NotePresenceChange(d, ts, delta))
<1> DEFINE note == NotePresenceChange(d, ts, delta)
<1> SUFFICES ASSUME NEW t \in Triple PROVE d.extent[t] + note[t] = One(BasePresence(d, t))
  BY DEF Noted
<1> DEFINE x == d.extent[t]
           y == delta[t]
           now == BasePresence(d, t)
<1>1. x \in Int /\ y \in Int
  BY ZsetAt, StateShape
<1>2. x + y = One(BasePresence(c, t))
  BY DEF Noted
<1>3. note[t] = y + CASE t \in ts /\ now /\ ~(x + y > 0) -> 1
                      [] t \in ts /\ ~now /\ x + y > 0 -> -1
                      [] OTHER -> 0
  BY DEF NotePresenceChange, Tabulated
<1>4. t \notin ts => (now <=> BasePresence(c, t))
  OBVIOUS
<1> HIDE DEF x, y, now, note
<1>5. x + y = 0 \/ x + y = 1
  BY <1>2 DEF One
<1>6. CASE t \in ts /\ now /\ ~(x + y > 0)
  BY <1>1, <1>3, <1>5, <1>6 DEF x, now, One
<1>7. CASE t \in ts /\ ~now /\ x + y > 0
  BY <1>1, <1>3, <1>5, <1>7 DEF x, now, One
<1>8. CASE ~(t \in ts /\ now /\ ~(x + y > 0)) /\ ~(t \in ts /\ ~now /\ x + y > 0)
  <2>1. note[t] = y
    BY <1>1, <1>3, <1>8
  <2>2. x + y = One(now)
    BY <1>1, <1>2, <1>4, <1>5, <1>8 DEF One
  <2> QED BY <2>1, <2>2 DEF x, now
<1> QED BY <1>6, <1>7, <1>8

LEMMA ClosureWithdrawNotes ==
    ASSUME NEW c, WellFormed(c), NEW outcome \in Outcomes, NEW delta \in Zset
    PROVE  LET pass == ClosureWithdraw(c, outcome, delta)
           IN  /\ Noted(c, delta) => Noted(pass.circuit, pass.delta)
               /\ Carried(c, pass.circuit)
               /\ pass.circuit.fallback = c.fallback
<1> DEFINE withdraw == {Edge(p) : p \in outcome.withdrawn}
           lost     == withdraw \cap c.support
           orphans  == {t \in lost : Owned(c, t)}
           down     == lost \ orphans
           cut      == [c EXCEPT !.closure = outcome.closure, !.support = Listed(@ \ withdraw)]
           kinds    == [t \in Triple |-> ClosureInferred]
           zeroed   == WithdrawDerivedRows(cut, down, kinds)
           promote  == {t \in {Edge(p) : p \in outcome.survived} :
                           t \notin zeroed.support /\ c.asserted[t] <= 0}
           rows     == {t \in promote : zeroed.derived[t] <= 0}
           grown    == MaterializeClosureRows(zeroed, rows)
           done     == [grown EXCEPT !.support = Listed(@ \cup promote)]
<1>0. /\ ClosureWithdraw(c, outcome, delta).circuit = done
      /\ ClosureWithdraw(c, outcome, delta).delta = NotePresenceChange(done, down \cup rows, delta)
  BY DEF ClosureWithdraw
<1>1. c \in CircuitState /\ c.support \in SUBSET EdgeTriple
  BY StateShape DEF WellFormed
<1>2. outcome.closure \in Closure /\ withdraw \subseteq EdgeTriple
      /\ {Edge(p) : p \in outcome.survived} \subseteq EdgeTriple
  BY EdgePairs DEF Outcomes
<1>3. /\ Carried(c, cut) /\ cut.derived = c.derived /\ cut.fallback = c.fallback
  <2>1. /\ cut \in CircuitState /\ cut.derived = c.derived /\ cut.fallback = c.fallback
        /\ cut.asserted = c.asserted /\ cut.extent = c.extent /\ cut.weights = c.weights
        /\ cut.attr = c.attr /\ cut.warm = c.warm /\ cut.trace = c.trace /\ cut.sound = c.sound
    BY <1>1, <1>2, StateShape DEF Listed
  <2> HIDE DEF cut
  <2> QED BY <2>1 DEF Carried
<1>4. \A t \in down \cap Triple : kinds[t] \in Kind
  BY KindFinite
<1> HIDE DEF withdraw, down, cut, kinds
<1>5. /\ Carried(cut, zeroed) /\ zeroed.fallback = cut.fallback
      /\ \A t \in Triple : zeroed.derived[t] = IF t \in down THEN 0 ELSE cut.derived[t]
  <2>1. cut \in CircuitState
    BY <1>3 DEF Carried
  <2>2. zeroed.sound = cut.sound
    BY <2>1, StateShape, RowStepsSound DEF HasBase
  <2>3. /\ zeroed \in CircuitState /\ Beside(cut, zeroed) /\ zeroed.attr = cut.attr
        /\ \A t \in Triple : zeroed.derived[t] = IF t \in down THEN 0 ELSE cut.derived[t]
    BY <1>4, <2>1, WithdrawFields
  <2> HIDE DEF zeroed
  <2> QED BY <2>2, <2>3 DEF Carried, Beside
<1>6. rows \in SUBSET EdgeTriple /\ promote \in SUBSET EdgeTriple
  BY <1>2
<1> HIDE DEF zeroed, promote, rows
<1>7. /\ Carried(zeroed, grown) /\ grown.fallback = zeroed.fallback /\ grown.support \in SUBSET EdgeTriple
      /\ \A t \in Triple : grown.derived[t] = zeroed.derived[t] + (IF t \in rows THEN 1 ELSE 0)
  <2>1. zeroed \in CircuitState
    BY <1>5 DEF Carried
  <2>2. grown.sound = zeroed.sound
    BY <2>1, StateShape, RowStepsSound DEF HasBase
  <2>3. /\ grown \in CircuitState /\ Beside(zeroed, grown) /\ grown.attr = zeroed.attr
        /\ \A t \in Triple : grown.derived[t] = zeroed.derived[t] + (IF t \in rows THEN 1 ELSE 0)
    BY <1>6, <2>1, ClosureRowsFields
  <2> HIDE DEF grown
  <2> QED BY <2>2, <2>3, StateShape DEF Carried, Beside
<1> HIDE DEF grown
<1>8. Carried(grown, done) /\ done.derived = grown.derived /\ done.fallback = grown.fallback
  <2>1. /\ done \in CircuitState /\ done.derived = grown.derived /\ done.fallback = grown.fallback
        /\ done.asserted = grown.asserted /\ done.extent = grown.extent /\ done.weights = grown.weights
        /\ done.attr = grown.attr /\ done.warm = grown.warm /\ done.trace = grown.trace
        /\ done.sound = grown.sound
    BY <1>6, <1>7, StateShape DEF Listed, Carried
  <2> HIDE DEF done
  <2> QED BY <2>1 DEF Carried
<1> HIDE DEF done
<1>9. Carried(c, done) /\ done.fallback = c.fallback
  BY <1>3, <1>5, <1>7, <1>8, CarriedOn
<1>10. ASSUME NEW t \in Triple, t \notin down \cup rows PROVE BasePresence(done, t) <=> BasePresence(c, t)
  <2>1. c.derived[t] \in Int
    BY <1>1, ReportedType
  <2>2. done.derived[t] = c.derived[t] + 0
    BY <1>3, <1>5, <1>7, <1>8, <1>10
  <2> QED BY <1>9, <2>1, <2>2 DEF BasePresence, Carried
<1>11. Noted(c, delta) => Noted(done, NotePresenceChange(done, down \cup rows, delta))
  BY <1>9, <1>10, NoteFollows DEF Carried
<1> QED BY <1>0, <1>9, <1>11

LEMMA ClosurePassesNote ==
    ASSUME NEW c, WellFormed(c), NEW edges \in SUBSET EdgeTriple, NEW delta \in Zset
    PROVE  LET cut   == ClosureRetractPass(c, edges, delta)
               grown == ClosureInsertionPass(c, edges, delta)
           IN  /\ Noted(c, delta) => Noted(cut.circuit, cut.delta)
               /\ Noted(c, delta) => Noted(grown.circuit, grown.delta)
               /\ Carried(c, cut.circuit) /\ Carried(c, grown.circuit)
               /\ c.support \subseteq grown.circuit.support
               /\ cut.circuit.fallback = c.fallback /\ grown.circuit.fallback = c.fallback
<1> DEFINE ps == {PairOf(t) : t \in edges}
           cut   == ClosureRetractPass(c, edges, delta)
           grown == ClosureInsertionPass(c, edges, delta)
<1>1. c \in CircuitState /\ c.closure \in Closure /\ c.support \in SUBSET EdgeTriple
  BY StateShape DEF WellFormed
<1>2. ps \subseteq Pair /\ IsFiniteSet(ps)
  BY EdgePairs
<1> HIDE DEF ps
<1>3. /\ Noted(c, delta) => Noted(cut.circuit, cut.delta)
      /\ Carried(c, cut.circuit)
      /\ cut.circuit.fallback = c.fallback
  <2> DEFINE outcome == DeleteEdges(c.closure, ps)
  <2>1. outcome \in Outcomes
    BY <1>1, <1>2, DeleteEdgesTyped
  <2>2. cut = ClosureWithdraw(c, outcome, delta)
    BY DEF ClosureRetractPass, ps
  <2> HIDE DEF outcome, cut
  <2> QED BY <2>1, <2>2, ClosureWithdrawNotes
<1>4. /\ Noted(c, delta) => Noted(grown.circuit, grown.delta)
      /\ Carried(c, grown.circuit) /\ c.support \subseteq grown.circuit.support
      /\ grown.circuit.fallback = c.fallback
  <2> DEFINE closure  == InsertEdges(c.closure, ps)
             inferred == {Edge(p) : p \in closure.closed \ c.closure.closed}
             rows     == {t \in inferred : ~BasePresence(c, t)}
             shared   == {t \in inferred : BasePresence(c, t) /\ c.derived[t] # 0}
             made     == MaterializeClosureRows(c, rows)
             done     == [made EXCEPT !.closure = closure, !.support = Listed(@ \cup shared)]
  <2>1. grown.circuit = done /\ grown.delta = NotePresenceChange(done, rows, delta)
    BY DEF ClosureInsertionPass, ps
  <2>2. closure \in Closure
    BY <1>1, <1>2, InsertEdgesTyped
  <2> HIDE DEF closure
  <2>3. inferred \subseteq EdgeTriple
    BY <2>2, EdgePairs DEF Closure
  <2>4. rows \in SUBSET EdgeTriple /\ shared \in SUBSET EdgeTriple
    BY <2>3
  <2> HIDE DEF rows, shared, grown
  <2>5. /\ Carried(c, made) /\ made.fallback = c.fallback /\ made.support \in SUBSET EdgeTriple
        /\ c.support \subseteq made.support
        /\ \A t \in Triple : made.derived[t] = c.derived[t] + (IF t \in rows THEN 1 ELSE 0)
    <3>1. made.sound = c.sound
      BY <1>1, StateShape, RowStepsSound DEF HasBase
    <3>2. /\ made \in CircuitState /\ Beside(c, made) /\ made.attr = c.attr
          /\ \A t \in Triple : made.derived[t] = c.derived[t] + (IF t \in rows THEN 1 ELSE 0)
      BY <1>1, <2>4, ClosureRowsFields
    <3>3. c.support \subseteq made.support
      <4>1. made.support = Listed(c.support \cup rows)
        BY <1>1, StateShape DEF MaterializeClosureRows
      <4> QED BY <4>1, ListedIs
    <3> HIDE DEF made
    <3> QED BY <3>1, <3>2, <3>3, StateShape DEF Carried, Beside
  <2> HIDE DEF made
  <2>6. Carried(made, done) /\ made.support \subseteq done.support /\ done.derived = made.derived /\ done.fallback = made.fallback
    <3> DEFINE all == Listed(made.support \cup shared)
    <3>1. all \in SUBSET EdgeTriple
      BY <2>4, <2>5, ListedIs
    <3>2. done = [made EXCEPT !.closure = closure, !.support = all]
      BY DEF done
    <3>0. made.support \subseteq all
      BY ListedIs
    <3> HIDE DEF all, done
    <3>3. /\ done \in CircuitState /\ done.derived = made.derived /\ done.fallback = made.fallback
          /\ done.support = all
          /\ done.asserted = made.asserted /\ done.extent = made.extent /\ done.weights = made.weights
          /\ done.attr = made.attr /\ done.warm = made.warm /\ done.trace = made.trace
          /\ done.sound = made.sound
      BY <2>2, <2>5, <3>1, <3>2, StateShape DEF Carried
    <3> QED BY <3>0, <3>3 DEF Carried
  <2> HIDE DEF done
  <2>7. Carried(c, done) /\ done.fallback = c.fallback
    BY <2>5, <2>6, CarriedOn
  <2>8. ASSUME NEW t \in Triple, t \notin rows PROVE BasePresence(done, t) <=> BasePresence(c, t)
    <3>1. c.derived[t] \in Int
      BY <1>1, ReportedType
    <3>2. done.derived[t] = c.derived[t] + 0
      BY <2>5, <2>6, <2>8
    <3> QED BY <2>7, <3>1, <3>2 DEF BasePresence, Carried
  <2>9. Noted(c, delta) => Noted(done, NotePresenceChange(done, rows, delta))
    BY <2>7, <2>8, NoteFollows DEF Carried
  <2>10. c.support \subseteq done.support
    BY <2>5, <2>6
  <2> QED BY <2>1, <2>7, <2>9, <2>10
<1> HIDE DEF cut, grown
<1> QED BY <1>3, <1>4 DEF cut, grown

-----------------------------------------------------------------------------
(* A round whose delta has one sign.                                         *)

\* The weights of two circuits differ where Moved says.
LEMMA MovedMeans ==
    ASSUME NEW c \in CircuitState, NEW d \in CircuitState, NEW t \in Triple
    PROVE  /\ t \in Moved(c, d) <=> c.weights[t] # d.weights[t]
           /\ c.weights[t] = d.weights[t] => TotalWeight(c, t) = TotalWeight(d, t)
<1>1. c.weights[t] \in [Rule -> Int] /\ d.weights[t] \in [Rule -> Int]
  BY TotalIs
<1>2. t \in Moved(c, d) <=> \E r \in Rule : c.weights[t][r] # d.weights[t][r]
  BY DEF Moved
<1>3. c.weights[t] = d.weights[t] => TotalWeight(c, t) = TotalWeight(d, t)
  BY DEF TotalWeight
<1> QED BY <1>1, <1>2, <1>3

LEMMA InSize ==
    ASSUME NEW z
    PROVE  In(z) \subseteq Triple /\ Cardinality(In(z)) \in Nat /\ Cardinality(Triple) \in Nat
           /\ Cardinality(In(z)) <= Cardinality(Triple)
<1>1. In(z) \subseteq Triple
  BY DEF In
<1> QED BY <1>1, TriplesFinite, FS_Subset, FS_CardinalityType

Gains(delta) == \A t \in Triple : delta[t] >= 0
Losses(delta) == \A t \in Triple : delta[t] <= 0

\* An extent that gains, gains a row, unless the delta is empty.
LEMMA GainsGrow ==
    ASSUME NEW z \in Zset, NEW delta \in Zset, Unit(z), Unit(Plus(z, delta)), Gains(delta)
    PROVE  /\ In(z) \subseteq In(Plus(z, delta))
           /\ delta # EmptyZset => Cardinality(In(Plus(z, delta))) >= Cardinality(In(z)) + 1
<1> DEFINE y == Plus(z, delta)
<1>1. \A t \in Triple : y[t] = z[t] + delta[t] /\ z[t] \in {0, 1} /\ y[t] \in {0, 1} /\ delta[t] \in Int /\ delta[t] >= 0
  BY PlusAt, ZsetAt DEF Unit, Gains
<1> HIDE DEF y
<1>2. In(z) \subseteq In(y)
  BY <1>1 DEF In
<1>3. ASSUME delta # EmptyZset PROVE Cardinality(In(y)) >= Cardinality(In(z)) + 1
  <2>1. PICK t \in Triple : delta[t] # 0
    BY <1>3 DEF EmptyZset, Zset
  <2>2. t \in In(y) /\ t \notin In(z)
    BY <1>1, <2>1 DEF In
  <2>3. IsFiniteSet(In(z)) /\ IsFiniteSet(In(y))
    BY InSize, TriplesFinite, FS_Subset
  <2>4. Cardinality(In(z) \cup {t}) = Cardinality(In(z)) + 1 /\ IsFiniteSet(In(z) \cup {t})
    BY <2>2, <2>3, FS_AddElement
  <2>5. In(z) \cup {t} \subseteq In(y)
    BY <1>2, <2>2
  <2>6. Cardinality(In(z) \cup {t}) <= Cardinality(In(y))
    BY <2>3, <2>5, FS_Subset
  <2> QED BY <2>4, <2>6
<1> QED BY <1>2, <1>3 DEF y

\* An extent that loses is one that gains backwards.
LEMMA LossesShrink ==
    ASSUME NEW z \in Zset, NEW delta \in Zset, Unit(z), Unit(Plus(z, delta)), Losses(delta)
    PROVE  /\ In(Plus(z, delta)) \subseteq In(z)
           /\ delta # EmptyZset => Cardinality(In(z)) >= Cardinality(In(Plus(z, delta))) + 1
<1> DEFINE y == Plus(z, delta)
           back == [t \in Triple |-> 0 - delta[t]]
<1>1. \A t \in Triple : y[t] = z[t] + delta[t] /\ z[t] \in Int /\ delta[t] \in Int /\ delta[t] <= 0
  BY PlusAt, ZsetAt DEF Losses
<1>2. back \in Zset /\ y \in Zset /\ \A t \in Triple : back[t] = 0 - delta[t]
  BY <1>1, PlusAt DEF Zset
<1> HIDE DEF y, back
<1>3. Plus(y, back) = z
  <2>1. Plus(y, back) \in Zset /\ \A t \in Triple : Plus(y, back)[t] = y[t] + back[t]
    BY <1>2, PlusAt
  <2>2. \A t \in Triple : Plus(y, back)[t] = z[t]
    BY <1>1, <1>2, <2>1
  <2> HIDE DEF Plus
  <2> QED BY <2>1, <2>2 DEF Zset
<1>4. Gains(back)
  BY <1>1, <1>2 DEF Gains
<1>5. delta # EmptyZset => back # EmptyZset
  <2>1. ASSUME delta # EmptyZset PROVE back # EmptyZset
    <3>1. PICK t \in Triple : delta[t] # 0
      BY <2>1 DEF EmptyZset, Zset
    <3>2. back[t] # 0
      BY <1>1, <1>2, <3>1
    <3> QED BY <3>2 DEF EmptyZset
  <2> QED BY <2>1
<1> QED BY <1>2, <1>3, <1>4, <1>5, GainsGrow DEF y

\* What a round over an exact extent leaves.
Rounded(c, delta, d) ==
    /\ WellFormed(d) /\ Recounted(d) /\ Besides(c, d)
    /\ d.sound = c.sound /\ d.fallback = c.fallback
    /\ d.extent = Plus(c.extent, delta)
    /\ \A t \in Triple : d.extent[t] = c.extent[t] + delta[t] /\ d.extent[t] \in {0, 1}

LEMMA RoundHolds ==
    ASSUME NEW c, WellFormed(c), NEW delta \in Zset, Recounted(c), Unit(Plus(c.extent, delta))
    PROVE  Rounded(c, delta, FixpointRound(c, delta))
<1> DEFINE d == FixpointRound(c, delta)
<1>1. WellFormed(d) /\ Besides(c, d) /\ d.sound = c.sound /\ d.extent = Plus(c.extent, delta)
  BY RoundFields
<1>2. Recounted(d)
  BY RoundRecounts
<1>3. c \in CircuitState /\ HasBase(c)
  BY StateShape DEF WellFormed, HasBase
<1>4. d.fallback = c.fallback
  BY <1>3, RoundKeeps DEF Keeps, KeepsBase
<1> HIDE DEF d
<1>5. \A t \in Triple : d.extent[t] = c.extent[t] + delta[t] /\ d.extent[t] \in {0, 1}
  <2>1. c.extent \in Zset
    BY <1>3, StateShape
  <2> QED BY <1>1, <2>1, PlusAt DEF Unit
<1> QED BY <1>1, <1>2, <1>4, <1>5 DEF Rounded, d

LEMMA RoundGrows ==
    ASSUME NEW c, WellFormed(c), NEW delta \in Zset, Recounted(c), NEW d, Rounded(c, delta, d), Gains(delta)
    PROVE  /\ NoneBelowZero(c, d) /\ Grew(c, d)
           /\ \A t \in Triple : /\ 0 <= TotalWeight(c, t) /\ TotalWeight(c, t) <= TotalWeight(d, t)
                                /\ TotalWeight(c, t) \in Int /\ TotalWeight(d, t) \in Int
                                /\ t \in Moved(c, d) => TotalWeight(c, t) < TotalWeight(d, t)
                                /\ t \notin Moved(c, d) => c.weights[t] = d.weights[t]
                                /\ \A r \in Rule : c.weights[t][r] <= d.weights[t][r]
           /\ delta # EmptyZset => Cardinality(In(d.extent)) >= Cardinality(In(c.extent)) + 1
<1>1. c \in CircuitState /\ d \in CircuitState /\ Recounted(d) /\ d.extent = Plus(c.extent, delta)
  BY DEF WellFormed, Rounded
<1>2. c.extent \in Zset /\ Unit(c.extent) /\ Unit(Plus(c.extent, delta))
  BY <1>1, StateShape DEF Recounted
<1>3. /\ In(c.extent) \subseteq In(d.extent)
      /\ delta # EmptyZset => Cardinality(In(d.extent)) >= Cardinality(In(c.extent)) + 1
  BY <1>1, <1>2, GainsGrow
<1>4. ASSUME NEW t \in Triple
      PROVE  /\ 0 <= TotalWeight(c, t) /\ TotalWeight(c, t) <= TotalWeight(d, t)
             /\ TotalWeight(c, t) \in Int /\ TotalWeight(d, t) \in Int
             /\ t \in Moved(c, d) => TotalWeight(c, t) < TotalWeight(d, t)
             /\ t \notin Moved(c, d) => c.weights[t] = d.weights[t]
             /\ \A r \in Rule : c.weights[t][r] <= d.weights[t][r]
  <2>1. TotalWeight(c, t) >= 0 /\ TotalWeight(c, t) \in Int /\ TotalWeight(d, t) \in Int
    BY <1>1, WeightMeans, TotalIs
  <2>2. /\ \A r \in Rule : c.weights[t][r] <= d.weights[t][r]
        /\ TotalWeight(c, t) <= TotalWeight(d, t)
        /\ c.weights[t] # d.weights[t] => TotalWeight(c, t) < TotalWeight(d, t)
    BY <1>1, <1>3, Heavier
  <2>3. t \in Moved(c, d) <=> c.weights[t] # d.weights[t]
    BY <1>1, MovedMeans
  <2> QED BY <2>1, <2>2, <2>3
<1>5. NoneBelowZero(c, d) /\ Grew(c, d)
  <2>1. Moved(c, d) \subseteq Triple
    BY MovedTriples
  <2>2. \A t \in Triple : TotalWeight(d, t) >= 0 /\ TotalWeight(d, t) >= TotalWeight(c, t)
    BY <1>4
  <2> QED BY <2>1, <2>2 DEF NoneBelowZero, Grew
<1> QED BY <1>3, <1>4, <1>5

LEMMA RoundShrinks ==
    ASSUME NEW c, WellFormed(c), NEW delta \in Zset, Recounted(c), NEW d, Rounded(c, delta, d), Losses(delta)
    PROVE  /\ NoneBelowZero(c, d) /\ Shrank(c, d)
           /\ \A t \in Triple : /\ 0 <= TotalWeight(d, t) /\ TotalWeight(d, t) <= TotalWeight(c, t)
                                /\ TotalWeight(c, t) \in Int /\ TotalWeight(d, t) \in Int
                                /\ t \in Moved(c, d) => TotalWeight(d, t) < TotalWeight(c, t)
                                /\ t \notin Moved(c, d) => c.weights[t] = d.weights[t]
           /\ delta # EmptyZset => Cardinality(In(c.extent)) >= Cardinality(In(d.extent)) + 1
<1>1. c \in CircuitState /\ d \in CircuitState /\ Recounted(d) /\ d.extent = Plus(c.extent, delta)
  BY DEF WellFormed, Rounded
<1>2. c.extent \in Zset /\ Unit(c.extent) /\ Unit(Plus(c.extent, delta))
  BY <1>1, StateShape DEF Recounted
<1>3. /\ In(d.extent) \subseteq In(c.extent)
      /\ delta # EmptyZset => Cardinality(In(c.extent)) >= Cardinality(In(d.extent)) + 1
  BY <1>1, <1>2, LossesShrink
<1>4. ASSUME NEW t \in Triple
      PROVE  /\ 0 <= TotalWeight(d, t) /\ TotalWeight(d, t) <= TotalWeight(c, t)
             /\ TotalWeight(c, t) \in Int /\ TotalWeight(d, t) \in Int
             /\ t \in Moved(c, d) => TotalWeight(d, t) < TotalWeight(c, t)
             /\ t \notin Moved(c, d) => c.weights[t] = d.weights[t]
  <2>1. TotalWeight(d, t) >= 0 /\ TotalWeight(c, t) \in Int /\ TotalWeight(d, t) \in Int
    BY <1>1, WeightMeans, TotalIs
  <2>2. /\ TotalWeight(d, t) <= TotalWeight(c, t)
        /\ d.weights[t] # c.weights[t] => TotalWeight(d, t) < TotalWeight(c, t)
    BY <1>1, <1>3, Heavier
  <2>3. t \in Moved(c, d) <=> c.weights[t] # d.weights[t]
    BY <1>1, MovedMeans
  <2> QED BY <2>1, <2>2, <2>3
<1>5. NoneBelowZero(c, d) /\ Shrank(c, d)
  <2>1. Moved(c, d) \subseteq Triple
    BY MovedTriples
  <2>2. \A t \in Triple : TotalWeight(d, t) >= 0 /\ TotalWeight(d, t) <= TotalWeight(c, t)
    BY <1>4
  <2> QED BY <2>1, <2>2 DEF NoneBelowZero, Shrank
<1> QED BY <1>3, <1>4, <1>5

-----------------------------------------------------------------------------
(* The insertion fixpoint.                                                   *)

\* A weight is a derivation from rows that are there: before a tick every
\* derivable row is.
Filled(c) == \A t \in Triple : TotalWeight(c, t) > 0 => c.extent[t] > 0

\* A set with the consequences of its triples, and a circuit inside it.
Closes(X) == \A i \in Instance : Derives(i, X) => i.head \in X
Within(c, X) == \A t \in Triple : BasePresence(c, t) => t \in X

GrowStates(c) ==
    {s \in InsertionStates(c) :
        /\ Recounted(s.circuit) /\ Noted(s.circuit, s.delta) /\ Gains(s.delta) /\ Owning(s.circuit)
        /\ s.circuit.sound = c.sound
        /\ Filled(c) => AllPresent(s.circuit)
        /\ \A X : Closes(X) /\ Within(c, X) => Within(s.circuit, X)}

LEMMA SameTotals ==
    ASSUME NEW c, NEW d, d.weights = c.weights
    PROVE  \A t \in Triple : /\ TotalWeight(d, t) = TotalWeight(c, t)
                             /\ FirstAttrRule(d, t) = FirstAttrRule(c, t)
BY DEF TotalWeight, FirstAttrRule

LEMMA SameCounts ==
    ASSUME NEW c, Recounted(c), NEW d, Beside(c, d)
    PROVE  Recounted(d)
BY DEF Recounted, Beside

LEMMA NotedUnit ==
    ASSUME NEW c \in CircuitState, NEW delta \in Zset, Noted(c, delta)
    PROVE  Unit(Plus(c.extent, delta))
<1>1. c.extent \in Zset
  BY StateShape
<1>2. \A t \in Triple : Plus(c.extent, delta)[t] = c.extent[t] + delta[t]
  BY <1>1, PlusAt
<1> QED BY <1>2 DEF Noted, Unit, One

LEMMA InsertionSettleGrows ==
    ASSUME NEW c, WellFormed(c), NEW s \in GrowStates(c)
    PROVE  LET e == InsertionSettle(s, FixpointRound(s.circuit, s.delta))
           IN  /\ e \in GrowStates(c)
               /\ s.delta # EmptyZset =>
                     Cardinality(In(e.circuit.extent)) >= Cardinality(In(s.circuit.extent)) + 1
<1> DEFINE b       == s.circuit
           d       == FixpointRound(b, s.delta)
           checked == Check(d, NoneBelowZero(b, d) /\ Grew(b, d))
           rows    == {t \in Crossed(b, d) : d.asserted[t] <= 0 /\ d.derived[t] = 0}
           done    == MaterializeRuleRows(checked, rows)
           note    == NotePresenceChange(done, rows, EmptyZset)
           e       == InsertionSettle(s, d)
<1>0. e = [circuit |-> done, delta |-> note]
  BY DEF InsertionSettle
<1>1. e \in InsertionStates(c)
  BY InsertionSettleMoves DEF GrowStates
<1>2. /\ WellFormed(b) /\ s.delta \in Zset /\ Recounted(b) /\ Noted(b, s.delta) /\ Gains(s.delta)
      /\ Owning(b) /\ b.sound = c.sound /\ (Filled(c) => AllPresent(b))
      /\ \A X : Closes(X) /\ Within(c, X) => Within(b, X)
  BY DEF GrowStates, InsertionStates, Moves
<1>3. b \in CircuitState
  BY <1>2 DEF WellFormed
<1>4. Unit(Plus(b.extent, s.delta))
  BY <1>2, <1>3, NotedUnit
<1> HIDE DEF b
<1>5. Rounded(b, s.delta, d)
  BY <1>2, <1>4, RoundHolds
<1> HIDE DEF d
<1>6. /\ NoneBelowZero(b, d) /\ Grew(b, d)
      /\ \A t \in Triple : /\ 0 <= TotalWeight(b, t) /\ TotalWeight(b, t) \in Int
                           /\ TotalWeight(d, t) \in Int
                           /\ t \in Moved(b, d) => TotalWeight(b, t) < TotalWeight(d, t)
                           /\ t \notin Moved(b, d) => b.weights[t] = d.weights[t]
                           /\ \A r \in Rule : b.weights[t][r] <= d.weights[t][r]
      /\ s.delta # EmptyZset => Cardinality(In(d.extent)) >= Cardinality(In(b.extent)) + 1
  BY <1>2, <1>5, RoundGrows
<1>7. WellFormed(d) /\ d \in CircuitState /\ Recounted(d) /\ Besides(b, d) /\ d.sound = b.sound
      /\ \A t \in Triple : d.extent[t] = One(BasePresence(b, t))
  BY <1>2, <1>5 DEF Rounded, Noted, WellFormed
<1>8. /\ checked \in CircuitState /\ WellFormed(checked) /\ SameRows(d, checked)
      /\ Beside(d, checked) /\ checked.sound = d.sound
  <2>1. WellFormed(checked) /\ SameRows(d, checked) /\ Beside(d, checked)
    BY <1>7, CheckMoves DEF Moves
  <2>2. checked.sound = (d.sound /\ TRUE)
    BY <1>6, <1>7, StateShape DEF Check
  <2>3. d.sound \in BOOLEAN
    BY <1>7, StateShape
  <2> QED BY <2>1, <2>2, <2>3 DEF WellFormed
<1>9. /\ \A t \in Triple : TotalWeight(checked, t) = TotalWeight(d, t)
      /\ checked.weights \in Weighing
  BY <1>8, SameTotals, StateShape DEF Beside
<1>10. rows \subseteq Triple /\ \A t \in rows : t \in Crossed(b, d) /\ d.asserted[t] <= 0 /\ d.derived[t] = 0
  BY MovedTriples DEF Crossed
<1>11. \A t \in Crossed(b, d) : TotalWeight(d, t) > 0
  BY DEF Crossed
<1>12. \A t \in rows \cap Triple : FirstAttrRule(checked, t) \in Rule /\ checked.weights[t][FirstAttrRule(checked, t)] > 0
  BY <1>9, <1>10, <1>11, FirstRule
<1>13. \A t \in Triple : t \in Moved(b, d) /\ TotalWeight(b, t) <= 0 => t \in Crossed(b, d)
  BY <1>6 DEF Crossed
<1>14. \A t \in Triple : t \in Crossed(b, d) /\ d.asserted[t] <= 0 /\ d.derived[t] = 0 => t \in rows
  OBVIOUS
<1> HIDE DEF checked, rows
<1>15. /\ done \in CircuitState /\ Beside(checked, done) /\ done.support = checked.support
       /\ \A t \in Triple : /\ done.derived[t] = checked.derived[t] + (IF t \in rows THEN 1 ELSE 0)
                            /\ done.attr[t] = IF t \in rows THEN FirstAttrRule(checked, t) ELSE checked.attr[t]
  BY <1>8, <1>12, RuleRowsFields
<1>16. done.sound = c.sound
  <2>1. HasBase(checked)
    BY <1>8, StateShape DEF HasBase
  <2> QED BY <1>2, <1>7, <1>8, <2>1, RowStepsSound
<1> HIDE DEF done
<1>17. Recounted(done)
  BY <1>7, <1>8, <1>15, SameCounts
<1>18. \A t \in Triple : BasePresence(checked, t) <=> BasePresence(b, t)
  BY <1>7, <1>8 DEF Besides, SameRows, Beside, BasePresence
<1>19. EmptyZset \in Zset /\ \A t \in Triple : EmptyZset[t] = 0
  BY EmptySum DEF EmptyZset
<1>20. Noted(checked, EmptyZset)
  BY <1>7, <1>8, <1>18, <1>19 DEF Noted, Beside, One
<1>21. /\ \A t \in Triple : t \notin rows => (BasePresence(done, t) <=> BasePresence(checked, t))
       /\ \A t \in rows : BasePresence(done, t)
  <2>1. \A t \in Triple : checked.derived[t] \in Int
    BY <1>8, ReportedType
  <2>2. \A t \in rows : checked.derived[t] = 0
    BY <1>8, <1>10 DEF SameRows
  <2>3. done.asserted = checked.asserted
    BY <1>15 DEF Beside
  <2>4. \A t \in Triple : t \notin rows => done.derived[t] = checked.derived[t]
    BY <1>15, <2>1
  <2>5. \A t \in rows : done.derived[t] = 1
    BY <1>10, <1>15, <2>2
  <2> QED BY <2>3, <2>4, <2>5 DEF BasePresence
<1>22. Noted(done, note)
  BY <1>15, <1>19, <1>20, <1>21, NoteFollows DEF Beside
<1>23. note \in Zset
  BY <1>19, NoteTyped
<1> HIDE DEF note
<1>24. Gains(note)
  <2> SUFFICES ASSUME NEW t \in Triple PROVE note[t] >= 0
    BY DEF Gains
  <2>1. done.extent[t] + note[t] = One(BasePresence(done, t))
    BY <1>22 DEF Noted
  <2>2. done.extent[t] = One(BasePresence(b, t))
    BY <1>7, <1>8, <1>15 DEF Beside
  <2>3. BasePresence(b, t) => BasePresence(done, t)
    BY <1>18, <1>21
  <2>4. note[t] \in Int
    BY <1>23, ZsetAt
  <2> QED BY <2>1, <2>2, <2>3, <2>4 DEF One
<1>25. Owning(done)
  <2> SUFFICES ASSUME NEW t \in Triple, Owned(done, t) PROVE done.weights[t][done.attr[t]] > 0
    BY DEF Owning
  <2>1. done.weights = checked.weights /\ checked.weights = d.weights
    BY <1>8, <1>15 DEF Beside
  <2>2. CASE t \in rows
    BY <1>12, <1>15, <2>1, <2>2
  <2>3. CASE t \notin rows
    <3>1. done.attr[t] = b.attr[t]
      BY <1>7, <1>8, <1>15, <2>3 DEF SameRows, Besides
    <3>2. b.attr[t] \in Rule
      BY <1>3, <3>1, Attributed DEF Owned
    <3>3. b.weights[t][b.attr[t]] > 0
      BY <1>2, <3>1 DEF Owning, Owned
    <3> DEFINE x == b.weights[t][b.attr[t]]
               y == d.weights[t][b.attr[t]]
    <3>4. x \in Int /\ y \in Int
      BY <1>3, <1>7, <3>2, TotalIs
    <3>5. x <= y
      BY <1>6, <3>2
    <3>6. done.weights[t][done.attr[t]] = y
      BY <2>1, <3>1
    <3> HIDE DEF x, y
    <3>7. y > 0
      BY <3>3, <3>4, <3>5 DEF x
    <3> QED BY <3>6, <3>7
  <2> QED BY <2>2, <2>3
<1>26. ASSUME Filled(c) PROVE AllPresent(done)
  <2> SUFFICES ASSUME NEW t \in Triple, TotalWeight(done, t) > 0 PROVE BasePresence(done, t)
    BY DEF AllPresent
  <2>1. TotalWeight(d, t) > 0
    BY <1>9, <1>15, SameTotals DEF Beside
  <2>2. CASE TotalWeight(b, t) > 0
    BY <1>2, <1>18, <1>21, <1>26, <2>2 DEF AllPresent
  <2>3. CASE ~(TotalWeight(b, t) > 0)
    <3>1. TotalWeight(b, t) = 0
      BY <1>6, <2>3
    <3>2. t \in Moved(b, d)
      <4>1. TotalWeight(b, t) # TotalWeight(d, t)
        BY <2>1, <3>1
      <4> QED BY <1>3, <1>7, <4>1, MovedMeans
    <3>3. t \in Crossed(b, d)
      BY <1>13, <3>1, <3>2
    <3>4. CASE d.asserted[t] <= 0 /\ d.derived[t] = 0
      BY <1>14, <1>21, <3>3, <3>4
    <3>5. CASE ~(d.asserted[t] <= 0 /\ d.derived[t] = 0)
      <4>1. d.asserted[t] \in Int /\ d.derived[t] \in {0, 1}
        BY <1>7, StateShape, ZsetAt DEF WellFormed, Owners
      <4>2. BasePresence(d, t)
        BY <3>5, <4>1 DEF BasePresence
      <4>3. BasePresence(b, t)
        BY <1>7, <4>2 DEF Besides, BasePresence
      <4> QED BY <1>18, <1>21, <4>3
    <3> QED BY <3>4, <3>5
  <2> QED BY <2>2, <2>3
<1>27. ASSUME NEW X, Closes(X), Within(c, X) PROVE Within(done, X)
  <2> SUFFICES ASSUME NEW t \in Triple, BasePresence(done, t) PROVE t \in X
    BY DEF Within
  <2>1. Within(b, X)
    BY <1>2, <1>27
  <2>2. CASE t \in rows
    <3>1. TotalWeight(d, t) > 0
      BY <1>10, <1>11, <2>2
    <3>2. PICK i \in Instance : i.head = t /\ Derives(i, In(d.extent))
      BY <1>7, <3>1, WeightMeans
    <3>3. In(d.extent) \subseteq X
      BY <1>7, <2>1 DEF In, One, Within
    <3>4. Derives(i, X)
      BY <3>2, <3>3 DEF Derives
    <3> QED BY <1>27, <3>2, <3>4 DEF Closes
  <2>3. CASE t \notin rows
    BY <1>18, <1>21, <2>1, <2>3 DEF Within
  <2> QED BY <2>2, <2>3
<1>28. e.circuit = done /\ e.delta = note
  BY <1>0
<1>29. done.extent = d.extent
  BY <1>8, <1>15 DEF Beside
<1> HIDE DEF e
<1>30. e \in GrowStates(c)
  BY <1>1, <1>16, <1>17, <1>22, <1>24, <1>25, <1>26, <1>27, <1>28 DEF GrowStates
<1>31. s.delta # EmptyZset =>
          Cardinality(In(e.circuit.extent)) >= Cardinality(In(s.circuit.extent)) + 1
  BY <1>6, <1>28, <1>29 DEF b
<1> QED BY <1>30, <1>31 DEF e, d, b

-----------------------------------------------------------------------------
(* The rounds of a fixpoint, with what holds after each.                     *)

LEMMA InsertionRounds ==
    ASSUME NEW V, NEW start \in V[0],
           \A n \in 1 .. MaxRounds : \A s \in V[n - 1] :
              IF s.delta = EmptyZset THEN s \in V[n]
              ELSE InsertionSettle(s, FixpointRound(s.circuit, s.delta)) \in V[n]
    PROVE  \E last \in V[MaxRounds] : InsertionEnd(start) =
                            [last EXCEPT !.circuit = Check(@, last.delta = EmptyZset)]
<1> DEFINE D == 0 .. MaxRounds
           last == Ins!Solution(start, D)[MaxRounds]
<1>1. Ins!Grounded(D) /\ MaxRounds \in D
  BY RoundsAssumption, Induction DEF Ins!Grounded, Ins!Ranked, Ins!Inductive
<1>2. InsertionEnd(start) = [last EXCEPT !.circuit = Check(@, last.delta = EmptyZset)]
  BY DEF InsertionEnd, Fixpoint, Ins!Solution
<1>3. \A n \in D : n = 0 \/ n \in 1 .. MaxRounds
  BY RoundsAssumption
<1>4. \A n \in D : Ins!Solution(start, D)[n] \in V[n]
  <2> HIDE DEF D
  <2> QED BY <1>1, <1>3, Ins!SolutionAt
<1> QED BY <1>1, <1>2, <1>4

LEMMA OverdeleteRounds ==
    ASSUME NEW V, NEW start \in V[0],
           \A n \in 1 .. MaxRounds : \A s \in V[n - 1] :
              IF s.delta = EmptyZset THEN s \in V[n]
              ELSE OverdeleteSettle(s, FixpointRound(s.circuit, s.delta)) \in V[n]
    PROVE  \E last \in V[MaxRounds] : OverdeleteEnd(start) =
                            [last EXCEPT !.circuit = Check(@, last.delta = EmptyZset)]
<1> DEFINE D == 0 .. MaxRounds
           last == Over!Solution(start, D)[MaxRounds]
<1>1. Over!Grounded(D) /\ MaxRounds \in D
  BY RoundsAssumption, Induction DEF Over!Grounded, Over!Ranked, Over!Inductive
<1>2. OverdeleteEnd(start) = [last EXCEPT !.circuit = Check(@, last.delta = EmptyZset)]
  BY DEF OverdeleteEnd, Fixpoint, Over!Solution
<1>3. \A n \in D : n = 0 \/ n \in 1 .. MaxRounds
  BY RoundsAssumption
<1>4. \A n \in D : Over!Solution(start, D)[n] \in V[n]
  <2> HIDE DEF D
  <2> QED BY <1>1, <1>3, Over!SolutionAt
<1> QED BY <1>1, <1>2, <1>4

LEMMA RederiveRounds ==
    ASSUME NEW V, NEW start \in V[0],
           \A n \in 1 .. MaxRounds : \A s \in V[n - 1] :
              IF s.delta = EmptyZset THEN s \in V[n]
              ELSE RederiveSettle(s, FixpointRound(s.circuit, s.delta)) \in V[n]
    PROVE  \E last \in V[MaxRounds] : RederiveEnd(start) =
                            [last EXCEPT !.circuit = Check(@, last.delta = EmptyZset)]
<1> DEFINE D == 0 .. MaxRounds
           last == Red!Solution(start, D)[MaxRounds]
<1>1. Red!Grounded(D) /\ MaxRounds \in D
  BY RoundsAssumption, Induction DEF Red!Grounded, Red!Ranked, Red!Inductive
<1>2. RederiveEnd(start) = [last EXCEPT !.circuit = Check(@, last.delta = EmptyZset)]
  BY DEF RederiveEnd, Fixpoint, Red!Solution
<1>3. \A n \in D : n = 0 \/ n \in 1 .. MaxRounds
  BY RoundsAssumption
<1>4. \A n \in D : Red!Solution(start, D)[n] \in V[n]
  <2> HIDE DEF D
  <2> QED BY <1>1, <1>3, Red!SolutionAt
<1> QED BY <1>1, <1>2, <1>4

\* A check that fails is seen in `sound`, and nowhere else.
LEMMA Checked ==
    ASSUME NEW c, WellFormed(c), NEW condition \in BOOLEAN
    PROVE  LET d == Check(c, condition)
           IN  /\ WellFormed(d) /\ d \in CircuitState /\ SameRows(c, d) /\ Beside(c, d)
               /\ d.sound = (c.sound /\ condition)
<1>1. c \in CircuitState
  BY DEF WellFormed
<1>2. Check(c, condition).sound = (c.sound /\ condition)
  BY <1>1, StateShape DEF Check
<1> QED BY <1>2, CheckMoves DEF Moves, WellFormed

LEMMA CheckedHolds ==
    ASSUME NEW c, NEW d, SameRows(c, d), Beside(c, d)
    PROVE  /\ Recounted(c) => Recounted(d)
           /\ Owning(c) => Owning(d)
           /\ Noted(c, EmptyZset) => Noted(d, EmptyZset)
           /\ AllPresent(c) => AllPresent(d)
           /\ Filled(c) => Filled(d)
           /\ \A X : Within(c, X) => Within(d, X)
           /\ \A t \in Triple : BasePresence(d, t) <=> BasePresence(c, t)
<1>1. \A t \in Triple : BasePresence(d, t) <=> BasePresence(c, t)
  BY DEF SameRows, Beside, BasePresence
<1>2. \A t \in Triple : TotalWeight(d, t) = TotalWeight(c, t)
  BY SameTotals DEF Beside
<1>3. Owning(c) => Owning(d)
  BY DEF Owning, Owned, SameRows, Beside
<1>4. Noted(c, EmptyZset) => Noted(d, EmptyZset)
  BY <1>1 DEF Noted, Beside, One
<1>5. Filled(c) => Filled(d)
  BY <1>2 DEF Filled, Beside
<1> QED BY <1>1, <1>2, <1>3, <1>4, <1>5, SameCounts DEF AllPresent, Within

LEMMA FullFilled ==
    ASSUME NEW c \in CircuitState, Noted(c, EmptyZset)
    PROVE  /\ AllPresent(c) => Filled(c)
           /\ \A t \in Triple : c.extent[t] = One(BasePresence(c, t))
<1>1. \A t \in Triple : c.extent[t] = One(BasePresence(c, t))
  <2> SUFFICES ASSUME NEW t \in Triple PROVE c.extent[t] = One(BasePresence(c, t))
    OBVIOUS
  <2>1. c.extent[t] \in Int
    BY StateShape, ZsetAt
  <2>2. EmptyZset[t] = 0 /\ c.extent[t] + EmptyZset[t] = One(BasePresence(c, t))
    BY DEF EmptyZset, Noted
  <2> QED BY <2>1, <2>2
<1> QED BY <1>1 DEF AllPresent, Filled, One

\* InsertionFixpoint: rows become derivable in rounds until none does.
LEMMA InsertionExact ==
    ASSUME NEW c, WellFormed(c), NEW delta \in Zset,
           Recounted(c), Noted(c, delta), Gains(delta), Owning(c)
    PROVE  LET d == InsertionFixpoint(c, delta)
           IN  /\ d.sound => c.sound /\ Exact(d)
               /\ d.sound /\ Filled(c) => Filled(d)
               /\ \A X : Closes(X) /\ Within(c, X) => Within(d, X)
               /\ MaxRounds >= Cardinality(Triple) => d.sound = c.sound
<1> DEFINE start == [circuit |-> c, delta |-> delta]
           V == [n \in 0 .. MaxRounds |->
                    {s \in GrowStates(c) :
                        s.delta = EmptyZset \/ Cardinality(In(s.circuit.extent)) >= n}]
<1>1. 0 \in 0 .. MaxRounds /\ MaxRounds \in 0 .. MaxRounds
      /\ \A n \in 1 .. MaxRounds : n - 1 \in 0 .. MaxRounds /\ n \in 0 .. MaxRounds /\ n \in Nat
  BY RoundsAssumption
<1>2. start \in V[0]
  <2>1. c \in CircuitState
    BY DEF WellFormed
  <2>2. Moves(c, c)
    BY <2>1, SameRowsMove DEF SameRows
  <2>3. start.circuit = c /\ start.delta = delta
    OBVIOUS
  <2>4. start \in InsertionStates(c)
    <3> HIDE DEF Zset
    <3> QED BY <2>1, <2>2 DEF InsertionStates
  <2> HIDE DEF start
  <2>5. ASSUME Filled(c) PROVE AllPresent(c)
    <3> SUFFICES ASSUME NEW t \in Triple, TotalWeight(c, t) > 0 PROVE BasePresence(c, t)
      BY DEF AllPresent
    <3>1. c.extent[t] > 0 /\ c.extent[t] \in Int /\ delta[t] \in Int /\ delta[t] >= 0
      BY <2>1, <2>5, StateShape, ZsetAt DEF Filled, Gains
    <3>2. c.extent[t] + delta[t] = One(BasePresence(c, t))
      BY DEF Noted
    <3> QED BY <3>1, <3>2 DEF One
  <2>6. start \in GrowStates(c)
    BY <2>3, <2>4, <2>5 DEF GrowStates
  <2>7. Cardinality(In(c.extent)) >= 0
    BY InSize
  <2> QED BY <1>1, <2>3, <2>6, <2>7
<1>3. ASSUME NEW n \in 1 .. MaxRounds, NEW s \in V[n - 1]
      PROVE  IF s.delta = EmptyZset THEN s \in V[n]
             ELSE InsertionSettle(s, FixpointRound(s.circuit, s.delta)) \in V[n]
  <2>1. s \in GrowStates(c) /\ (s.delta = EmptyZset \/ Cardinality(In(s.circuit.extent)) >= n - 1)
    BY <1>1
  <2> DEFINE e == InsertionSettle(s, FixpointRound(s.circuit, s.delta))
  <2>2. CASE s.delta = EmptyZset
    BY <1>1, <2>1, <2>2
  <2>3. CASE s.delta # EmptyZset
    <3>1. e \in GrowStates(c) /\ Cardinality(In(e.circuit.extent)) >= Cardinality(In(s.circuit.extent)) + 1
      BY <2>1, <2>3, InsertionSettleGrows
    <3>2. Cardinality(In(s.circuit.extent)) >= n - 1
      BY <2>1, <2>3
    <3>3. Cardinality(In(s.circuit.extent)) \in Nat /\ Cardinality(In(e.circuit.extent)) \in Nat
      BY InSize
    <3> HIDE DEF e
    <3>4. Cardinality(In(e.circuit.extent)) >= n
      BY <1>1, <3>1, <3>2, <3>3
    <3> QED BY <1>1, <2>3, <3>1, <3>4 DEF e
  <2> QED BY <2>2, <2>3
<1>4. \A s \in V[MaxRounds] : s \in GrowStates(c)
         /\ (s.delta = EmptyZset \/ Cardinality(In(s.circuit.extent)) >= MaxRounds)
  BY <1>1
<1>5. V[MaxRounds] = V[MaxRounds] /\ start.circuit = c
  OBVIOUS
<1> HIDE DEF V
<1>6. PICK last \in V[MaxRounds] :
         InsertionEnd(start) = [last EXCEPT !.circuit = Check(@, last.delta = EmptyZset)]
  <2> HIDE DEF start
  <2> QED BY <1>2, <1>3, InsertionRounds
<1> DEFINE b == last.circuit
           d == Check(b, last.delta = EmptyZset)
<1>7. last \in GrowStates(c) /\ last \in [circuit : CircuitState, delta : Zset]
  BY <1>4 DEF GrowStates, InsertionStates
<1>8. InsertionFixpoint(c, delta) = d
  BY <1>6, <1>7 DEF InsertionFixpoint, InsertionEnd
<1>9. /\ WellFormed(b) /\ Recounted(b) /\ Noted(b, last.delta) /\ Owning(b)
      /\ b.sound = c.sound /\ (Filled(c) => AllPresent(b))
      /\ \A X : Closes(X) /\ Within(c, X) => Within(b, X)
  BY <1>7 DEF GrowStates, InsertionStates, Moves
<1>10. MaxRounds >= Cardinality(Triple) => last.delta = EmptyZset
  <2> SUFFICES ASSUME MaxRounds >= Cardinality(Triple), last.delta # EmptyZset PROVE FALSE
    OBVIOUS
  <2> DEFINE e == InsertionSettle(last, FixpointRound(last.circuit, last.delta))
  <2>1. Cardinality(In(b.extent)) >= MaxRounds
    BY <1>4
  <2>2. Cardinality(In(e.circuit.extent)) >= Cardinality(In(b.extent)) + 1
    BY <1>7, InsertionSettleGrows
  <2>3. /\ Cardinality(In(b.extent)) \in Nat /\ Cardinality(In(e.circuit.extent)) \in Nat
        /\ Cardinality(Triple) \in Nat /\ Cardinality(In(e.circuit.extent)) <= Cardinality(Triple)
    BY InSize
  <2> HIDE DEF e, b
  <2> QED BY <2>1, <2>2, <2>3, RoundsAssumption
<1> HIDE DEF b
<1>11. /\ WellFormed(d) /\ d \in CircuitState /\ SameRows(b, d) /\ Beside(b, d)
       /\ d.sound = (b.sound /\ last.delta = EmptyZset)
  BY <1>9, Checked
<1> HIDE DEF d
<1>12. ASSUME d.sound PROVE c.sound /\ Exact(d) /\ (AllPresent(b) => Filled(d))
  <2>1. last.delta = EmptyZset
    BY <1>11, <1>12
  <2>2. Noted(b, EmptyZset)
    BY <1>9, <2>1
  <2>3. Recounted(d) /\ Noted(d, EmptyZset) /\ Owning(d) /\ (AllPresent(b) => AllPresent(d))
    BY <1>9, <1>11, <2>2, CheckedHolds
  <2> QED BY <1>9, <1>11, <1>12, <2>3, FullFilled DEF Exact
<1>13. MaxRounds >= Cardinality(Triple) => d.sound = c.sound
  <2>1. b.sound \in BOOLEAN
    BY <1>9, StateShape DEF WellFormed
  <2> QED BY <1>9, <1>10, <1>11, <2>1
<1>14. \A X : Closes(X) /\ Within(c, X) => Within(d, X)
  BY <1>9, <1>11, CheckedHolds
<1> QED BY <1>8, <1>9, <1>12, <1>13, <1>14

-----------------------------------------------------------------------------
(* Overdeletion: the first phase of a retraction.                            *)

Covered(c, t) == c.asserted[t] > 0 \/ t \in c.support
CoveredIn(c, X) == \A t \in Triple : Covered(c, t) => t \in X
Lost(delta) == {t \in Triple : delta[t] < 0}

\* A rule that owns a row has it in the extent.
OwnedIn(c) == \A t \in Triple : Owned(c, t) => c.extent[t] > 0

\* What the rules start from: with the delta on top, the extent is part of what
\* the bases have; missing are rows that nothing but a rule owns, and the
\* delta takes them out.
Seeded(c, delta) ==
    \A t \in Triple :
        /\ c.extent[t] + delta[t] \in {0, 1}
        /\ c.extent[t] + delta[t] = 1 => BasePresence(c, t)
        /\ c.extent[t] + delta[t] = 0 /\ BasePresence(c, t) =>
              delta[t] < 0 /\ Owned(c, t) /\ ~Covered(c, t)

\* s has the rows of c; what is lost or overdeleted is out of the extent, the
\* rest in it as before; what was touched was overdeleted or is covered; what
\* was not weighs what it did.
Shrunk(c, delta, s) ==
    /\ Recounted(s.circuit) /\ Besides(c, s.circuit)
    /\ s.circuit.sound = c.sound /\ s.circuit.fallback = c.fallback
    /\ Losses(s.delta)
    /\ s.candidates \subseteq s.touched
    /\ \A t \in Triple :
          /\ s.circuit.extent[t] + s.delta[t] =
                IF t \in Lost(delta) \cup s.candidates THEN 0 ELSE c.extent[t]
          /\ t \in s.candidates => ~Covered(c, t)
          /\ t \in s.touched => t \in s.candidates \/ Covered(c, t)
          /\ t \notin s.touched => s.circuit.weights[t] = c.weights[t]
          /\ TotalWeight(s.circuit, t) <= TotalWeight(c, t)
          /\ t \in Lost(delta) /\ TotalWeight(c, t) > 0 => t \in s.candidates

ShrinkStates(c, delta) == {s \in PhaseStates(c) : Shrunk(c, delta, s)}

LEMMA ShrunkUnit ==
    ASSUME NEW c, WellFormed(c), Recounted(c), NEW delta, NEW s \in ShrinkStates(c, delta)
    PROVE  /\ WellFormed(s.circuit) /\ s.circuit \in CircuitState /\ s.delta \in Zset
           /\ s.candidates \in SUBSET Triple /\ s.touched \in SUBSET Triple
           /\ Unit(Plus(s.circuit.extent, s.delta))
<1>1. /\ WellFormed(s.circuit) /\ s.circuit \in CircuitState /\ s.delta \in Zset
      /\ s.candidates \in SUBSET Triple /\ s.touched \in SUBSET Triple
  BY DEF ShrinkStates, PhaseStates, Moves, WellFormed
<1>2. \A t \in Triple : Plus(s.circuit.extent, s.delta)[t] = s.circuit.extent[t] + s.delta[t]
  BY <1>1, StateShape, PlusAt
<1>3. Unit(Plus(s.circuit.extent, s.delta))
  BY <1>2 DEF ShrinkStates, Shrunk, Recounted, Unit
<1> QED BY <1>1, <1>3

LEMMA OverdeleteSettleShrinks ==
    ASSUME NEW c, WellFormed(c), Recounted(c), NEW delta, NEW s \in ShrinkStates(c, delta)
    PROVE  LET e == OverdeleteSettle(s, FixpointRound(s.circuit, s.delta))
           IN  /\ e \in ShrinkStates(c, delta)
               /\ s.delta # EmptyZset =>
                     Cardinality(In(s.circuit.extent)) >= Cardinality(In(e.circuit.extent)) + 1
<1> DEFINE b       == s.circuit
           d       == FixpointRound(b, s.delta)
           done    == Check(d, NoneBelowZero(b, d) /\ Shrank(b, d))
           rows    == {t \in Moved(b, d) \ s.candidates :
                          TotalWeight(d, t) < TotalWeight(b, t) /\ d.asserted[t] <= 0 /\ t \notin d.support}
           gone    == {t \in rows : d.extent[t] > 0}
           note    == OneFor(gone, -1)
           e       == OverdeleteSettle(s, d)
<1>0. e = [circuit |-> done, delta |-> note, candidates |-> s.candidates \cup rows,
           touched |-> s.touched \cup Moved(b, d)]
  BY ListedIs DEF OverdeleteSettle
<1>1. e \in PhaseStates(c)
  BY OverdeleteSettleMoves DEF ShrinkStates
<1>2. /\ WellFormed(b) /\ b \in CircuitState /\ s.delta \in Zset /\ Unit(Plus(b.extent, s.delta))
      /\ s.candidates \in SUBSET Triple /\ s.touched \in SUBSET Triple
  BY ShrunkUnit
<1>3. Shrunk(c, delta, s)
  BY DEF ShrinkStates
<1>4. /\ Recounted(b) /\ Besides(c, b) /\ b.sound = c.sound /\ b.fallback = c.fallback /\ Losses(s.delta)
      /\ s.candidates \subseteq s.touched
  BY <1>3 DEF Shrunk
<1>5. ASSUME NEW t \in Triple
      PROVE  /\ b.extent[t] + s.delta[t] = IF t \in Lost(delta) \cup s.candidates THEN 0 ELSE c.extent[t]
             /\ t \in s.candidates => ~Covered(c, t)
             /\ t \in s.touched => t \in s.candidates \/ Covered(c, t)
             /\ t \notin s.touched => b.weights[t] = c.weights[t]
             /\ TotalWeight(b, t) <= TotalWeight(c, t)
             /\ t \in Lost(delta) /\ TotalWeight(c, t) > 0 => t \in s.candidates
  BY <1>3 DEF Shrunk
<1> HIDE DEF b
<1>6. Rounded(b, s.delta, d)
  BY <1>2, <1>4, RoundHolds
<1> HIDE DEF d
<1>7. /\ NoneBelowZero(b, d) /\ Shrank(b, d)
      /\ \A t \in Triple : /\ TotalWeight(d, t) <= TotalWeight(b, t)
                           /\ TotalWeight(b, t) \in Int /\ TotalWeight(d, t) \in Int
                           /\ t \in Moved(b, d) => TotalWeight(d, t) < TotalWeight(b, t)
                           /\ t \notin Moved(b, d) => b.weights[t] = d.weights[t]
      /\ s.delta # EmptyZset => Cardinality(In(b.extent)) >= Cardinality(In(d.extent)) + 1
  BY <1>2, <1>4, <1>6, RoundShrinks
<1>8. /\ WellFormed(d) /\ Recounted(d) /\ Besides(b, d) /\ d.sound = b.sound /\ d.fallback = b.fallback
      /\ \A t \in Triple : d.extent[t] = b.extent[t] + s.delta[t] /\ d.extent[t] \in {0, 1}
  BY <1>6 DEF Rounded
<1>9. /\ WellFormed(done) /\ SameRows(d, done) /\ Beside(d, done) /\ done.sound = d.sound
  <2>1. (NoneBelowZero(b, d) /\ Shrank(b, d)) \in BOOLEAN /\ d.sound \in BOOLEAN
    BY <1>8, StateShape DEF NoneBelowZero, Shrank, WellFormed
  <2> QED BY <1>7, <1>8, <2>1, Checked
<1>10. Recounted(done)
  BY <1>8, <1>9, CheckedHolds
<1>11. /\ done.asserted = c.asserted /\ done.derived = c.derived /\ done.attr = c.attr
       /\ done.support = c.support /\ done.pending = c.pending
       /\ done.fallback = c.fallback /\ done.sound = c.sound
       /\ done.extent = d.extent /\ done.weights = d.weights
       /\ d.asserted = c.asserted /\ d.support = c.support
  BY <1>4, <1>8, <1>9 DEF Besides, SameRows, Beside
<1>12. Besides(c, done)
  BY <1>11 DEF Besides
<1>13. rows \subseteq Triple /\ Moved(b, d) \subseteq Triple
  BY MovedTriples
<1>14. \A t \in Triple : t \in rows <=> t \in Moved(b, d) /\ t \notin s.candidates /\ ~Covered(c, t)
  <2> SUFFICES ASSUME NEW t \in Triple
               PROVE  t \in rows <=> t \in Moved(b, d) /\ t \notin s.candidates /\ ~Covered(c, t)
    OBVIOUS
  <2>1. c.asserted[t] \in Int
    <3>1. c \in CircuitState
      BY DEF WellFormed
    <3> QED BY <3>1, StateShape, ZsetAt
  <2>2. ~Covered(c, t) <=> d.asserted[t] <= 0 /\ t \notin d.support
    BY <1>11, <2>1 DEF Covered
  <2> QED BY <1>7, <2>2
<1>15. \A t \in Triple : t \in gone <=> t \in rows /\ d.extent[t] > 0
  BY <1>13
<1> HIDE DEF done, rows, gone
<1>16. \A t \in Triple : note[t] = IF t \in gone THEN -1 ELSE 0
  BY DEF OneFor
<1> HIDE DEF note
<1>17. e.circuit = done /\ e.delta = note /\ e.candidates = s.candidates \cup rows
       /\ e.touched = s.touched \cup Moved(b, d)
  BY <1>0
<1> HIDE DEF e
<1>18. Losses(note)
  BY <1>16 DEF Losses
<1>19. e.candidates \subseteq e.touched
  BY <1>4, <1>13, <1>14, <1>17
<1>20. ASSUME NEW t \in Triple
       PROVE  /\ done.extent[t] + note[t] = IF t \in Lost(delta) \cup e.candidates THEN 0 ELSE c.extent[t]
              /\ t \in e.candidates => ~Covered(c, t)
              /\ t \in e.touched => t \in e.candidates \/ Covered(c, t)
              /\ t \notin e.touched => done.weights[t] = c.weights[t]
              /\ TotalWeight(done, t) <= TotalWeight(c, t)
              /\ t \in Lost(delta) /\ TotalWeight(c, t) > 0 => t \in e.candidates
  <2>1. done.extent[t] = d.extent[t] /\ d.extent[t] \in {0, 1}
        /\ d.extent[t] = IF t \in Lost(delta) \cup s.candidates THEN 0 ELSE c.extent[t]
    BY <1>5, <1>8, <1>11
  <2>2. done.extent[t] + note[t] = IF t \in Lost(delta) \cup e.candidates THEN 0 ELSE c.extent[t]
    <3>1. CASE t \in rows
      <4>1. note[t] = IF d.extent[t] > 0 THEN -1 ELSE 0
        BY <1>15, <1>16, <3>1
      <4>2. t \in e.candidates
        BY <1>17, <3>1
      <4> QED BY <2>1, <4>1, <4>2
    <3>2. CASE t \notin rows
      <4>1. note[t] = 0 /\ (t \in e.candidates <=> t \in s.candidates)
        BY <1>15, <1>16, <1>17, <3>2
      <4> QED BY <2>1, <4>1
    <3> QED BY <3>1, <3>2
  <2>3. t \in e.candidates => ~Covered(c, t)
    BY <1>5, <1>14, <1>17
  <2>4. t \in e.touched => t \in e.candidates \/ Covered(c, t)
    BY <1>5, <1>14, <1>17
  <2>5. t \notin e.touched => done.weights[t] = c.weights[t]
    BY <1>5, <1>7, <1>11, <1>17
  <2>6. TotalWeight(done, t) <= TotalWeight(c, t)
    <3>1. TotalWeight(done, t) = TotalWeight(d, t)
      BY <1>9, SameTotals DEF Beside
    <3>2. TotalWeight(c, t) \in Int
      BY TotalIs DEF WellFormed
    <3> QED BY <1>5, <1>7, <3>1, <3>2
  <2> QED BY <1>5, <1>17, <2>2, <2>3, <2>4, <2>5, <2>6
<1>21. Shrunk(c, delta, e)
  BY <1>10, <1>11, <1>12, <1>17, <1>18, <1>19, <1>20 DEF Shrunk
<1>22. s.delta # EmptyZset =>
          Cardinality(In(s.circuit.extent)) >= Cardinality(In(e.circuit.extent)) + 1
  BY <1>7, <1>11, <1>17 DEF b
<1> QED BY <1>1, <1>21, <1>22 DEF ShrinkStates, e, d, b

SeedRows(c, delta) == {t \in Lost(delta) : TotalWeight(c, t) > 0}
OverdeleteStart(c, delta) ==
    [circuit    |-> c,
     delta      |-> [t \in Triple |-> IF t \in Lost(delta) THEN delta[t] ELSE 0],
     candidates |-> SeedRows(c, delta), touched |-> SeedRows(c, delta)]
Gain(delta) == [t \in Triple |-> IF t \in Lost(delta) THEN 0 ELSE delta[t]]

\* What is lost was there, and is covered by nothing.
LEMMA LostMeans ==
    ASSUME NEW c, WellFormed(c), Recounted(c), NEW delta \in Zset, Seeded(c, delta), NEW t \in Triple
    PROVE  /\ c.extent[t] \in {0, 1} /\ delta[t] \in Int /\ c.extent[t] + delta[t] \in {0, 1}
           /\ t \in Lost(delta) => delta[t] = -1 /\ c.extent[t] = 1 /\ ~Covered(c, t)
           /\ t \notin Lost(delta) => delta[t] \in {0, 1} /\ c.extent[t] + delta[t] = One(BasePresence(c, t))
           /\ BasePresence(c, t) <=> Covered(c, t) \/ Owned(c, t)
<1>1. c \in CircuitState /\ Owners(c)
  BY DEF WellFormed
<1>2. c.extent[t] \in {0, 1} /\ delta[t] \in Int /\ c.extent[t] + delta[t] \in {0, 1}
  BY ZsetAt DEF Recounted, Unit, Seeded
<1>3. BasePresence(c, t) <=> Covered(c, t) \/ Owned(c, t)
  <2>1. c.derived[t] = IF Owned(c, t) \/ t \in c.support THEN 1 ELSE 0
    BY <1>1 DEF Owners
  <2> QED BY <2>1 DEF BasePresence, Covered
<1> DEFINE x == c.extent[t]
           y == delta[t]
<1>4. t \in Lost(delta) <=> y < 0
  BY DEF Lost
<1>5. /\ x + y = 1 => BasePresence(c, t)
      /\ x + y = 0 /\ BasePresence(c, t) => y < 0 /\ Owned(c, t) /\ ~Covered(c, t)
  BY DEF Seeded
<1>6. x \in {0, 1} /\ y \in Int /\ x + y \in {0, 1}
  BY <1>2
<1> HIDE DEF x, y
<1>7. t \in Lost(delta) => y = -1 /\ x = 1 /\ ~Covered(c, t)
  BY <1>3, <1>4, <1>5, <1>6
<1>8. t \notin Lost(delta) => y \in {0, 1} /\ x + y = One(BasePresence(c, t))
  BY <1>4, <1>5, <1>6 DEF One
<1> QED BY <1>2, <1>3, <1>7, <1>8 DEF x, y

LEMMA OverdeleteExact ==
    ASSUME NEW c, WellFormed(c), Recounted(c), NEW delta \in Zset, Seeded(c, delta)
    PROVE  LET cut == OverdeleteEnd(OverdeleteStart(c, delta))
           IN  /\ cut \in PhaseStates(c)
               /\ cut.circuit.sound = (c.sound /\ cut.delta = EmptyZset)
               /\ cut.delta = EmptyZset => Shrunk(c, delta, cut)
               /\ MaxRounds >= Cardinality(Triple) => cut.delta = EmptyZset
<1> DEFINE start == OverdeleteStart(c, delta)
           size == Cardinality(Triple)
           V == [n \in 0 .. MaxRounds |->
                    {s \in ShrinkStates(c, delta) :
                        s.delta = EmptyZset \/ Cardinality(In(s.circuit.extent)) + n <= size}]
<1>1. 0 \in 0 .. MaxRounds /\ MaxRounds \in 0 .. MaxRounds
      /\ \A n \in 1 .. MaxRounds : n - 1 \in 0 .. MaxRounds /\ n \in 0 .. MaxRounds /\ n \in Nat
  BY RoundsAssumption
<1>2. start \in PhaseStates(c) /\ start \in V[0]
  <2> DEFINE first == [t \in Triple |-> IF t \in Lost(delta) THEN delta[t] ELSE 0]
             seed  == SeedRows(c, delta)
  <2>1. c \in CircuitState
    BY DEF WellFormed
  <2>2. Moves(c, c)
    BY <2>1, SameRowsMove DEF SameRows
  <2>3. start.circuit = c /\ start.delta = first /\ start.candidates = seed /\ start.touched = seed
        /\ start = [circuit |-> c, delta |-> first, candidates |-> seed, touched |-> seed]
    BY DEF OverdeleteStart
  <2>4. first \in Zset /\ seed \in SUBSET Triple
    <3>1. \A t \in Triple : delta[t] \in Int
      BY ZsetAt
    <3> QED BY <3>1 DEF Zset, Lost, SeedRows
  <2>5. \A t \in Triple : first[t] = IF t \in Lost(delta) THEN delta[t] ELSE 0
    OBVIOUS
  <2>6. \A t \in Triple : t \in seed <=> t \in Lost(delta) /\ TotalWeight(c, t) > 0
    BY DEF SeedRows
  <2> HIDE DEF start, first, seed
  <2>7. start \in PhaseStates(c)
    <3> HIDE DEF Zset
    <3> QED BY <2>1, <2>2, <2>3, <2>4 DEF PhaseStates
  <2>8. Losses(first)
    <3> SUFFICES ASSUME NEW t \in Triple PROVE first[t] <= 0
      BY DEF Losses
    <3>1. t \in Lost(delta) => delta[t] < 0 /\ delta[t] \in Int
      BY ZsetAt DEF Lost
    <3> QED BY <2>5, <3>1
  <2>9. ASSUME NEW t \in Triple
        PROVE  /\ c.extent[t] + first[t] = IF t \in Lost(delta) \cup seed THEN 0 ELSE c.extent[t]
               /\ t \in seed => ~Covered(c, t)
               /\ TotalWeight(c, t) <= TotalWeight(c, t)
    <3>1. /\ c.extent[t] \in {0, 1}
          /\ t \in Lost(delta) => delta[t] = -1 /\ c.extent[t] = 1 /\ ~Covered(c, t)
      BY LostMeans
    <3>2. TotalWeight(c, t) \in Int
      BY <2>1, TotalIs
    <3> QED BY <2>5, <2>6, <3>1, <3>2
  <2>10. Shrunk(c, delta, start)
    BY <2>3, <2>6, <2>8, <2>9 DEF Shrunk, Besides
  <2>11. Cardinality(In(c.extent)) + 0 <= size
    BY InSize
  <2> HIDE DEF size
  <2> QED BY <1>1, <2>3, <2>7, <2>10, <2>11 DEF ShrinkStates
<1>3. ASSUME NEW n \in 1 .. MaxRounds, NEW s \in V[n - 1]
      PROVE  IF s.delta = EmptyZset THEN s \in V[n]
             ELSE OverdeleteSettle(s, FixpointRound(s.circuit, s.delta)) \in V[n]
  <2>1. s \in ShrinkStates(c, delta) /\ (s.delta = EmptyZset \/ Cardinality(In(s.circuit.extent)) + (n - 1) <= size)
    BY <1>1
  <2> DEFINE e == OverdeleteSettle(s, FixpointRound(s.circuit, s.delta))
  <2>2. CASE s.delta = EmptyZset
    BY <1>1, <2>1, <2>2
  <2>3. CASE s.delta # EmptyZset
    <3>1. e \in ShrinkStates(c, delta) /\ Cardinality(In(s.circuit.extent)) >= Cardinality(In(e.circuit.extent)) + 1
      BY <2>1, <2>3, OverdeleteSettleShrinks
    <3>2. Cardinality(In(s.circuit.extent)) + (n - 1) <= size
      BY <2>1, <2>3
    <3>3. Cardinality(In(s.circuit.extent)) \in Nat /\ Cardinality(In(e.circuit.extent)) \in Nat /\ size \in Nat
      BY InSize
    <3> HIDE DEF e, size
    <3>4. Cardinality(In(e.circuit.extent)) + n <= size
      BY <1>1, <3>1, <3>2, <3>3
    <3> QED BY <1>1, <2>3, <3>1, <3>4 DEF e
  <2> QED BY <2>2, <2>3
<1>4. \A s \in V[MaxRounds] : s \in ShrinkStates(c, delta)
         /\ (s.delta = EmptyZset \/ Cardinality(In(s.circuit.extent)) + MaxRounds <= size)
  BY <1>1
<1> HIDE DEF V
<1>5. PICK last \in V[MaxRounds] :
         OverdeleteEnd(start) = [last EXCEPT !.circuit = Check(@, last.delta = EmptyZset)]
  <2> HIDE DEF start
  <2> QED BY <1>2, <1>3, OverdeleteRounds
<1> HIDE DEF start
<1> DEFINE b   == last.circuit
           d   == Check(b, last.delta = EmptyZset)
           cut == OverdeleteEnd(start)
<1>6. last \in ShrinkStates(c, delta)
      /\ last \in [circuit : CircuitState, delta : Zset, candidates : SUBSET Triple, touched : SUBSET Triple]
  BY <1>4 DEF ShrinkStates, PhaseStates
<1>7. cut.circuit = d /\ cut.delta = last.delta /\ cut.candidates = last.candidates
      /\ cut.touched = last.touched
  BY <1>5, <1>6
<1>8. cut \in PhaseStates(c)
  BY <1>2, PhaseEnds
<1>9. WellFormed(b) /\ Shrunk(c, delta, last)
  BY <1>6 DEF ShrinkStates, PhaseStates, Moves
<1>10. MaxRounds >= size => last.delta = EmptyZset
  <2> SUFFICES ASSUME MaxRounds >= size, last.delta # EmptyZset PROVE FALSE
    OBVIOUS
  <2> DEFINE e == OverdeleteSettle(last, FixpointRound(last.circuit, last.delta))
  <2>1. Cardinality(In(b.extent)) + MaxRounds <= size
    BY <1>4
  <2>2. Cardinality(In(b.extent)) >= Cardinality(In(e.circuit.extent)) + 1
    BY <1>6, OverdeleteSettleShrinks
  <2>3. /\ Cardinality(In(b.extent)) \in Nat /\ Cardinality(In(e.circuit.extent)) \in Nat /\ size \in Nat
    BY InSize
  <2> HIDE DEF e, b, size
  <2> QED BY <2>1, <2>2, <2>3, RoundsAssumption
<1> HIDE DEF b, size, cut
<1>11. /\ WellFormed(d) /\ d \in CircuitState /\ SameRows(b, d) /\ Beside(b, d)
       /\ d.sound = (b.sound /\ last.delta = EmptyZset)
  BY <1>9, Checked
<1> HIDE DEF d
<1>12. b.sound = c.sound
  BY <1>9 DEF Shrunk, b
<1>13. ASSUME cut.delta = EmptyZset PROVE Shrunk(c, delta, cut)
  <2>1. d.sound = c.sound
    <3>1. c.sound \in BOOLEAN
      BY StateShape DEF WellFormed
    <3> QED BY <1>7, <1>11, <1>12, <1>13, <3>1
  <2>2. Recounted(d) /\ Besides(c, d) /\ d.fallback = c.fallback /\ d.extent = b.extent /\ d.weights = b.weights
    <3>1. Recounted(b) /\ Besides(c, b) /\ b.fallback = c.fallback
      BY <1>9 DEF Shrunk, b
    <3> QED BY <1>11, <3>1, CheckedHolds DEF Besides, SameRows, Beside
  <2>3. \A t \in Triple : TotalWeight(d, t) = TotalWeight(b, t)
    BY <2>2, SameTotals
  <2> QED BY <1>7, <1>9, <2>1, <2>2, <2>3 DEF Shrunk, b
<1> QED BY <1>7, <1>8, <1>10, <1>11, <1>12, <1>13 DEF cut, start, size

-----------------------------------------------------------------------------
(* Rederivation: the second phase of a retraction.                           *)

InsideOf(X, z, delta) == \A t \in Triple : z[t] + delta[t] = 1 => t \in X

\* s has the rows of c and starts from cut and the gain: nothing of these is
\* lost again, what came back is derived and was touched, and what was touched
\* in this phase only is derived.
Regrown(c, cut, gain, s) ==
    /\ Recounted(s.circuit) /\ Besides(c, s.circuit)
    /\ s.circuit.sound = cut.circuit.sound /\ s.circuit.fallback = c.fallback
    /\ Gains(s.delta)
    /\ \A t \in Triple :
          /\ s.circuit.extent[t] + s.delta[t] \in {0, 1}
          /\ cut.circuit.extent[t] + gain[t] = 1 => s.circuit.extent[t] + s.delta[t] = 1
          /\ s.circuit.extent[t] + s.delta[t] = 1 =>
                \/ cut.circuit.extent[t] + gain[t] = 1
                \/ TotalWeight(s.circuit, t) > 0 /\ t \in s.touched
          /\ t \in cut.touched => t \in s.touched
          /\ t \notin s.touched => s.circuit.weights[t] = c.weights[t]
          /\ t \in s.touched => t \in cut.touched \/ TotalWeight(s.circuit, t) > 0
          /\ Filled(c) /\ TotalWeight(s.circuit, t) > 0 => s.circuit.extent[t] + s.delta[t] = 1
    /\ \A X : Closes(X) /\ InsideOf(X, cut.circuit.extent, gain)
                  => InsideOf(X, s.circuit.extent, s.delta)

RegrowStates(c, cut, gain) == {s \in PhaseStates(c) : Regrown(c, cut, gain, s)}

\* A derivation inside a closed set derives a triple of the set.
LEMMA DerivedInside ==
    ASSUME NEW c \in CircuitState, Recounted(c), NEW X, Closes(X), In(c.extent) \subseteq X,
           NEW t \in Triple, TotalWeight(c, t) > 0
    PROVE  t \in X
<1>1. PICK i \in Instance : i.head = t /\ Derives(i, In(c.extent))
  BY WeightMeans
<1>2. Derives(i, X)
  BY <1>1 DEF Derives
<1> QED BY <1>1, <1>2 DEF Closes

LEMMA RederiveSettleGrows ==
    ASSUME NEW c, WellFormed(c), NEW cut, NEW gain, NEW s \in RegrowStates(c, cut, gain)
    PROVE  LET e == RederiveSettle(s, FixpointRound(s.circuit, s.delta))
           IN  /\ e \in RegrowStates(c, cut, gain)
               /\ s.delta # EmptyZset =>
                     Cardinality(In(e.circuit.extent)) >= Cardinality(In(s.circuit.extent)) + 1
<1> DEFINE b       == s.circuit
           d       == FixpointRound(b, s.delta)
           done    == Check(d, NoneBelowZero(b, d) /\ Grew(b, d))
           back    == {t \in Crossed(b, d) : d.extent[t] <= 0}
           note    == OneFor(back, 1)
           e       == RederiveSettle(s, d)
<1>1. e \in PhaseStates(c)
  BY RederiveSettleMoves DEF RegrowStates
<1>2. /\ WellFormed(b) /\ b \in CircuitState /\ s.delta \in Zset
      /\ s \in [circuit : CircuitState, delta : Zset, candidates : SUBSET Triple, touched : SUBSET Triple]
  BY DEF RegrowStates, PhaseStates, Moves, WellFormed
<1>0. e.circuit = done /\ e.delta = note /\ e.touched = s.touched \cup Moved(b, d)
  BY <1>2, ListedIs DEF RederiveSettle
<1>3. Regrown(c, cut, gain, s)
  BY DEF RegrowStates
<1>4. /\ Recounted(b) /\ Besides(c, b) /\ b.sound = cut.circuit.sound /\ b.fallback = c.fallback /\ Gains(s.delta)
      /\ \A X : Closes(X) /\ InsideOf(X, cut.circuit.extent, gain) => InsideOf(X, b.extent, s.delta)
  BY <1>3 DEF Regrown
<1>5. ASSUME NEW t \in Triple
      PROVE  /\ b.extent[t] + s.delta[t] \in {0, 1}
             /\ cut.circuit.extent[t] + gain[t] = 1 => b.extent[t] + s.delta[t] = 1
             /\ b.extent[t] + s.delta[t] = 1 =>
                   cut.circuit.extent[t] + gain[t] = 1 \/ (TotalWeight(b, t) > 0 /\ t \in s.touched)
             /\ t \in cut.touched => t \in s.touched
             /\ t \notin s.touched => b.weights[t] = c.weights[t]
             /\ t \in s.touched => t \in cut.touched \/ TotalWeight(b, t) > 0
             /\ Filled(c) /\ TotalWeight(b, t) > 0 => b.extent[t] + s.delta[t] = 1
  BY <1>3 DEF Regrown
<1>6. Unit(Plus(b.extent, s.delta))
  <2>1. \A t \in Triple : Plus(b.extent, s.delta)[t] = b.extent[t] + s.delta[t]
    BY <1>2, StateShape, PlusAt
  <2> QED BY <1>5, <2>1 DEF Unit
<1> HIDE DEF b
<1>7. Rounded(b, s.delta, d)
  BY <1>2, <1>4, <1>6, RoundHolds
<1> HIDE DEF d
<1>8. /\ NoneBelowZero(b, d) /\ Grew(b, d)
      /\ \A t \in Triple : /\ 0 <= TotalWeight(b, t) /\ TotalWeight(b, t) <= TotalWeight(d, t)
                           /\ TotalWeight(b, t) \in Int /\ TotalWeight(d, t) \in Int
                           /\ t \in Moved(b, d) => TotalWeight(b, t) < TotalWeight(d, t)
                           /\ t \notin Moved(b, d) => b.weights[t] = d.weights[t]
      /\ s.delta # EmptyZset => Cardinality(In(d.extent)) >= Cardinality(In(b.extent)) + 1
  BY <1>2, <1>4, <1>7, RoundGrows
<1>9. /\ WellFormed(d) /\ d \in CircuitState /\ Recounted(d) /\ Besides(b, d)
      /\ d.sound = b.sound /\ d.fallback = b.fallback
      /\ \A t \in Triple : d.extent[t] = b.extent[t] + s.delta[t] /\ d.extent[t] \in {0, 1}
  BY <1>7 DEF Rounded, WellFormed
<1>10. /\ WellFormed(done) /\ SameRows(d, done) /\ Beside(d, done) /\ done.sound = d.sound
  <2>1. (NoneBelowZero(b, d) /\ Grew(b, d)) \in BOOLEAN /\ d.sound \in BOOLEAN
    BY <1>9, StateShape DEF NoneBelowZero, Grew
  <2> QED BY <1>8, <1>9, <2>1, Checked
<1>11. Recounted(done)
  BY <1>9, <1>10, CheckedHolds
<1>12. /\ done.fallback = c.fallback /\ done.sound = cut.circuit.sound
       /\ done.extent = d.extent /\ done.weights = d.weights
  BY <1>4, <1>9, <1>10 DEF Beside
<1>13. Besides(c, done)
  BY <1>4, <1>9, <1>10 DEF Besides, SameRows, Beside
<1>14. \A t \in Triple : TotalWeight(done, t) = TotalWeight(d, t)
  BY <1>12, SameTotals
<1>15. \A t \in Triple : t \in back <=> /\ t \in Moved(b, d) /\ TotalWeight(b, t) <= 0
                                        /\ TotalWeight(d, t) > 0 /\ d.extent[t] <= 0
  BY DEF Crossed
<1> HIDE DEF done, back
<1>16. \A t \in Triple : note[t] = IF t \in back THEN 1 ELSE 0
  BY DEF OneFor
<1> HIDE DEF note
<1> HIDE DEF e
<1>17. Gains(note)
  BY <1>16 DEF Gains
<1>18. ASSUME NEW t \in Triple
       PROVE  /\ done.extent[t] + note[t] \in {0, 1}
              /\ cut.circuit.extent[t] + gain[t] = 1 => done.extent[t] + note[t] = 1
              /\ done.extent[t] + note[t] = 1 =>
                   cut.circuit.extent[t] + gain[t] = 1 \/ (TotalWeight(done, t) > 0 /\ t \in e.touched)
              /\ t \in cut.touched => t \in e.touched
              /\ t \notin e.touched => done.weights[t] = c.weights[t]
              /\ t \in e.touched => t \in cut.touched \/ TotalWeight(done, t) > 0
              /\ Filled(c) /\ TotalWeight(done, t) > 0 => done.extent[t] + note[t] = 1
  <2> DEFINE x == d.extent[t]
             w == TotalWeight(b, t)
             v == TotalWeight(d, t)
  <2>1. /\ done.extent[t] = x /\ x \in {0, 1} /\ x = b.extent[t] + s.delta[t]
        /\ TotalWeight(done, t) = v /\ w \in Int /\ v \in Int /\ 0 <= w /\ w <= v
        /\ t \in Moved(b, d) => w < v
    BY <1>8, <1>9, <1>12, <1>14
  <2>2. t \in back <=> t \in Moved(b, d) /\ w <= 0 /\ v > 0 /\ x <= 0
    BY <1>15
  <2>3. note[t] = IF t \in back THEN 1 ELSE 0
    BY <1>16
  <2>4. t \in e.touched <=> t \in s.touched \/ t \in Moved(b, d)
    BY <1>0
  <2>5. t \notin Moved(b, d) => w = v /\ b.weights[t] = d.weights[t]
    BY <1>2, <1>8, <1>9, MovedMeans
  <2>6. /\ cut.circuit.extent[t] + gain[t] = 1 => x = 1
        /\ x = 1 => cut.circuit.extent[t] + gain[t] = 1 \/ (w > 0 /\ t \in s.touched)
        /\ t \in cut.touched => t \in s.touched
        /\ t \notin s.touched => b.weights[t] = c.weights[t]
        /\ t \in s.touched => t \in cut.touched \/ w > 0
        /\ Filled(c) /\ w > 0 => x = 1
    BY <1>5, <2>1
  <2> HIDE DEF x, w, v
  <2>7. done.extent[t] + note[t] = IF t \in back THEN 1 ELSE x
    BY <2>1, <2>2, <2>3
  <2>8. /\ done.extent[t] + note[t] \in {0, 1}
        /\ cut.circuit.extent[t] + gain[t] = 1 => done.extent[t] + note[t] = 1
    BY <2>1, <2>6, <2>7
  <2>9. done.extent[t] + note[t] = 1 =>
           cut.circuit.extent[t] + gain[t] = 1 \/ (v > 0 /\ t \in e.touched)
    BY <2>1, <2>2, <2>4, <2>6, <2>7
  <2>10. Filled(c) /\ v > 0 => done.extent[t] + note[t] = 1
    <3> SUFFICES ASSUME Filled(c), v > 0 PROVE done.extent[t] + note[t] = 1
      OBVIOUS
    <3>1. CASE w > 0
      BY <2>6, <2>7, <3>1
    <3>2. CASE ~(w > 0)
      <4>1. t \in Moved(b, d)
        BY <2>1, <2>5, <3>2
      <4> QED BY <2>1, <2>2, <2>7, <3>2, <4>1
    <3> QED BY <3>1, <3>2
  <2>11. /\ t \in e.touched => t \in cut.touched \/ v > 0
         /\ t \notin e.touched => done.weights[t] = c.weights[t]
    BY <1>12, <2>1, <2>4, <2>5, <2>6
  <2> QED BY <2>1, <2>4, <2>6, <2>8, <2>9, <2>10, <2>11
<1>19. ASSUME NEW X, Closes(X), InsideOf(X, cut.circuit.extent, gain)
       PROVE  InsideOf(X, done.extent, note)
  <2> SUFFICES ASSUME NEW t \in Triple, done.extent[t] + note[t] = 1 PROVE t \in X
    BY DEF InsideOf
  <2>1. InsideOf(X, b.extent, s.delta)
    BY <1>4, <1>19
  <2>2. In(d.extent) \subseteq X
    <3> SUFFICES ASSUME NEW u \in Triple, d.extent[u] > 0 PROVE u \in X
      BY DEF In
    <3>1. d.extent[u] = 1 /\ d.extent[u] = b.extent[u] + s.delta[u]
      BY <1>9
    <3> QED BY <2>1, <3>1 DEF InsideOf
  <2>3. CASE t \in back
    BY <1>9, <1>15, <1>19, <2>2, <2>3, DerivedInside
  <2>4. CASE t \notin back
    <3>1. d.extent[t] = 1
      BY <1>9, <1>12, <1>16, <2>4
    <3> QED BY <2>2, <3>1 DEF In
  <2> QED BY <2>3, <2>4
<1>20. Regrown(c, cut, gain, e)
  BY <1>0, <1>11, <1>12, <1>13, <1>17, <1>18, <1>19 DEF Regrown
<1>21. s.delta # EmptyZset =>
          Cardinality(In(e.circuit.extent)) >= Cardinality(In(s.circuit.extent)) + 1
  BY <1>0, <1>8, <1>12 DEF b
<1> QED BY <1>1, <1>20, <1>21 DEF RegrowStates, e, d, b

\* What is left in the extent after overdeletion.
LEMMA CutExtent ==
    ASSUME NEW c, WellFormed(c), Recounted(c), NEW delta \in Zset, Seeded(c, delta),
           NEW cut \in PhaseStates(c), cut.delta = EmptyZset, Shrunk(c, delta, cut), NEW t \in Triple
    PROVE  /\ cut.circuit.extent[t] = IF t \in Lost(delta) \cup cut.candidates THEN 0 ELSE c.extent[t]
           /\ cut.circuit.extent[t] \in {0, 1}
           /\ Gain(delta)[t] = IF t \in Lost(delta) THEN 0 ELSE delta[t]
           /\ Gain(delta)[t] \in {0, 1} /\ cut.circuit.extent[t] + Gain(delta)[t] \in {0, 1}
<1>1. cut.circuit \in CircuitState
  BY DEF PhaseStates
<1>2. cut.circuit.extent[t] \in Int
  BY <1>1, StateShape, ZsetAt
<1>3. cut.circuit.extent[t] + cut.delta[t] = IF t \in Lost(delta) \cup cut.candidates THEN 0 ELSE c.extent[t]
  BY DEF Shrunk
<1>4. cut.delta[t] = 0
  BY DEF EmptyZset
<1>5. cut.circuit.extent[t] = IF t \in Lost(delta) \cup cut.candidates THEN 0 ELSE c.extent[t]
  BY <1>2, <1>3, <1>4
<1>6. /\ c.extent[t] \in {0, 1} /\ c.extent[t] + delta[t] \in {0, 1}
      /\ t \notin Lost(delta) => delta[t] \in {0, 1}
  BY LostMeans
<1>7. Gain(delta)[t] = IF t \in Lost(delta) THEN 0 ELSE delta[t]
  BY DEF Gain
<1>8. /\ cut.circuit.extent[t] \in {0, 1} /\ Gain(delta)[t] \in {0, 1}
  BY <1>5, <1>6, <1>7
<1>9. cut.circuit.extent[t] + Gain(delta)[t] \in {0, 1}
  <2>1. CASE t \in Lost(delta)
    BY <1>7, <1>8, <2>1
  <2>2. CASE t \notin Lost(delta)
    <3>1. Gain(delta)[t] = delta[t] /\ delta[t] \in {0, 1}
      BY <1>6, <1>7, <2>2
    <3>2. cut.circuit.extent[t] = 0 \/ cut.circuit.extent[t] = c.extent[t]
      BY <1>5
    <3> QED BY <1>6, <3>1, <3>2
  <2> QED BY <2>1, <2>2
<1> QED BY <1>5, <1>7, <1>8, <1>9

RederiveStart(cut, gain) ==
    [cut EXCEPT !.delta = RederiveSeed(cut.circuit, cut.candidates, gain)]

LEMMA RederiveStartGrown ==
    ASSUME NEW c, WellFormed(c), Recounted(c), NEW delta \in Zset, Seeded(c, delta),
           NEW cut \in PhaseStates(c), cut.delta = EmptyZset, Shrunk(c, delta, cut)
    PROVE  RederiveStart(cut, Gain(delta)) \in RegrowStates(c, cut, Gain(delta))
<1> DEFINE a == cut.circuit
           gain == Gain(delta)
           seeds == RederiveSeed(a, cut.candidates, gain)
           back == {t \in cut.candidates : TotalWeight(a, t) > 0 /\ a.extent[t] + gain[t] <= 0}
           s == RederiveStart(cut, gain)
<1>1. /\ cut \in [circuit : CircuitState, delta : Zset, candidates : SUBSET Triple, touched : SUBSET Triple]
      /\ a \in CircuitState /\ Moves(c, a)
  BY DEF PhaseStates
<1>2. c \in CircuitState
  BY DEF WellFormed
<1>3. ASSUME NEW t \in Triple
      PROVE  /\ a.extent[t] = IF t \in Lost(delta) \cup cut.candidates THEN 0 ELSE c.extent[t]
             /\ a.extent[t] \in {0, 1} /\ gain[t] = IF t \in Lost(delta) THEN 0 ELSE delta[t]
             /\ gain[t] \in {0, 1} /\ a.extent[t] + gain[t] \in {0, 1}
  BY CutExtent
<1>4. /\ Recounted(a) /\ Besides(c, a) /\ a.fallback = c.fallback /\ cut.candidates \subseteq cut.touched
      /\ \A t \in Triple : /\ t \notin cut.touched => a.weights[t] = c.weights[t]
                           /\ TotalWeight(a, t) <= TotalWeight(c, t)
                           /\ t \in Lost(delta) /\ TotalWeight(c, t) > 0 => t \in cut.candidates
  BY DEF Shrunk
<1>5. gain \in Zset
  <2>1. \A t \in Triple : delta[t] \in Int
    BY ZsetAt
  <2> QED BY <2>1 DEF Gain, Zset
<1> HIDE DEF gain
<1>6. \A t \in Triple : t \in back <=> t \in cut.candidates /\ TotalWeight(a, t) > 0 /\ a.extent[t] + gain[t] <= 0
  BY <1>1
<1>7. seeds = Plus(gain, OneFor(back, 1))
  BY DEF RederiveSeed
<1> HIDE DEF back
<1>8. OneFor(back, 1) \in Zset /\ \A t \in Triple : OneFor(back, 1)[t] = IF t \in back THEN 1 ELSE 0
  <2>1. 1 \in Int
    OBVIOUS
  <2> QED BY <2>1, OneForType DEF OneFor
<1>9. seeds \in Zset /\ \A t \in Triple : seeds[t] = gain[t] + (IF t \in back THEN 1 ELSE 0)
  BY <1>5, <1>7, <1>8, PlusAt
<1> HIDE DEF seeds
<1>10. s.circuit = a /\ s.delta = seeds /\ s.touched = cut.touched
       /\ s \in [circuit : CircuitState, delta : Zset, candidates : SUBSET Triple, touched : SUBSET Triple]
  <2> HIDE DEF Zset
  <2> QED BY <1>1, <1>9 DEF RederiveStart, seeds
<1> HIDE DEF s, a
<1>11. ASSUME NEW t \in Triple
       PROVE  a.extent[t] + seeds[t] = IF t \in back THEN 1 ELSE a.extent[t] + gain[t]
  <2>1. CASE t \in back
    <3>1. a.extent[t] + gain[t] = 0 /\ a.extent[t] \in {0, 1} /\ gain[t] \in {0, 1}
      BY <1>3, <1>6, <2>1
    <3> QED BY <1>9, <2>1, <3>1
  <2>2. CASE t \notin back
    <3>1. seeds[t] = gain[t]
      BY <1>3, <1>9, <2>2
    <3> QED BY <2>2, <3>1
  <2> QED BY <2>1, <2>2
<1>12. Gains(seeds)
  BY <1>3, <1>9 DEF Gains
<1>13. ASSUME NEW t \in Triple
       PROVE  /\ a.extent[t] + seeds[t] \in {0, 1}
              /\ a.extent[t] + gain[t] = 1 => a.extent[t] + seeds[t] = 1
              /\ a.extent[t] + seeds[t] = 1 =>
                    a.extent[t] + gain[t] = 1 \/ (TotalWeight(a, t) > 0 /\ t \in cut.touched)
              /\ t \notin cut.touched => a.weights[t] = c.weights[t]
              /\ Filled(c) /\ TotalWeight(a, t) > 0 => a.extent[t] + seeds[t] = 1
  <2>1. a.extent[t] + gain[t] \in {0, 1}
    BY <1>3
  <2>2. ASSUME Filled(c), TotalWeight(a, t) > 0 PROVE a.extent[t] + seeds[t] = 1
    <3>1. TotalWeight(c, t) > 0
      <4>1. TotalWeight(a, t) \in Int /\ TotalWeight(c, t) \in Int
        BY <1>1, <1>2, TotalIs
      <4> QED BY <1>4, <2>2, <4>1
    <3>2. c.extent[t] > 0
      BY <2>2, <3>1 DEF Filled
    <3>3. CASE t \in cut.candidates
      BY <1>6, <1>11, <2>1, <2>2, <3>3
    <3>4. CASE t \notin cut.candidates
      <4>1. t \notin Lost(delta)
        BY <1>4, <3>1, <3>4
      <4>2. a.extent[t] = c.extent[t] /\ a.extent[t] \in {0, 1} /\ gain[t] \in {0, 1}
        BY <1>3, <3>4, <4>1
      <4>3. a.extent[t] + gain[t] = 1
        BY <2>1, <3>2, <4>2
      <4> QED BY <1>11, <4>3
    <3> QED BY <3>3, <3>4
  <2> QED BY <1>4, <1>6, <1>11, <2>1, <2>2
<1>14. ASSUME NEW X, Closes(X), InsideOf(X, a.extent, gain) PROVE InsideOf(X, a.extent, seeds)
  <2>1. In(a.extent) \subseteq X
    <3> SUFFICES ASSUME NEW t \in Triple, a.extent[t] > 0 PROVE t \in X
      BY DEF In
    <3>1. a.extent[t] \in {0, 1} /\ gain[t] \in {0, 1} /\ a.extent[t] + gain[t] \in {0, 1}
      BY <1>3
    <3>2. a.extent[t] + gain[t] = 1
      BY <3>1
    <3> QED BY <1>14, <3>2 DEF InsideOf
  <2> SUFFICES ASSUME NEW t \in Triple, a.extent[t] + seeds[t] = 1 PROVE t \in X
    BY DEF InsideOf
  <2>2. CASE t \in back
    BY <1>1, <1>4, <1>6, <1>14, <2>1, <2>2, DerivedInside
  <2>3. CASE t \notin back
    BY <1>11, <1>14, <2>3 DEF InsideOf
  <2> QED BY <2>2, <2>3
<1>15. Regrown(c, cut, gain, s)
  BY <1>4, <1>10, <1>12, <1>13, <1>14 DEF Regrown, a
<1>16. s \in PhaseStates(c)
  BY <1>1, <1>10 DEF PhaseStates
<1> QED BY <1>15, <1>16 DEF RegrowStates, s, gain

LEMMA RederiveExact ==
    ASSUME NEW c, WellFormed(c), Recounted(c), NEW delta \in Zset, Seeded(c, delta),
           NEW cut \in PhaseStates(c), cut.delta = EmptyZset, Shrunk(c, delta, cut)
    PROVE  LET grow == RederiveEnd(RederiveStart(cut, Gain(delta)))
           IN  /\ grow \in PhaseStates(c)
               /\ grow.circuit.sound = (cut.circuit.sound /\ grow.delta = EmptyZset)
               /\ grow.delta = EmptyZset => Regrown(c, cut, Gain(delta), grow)
               /\ MaxRounds >= Cardinality(Triple) => grow.delta = EmptyZset
<1> DEFINE gain == Gain(delta)
           start == RederiveStart(cut, gain)
           size == Cardinality(Triple)
           V == [n \in 0 .. MaxRounds |->
                    {s \in RegrowStates(c, cut, gain) :
                        s.delta = EmptyZset \/ Cardinality(In(s.circuit.extent)) >= n}]
<1>1. 0 \in 0 .. MaxRounds /\ MaxRounds \in 0 .. MaxRounds
      /\ \A n \in 1 .. MaxRounds : n - 1 \in 0 .. MaxRounds /\ n \in 0 .. MaxRounds /\ n \in Nat
  BY RoundsAssumption
<1>2. start \in PhaseStates(c) /\ start \in V[0]
  <2>1. start \in RegrowStates(c, cut, gain)
    BY RederiveStartGrown
  <2> HIDE DEF start
  <2>2. Cardinality(In(start.circuit.extent)) >= 0
    BY InSize
  <2> QED BY <1>1, <2>1, <2>2 DEF RegrowStates
<1>3. ASSUME NEW n \in 1 .. MaxRounds, NEW s \in V[n - 1]
      PROVE  IF s.delta = EmptyZset THEN s \in V[n]
             ELSE RederiveSettle(s, FixpointRound(s.circuit, s.delta)) \in V[n]
  <2>1. s \in RegrowStates(c, cut, gain) /\ (s.delta = EmptyZset \/ Cardinality(In(s.circuit.extent)) >= n - 1)
    BY <1>1
  <2> DEFINE e == RederiveSettle(s, FixpointRound(s.circuit, s.delta))
  <2>2. CASE s.delta = EmptyZset
    BY <1>1, <2>1, <2>2
  <2>3. CASE s.delta # EmptyZset
    <3>1. e \in RegrowStates(c, cut, gain) /\ Cardinality(In(e.circuit.extent)) >= Cardinality(In(s.circuit.extent)) + 1
      <4> HIDE DEF gain
      <4> QED BY <2>1, <2>3, RederiveSettleGrows
    <3>2. Cardinality(In(s.circuit.extent)) >= n - 1
      BY <2>1, <2>3
    <3>3. Cardinality(In(s.circuit.extent)) \in Nat /\ Cardinality(In(e.circuit.extent)) \in Nat
      BY InSize
    <3> HIDE DEF e
    <3>4. Cardinality(In(e.circuit.extent)) >= n
      BY <1>1, <3>1, <3>2, <3>3
    <3> QED BY <1>1, <2>3, <3>1, <3>4 DEF e
  <2> QED BY <2>2, <2>3
<1>4. \A s \in V[MaxRounds] : s \in RegrowStates(c, cut, gain)
         /\ (s.delta = EmptyZset \/ Cardinality(In(s.circuit.extent)) >= MaxRounds)
  BY <1>1
<1> HIDE DEF V
<1>5. PICK last \in V[MaxRounds] :
         RederiveEnd(start) = [last EXCEPT !.circuit = Check(@, last.delta = EmptyZset)]
  <2> HIDE DEF start
  <2> QED BY <1>2, <1>3, RederiveRounds
<1> HIDE DEF start, gain
<1> DEFINE b    == last.circuit
           d    == Check(b, last.delta = EmptyZset)
           grow == RederiveEnd(start)
<1>6. last \in RegrowStates(c, cut, gain)
      /\ last \in [circuit : CircuitState, delta : Zset, candidates : SUBSET Triple, touched : SUBSET Triple]
  BY <1>4 DEF RegrowStates, PhaseStates
<1>7. grow.circuit = d /\ grow.delta = last.delta /\ grow.touched = last.touched
  BY <1>5, <1>6
<1>8. grow \in PhaseStates(c)
  BY <1>2, PhaseEnds
<1>9. WellFormed(b) /\ Regrown(c, cut, gain, last)
  BY <1>6 DEF RegrowStates, PhaseStates, Moves
<1>10. MaxRounds >= size => last.delta = EmptyZset
  <2> SUFFICES ASSUME MaxRounds >= size, last.delta # EmptyZset PROVE FALSE
    OBVIOUS
  <2> DEFINE e == RederiveSettle(last, FixpointRound(last.circuit, last.delta))
  <2>1. Cardinality(In(b.extent)) >= MaxRounds
    BY <1>4
  <2>2. Cardinality(In(e.circuit.extent)) >= Cardinality(In(b.extent)) + 1
    BY <1>6, RederiveSettleGrows
  <2>3. /\ Cardinality(In(b.extent)) \in Nat /\ Cardinality(In(e.circuit.extent)) \in Nat
        /\ size \in Nat /\ Cardinality(In(e.circuit.extent)) <= size
    BY InSize
  <2> HIDE DEF e, b, size
  <2> QED BY <2>1, <2>2, <2>3, RoundsAssumption
<1> HIDE DEF b, size, grow
<1>11. /\ WellFormed(d) /\ d \in CircuitState /\ SameRows(b, d) /\ Beside(b, d)
       /\ d.sound = (b.sound /\ last.delta = EmptyZset)
  BY <1>9, Checked
<1> HIDE DEF d
<1>12. b.sound = cut.circuit.sound
  BY <1>9 DEF Regrown, b
<1>13. ASSUME grow.delta = EmptyZset PROVE Regrown(c, cut, gain, grow)
  <2>1. d.sound = cut.circuit.sound
    <3>1. cut.circuit.sound \in BOOLEAN
      BY StateShape DEF PhaseStates
    <3> QED BY <1>7, <1>11, <1>12, <1>13, <3>1
  <2>2. Recounted(d) /\ Besides(c, d) /\ d.fallback = c.fallback /\ d.extent = b.extent /\ d.weights = b.weights
    <3>1. Recounted(b) /\ Besides(c, b) /\ b.fallback = c.fallback
      BY <1>9 DEF Regrown, b
    <3> QED BY <1>11, <3>1, CheckedHolds DEF Besides, SameRows, Beside
  <2>3. \A t \in Triple : TotalWeight(d, t) = TotalWeight(b, t)
    BY <2>2, SameTotals
  <2> QED BY <1>7, <1>9, <2>1, <2>2, <2>3 DEF Regrown, b
<1> QED BY <1>7, <1>8, <1>10, <1>11, <1>12, <1>13 DEF grow, start, size, gain

-----------------------------------------------------------------------------
(* The two phases and the net transitions.                                   *)

\* The rows among the touched that the rules have afterwards.
Should(c, touched) ==
    {t \in touched : TotalWeight(c, t) > 0 /\ c.extent[t] > 0 /\ (Owned(c, t) \/ ~Covered(c, t))}

\* No touched row has a derivation and is out of the extent.
Landed(c, touched) == \A t \in touched : TotalWeight(c, t) <= 0 \/ c.extent[t] > 0

LEMMA NetTransitionsFields ==
    ASSUME NEW c, WellFormed(c), NEW touched \in SUBSET Triple
    PROVE  LET d == NetTransitions(c, touched)
           IN  /\ WellFormed(d) /\ d \in CircuitState /\ Beside(c, d) /\ d.support = c.support
               /\ d.sound = (c.sound /\ Landed(c, touched))
               /\ \A t \in Triple :
                     /\ t \in Should(c, touched) => d.attr[t] \in Rule /\ c.weights[t][d.attr[t]] > 0
                     /\ t \in touched \ Should(c, touched) => d.attr[t] = NoRule
                     /\ t \notin touched => d.attr[t] = c.attr[t]
<1> DEFINE covered == {t \in touched : c.asserted[t] > 0 \/ t \in c.support}
           should   == {t \in touched : /\ TotalWeight(c, t) > 0
                                        /\ c.extent[t] > 0
                                        /\ Owned(c, t) \/ t \notin covered}
           kept     == {t \in should : Owned(c, t)}
           fresh    == should \ kept
           lapsed   == {t \in touched \ should : Owned(c, t)}
           test     == /\ \A t \in touched : TotalWeight(c, t) <= 0 \/ c.extent[t] > 0
                       /\ \A t \in fresh : c.derived[t] = 0
           checked  == Check(c, test)
           names    == [t \in Triple |-> IF t \in kept THEN FirstAttrRule(c, t) ELSE checked.attr[t]]
           renamed  == [checked EXCEPT !.attr = names]
           added    == MaterializeRuleRows(renamed, fresh)
           ts       == lapsed \ c.support
           gone     == WithdrawDerivedRows(added, ts, c.attr)
           left     == [t \in Triple |-> IF t \in lapsed THEN NoRule ELSE gone.attr[t]]
           done     == [gone EXCEPT !.attr = left]
<1>0. NetTransitions(c, touched) = done
  BY DEF NetTransitions
<1>1. c \in CircuitState /\ Owners(c) /\ c.weights \in Weighing /\ c.attr \in AttrMap
  BY StateShape DEF WellFormed
<1>2. WellFormed(NetTransitions(c, touched))
  BY NetTransitionsMove DEF Moves
<1>3. should = Should(c, touched)
  BY DEF Should, Covered
<1>4. /\ \A t \in Triple : t \in should => t \in kept \/ t \in fresh
      /\ \A t \in kept : t \in Triple /\ Owned(c, t) /\ TotalWeight(c, t) > 0 /\ t \in should
      /\ \A t \in fresh : t \in Triple /\ ~Owned(c, t) /\ TotalWeight(c, t) > 0 /\ t \in should /\ t \notin kept
      /\ \A t \in lapsed : t \in Triple /\ Owned(c, t) /\ t \notin should
      /\ \A t \in Triple : t \in touched /\ t \notin should /\ t \notin lapsed => c.attr[t] = NoRule
      /\ should \subseteq touched /\ lapsed \subseteq touched
  BY DEF Owned
<1>5. \A t \in fresh : c.derived[t] = 0
  <2>1. \A t \in fresh : t \notin c.support
    OBVIOUS
  <2> QED BY <1>1, <1>4, <2>1 DEF Owners
<1>6. test = Landed(c, touched) /\ test \in BOOLEAN
  BY <1>5 DEF Landed
<1> HIDE DEF kept, fresh, lapsed, should, covered, test
<1>7. \A t \in kept \cup fresh : FirstAttrRule(c, t) \in Rule /\ c.weights[t][FirstAttrRule(c, t)] > 0
  BY <1>1, <1>4, FirstRule
<1>8. /\ WellFormed(checked) /\ checked \in CircuitState /\ SameRows(c, checked) /\ Beside(c, checked)
      /\ checked.sound = (c.sound /\ Landed(c, touched))
  BY <1>6, Checked
<1> HIDE DEF checked
<1>9. names \in AttrMap /\ \A t \in Triple : names[t] = IF t \in kept THEN FirstAttrRule(c, t) ELSE c.attr[t]
  <2>1. checked.attr = c.attr
    BY <1>8 DEF SameRows
  <2>2. \A t \in Triple : c.attr[t] \in Rule \cup {NoRule}
    BY <1>1, Attributed
  <2> QED BY <1>7, <2>1, <2>2 DEF AttrMap
<1> HIDE DEF names
<1>10. /\ renamed \in CircuitState /\ Beside(checked, renamed) /\ renamed.attr = names
       /\ renamed.support = checked.support /\ renamed.sound = checked.sound
  BY <1>8, <1>9, StateShape DEF Beside
<1> HIDE DEF renamed
<1>11. \A t \in Triple : FirstAttrRule(renamed, t) = FirstAttrRule(c, t)
  <2>1. renamed.weights = c.weights
    BY <1>8, <1>10 DEF Beside
  <2> QED BY <2>1, SameTotals
<1>12. \A t \in fresh \cap Triple : FirstAttrRule(renamed, t) \in Rule
  BY <1>7, <1>11
<1>13. /\ added \in CircuitState /\ Beside(renamed, added) /\ added.support = renamed.support
       /\ \A t \in Triple : added.attr[t] = IF t \in fresh THEN FirstAttrRule(renamed, t) ELSE renamed.attr[t]
  BY <1>10, <1>12, RuleRowsFields
<1>14. added.sound = renamed.sound
  <2>1. HasBase(renamed)
    BY <1>10, StateShape DEF HasBase
  <2> QED BY <2>1, RowStepsSound
<1> HIDE DEF added
<1>15. \A t \in ts \cap Triple : c.attr[t] \in Kind
  BY <1>1, <1>4, Attributed, KindFinite DEF Owned
<1> HIDE DEF ts
<1>16. /\ gone \in CircuitState /\ Beside(added, gone) /\ gone.attr = added.attr /\ gone.support = added.support
  BY <1>13, <1>15, WithdrawFields
<1>17. gone.sound = added.sound
  <2>1. HasBase(added)
    BY <1>13, StateShape DEF HasBase
  <2> QED BY <2>1, RowStepsSound
<1> HIDE DEF gone
<1>18. left \in AttrMap /\ \A t \in Triple : left[t] = IF t \in lapsed THEN NoRule ELSE added.attr[t]
  <2>1. added.attr \in AttrMap
    BY <1>13, StateShape
  <2> QED BY <1>16, <2>1 DEF AttrMap
<1> HIDE DEF left
<1>19. /\ done \in CircuitState /\ Beside(gone, done) /\ done.attr = left
       /\ done.support = gone.support /\ done.sound = gone.sound
  BY <1>16, <1>18, StateShape DEF Beside
<1> HIDE DEF done
<1>20. Beside(c, done) /\ done.support = c.support /\ done.sound = (c.sound /\ Landed(c, touched))
  BY <1>8, <1>10, <1>13, <1>14, <1>16, <1>17, <1>19 DEF Beside, SameRows
<1>21. ASSUME NEW t \in Triple
       PROVE  /\ t \in should => done.attr[t] \in Rule /\ c.weights[t][done.attr[t]] > 0
              /\ t \in touched \ should => done.attr[t] = NoRule
              /\ t \notin touched => done.attr[t] = c.attr[t]
  <2>1. done.attr[t] = IF t \in lapsed THEN NoRule
                       ELSE IF t \in kept \cup fresh THEN FirstAttrRule(c, t) ELSE c.attr[t]
    BY <1>9, <1>10, <1>11, <1>13, <1>18, <1>19
  <2> QED BY <1>4, <1>7, <2>1
<1> QED BY <1>0, <1>2, <1>3, <1>19, <1>20, <1>21

Cut(c, delta) == OverdeleteEnd(OverdeleteStart(c, delta))
Regrow(c, delta) == RederiveEnd(RederiveStart(Cut(c, delta), Gain(delta)))

\* How the two phases end, and that the assertions of a phase are remembered.
LEMMA TwoPhaseEnds ==
    ASSUME NEW c, WellFormed(c), NEW delta \in Zset, Recounted(c), Seeded(c, delta)
    PROVE  LET cut  == Cut(c, delta)
               grow == Regrow(c, delta)
               d    == TwoPhaseFixpoint(c, delta)
           IN  /\ d = NetTransitions(grow.circuit, grow.touched)
               /\ cut \in PhaseStates(c)
               /\ cut.circuit.sound = (c.sound /\ cut.delta = EmptyZset)
               /\ cut.delta = EmptyZset =>
                     /\ Shrunk(c, delta, cut)
                     /\ grow \in PhaseStates(c)
                     /\ grow.circuit.sound = (cut.circuit.sound /\ grow.delta = EmptyZset)
                     /\ grow.delta = EmptyZset => Regrown(c, cut, Gain(delta), grow)
               /\ MaxRounds >= Cardinality(Triple) =>
                     cut.delta = EmptyZset /\ grow.delta = EmptyZset
               /\ d.sound => c.sound /\ cut.delta = EmptyZset /\ grow.delta = EmptyZset
<1> DEFINE cut   == Cut(c, delta)
           gain  == Gain(delta)
           grow  == Regrow(c, delta)
           a     == cut.circuit
           b     == grow.circuit
           d     == NetTransitions(b, grow.touched)
<1>1. TwoPhaseFixpoint(c, delta) = d
  BY DEF TwoPhaseFixpoint, Rederive, OverdeleteEnd, RederiveEnd, OverdeleteStart, RederiveStart,
         SeedRows, Lost, Gain, Cut, Regrow
<1>2. /\ cut \in PhaseStates(c)
      /\ a.sound = (c.sound /\ cut.delta = EmptyZset)
      /\ cut.delta = EmptyZset => Shrunk(c, delta, cut)
      /\ MaxRounds >= Cardinality(Triple) => cut.delta = EmptyZset
  BY OverdeleteExact DEF Cut
<1>3. c \in CircuitState /\ Owners(c) /\ c.sound \in BOOLEAN
  BY StateShape DEF WellFormed
<1>4. ASSUME cut.delta = EmptyZset
      PROVE  /\ grow \in PhaseStates(c)
             /\ b.sound = (a.sound /\ grow.delta = EmptyZset)
             /\ grow.delta = EmptyZset => Regrown(c, cut, gain, grow)
             /\ MaxRounds >= Cardinality(Triple) => grow.delta = EmptyZset
  <2>1. grow = RederiveEnd(RederiveStart(cut, gain))
    BY DEF Regrow
  <2> HIDE DEF cut, grow
  <2> QED BY <1>2, <1>4, <2>1, RederiveExact
<1>5. HasBase(c)
  BY <1>3, StateShape DEF HasBase
<1>6. d.sound => b.sound /\ a.sound
  <2>1. HoldsBase(c, cut)
    <3>1. HoldsBase(c, OverdeleteStart(c, delta))
      BY <1>5 DEF HoldsBase, Keeps, KeepsBase, OverdeleteStart
    <3> QED BY <1>5, <3>1, OverdeleteSettleFixpoint DEF Cut, OverdeleteEnd
  <2>2. HoldsBase(a, grow) /\ HasBase(a)
    <3> HIDE DEF cut
    <3>1. HasBase(a) /\ "circuit" \in DOMAIN cut
      BY <2>1 DEF HoldsBase, Keeps, KeepsBase
    <3>2. HoldsBase(a, RederiveStart(cut, gain))
      BY <3>1 DEF HoldsBase, Keeps, KeepsBase, RederiveStart
    <3> QED BY <3>1, <3>2, RederiveSettleFixpoint DEF Regrow, RederiveEnd, cut
  <2>3. Keeps(a, b) /\ HasBase(b)
    BY <2>2 DEF HoldsBase, Keeps, KeepsBase
  <2> HIDE DEF a, b, d
  <2>4. Keeps(b, d)
    BY <2>3, NetTransitionsKeep DEF d
  <2> QED BY <2>3, <2>4 DEF Keeps, KeepsBase
<1> HIDE DEF cut, grow, d
<1>7. d.sound => c.sound /\ cut.delta = EmptyZset /\ grow.delta = EmptyZset
  BY <1>2, <1>3, <1>4, <1>6
<1> QED BY <1>1, <1>2, <1>4, <1>7 DEF cut, grow, d

\* TwoPhaseFixpoint: what loses a derivation leaves, what is still derived comes
\* back, and what only rested on itself does not.
LEMMA TwoPhaseExact ==
    ASSUME NEW c, WellFormed(c), NEW delta \in Zset,
           Recounted(c), Seeded(c, delta), Owning(c), OwnedIn(c)
    PROVE  LET d == TwoPhaseFixpoint(c, delta)
           IN  /\ d.sound => c.sound /\ Exact(d)
               /\ d.sound /\ Filled(c) => Filled(d)
               /\ MaxRounds >= Cardinality(Triple) /\ Filled(c) => d.sound = c.sound
<1> DEFINE cut   == Cut(c, delta)
           gain  == Gain(delta)
           grow  == Regrow(c, delta)
           a     == cut.circuit
           b     == grow.circuit
           touched == grow.touched
           d     == NetTransitions(b, touched)
<1>1. /\ TwoPhaseFixpoint(c, delta) = d
      /\ d.sound => c.sound /\ cut.delta = EmptyZset /\ grow.delta = EmptyZset
  BY TwoPhaseEnds
<1>2. /\ cut \in PhaseStates(c)
      /\ a.sound = (c.sound /\ cut.delta = EmptyZset)
      /\ cut.delta = EmptyZset => Shrunk(c, delta, cut)
      /\ MaxRounds >= Cardinality(Triple) => cut.delta = EmptyZset
  BY TwoPhaseEnds
<1>3. c \in CircuitState /\ Owners(c) /\ c.sound \in BOOLEAN
  BY StateShape DEF WellFormed
<1>4. ASSUME cut.delta = EmptyZset
      PROVE  /\ grow \in PhaseStates(c)
             /\ b.sound = (a.sound /\ grow.delta = EmptyZset)
             /\ grow.delta = EmptyZset => Regrown(c, cut, gain, grow)
             /\ MaxRounds >= Cardinality(Triple) => grow.delta = EmptyZset
  BY <1>4, TwoPhaseEnds
<1> HIDE DEF cut, grow
<1>7. ASSUME cut.delta = EmptyZset, grow.delta = EmptyZset
      PROVE  /\ WellFormed(d) /\ d \in CircuitState /\ Beside(b, d) /\ d.support = b.support
             /\ d.sound = (c.sound /\ Landed(b, touched))
             /\ Landed(b, touched) => Exact(d)
             /\ Filled(c) => Landed(b, touched) /\ AllPresent(d)
  <2>1. Shrunk(c, delta, cut) /\ Regrown(c, cut, gain, grow)
    BY <1>2, <1>4, <1>7
  <2>2. WellFormed(b) /\ b \in CircuitState /\ touched \in SUBSET Triple /\ grow.delta = EmptyZset
    BY <1>4, <1>7 DEF PhaseStates, Moves, WellFormed
  <2>3. /\ Recounted(b) /\ Besides(c, b) /\ b.fallback = c.fallback
    BY <2>1 DEF Regrown
  <2>4. b.sound = c.sound
    BY <1>2, <1>3, <1>4, <1>7
  <2> HIDE DEF b, touched
  <2>5. /\ WellFormed(d) /\ d \in CircuitState /\ Beside(b, d) /\ d.support = b.support
        /\ d.sound = (b.sound /\ Landed(b, touched))
        /\ \A t \in Triple :
              /\ t \in Should(b, touched) => d.attr[t] \in Rule /\ b.weights[t][d.attr[t]] > 0
              /\ t \in touched \ Should(b, touched) => d.attr[t] = NoRule
              /\ t \notin touched => d.attr[t] = b.attr[t]
    BY <2>2, NetTransitionsFields
  <2> HIDE DEF d
  <2>6. Recounted(d)
    BY <2>3, <2>5, SameCounts
  <2>7. /\ d.asserted = c.asserted /\ d.support = c.support /\ b.attr = c.attr
        /\ d.extent = b.extent /\ d.weights = b.weights
    BY <2>3, <2>5 DEF Besides, Beside
  <2>8. ASSUME NEW t \in Triple
        PROVE  /\ TotalWeight(d, t) = TotalWeight(b, t)
               /\ BasePresence(d, t) <=> Covered(c, t) \/ Owned(d, t)
               /\ Covered(b, t) <=> Covered(c, t)
               /\ Owned(b, t) <=> Owned(c, t)
               /\ t \in Should(b, touched) <=> /\ t \in touched /\ TotalWeight(b, t) > 0 /\ b.extent[t] > 0
                                               /\ Owned(c, t) \/ ~Covered(c, t)
    <3>1. TotalWeight(d, t) = TotalWeight(b, t)
      BY <2>7, SameTotals
    <3>2. d.derived[t] = IF Owned(d, t) \/ t \in d.support THEN 1 ELSE 0
      BY <2>5 DEF WellFormed, Owners
    <3>3. BasePresence(d, t) <=> Covered(c, t) \/ Owned(d, t)
      BY <2>7, <3>2 DEF BasePresence, Covered
    <3>4. /\ Covered(b, t) <=> Covered(c, t)
          /\ Owned(b, t) <=> Owned(c, t)
      BY <2>3 DEF Besides, Covered, Owned
    <3> QED BY <3>1, <3>3, <3>4 DEF Should
  <2>9. ASSUME NEW t \in Triple
        PROVE  /\ b.extent[t] \in {0, 1} /\ d.extent[t] = b.extent[t]
               /\ a.extent[t] + gain[t] = 1 => b.extent[t] = 1
               /\ b.extent[t] = 1 => a.extent[t] + gain[t] = 1 \/ (TotalWeight(b, t) > 0 /\ t \in touched)
               /\ t \in cut.touched => t \in touched
               /\ t \notin touched => b.weights[t] = c.weights[t]
               /\ t \in touched => t \in cut.touched \/ TotalWeight(b, t) > 0
               /\ Filled(c) /\ TotalWeight(b, t) > 0 => b.extent[t] = 1
    <3>1. b.extent[t] \in Int
      BY <2>2, StateShape, ZsetAt
    <3>2. grow.delta[t] = 0
      BY <2>2 DEF EmptyZset
    <3>3. b.extent[t] + grow.delta[t] = b.extent[t]
      BY <3>1, <3>2
    <3>4. /\ b.extent[t] + grow.delta[t] \in {0, 1}
          /\ a.extent[t] + gain[t] = 1 => b.extent[t] + grow.delta[t] = 1
          /\ b.extent[t] + grow.delta[t] = 1 =>
                a.extent[t] + gain[t] = 1 \/ (TotalWeight(b, t) > 0 /\ t \in touched)
          /\ t \in cut.touched => t \in touched
          /\ t \notin touched => b.weights[t] = c.weights[t]
          /\ t \in touched => t \in cut.touched \/ TotalWeight(b, t) > 0
          /\ Filled(c) /\ TotalWeight(b, t) > 0 => b.extent[t] + grow.delta[t] = 1
      BY <2>1 DEF Regrown, b, touched
    <3> QED BY <2>7, <3>3, <3>4
  <2>10. ASSUME NEW t \in Triple
         PROVE  /\ a.extent[t] = IF t \in Lost(delta) \cup cut.candidates THEN 0 ELSE c.extent[t]
                /\ gain[t] = IF t \in Lost(delta) THEN 0 ELSE delta[t]
                /\ c.extent[t] \in {0, 1} /\ delta[t] \in Int
                /\ t \in Lost(delta) => delta[t] = -1 /\ c.extent[t] = 1 /\ ~Covered(c, t)
                /\ t \notin Lost(delta) => delta[t] \in {0, 1} /\ c.extent[t] + delta[t] = One(BasePresence(c, t))
                /\ BasePresence(c, t) <=> Covered(c, t) \/ Owned(c, t)
    <3>1. /\ a.extent[t] = IF t \in Lost(delta) \cup cut.candidates THEN 0 ELSE c.extent[t]
          /\ gain[t] = IF t \in Lost(delta) THEN 0 ELSE delta[t]
      BY <1>2, <1>7, <2>1, CutExtent
    <3> HIDE DEF a, gain
    <3> QED BY <3>1, LostMeans
  <2>11. ASSUME NEW t \in Triple
         PROVE  /\ t \in cut.candidates => ~Covered(c, t)
                /\ t \in cut.touched => t \in cut.candidates \/ Covered(c, t)
                /\ t \in cut.candidates => t \in cut.touched
                /\ t \in Lost(delta) /\ TotalWeight(c, t) > 0 => t \in cut.candidates
    BY <2>1 DEF Shrunk
  <2> HIDE DEF a, gain
  <2>12. ASSUME NEW t \in Triple, Owned(c, t)
         PROVE  c.extent[t] = 1 /\ TotalWeight(c, t) > 0 /\ c.weights[t][c.attr[t]] > 0
    <3>1. c.extent[t] > 0 /\ c.weights[t][c.attr[t]] > 0 /\ c.attr[t] \in Rule
      BY <1>3, <2>12, Attributed DEF OwnedIn, Owning, Owned
    <3> QED BY <1>3, <2>10, <3>1, WeightMeans
  <2>13. ASSUME NEW t \in Triple, TotalWeight(b, t) <= 0 \/ b.extent[t] > 0 \/ t \notin touched
         PROVE  b.extent[t] = One(BasePresence(d, t))
    <3>1. CASE Covered(c, t)
      <4>1. t \notin Lost(delta) /\ t \notin cut.candidates
        BY <2>10, <2>11, <3>1
      <4>2. a.extent[t] + gain[t] = One(TRUE)
        BY <2>10, <3>1, <4>1
      <4>3. b.extent[t] = 1
        BY <2>9, <4>2 DEF One
      <4> QED BY <2>8, <3>1, <4>3 DEF One
    <3>2. CASE ~Covered(c, t) /\ t \in touched /\ TotalWeight(b, t) > 0
      <4>1. b.extent[t] = 1
        BY <2>9, <2>13, <2>2, <3>2, TotalIs
      <4>2. Owned(d, t)
        <5>1. d.attr[t] \in Rule
          BY <2>5, <2>8, <3>2, <4>1
        <5> QED BY <5>1, <1>3, Attributed DEF Owned
      <4> QED BY <2>8, <4>1, <4>2 DEF One
    <3>3. CASE ~Covered(c, t) /\ t \in touched /\ ~(TotalWeight(b, t) > 0)
      <4>1. t \in cut.candidates
        BY <2>9, <2>11, <3>3
      <4>2. a.extent[t] = 0
        BY <2>10, <4>1
      <4>3. gain[t] = 0
        <5> SUFFICES ASSUME t \notin Lost(delta), delta[t] = 1 PROVE FALSE
          BY <2>10
        <5>1. BasePresence(c, t) /\ c.extent[t] = 0
          BY <2>10 DEF One
        <5> QED BY <2>10, <2>12, <3>3, <5>1
      <4>4. b.extent[t] = 0
        BY <2>9, <3>3, <4>2, <4>3
      <4>5. ~Owned(d, t)
        BY <2>5, <2>8, <3>3 DEF Owned
      <4> QED BY <2>8, <3>3, <4>4, <4>5 DEF One
    <3>4. CASE ~Covered(c, t) /\ t \notin touched
      <4>1. /\ b.weights[t] = c.weights[t] /\ (Owned(d, t) <=> Owned(c, t))
            /\ t \notin cut.candidates
        BY <2>5, <2>7, <2>9, <2>11, <3>4 DEF Owned
      <4>2. b.extent[t] = 1 <=> a.extent[t] + gain[t] = 1
        BY <2>9, <3>4
      <4>3. CASE t \in Lost(delta)
        <5>1. ~Owned(c, t)
          BY <2>11, <2>12, <4>1, <4>3
        <5>2. a.extent[t] + gain[t] = 0
          BY <2>10, <4>3
        <5> QED BY <2>8, <2>9, <3>4, <4>1, <4>2, <5>1, <5>2 DEF One
      <4>4. CASE t \notin Lost(delta)
        <5>1. a.extent[t] = c.extent[t] /\ gain[t] = delta[t]
          BY <2>10, <4>1, <4>4
        <5>2. c.extent[t] + delta[t] = One(BasePresence(c, t)) /\ (BasePresence(c, t) <=> Owned(c, t))
          BY <2>10, <3>4, <4>4
        <5>3. a.extent[t] + gain[t] = One(Owned(c, t))
          BY <5>1, <5>2 DEF One
        <5> QED BY <2>8, <2>9, <3>4, <4>1, <4>2, <5>3 DEF One
      <4> QED BY <4>3, <4>4
    <3> QED BY <3>1, <3>2, <3>3, <3>4
  <2>14. Landed(b, touched) => Exact(d)
    <3> SUFFICES ASSUME Landed(b, touched) PROVE Exact(d)
      OBVIOUS
    <3>1. Noted(d, EmptyZset)
      <4> SUFFICES ASSUME NEW t \in Triple PROVE d.extent[t] + EmptyZset[t] = One(BasePresence(d, t))
        BY DEF Noted
      <4>1. b.extent[t] = One(BasePresence(d, t))
        BY <2>13 DEF Landed
      <4>2. EmptyZset[t] = 0 /\ d.extent[t] = b.extent[t] /\ b.extent[t] \in {0, 1}
        BY <2>9 DEF EmptyZset
      <4> QED BY <4>1, <4>2
    <3>2. Owning(d)
      <4> SUFFICES ASSUME NEW t \in Triple, Owned(d, t) PROVE d.weights[t][d.attr[t]] > 0
        BY DEF Owning
      <4>1. CASE t \in touched
        BY <2>5, <2>7, <4>1 DEF Owned
      <4>2. CASE t \notin touched
        <5>1. d.attr[t] = c.attr[t] /\ b.weights[t] = c.weights[t] /\ Owned(c, t)
          BY <2>5, <2>7, <2>9, <4>2 DEF Owned
        <5> QED BY <2>7, <2>12, <5>1
      <4> QED BY <4>1, <4>2
    <3> QED BY <2>6, <3>1, <3>2 DEF Exact
  <2>15. ASSUME Filled(c) PROVE Landed(b, touched) /\ AllPresent(d)
    <3>1. \A t \in Triple : TotalWeight(b, t) \in Int
      BY <2>2, TotalIs
    <3>2. \A t \in Triple : TotalWeight(b, t) > 0 => b.extent[t] = 1
      BY <2>9, <2>15
    <3>3. Landed(b, touched)
      BY <2>2, <3>1, <3>2 DEF Landed
    <3>4. AllPresent(d)
      <4> SUFFICES ASSUME NEW t \in Triple, TotalWeight(d, t) > 0 PROVE BasePresence(d, t)
        BY DEF AllPresent
      <4>1. b.extent[t] = 1
        BY <2>8, <3>2
      <4>2. b.extent[t] = One(BasePresence(d, t))
        BY <2>13, <4>1
      <4> QED BY <4>1, <4>2 DEF One
    <3> QED BY <3>3, <3>4
  <2> QED BY <2>4, <2>5, <2>14, <2>15
<1> HIDE DEF a, b, d, touched
<1>8. d.sound => cut.delta = EmptyZset /\ grow.delta = EmptyZset /\ c.sound
  BY <1>1
<1>9. ASSUME d.sound PROVE c.sound /\ Exact(d) /\ (Filled(c) => Filled(d))
  <2>1. Exact(d) /\ (Filled(c) => AllPresent(d)) /\ d \in CircuitState
    BY <1>7, <1>8, <1>9
  <2> QED BY <1>8, <1>9, <2>1, FullFilled DEF Exact
<1>10. ASSUME MaxRounds >= Cardinality(Triple), Filled(c) PROVE d.sound = c.sound
  <2>1. cut.delta = EmptyZset /\ grow.delta = EmptyZset
    BY <1>2, <1>4, <1>10
  <2> QED BY <1>3, <1>7, <1>10, <2>1
<1> QED BY <1>1, <1>9, <1>10

-----------------------------------------------------------------------------
(* The rules after the closure passes.                                       *)

\* The orphans are put to the two phases, and without one the delta is as it was.
LEMMA OrphansSeeded ==
    ASSUME NEW c, WellFormed(c), Recounted(c), NEW delta \in Zset, Noted(c, delta), NEW orphans
    PROVE  LET seed == OrphanReseed(c, orphans, delta)
           IN  /\ seed \in Zset /\ Seeded(c, seed)
               /\ ~(\E t \in Triple : seed[t] < 0) => Noted(c, seed) /\ Gains(seed)
<1> DEFINE rows == {t \in orphans : /\ t \notin c.support
                                    /\ c.asserted[t] <= 0
                                    /\ Owned(c, t)
                                    /\ delta[t] = 0}
           seed == OrphanReseed(c, orphans, delta)
<1>1. c \in CircuitState /\ Owners(c)
  BY DEF WellFormed
<1>2. OneFor(rows, -1) \in Zset
  <2>1. -1 \in Int
    OBVIOUS
  <2> QED BY <2>1, OneForType
<1>3. seed = Plus(delta, OneFor(rows, -1))
  BY DEF OrphanReseed
<1>4. seed \in Zset
  BY <1>2, <1>3, PlusAt
<1>5. ASSUME NEW t \in Triple
      PROVE  /\ seed[t] = delta[t] + (IF t \in rows THEN -1 ELSE 0)
             /\ delta[t] \in Int /\ c.extent[t] \in {0, 1} /\ seed[t] \in Int
             /\ c.extent[t] + delta[t] = One(BasePresence(c, t))
             /\ t \in rows => delta[t] = 0 /\ Owned(c, t) /\ ~Covered(c, t) /\ BasePresence(c, t)
  <2>1. seed[t] = delta[t] + OneFor(rows, -1)[t]
    BY <1>2, <1>3, PlusAt
  <2>2. OneFor(rows, -1)[t] = IF t \in rows THEN -1 ELSE 0
    BY DEF OneFor
  <2>3. delta[t] \in Int /\ c.extent[t] \in {0, 1} /\ seed[t] \in Int
    BY <1>4, ZsetAt DEF Recounted, Unit
  <2>4. c.asserted[t] \in Int /\ c.derived[t] = IF Owned(c, t) \/ t \in c.support THEN 1 ELSE 0
    BY <1>1, StateShape, ZsetAt DEF Owners
  <2> QED BY <2>1, <2>2, <2>3, <2>4 DEF Noted, Covered, BasePresence
<1> HIDE DEF rows, seed
<1>6. Seeded(c, seed)
  <2> SUFFICES ASSUME NEW t \in Triple
               PROVE  /\ c.extent[t] + seed[t] \in {0, 1}
                      /\ c.extent[t] + seed[t] = 1 => BasePresence(c, t)
                      /\ c.extent[t] + seed[t] = 0 /\ BasePresence(c, t) =>
                            seed[t] < 0 /\ Owned(c, t) /\ ~Covered(c, t)
    BY DEF Seeded
  <2>1. CASE t \in rows
    <3>1. c.extent[t] = 1 /\ seed[t] = -1
      BY <1>5, <2>1 DEF One
    <3> QED BY <1>5, <2>1, <3>1
  <2>2. CASE t \notin rows
    <3>1. seed[t] = delta[t]
      BY <1>5, <2>2
    <3> QED BY <1>5, <3>1 DEF One
  <2> QED BY <2>1, <2>2
<1>7. ASSUME ~(\E t \in Triple : seed[t] < 0) PROVE Noted(c, seed) /\ Gains(seed)
  <2>1. \A t \in Triple : t \notin rows
    BY <1>5, <1>7
  <2>2. \A t \in Triple : seed[t] = delta[t]
    BY <1>5, <2>1
  <2> QED BY <1>5, <1>7, <2>2 DEF Noted, Gains
<1> QED BY <1>4, <1>6, <1>7 DEF seed

LEMMA RunRulesExact ==
    ASSUME NEW c, WellFormed(c), Recounted(c), NEW delta \in Zset, Noted(c, delta), NEW orphans,
           Owning(c), OwnedIn(c)
    PROVE  LET d == RunRules(c, OrphanReseed(c, orphans, delta))
           IN  /\ d.sound => c.sound /\ Exact(d)
               /\ d.sound /\ Filled(c) => Filled(d)
               /\ MaxRounds >= Cardinality(Triple) /\ Filled(c) => d.sound = c.sound
<1> DEFINE seed == OrphanReseed(c, orphans, delta)
<1>1. /\ seed \in Zset /\ Seeded(c, seed)
      /\ ~(\E t \in Triple : seed[t] < 0) => Noted(c, seed) /\ Gains(seed)
  BY OrphansSeeded
<1> HIDE DEF seed
<1>2. CASE \E t \in Triple : seed[t] < 0
  <2>1. RunRules(c, seed) = TwoPhaseFixpoint(c, seed)
    BY <1>2 DEF RunRules
  <2> QED BY <1>1, <2>1, TwoPhaseExact DEF seed
<1>3. CASE ~(\E t \in Triple : seed[t] < 0)
  <2>1. RunRules(c, seed) = InsertionFixpoint(c, seed)
    BY <1>3 DEF RunRules
  <2> QED BY <1>1, <1>3, <2>1, InsertionExact DEF seed
<1> QED BY <1>2, <1>3 DEF seed

-----------------------------------------------------------------------------
(* The recompute fallback counts afresh.                                     *)

\* What a round of the recompute has: the covered rows, and rows that a rule
\* derives from them, in no more than a closed set with the covered rows has.
Recomputed(c) ==
    {s \in [rows : SUBSET Triple, attr : AttrMap] :
        /\ \A t \in Triple :
              /\ t \in s.rows <=> Covered(c, t) \/ s.attr[t] # NoRule
              /\ Covered(c, t) => s.attr[t] = NoRule
              /\ s.attr[t] # NoRule => \E i \in Instance : /\ i.head = t /\ i.rule = s.attr[t]
                                                           /\ Derives(i, s.rows)
        /\ \A X : Closes(X) /\ CoveredIn(c, X) => s.rows \subseteq X}

LEMMA RecomputedSeed ==
    ASSUME NEW c \in CircuitState
    PROVE  [rows |-> RecomputeSeed(c), attr |-> [t \in Triple |-> NoRule]] \in Recomputed(c)
<1> DEFINE rows == RecomputeSeed(c)
           attr == [t \in Triple |-> NoRule]
<1>1. c.support \subseteq Triple
  BY StateShape DEF Triple
<1>2. rows \subseteq Triple /\ \A t \in Triple : t \in rows <=> Covered(c, t)
  BY <1>1 DEF RecomputeSeed, Covered
<1>3. attr \in AttrMap /\ \A t \in Triple : attr[t] = NoRule
  BY DEF AttrMap
<1> HIDE DEF rows, attr
<1>4. \A X : CoveredIn(c, X) => rows \subseteq X
  BY <1>2 DEF CoveredIn
<1>5. [rows |-> rows, attr |-> attr] \in [rows : SUBSET Triple, attr : AttrMap]
  BY <1>2, <1>3
<1> QED BY <1>2, <1>3, <1>4, <1>5 DEF Recomputed, rows, attr

LEMMA RecomputedNext ==
    ASSUME NEW c, NEW s \in Recomputed(c)
    PROVE  /\ RecomputeRound(s) \in Recomputed(c)
           /\ s.rows \subseteq RecomputeRound(s).rows
           /\ RecomputeRound(s).rows = s.rows <=> Closes(s.rows)
<1> DEFINE rules == [t \in Triple |-> {i.rule : i \in {j \in Instance : j.head = t /\ Derives(j, s.rows)}}]
           new   == {t \in Triple \ s.rows : rules[t] # {}}
           attr  == [t \in Triple |-> IF t \in new THEN Min(rules[t]) ELSE s.attr[t]]
           rows  == s.rows \cup new
<1>1. RecomputeRound(s) = [rows |-> rows, attr |-> attr]
  BY DEF RecomputeRound
<1>2. \A t \in Triple : rules[t] \in SUBSET Rule
  BY InstanceAssumption
<1>3. /\ \A t \in Triple : \A r \in rules[t] :
            \E i \in Instance : i.head = t /\ i.rule = r /\ Derives(i, s.rows)
      /\ \A i \in Instance : i.head \in Triple /\ Derives(i, s.rows) => i.rule \in rules[i.head]
  OBVIOUS
<1> HIDE DEF rules
<1>4. \A t \in new : Min(rules[t]) \in Rule /\ Min(rules[t]) \in rules[t] /\ t \in Triple /\ t \notin s.rows
  BY <1>2, LeastRule
<1>5. \A i \in Instance : Derives(i, s.rows) => i.head \in s.rows \/ i.head \in new
  BY <1>3, InstanceAssumption
<1> HIDE DEF new
<1>6. s.attr \in AttrMap /\ s.rows \subseteq Triple
  BY DEF Recomputed
<1>7. attr \in AttrMap
  BY <1>4, <1>6 DEF AttrMap
<1>8. \A i : Derives(i, s.rows) => Derives(i, rows)
  BY DEF Derives
<1>9. rows \in SUBSET Triple
  BY <1>4, <1>6
<1>10. \A t \in new : \E i \in Instance : i.head = t /\ Derives(i, s.rows)
  BY <1>3, <1>4
<1>11. ASSUME NEW t \in Triple
       PROVE  /\ t \in rows <=> Covered(c, t) \/ attr[t] # NoRule
              /\ Covered(c, t) => attr[t] = NoRule
              /\ attr[t] # NoRule =>
                    \E i \in Instance : i.head = t /\ i.rule = attr[t] /\ Derives(i, rows)
  <2>1. CASE t \in new
    <3>1. attr[t] \in rules[t] /\ attr[t] \in Rule
      BY <1>4, <2>1
    <3>2. attr[t] # NoRule
      BY <3>1, RuleAssumption DEF NoRule
    <3>3. PICK i \in Instance : i.head = t /\ i.rule = attr[t] /\ Derives(i, s.rows)
      BY <1>3, <3>1
    <3>4. ~Covered(c, t)
      BY <1>4, <2>1 DEF Recomputed
    <3> QED BY <1>8, <2>1, <3>2, <3>3, <3>4
  <2>2. CASE t \notin new
    <3>1. attr[t] = s.attr[t] /\ (t \in rows <=> t \in s.rows)
      BY <2>2
    <3>2. /\ t \in s.rows <=> Covered(c, t) \/ s.attr[t] # NoRule
          /\ Covered(c, t) => s.attr[t] = NoRule
          /\ s.attr[t] # NoRule =>
                \E i \in Instance : i.head = t /\ i.rule = s.attr[t] /\ Derives(i, s.rows)
      BY DEF Recomputed
    <3> QED BY <1>8, <3>1, <3>2
  <2> QED BY <2>1, <2>2
<1>12. ASSUME NEW X, Closes(X), CoveredIn(c, X) PROVE rows \subseteq X
  <2>1. s.rows \subseteq X
    BY <1>12 DEF Recomputed
  <2>2. \A i : Derives(i, s.rows) => Derives(i, X)
    BY <2>1 DEF Derives
  <2>3. new \subseteq X
    BY <1>10, <1>12, <2>2 DEF Closes
  <2> QED BY <2>1, <2>3
<1>13. rows = s.rows <=> Closes(s.rows)
  <2>1. ASSUME rows = s.rows PROVE Closes(s.rows)
    BY <1>5, <2>1 DEF Closes
  <2>2. ASSUME Closes(s.rows) PROVE rows = s.rows
    BY <1>4, <1>10, <2>2 DEF Closes
  <2> QED BY <2>1, <2>2
<1>14. s.rows \subseteq rows
  OBVIOUS
<1> HIDE DEF rows, attr
<1>15. [rows |-> rows, attr |-> attr] \in Recomputed(c)
  <2>1. [rows |-> rows, attr |-> attr] \in [rows : SUBSET Triple, attr : AttrMap]
    BY <1>7, <1>9
  <2> QED BY <2>1, <1>11, <1>12 DEF Recomputed
<1> QED BY <1>1, <1>13, <1>14, <1>15

\* Nothing follows from no rows, as a rule has atoms, and all that follows is a
\* triple.
LEMMA ClosedEnds == Closes({}) /\ Closes(Triple)
BY DerivesAtoms, InstanceAssumption DEF Closes

\* recompute_rule_closure: what its last round has, when that round added
\* nothing, has the head of every rule that holds in it; and a round that adds
\* nothing comes after no more rounds than there are triples.
LEMMA RecomputedDerives ==
    ASSUME NEW c \in CircuitState
    PROVE  LET found == RecomputeRuleClosure(c)
           IN  /\ found.converged \in BOOLEAN
               /\ MaxRounds >= Cardinality(Triple) => found.converged
               /\ \E s \in Recomputed(c) : /\ found.attr = s.attr
                                           /\ found.converged => Closes(s.rows)
<1> DEFINE D == 0 .. MaxRounds
           f == Rec!Solution(c, D)
           seed == [rows |-> RecomputeSeed(c), attr |-> [t \in Triple |-> NoRule]]
           found == RecomputeRuleClosure(c)
           V == [n \in D |-> {s \in Recomputed(c) : Closes(s.rows) \/ Cardinality(s.rows) > n}]
<1>1. Rec!Grounded(D) /\ MaxRounds \in D /\ MaxRounds - 1 \in D /\ MaxRounds # 0 /\ 0 \in D
      /\ \A n \in D : n # 0 => n - 1 \in D /\ n \in Nat /\ n - 1 \in Nat
  BY RoundsAssumption, Induction DEF Rec!Grounded, Rec!Ranked, Rec!Inductive
<1>2. found.attr = f[MaxRounds].attr /\ found.converged = (f[MaxRounds].rows = f[MaxRounds - 1].rows)
  BY DEF RecomputeRuleClosure, Rec!Solution, RecomputeSeed, RecomputeRound
<1> HIDE DEF found
<1>3. \A s \in Recomputed(c) : s.rows \in SUBSET Triple /\ Cardinality(s.rows) \in Nat /\ IsFiniteSet(s.rows)
  <2>1. \A s \in Recomputed(c) : s.rows \in SUBSET Triple
    BY DEF Recomputed
  <2> QED BY <2>1, TriplesFinite, FS_Subset, FS_CardinalityType
<1>4. seed \in V[0]
  <2>1. seed \in Recomputed(c)
    BY RecomputedSeed
  <2> HIDE DEF seed
  <2>2. seed.rows = {} \/ Cardinality(seed.rows) > 0
    BY <1>3, <2>1, FS_EmptySet
  <2> QED BY <1>1, <2>1, <2>2, ClosedEnds
<1>5. ASSUME NEW n \in D, n # 0, NEW s \in V[n - 1] PROVE RecomputeRound(s) \in V[n]
  <2> DEFINE e == RecomputeRound(s)
  <2>1. s \in Recomputed(c) /\ (Closes(s.rows) \/ Cardinality(s.rows) > n - 1)
    BY <1>1, <1>5
  <2>2. e \in Recomputed(c) /\ s.rows \subseteq e.rows /\ (e.rows = s.rows <=> Closes(s.rows))
    BY <2>1, RecomputedNext
  <2> HIDE DEF e
  <2>3. CASE Closes(s.rows)
    BY <1>1, <1>5, <2>2, <2>3 DEF e
  <2>4. CASE ~Closes(s.rows)
    <3>1. /\ Cardinality(s.rows) \in Nat /\ Cardinality(e.rows) \in Nat /\ IsFiniteSet(e.rows)
          /\ s.rows \in SUBSET e.rows /\ e.rows # s.rows
      BY <1>3, <2>1, <2>2, <2>4
    <3>2. Cardinality(s.rows) <= Cardinality(e.rows) /\ Cardinality(s.rows) # Cardinality(e.rows)
      BY <3>1, FS_Subset
    <3>3. Cardinality(e.rows) > n
      BY <1>1, <1>5, <2>1, <2>4, <3>1, <3>2
    <3> QED BY <1>1, <1>5, <2>2, <3>3 DEF e
  <2> QED BY <2>3, <2>4
<1>6. \A n \in D : f[n] \in V[n]
  <2> HIDE DEF D, V, seed
  <2> QED BY <1>1, <1>4, <1>5, Rec!SolutionAt DEF seed
<1>7. f[MaxRounds] = RecomputeRound(f[MaxRounds - 1])
  <2> HIDE DEF D
  <2>1. \A n \in D : f[n] = IF n = 0 THEN seed ELSE RecomputeRound(f[n - 1])
    BY <1>1, Rec!SolutionSolves
  <2> HIDE DEF f
  <2> QED BY <1>1, <2>1
<1> DEFINE last == f[MaxRounds]
           prev == f[MaxRounds - 1]
<1>8. /\ prev \in Recomputed(c) /\ last \in Recomputed(c) /\ last = RecomputeRound(prev)
      /\ Closes(prev.rows) \/ Cardinality(prev.rows) > MaxRounds - 1
  BY <1>1, <1>6, <1>7
<1> HIDE DEF f, last, prev, V, D
<1>9. last.rows = prev.rows <=> Closes(prev.rows)
  BY <1>8, RecomputedNext
<1>10. ASSUME MaxRounds >= Cardinality(Triple) PROVE Closes(prev.rows)
  <2> SUFFICES ASSUME ~Closes(prev.rows) PROVE FALSE
    OBVIOUS
  <2>1. prev.rows \in SUBSET Triple /\ Cardinality(prev.rows) \in Nat
    BY <1>3, <1>8
  <2>2. /\ Cardinality(prev.rows) <= Cardinality(Triple) /\ Cardinality(Triple) \in Nat
        /\ Cardinality(Triple) = Cardinality(prev.rows) => Triple = prev.rows
    BY <2>1, TriplesFinite, FS_Subset, FS_CardinalityType
  <2>3. Cardinality(Triple) = Cardinality(prev.rows)
    BY <1>8, <1>10, <2>1, <2>2, RoundsAssumption
  <2> QED BY <2>2, <2>3, ClosedEnds
<1>11. found.attr = last.attr /\ found.converged = (last.rows = prev.rows)
  BY <1>2 DEF last, prev
<1>12. found.converged => Closes(last.rows)
  BY <1>9, <1>11
<1> QED BY <1>8, <1>9, <1>10, <1>11, <1>12 DEF found

\* ReplaceRuleRows counts extent, weights and traces afresh, for rows of which a
\* recompute gave each to a rule that derives it.
LEMMA ReplacedExact ==
    ASSUME NEW c, WellFormed(c), NEW a, a.asserted = c.asserted, a.support = c.support,
           NEW s \in Recomputed(a)
    PROVE  LET d == ReplaceRuleRows(c, s.attr)
           IN  /\ WellFormed(d) /\ Keeps(c, d) /\ Exact(d) /\ d.sound = c.sound
               /\ \A t \in Triple : BasePresence(d, t) <=> t \in s.rows
               /\ Closes(s.rows) => Filled(d)
<1> DEFINE attr   == s.attr
           fresh  == {t \in Triple : attr[t] # NoRule /\ ~Owned(c, t)}
           lapsed == {t \in Triple : attr[t] = NoRule /\ Owned(c, t)} \ c.support
           added  == [c EXCEPT !.derived = Plus(@, OneFor(fresh, 1)),
                               !.pending = Emit(@, fresh, 1, attr)]
           gone   == WithdrawDerivedRows(added, lapsed, c.attr)
           named  == [gone EXCEPT !.attr = attr]
           d == ReplaceRuleRows(c, attr)
           present == {t \in Triple : BasePresence(named, t)}
<1>0. d = ResyncIncrementalState(named)
  BY DEF ReplaceRuleRows
<1>1. c \in CircuitState
  BY DEF WellFormed
<1>2. attr \in AttrMap /\ \A t \in c.support : attr[t] = NoRule
  <2>1. c.support \subseteq Triple
    BY <1>1, StateShape DEF Triple
  <2>2. s.attr \in AttrMap /\ \A t \in Triple : Covered(a, t) => s.attr[t] = NoRule
    BY DEF Recomputed
  <2> QED BY <2>1, <2>2 DEF Covered
<1>3. DOMAIN c = {"asserted", "derived", "extent", "weights", "attr", "support", "closure", "warm",
                  "trace", "pending", "fallback", "sound"} /\ HasBase(c)
  BY <1>1, StateShape DEF HasBase
<1>4. WellFormed(d) /\ d \in CircuitState /\ Keeps(c, d)
  BY <1>2, <1>3, ReplaceRuleRowsMoves, ReplaceRuleRowsKeeps DEF Moves, WellFormed
<1> HIDE DEF attr, fresh, lapsed
<1>5. added.sound = c.sound /\ DOMAIN added = DOMAIN c
  BY <1>3
<1> HIDE DEF added
<1>6. gone.sound = c.sound /\ DOMAIN gone = DOMAIN c
  BY <1>3, <1>5 DEF WithdrawDerivedRows
<1> HIDE DEF gone
<1>7. named.sound = c.sound /\ named.attr = attr /\ DOMAIN named = DOMAIN c
  BY <1>3, <1>6
<1> HIDE DEF named
<1>8. /\ d.sound = c.sound /\ d.attr = attr
      /\ d.asserted = named.asserted /\ d.derived = named.derived
      /\ d.extent = OneFor(present, 1) /\ ~d.warm
      /\ d.weights = [t \in Triple |-> [r \in Rule |->
                        Cardinality({i \in InstancesOf[t][r] : Derives(i, present)})]]
  BY <1>0, <1>3, <1>7 DEF ResyncIncrementalState, Tabulated
<1> HIDE DEF d
<1>9. \A t \in Triple : t \in present <=> BasePresence(d, t)
  BY <1>8 DEF BasePresence
<1>10. present \subseteq Triple
  OBVIOUS
<1> HIDE DEF present
<1>11. /\ \A t \in Triple : d.extent[t] = IF t \in present THEN 1 ELSE 0
       /\ In(d.extent) = present
  <2>1. \A t \in Triple : d.extent[t] = IF t \in present THEN 1 ELSE 0
    BY <1>8 DEF OneFor
  <2> QED BY <1>10, <2>1 DEF In
<1>12. Recounted(d)
  <2>1. \A t \in Triple, r \in Rule : d.weights[t][r] = Cardinality(DerivedBy(InstancesOf[t][r], present))
    BY <1>8 DEF DerivedBy
  <2> QED BY <1>8, <1>11, <2>1 DEF Recounted, Unit
<1>13. Noted(d, EmptyZset)
  <2> SUFFICES ASSUME NEW t \in Triple PROVE d.extent[t] + EmptyZset[t] = One(BasePresence(d, t))
    BY DEF Noted
  <2>1. EmptyZset[t] = 0
    BY DEF EmptyZset
  <2> QED BY <1>9, <1>11, <2>1 DEF One
<1>14. ASSUME NEW t \in Triple PROVE t \in present <=> t \in s.rows
  <2>1. t \in s.rows <=> Covered(a, t) \/ attr[t] # NoRule
    BY DEF Recomputed, attr
  <2>2. d.asserted = c.asserted /\ d.support = c.support
    BY <1>4 DEF Keeps, KeepsBase
  <2>3. d.derived[t] = IF Owned(d, t) \/ t \in d.support THEN 1 ELSE 0
    BY <1>4 DEF WellFormed, Owners
  <2>4. Owned(d, t) <=> attr[t] # NoRule
    BY <1>8 DEF Owned
  <2> QED BY <1>9, <2>1, <2>2, <2>3, <2>4 DEF BasePresence, Covered
<1>15. present = s.rows
  <2>1. s.rows \subseteq Triple
    BY DEF Recomputed
  <2> QED BY <1>10, <1>14, <2>1
<1>16. Owning(d)
  <2> SUFFICES ASSUME NEW t \in Triple, Owned(d, t) PROVE d.weights[t][d.attr[t]] > 0
    BY DEF Owning
  <2>1. d.attr[t] = attr[t] /\ d.attr[t] \in Rule
    BY <1>4, <1>8, Attributed DEF Owned
  <2>2. PICK i \in Instance : i.head = t /\ i.rule = d.attr[t] /\ Derives(i, s.rows)
    BY <2>1, RuleAssumption DEF Recomputed, attr, NoRule
  <2>3. Derives(i, In(d.extent))
    BY <1>11, <1>15, <2>2
  <2> QED BY <1>4, <1>12, <2>1, <2>2, <2>3, WeightMeans
<1>17. ASSUME Closes(s.rows) PROVE Filled(d)
  <2> SUFFICES ASSUME NEW t \in Triple, TotalWeight(d, t) > 0 PROVE d.extent[t] > 0
    BY DEF Filled
  <2>1. PICK i \in Instance : i.head = t /\ Derives(i, In(d.extent))
    BY <1>4, <1>12, WeightMeans
  <2>2. t \in present
    BY <1>11, <1>15, <1>17, <2>1 DEF Closes
  <2> QED BY <1>11, <2>2
<1>18. WellFormed(d) /\ Exact(d) /\ d.sound = c.sound
  BY <1>4, <1>8, <1>12, <1>13, <1>16 DEF Exact
<1>19. \A t \in Triple : BasePresence(d, t) <=> t \in s.rows
  BY <1>9, <1>15
<1> QED BY <1>4, <1>17, <1>18, <1>19 DEF d, attr

\* RecomputeRules: a recompute that converged leaves no derivable row out, one
\* that did not is an assertion that fails, and no row is present that the
\* covered rows do not entail.
LEMMA RecomputeRulesExact ==
    ASSUME NEW c, WellFormed(c)
    PROVE  LET d == RecomputeRules(c)
           IN  /\ WellFormed(d) /\ Exact(d) /\ d.asserted = c.asserted /\ d.support = c.support
               /\ d.sound => c.sound /\ Filled(d)
               /\ \A X : Closes(X) /\ CoveredIn(c, X) => Within(d, X)
               /\ MaxRounds >= Cardinality(Triple) => d.sound = c.sound
<1> DEFINE found == RecomputeRuleClosure(c)
           b     == Check(c, found.converged)
           d     == RecomputeRules(c)
<1>1. c \in CircuitState
  BY DEF WellFormed
<1>2. /\ found.converged \in BOOLEAN
      /\ MaxRounds >= Cardinality(Triple) => found.converged
      /\ \E s \in Recomputed(c) : found.attr = s.attr /\ (found.converged => Closes(s.rows))
  BY <1>1, RecomputedDerives
<1>3. PICK s \in Recomputed(c) : found.attr = s.attr /\ (found.converged => Closes(s.rows))
  BY <1>2
<1>4. d = ReplaceRuleRows(b, found.attr)
  BY DEF RecomputeRules
<1> HIDE DEF found, d
<1>5. /\ WellFormed(b) /\ SameRows(c, b) /\ Beside(c, b) /\ b.sound = (c.sound /\ found.converged)
  BY <1>2, Checked
<1> HIDE DEF b
<1>6. c.asserted = b.asserted /\ c.support = b.support
  BY <1>5 DEF SameRows, Beside
<1>7. /\ WellFormed(d) /\ Keeps(b, d) /\ Exact(d) /\ d.sound = b.sound
      /\ \A t \in Triple : BasePresence(d, t) <=> t \in s.rows
      /\ Closes(s.rows) => Filled(d)
  BY <1>3, <1>4, <1>5, <1>6, ReplacedExact
<1>8. \A X : Closes(X) /\ CoveredIn(c, X) => Within(d, X)
  <2>1. \A X : Closes(X) /\ CoveredIn(c, X) => s.rows \subseteq X
    BY DEF Recomputed
  <2> QED BY <1>7, <2>1 DEF Within
<1>9. d.asserted = c.asserted /\ d.support = c.support
  BY <1>6, <1>7 DEF Keeps, KeepsBase
<1>10. d.sound => c.sound /\ found.converged
  BY <1>5, <1>7
<1>11. c.sound \in BOOLEAN
  BY <1>1, StateShape
<1>12. MaxRounds >= Cardinality(Triple) => d.sound = c.sound
  BY <1>2, <1>5, <1>7, <1>11
<1> QED BY <1>3, <1>7, <1>8, <1>9, <1>10, <1>12 DEF d

-----------------------------------------------------------------------------
(* A tick.                                                                   *)

\* A circuit that a tick has merged its records into, and not done more to.
Merged(c, m) ==
    /\ WellFormed(m)
    /\ m.derived = c.derived /\ m.extent = c.extent /\ m.weights = c.weights /\ m.attr = c.attr
    /\ m.support = c.support /\ m.closure = c.closure
    /\ m.warm = c.warm /\ m.trace = c.trace /\ m.sound = c.sound /\ m.fallback = c.fallback
    /\ m.pending = NoEmission

FlippedRows(c, m) == {t \in Triple : (c.asserted[t] > 0) # (m.asserted[t] > 0)}

LEMMA MergedHolds ==
    ASSUME NEW c, WellFormed(c), Exact(c), NEW m, Merged(c, m)
    PROVE  /\ Recounted(m) /\ Owning(m) /\ OwnedIn(m)
           /\ Filled(c) => Filled(m)
           /\ NotePresenceChange(m, FlippedRows(c, m), EmptyZset) \in Zset
           /\ Noted(m, NotePresenceChange(m, FlippedRows(c, m), EmptyZset))
<1>1. c \in CircuitState /\ Owners(c) /\ m \in CircuitState /\ Owners(m)
  BY DEF Merged, WellFormed
<1>2. Recounted(m) /\ Owning(m) /\ \A t \in Triple : TotalWeight(m, t) = TotalWeight(c, t)
  BY DEF Exact, Merged, Recounted, Owning, Owned, TotalWeight
<1>3. EmptyZset \in Zset
  BY EmptySum
<1>4. \A t \in Triple : c.extent[t] = One(BasePresence(c, t))
  BY <1>1, FullFilled DEF Exact
<1>5. OwnedIn(m)
  <2> SUFFICES ASSUME NEW t \in Triple, Owned(m, t) PROVE m.extent[t] > 0
    BY DEF OwnedIn
  <2>1. c.derived[t] = 1
    BY <1>1 DEF Owners, Owned, Merged
  <2> QED BY <1>4, <2>1 DEF BasePresence, One, Merged
<1>6. Filled(c) => Filled(m)
  BY <1>2 DEF Filled, Merged
<1>7. \A t \in Triple : t \notin FlippedRows(c, m) => (BasePresence(m, t) <=> BasePresence(c, t))
  BY DEF FlippedRows, BasePresence, Merged
<1>8. m.extent = c.extent /\ Noted(c, EmptyZset)
  BY DEF Merged, Exact
<1>9. Noted(m, NotePresenceChange(m, FlippedRows(c, m), EmptyZset))
  BY <1>1, <1>3, <1>7, <1>8, NoteFollows
<1>10. NotePresenceChange(m, FlippedRows(c, m), EmptyZset) \in Zset
  BY <1>3, NoteTyped
<1> QED BY <1>2, <1>5, <1>6, <1>9, <1>10

\* The closure passes of a tick, up to where the rules start.
ClosurePart(m, flipped, ins, del, retracts) ==
    LET noted == NotePresenceChange(m, flipped, EmptyZset)
        cut   == IF retracts THEN ClosureRetractPass(m, del, noted)
                 ELSE [circuit |-> m, delta |-> noted, orphans |-> {}]
    IN  [pass |-> ClosureInsertionPass(cut.circuit, ins, cut.delta), orphans |-> cut.orphans]

LEMMA ClosurePartHolds ==
    ASSUME NEW c, WellFormed(c), Exact(c), NEW m, Merged(c, m),
           NEW ins \in SUBSET EdgeTriple, NEW del \in SUBSET EdgeTriple, NEW retracts
    PROVE  LET part == ClosurePart(m, FlippedRows(c, m), ins, del, retracts)
               grown == part.pass
               d == grown.circuit
           IN  /\ UnifiedPath(m, FlippedRows(c, m), ins, del, retracts) =
                     RunRules(d, OrphanReseed(d, part.orphans, grown.delta))
               /\ Moves(m, d) /\ Carried(m, d) /\ grown.delta \in Zset /\ Noted(d, grown.delta)
               /\ Recounted(d) /\ Owning(d) /\ OwnedIn(d) /\ (Filled(c) => Filled(d))
               /\ d.fallback = m.fallback
<1> DEFINE flipped == FlippedRows(c, m)
           noted == NotePresenceChange(m, flipped, EmptyZset)
           cut   == IF retracts THEN ClosureRetractPass(m, del, noted)
                    ELSE [circuit |-> m, delta |-> noted, orphans |-> {}]
           grown == ClosureInsertionPass(cut.circuit, ins, cut.delta)
           d     == grown.circuit
<1>1. /\ UnifiedPath(m, flipped, ins, del, retracts) = RunRules(d, OrphanReseed(d, cut.orphans, grown.delta))
      /\ ClosurePart(m, flipped, ins, del, retracts) = [pass |-> grown, orphans |-> cut.orphans]
  BY DEF UnifiedPath, InsertionsAndRules, RulesAfterClosure, ClosurePart
<1>2. WellFormed(m) /\ m \in CircuitState
  BY DEF Merged, WellFormed
<1>3. /\ Recounted(m) /\ Owning(m) /\ OwnedIn(m) /\ (Filled(c) => Filled(m))
      /\ noted \in Zset /\ Noted(m, noted)
  BY MergedHolds
<1> HIDE DEF noted, flipped
<1>4. /\ Moves(m, cut.circuit) /\ Carried(m, cut.circuit) /\ cut.circuit.fallback = m.fallback
      /\ cut.delta \in Zset /\ Noted(cut.circuit, cut.delta)
  <2>1. CASE retracts
    <3>1. cut = ClosureRetractPass(m, del, noted)
      BY <2>1
    <3> HIDE DEF cut
    <3> QED BY <1>2, <1>3, <3>1, ClosurePassesMove, ClosurePassesNote
  <2>2. CASE ~retracts
    <3>1. cut.circuit = m /\ cut.delta = noted
      BY <2>2
    <3>2. Moves(m, m)
      BY <1>2, SameRowsMove DEF SameRows
    <3> HIDE DEF cut
    <3> QED BY <1>2, <1>3, <3>1, <3>2 DEF Carried
  <2> QED BY <2>1, <2>2
<1> HIDE DEF cut
<1>5. WellFormed(cut.circuit)
  BY <1>4 DEF Moves
<1>6. /\ Moves(cut.circuit, d) /\ Carried(cut.circuit, d) /\ d.fallback = cut.circuit.fallback
      /\ grown.delta \in Zset /\ Noted(d, grown.delta)
  BY <1>4, <1>5, ClosurePassesMove, ClosurePassesNote
<1> HIDE DEF grown
<1>7. Moves(m, d) /\ Carried(m, d) /\ d.fallback = m.fallback
  BY <1>2, <1>4, <1>6, MovesOn, CarriedOn
<1>8. Recounted(d) /\ Owning(d) /\ \A t \in Triple : TotalWeight(d, t) = TotalWeight(m, t)
  BY <1>3, <1>7, CarriedHolds
<1>9. OwnedIn(d) /\ (Filled(c) => Filled(d))
  BY <1>3, <1>7, <1>8 DEF OwnedIn, Filled, Carried, Owned
<1> QED BY <1>1, <1>6, <1>7, <1>8, <1>9 DEF flipped

LEMMA UnifiedPathExact ==
    ASSUME NEW c, WellFormed(c), Exact(c), NEW m, Merged(c, m),
           NEW ins \in SUBSET EdgeTriple, NEW del \in SUBSET EdgeTriple, NEW retracts
    PROVE  LET d == UnifiedPath(m, FlippedRows(c, m), ins, del, retracts)
           IN  /\ d.sound => c.sound /\ Exact(d)
               /\ d.sound /\ Filled(c) => Filled(d)
               /\ MaxRounds >= Cardinality(Triple) /\ Filled(c) => d.sound = c.sound
<1> DEFINE part  == ClosurePart(m, FlippedRows(c, m), ins, del, retracts)
           grown == part.pass
           e     == grown.circuit
           d     == UnifiedPath(m, FlippedRows(c, m), ins, del, retracts)
<1>1. /\ d = RunRules(e, OrphanReseed(e, part.orphans, grown.delta))
      /\ Moves(m, e) /\ Carried(m, e) /\ grown.delta \in Zset /\ Noted(e, grown.delta)
      /\ Recounted(e) /\ Owning(e) /\ OwnedIn(e) /\ (Filled(c) => Filled(e))
  BY ClosurePartHolds
<1> HIDE DEF part, d
<1>2. WellFormed(e) /\ e.sound = c.sound
  BY <1>1 DEF Moves, Carried, Merged
<1>3. /\ d.sound => e.sound /\ Exact(d)
      /\ d.sound /\ Filled(e) => Filled(d)
      /\ MaxRounds >= Cardinality(Triple) /\ Filled(e) => d.sound = e.sound
  BY <1>1, <1>2, RunRulesExact
<1> QED BY <1>1, <1>2, <1>3 DEF d

LEMMA RecomputeFallbackExact ==
    ASSUME NEW m, WellFormed(m), NEW ins \in SUBSET EdgeTriple, NEW del \in SUBSET EdgeTriple
    PROVE  LET d == RecomputeFallback(m, ins, del)
           IN  /\ Exact(d)
               /\ d.sound => m.sound /\ Filled(d)
               /\ \A X : Closes(X) /\ CoveredIn(d, X) => Within(d, X)
<1> DEFINE cut   == ClosureRetractPass(m, del, EmptyZset).circuit
           grown == ClosureInsertionPass(cut, ins, EmptyZset).circuit
<1>1. EmptyZset \in Zset /\ RecomputeFallback(m, ins, del) = RecomputeRules(grown)
  BY EmptySum DEF RecomputeFallback
<1>2. \A x : WellFormed(x) => HasBase(x)
  BY StateShape DEF WellFormed, HasBase
<1>3. WellFormed(cut) /\ KeepsBase(m, cut)
  BY <1>1, <1>2, ClosurePassesMove, ClosurePassesKeep DEF Moves
<1> HIDE DEF cut
<1>4. WellFormed(grown) /\ KeepsBase(cut, grown)
  BY <1>1, <1>2, <1>3, ClosurePassesMove, ClosurePassesKeep DEF Moves
<1> HIDE DEF grown
<1> DEFINE d == RecomputeRules(grown)
<1>5. /\ Exact(d) /\ d.asserted = grown.asserted /\ d.support = grown.support
      /\ d.sound => grown.sound /\ Filled(d)
      /\ \A X : Closes(X) /\ CoveredIn(grown, X) => Within(d, X)
  BY <1>4, RecomputeRulesExact
<1>6. d.sound => m.sound
  BY <1>3, <1>4, <1>5 DEF KeepsBase
<1> HIDE DEF d
<1>7. \A X : CoveredIn(d, X) => CoveredIn(grown, X)
  BY <1>5 DEF CoveredIn, Covered
<1> QED BY <1>1, <1>5, <1>6, <1>7 DEF d

LEMMA TickMerges ==
    ASSUME NEW c, WellFormed(c), NEW delta \in Zset
    PROVE  LET m == [c EXCEPT !.asserted = Plus(@, delta), !.pending = NoEmission]
           IN  Merged(c, m) /\ m.asserted = Plus(c.asserted, delta)
<1> DEFINE m == [c EXCEPT !.asserted = Plus(@, delta), !.pending = NoEmission]
<1>1. c.asserted \in Zset /\ c \in CircuitState /\ Plus(c.asserted, delta) \in Zset /\ NoEmission \in Emission
  BY StateShape, PlusAt DEF WellFormed, NoEmission, Emission
<1>2. /\ m \in CircuitState /\ m.derived = c.derived /\ m.extent = c.extent /\ m.weights = c.weights
      /\ m.attr = c.attr /\ m.support = c.support /\ m.closure = c.closure /\ m.warm = c.warm
      /\ m.trace = c.trace /\ m.sound = c.sound /\ m.fallback = c.fallback
      /\ m.pending = NoEmission /\ m.asserted = Plus(c.asserted, delta)
  BY <1>1, StateShape
<1> HIDE DEF m
<1>3. WellFormed(m)
  BY <1>2 DEF WellFormed, Owners, Owned
<1> QED BY <1>2, <1>3 DEF Merged, m

\* Circuit::tick, whatever its records: if no assertion failed, extent, weights
\* and traces after it are what a recount over the rows gives, the extent has
\* what either base has, and a rule that owns a row derives it; and every row with
\* a derivation stays present.
THEOREM TickExact ==
    ASSUME NEW c, WellFormed(c), Exact(c), NEW records, NetDelta(records) \in Zset
    PROVE  LET d == Tick(c, records)
           IN  /\ d.sound => c.sound /\ Exact(d)
               /\ d.sound /\ Filled(c) => Filled(d)
<1> DEFINE delta    == NetDelta(records)
           merged   == [c EXCEPT !.asserted = Plus(@, delta), !.pending = NoEmission]
           flipped  == {t \in Triple : (c.asserted[t] > 0) # (merged.asserted[t] > 0)}
           insEdges == InsertedEdges(merged, delta)
           delEdges == DeletedEdges(merged, delta)
           retracts == \E n \in DOMAIN records : records[n].mult < 0
           fallen   == RecomputeFallback(merged, insEdges, delEdges)
           unified  == UnifiedPath(merged, flipped, insEdges, delEdges, retracts)
           last     == IF c.fallback /\ retracts THEN fallen ELSE unified
<1>1. Tick(c, records) = NetRecordsChecked(last)
  BY DEF Tick
<1>2. insEdges \in SUBSET EdgeTriple /\ delEdges \in SUBSET EdgeTriple
  BY DEF InsertedEdges, DeletedEdges
<1>3. Merged(c, merged)
  BY TickMerges
<1>4. flipped = FlippedRows(c, merged)
  BY DEF FlippedRows
<1>5. WellFormed(merged) /\ merged.sound = c.sound
  BY <1>3 DEF Merged
<1>6. WellFormed(last)
  <2>1. WellFormed(fallen) /\ WellFormed(unified)
    BY <1>2, <1>5, TickRegimesMove DEF Moves
  <2> QED BY <2>1
<1> HIDE DEF merged, flipped, insEdges, delEdges, retracts
<1>7. /\ unified.sound => c.sound /\ Exact(unified)
      /\ unified.sound /\ Filled(c) => Filled(unified)
  BY <1>2, <1>3, <1>4, UnifiedPathExact
<1>8. fallen.sound => c.sound /\ Exact(fallen) /\ Filled(fallen)
  BY <1>2, <1>5, RecomputeFallbackExact
<1> HIDE DEF fallen, unified
<1>9. /\ last.sound => c.sound /\ Exact(last)
      /\ last.sound /\ Filled(c) => Filled(last)
  BY <1>7, <1>8
<1> HIDE DEF last
<1> DEFINE test == \A t \in Triple, k \in Kind : last.pending[t][k] \in -1 .. 1
           d == Check(last, test)
<1>10. d = Tick(c, records) /\ test \in BOOLEAN
  BY <1>1 DEF NetRecordsChecked
<1> HIDE DEF test
<1>11. SameRows(last, d) /\ Beside(last, d) /\ (d.sound => last.sound)
  BY <1>6, <1>10, Checked
<1> HIDE DEF d
<1>12. (Exact(last) => Exact(d)) /\ (Filled(last) => Filled(d))
  BY <1>11, CheckedHolds DEF Exact
<1> QED BY <1>9, <1>10, <1>11, <1>12

-----------------------------------------------------------------------------
(* What a circuit holds between two ticks.                                   *)

LEMMA ExactIncremental ==
    ASSUME NEW c, WellFormed(c), Exact(c)
    PROVE  IncrementalExact(c) /\ RowsOwned(c)
<1>1. c \in CircuitState /\ c.extent \in Zset /\ Owners(c) /\ Recounted(c) /\ Owning(c)
  BY StateShape DEF WellFormed, Exact
<1>2. \A t \in Triple : c.extent[t] = One(BasePresence(c, t))
  BY <1>1, FullFilled DEF Exact
<1>3. \A t \in Triple : t \in PresentSet(c) <=> BasePresence(c, t)
  BY DEF PresentSet, AssertedSet, DerivedSet, BasePresence
<1>4. PresentSet(c) \subseteq Triple
  BY DEF PresentSet, AssertedSet, DerivedSet
<1>5. c.extent = OneFor(PresentSet(c), 1)
  <2>1. \A t \in Triple : c.extent[t] = OneFor(PresentSet(c), 1)[t]
    BY <1>2, <1>3 DEF OneFor, One
  <2>2. OneFor(PresentSet(c), 1) \in Zset
    BY OneForType
  <2> QED BY <1>1, <2>1, <2>2 DEF Zset
<1>6. In(c.extent) = PresentSet(c)
  BY <1>2, <1>3, <1>4 DEF In, One
<1>7. IncrementalExact(c)
  BY <1>1, <1>5, <1>6 DEF IncrementalExact, Recounted, DerivedBy
<1>8. RowsOwned(c)
  BY <1>1 DEF RowsOwned, Owners, Owning
<1> QED BY <1>7, <1>8

\* The weights of a circuit whose extent is empty.
LEMMA NewCircuitExact ==
    ASSUME NEW fallback \in BOOLEAN
    PROVE  Exact(NewCircuit(fallback)) /\ Filled(NewCircuit(fallback))
<1> DEFINE c == NewCircuit(fallback)
<1>1. /\ c.extent = EmptyZset /\ c.asserted = EmptyZset /\ c.derived = EmptyZset
      /\ c.weights = [t \in Triple |-> [r \in Rule |-> 0]]
      /\ c.attr = [t \in Triple |-> NoRule] /\ c.warm = FALSE
  BY DEF NewCircuit
<1>2. c \in CircuitState
  BY NewCircuitFormed DEF WellFormed
<1> HIDE DEF c
<1>3. In(c.extent) = {}
  BY <1>1 DEF In, EmptyZset
<1>4. \A i \in Instance : ~Derives(i, {})
  BY DerivesAtoms
<1>5. ASSUME NEW t \in Triple, NEW r \in Rule
      PROVE  c.weights[t][r] = Cardinality(DerivedBy(InstancesOf[t][r], In(c.extent)))
  <2>1. InstancesOf[t][r] \subseteq Instance
    BY InstancesFinite
  <2>2. DerivedBy(InstancesOf[t][r], In(c.extent)) = {}
    BY <1>3, <1>4, <2>1 DEF DerivedBy
  <2> QED BY <1>1, <2>2, FS_EmptySet
<1>6. Recounted(c)
  BY <1>1, <1>5 DEF Recounted, Unit, EmptyZset
<1>7. Noted(c, EmptyZset)
  BY <1>1 DEF Noted, EmptyZset, BasePresence, One
<1>8. Owning(c)
  BY <1>1 DEF Owning, Owned
<1>9. Filled(c)
  <2> SUFFICES ASSUME NEW t \in Triple, TotalWeight(c, t) > 0 PROVE FALSE
    BY DEF Filled
  <2>1. \E i \in Instance : i.head = t /\ Derives(i, In(c.extent))
    BY <1>2, <1>6, WeightMeans
  <2> QED BY <1>3, <1>4, <2>1
<1> QED BY <1>6, <1>7, <1>8, <1>9 DEF Exact, c

\* What a circuit holds between two ticks: its plan, and, while no assertion
\* failed, exact counts and no derivable row missing.
Held(c) ==
    /\ WellFormed(c) /\ PlanHolds(c)
    /\ c.sound => Exact(c) /\ Filled(c)

LEMMA NewCircuitHeld ==
    ASSUME NEW fallback \in BOOLEAN
    PROVE  Held(NewCircuit(fallback))
BY NewCircuitFormed, NewCircuitPlan, NewCircuitExact DEF Held

\* Circuit::tick, for every rule set, closure and list of records, in both
\* retraction regimes.
THEOREM TickHeld ==
    ASSUME NEW c, Held(c), NEW X, Summable(X), NEW records \in Seq(X)
    PROVE  Held(Tick(c, records))
<1> DEFINE d == Tick(c, records)
<1>1. NetDelta(records) \in Zset
  BY NetType
<1>2. WellFormed(d) /\ PlanHolds(d)
  BY <1>1, TickMoves, TickPlan DEF Held
<1>3. HasBase(c)
  BY StateShape DEF Held, WellFormed, HasBase
<1>4. d.fallback = c.fallback /\ (d.sound => c.sound)
  BY <1>3, TickAsserts
<1>5. c.sound => (d.sound => Exact(d) /\ Filled(d))
  BY <1>1, TickExact DEF Held
<1> HIDE DEF d
<1>6. Held(d)
  BY <1>2, <1>4, <1>5 DEF Held
<1> QED BY <1>6 DEF d

LEMMA HeldMeans ==
    ASSUME NEW c, Held(c)
    PROVE  /\ ClosurePlanExact(c)
           /\ c.sound => IncrementalExact(c) /\ RowsOwned(c)
BY PlanHoldsExact, ExactIncremental DEF Held

\* Publishing empties the net records, and nothing else.
LEMMA PublishedHeld ==
    ASSUME NEW c, Held(c)
    PROVE  Held([c EXCEPT !.pending = NoEmission])
<1> DEFINE d == [c EXCEPT !.pending = NoEmission]
<1>1. c \in CircuitState /\ NoEmission \in Emission
  BY DEF Held, WellFormed, NoEmission, Emission
<1>2. /\ d \in CircuitState /\ d.asserted = c.asserted /\ d.derived = c.derived
      /\ d.extent = c.extent /\ d.weights = c.weights /\ d.attr = c.attr /\ d.support = c.support
      /\ d.closure = c.closure /\ d.warm = c.warm /\ d.trace = c.trace
      /\ d.sound = c.sound /\ d.fallback = c.fallback
  BY <1>1, StateShape
<1> HIDE DEF d
<1>3. WellFormed(d) /\ PlanHolds(d)
  BY <1>2 DEF Held, WellFormed, Owners, Owned, PlanHolds, SupportHolds, AssertedSet
<1>4. Exact(c) => Exact(d)
  <2>1. Recounted(c) => Recounted(d)
    BY <1>2 DEF Recounted
  <2>2. Noted(c, EmptyZset) => Noted(d, EmptyZset)
    BY <1>2 DEF Noted, BasePresence
  <2>3. Owning(c) => Owning(d)
    BY <1>2 DEF Owning, Owned
  <2> QED BY <2>1, <2>2, <2>3 DEF Exact
<1>5. Filled(c) => Filled(d)
  BY <1>2, SameTotals DEF Filled
<1>6. Held(d)
  BY <1>2, <1>3, <1>4, <1>5 DEF Held
<1> QED BY <1>6 DEF d

-----------------------------------------------------------------------------
(* The net records of a tick.                                                *)

LEMMA EmitAt ==
    ASSUME NEW p, NEW ts, NEW n, NEW kindOf, NEW t \in Triple, NEW k \in Kind
    PROVE  Emit(p, ts, n, kindOf)[t][k] = p[t][k] + (IF t \in ts /\ k = kindOf[t] THEN n ELSE 0)
BY DEF Emit, Tabulated

LEMMA PendingAt ==
    ASSUME NEW c \in CircuitState, NEW t \in Triple, NEW k \in Kind
    PROVE  c.pending[t][k] \in Int
<1>1. c.pending \in Emission
  BY StateShape
<1> QED BY <1>1 DEF Emission

LEMMA KindsSplit ==
    /\ \A k \in Kind : k = ClosureInferred \/ k \in Rule
    /\ \A r \in Rule : r \in Kind /\ r # ClosureInferred /\ r # NoRule
BY RuleAssumption DEF Kind, ClosureInferred, NoRule

\* The pending records of a rule.
RulesQuiet(c) == \A t \in Triple, r \in Rule : c.pending[t][r] = 0
SameRules(c, d) == \A t \in Triple, r \in Rule : d.pending[t][r] = c.pending[t][r]

OfClosure(kindOf) == \A t \in Triple : kindOf[t] = ClosureInferred
LeavesRules(p, q) == \A t \in Triple, r \in Rule : q[t][r] = p[t][r]

\* What the closure publishes is of its own kind.
LEMMA ClosureEmits ==
    ASSUME NEW c \in CircuitState, NEW ts, NEW n \in Int, NEW kindOf, OfClosure(kindOf)
    PROVE  LeavesRules(c.pending, Emit(c.pending, ts, n, kindOf))
<1> SUFFICES ASSUME NEW t \in Triple, NEW r \in Rule
             PROVE  Emit(c.pending, ts, n, kindOf)[t][r] = c.pending[t][r]
  BY DEF LeavesRules
<1>1. r \in Kind /\ r # kindOf[t] /\ c.pending[t][r] \in Int
  BY KindsSplit, PendingAt DEF OfClosure
<1>2. Emit(c.pending, ts, n, kindOf)[t][r] = c.pending[t][r] + (IF t \in ts /\ r = kindOf[t] THEN n ELSE 0)
  BY <1>1, EmitAt
<1> QED BY <1>1, <1>2

LEMMA ClosureWithdrawQuiet ==
    ASSUME NEW c, WellFormed(c), NEW outcome \in Outcomes, NEW delta
    PROVE  SameRules(c, ClosureWithdraw(c, outcome, delta).circuit)
<1> DEFINE withdraw == {Edge(p) : p \in outcome.withdrawn}
           lost     == withdraw \cap c.support
           orphans  == {t \in lost : Owned(c, t)}
           down     == lost \ orphans
           cut      == [c EXCEPT !.closure = outcome.closure, !.support = Listed(@ \ withdraw)]
           kinds    == [t \in Triple |-> ClosureInferred]
           zeroed   == WithdrawDerivedRows(cut, down, kinds)
           promote  == {t \in {Edge(p) : p \in outcome.survived} :
                           t \notin zeroed.support /\ c.asserted[t] <= 0}
           rows     == {t \in promote : zeroed.derived[t] <= 0}
           grown    == MaterializeClosureRows(zeroed, rows)
           done     == [grown EXCEPT !.support = Listed(@ \cup promote)]
<1>0. ClosureWithdraw(c, outcome, delta).circuit = done
  BY DEF ClosureWithdraw
<1>1. c \in CircuitState /\ c.support \in SUBSET EdgeTriple
  BY StateShape DEF WellFormed
<1>2. outcome.closure \in Closure
  BY DEF Outcomes
<1>3. cut \in CircuitState /\ cut.pending = c.pending
  BY <1>1, <1>2, StateShape DEF Listed
<1>4. OfClosure(kinds) /\ \A t \in Triple : kinds[t] \in Kind
  BY KindFinite DEF OfClosure
<1> HIDE DEF withdraw, down, cut, kinds
<1>5. zeroed \in CircuitState
  BY <1>3, <1>4, WithdrawFields
<1>6. zeroed.pending = Emit(cut.pending, down, -1, kinds)
  BY <1>3, StateShape DEF WithdrawDerivedRows
<1> HIDE DEF zeroed, promote, rows
<1>7. grown.pending = Emit(zeroed.pending, rows, 1, [t \in Triple |-> ClosureInferred])
      /\ DOMAIN grown = DOMAIN zeroed
  BY <1>5, StateShape DEF MaterializeClosureRows
<1> HIDE DEF grown
<1>8. done.pending = grown.pending
  BY <1>5, <1>7, StateShape
<1> HIDE DEF done
<1>9. SameRules(c, zeroed)
  <2>1. -1 \in Int
    OBVIOUS
  <2>2. LeavesRules(cut.pending, Emit(cut.pending, down, -1, kinds))
    BY <1>3, <1>4, <2>1, ClosureEmits
  <2> QED BY <1>3, <1>6, <2>2 DEF SameRules, LeavesRules
<1>10. SameRules(zeroed, grown)
  <2> DEFINE k == [t \in Triple |-> ClosureInferred]
  <2>1. OfClosure(k)
    BY DEF OfClosure
  <2>2. grown.pending = Emit(zeroed.pending, rows, 1, k)
    BY <1>7
  <2> HIDE DEF k
  <2>3. LeavesRules(zeroed.pending, Emit(zeroed.pending, rows, 1, k))
    BY <1>5, <2>1, ClosureEmits
  <2> QED BY <2>2, <2>3 DEF SameRules, LeavesRules
<1>11. SameRules(c, done)
  BY <1>8, <1>9, <1>10 DEF SameRules
<1> QED BY <1>0, <1>11

LEMMA ClosurePassesQuiet ==
    ASSUME NEW c, WellFormed(c), NEW edges \in SUBSET EdgeTriple, NEW delta
    PROVE  /\ SameRules(c, ClosureRetractPass(c, edges, delta).circuit)
           /\ SameRules(c, ClosureInsertionPass(c, edges, delta).circuit)
<1> DEFINE ps == {PairOf(t) : t \in edges}
<1>1. c \in CircuitState /\ c.closure \in Closure /\ c.support \in SUBSET EdgeTriple
  BY StateShape DEF WellFormed
<1>2. ps \subseteq Pair /\ IsFiniteSet(ps)
  BY EdgePairs
<1> HIDE DEF ps
<1>3. SameRules(c, ClosureRetractPass(c, edges, delta).circuit)
  <2> DEFINE outcome == DeleteEdges(c.closure, ps)
  <2>1. outcome \in Outcomes
    BY <1>1, <1>2, DeleteEdgesTyped
  <2>2. ClosureRetractPass(c, edges, delta) = ClosureWithdraw(c, outcome, delta)
    BY DEF ClosureRetractPass, ps
  <2> HIDE DEF outcome
  <2> QED BY <2>1, <2>2, ClosureWithdrawQuiet
<1>4. SameRules(c, ClosureInsertionPass(c, edges, delta).circuit)
  <2> DEFINE closure  == InsertEdges(c.closure, ps)
             inferred == {Edge(p) : p \in closure.closed \ c.closure.closed}
             rows     == {t \in inferred : ~BasePresence(c, t)}
             shared   == {t \in inferred : BasePresence(c, t) /\ c.derived[t] # 0}
             made     == MaterializeClosureRows(c, rows)
             done     == [made EXCEPT !.closure = closure, !.support = Listed(@ \cup shared)]
             k        == [t \in Triple |-> ClosureInferred]
  <2>1. ClosureInsertionPass(c, edges, delta).circuit = done
    BY DEF ClosureInsertionPass, ps
  <2> HIDE DEF closure, rows, shared
  <2>2. made.pending = Emit(c.pending, rows, 1, k) /\ DOMAIN made = DOMAIN c
    BY <1>1, StateShape DEF MaterializeClosureRows
  <2>3. OfClosure(k)
    BY DEF OfClosure
  <2> HIDE DEF made, k
  <2>4. done.pending = made.pending
    BY <1>1, <2>2, StateShape
  <2> HIDE DEF done
  <2>5. LeavesRules(c.pending, Emit(c.pending, rows, 1, k))
    BY <1>1, <2>3, ClosureEmits
  <2> QED BY <2>1, <2>2, <2>4, <2>5 DEF SameRules, LeavesRules
<1> QED BY <1>3, <1>4

\* While only the closure has published, a net record is the change of its row.
LEMMA ClosureRecords ==
    ASSUME NEW m, WellFormed(m), m.pending = NoEmission, NEW d, Moves(m, d), SameRules(m, d)
    PROVE  /\ RulesQuiet(d)
           /\ \A t \in Triple : d.pending[t][ClosureInferred] \in -1 .. 1
<1>1. \A t \in Triple, k \in Kind : m.pending[t][k] = 0
  BY DEF NoEmission
<1>2. RulesQuiet(d)
  BY <1>1, KindsSplit DEF RulesQuiet, SameRules
<1>3. WellFormed(d) /\ m \in CircuitState /\ d \in CircuitState /\ d.pending \in Emission
  BY StateShape DEF Moves, WellFormed
<1>4. ASSUME NEW t \in Triple PROVE d.pending[t][ClosureInferred] \in -1 .. 1
  <2> DEFINE f == d.pending[t]
             rest == Kind \ {ClosureInferred}
  <2>1. IsFiniteSet(Kind) /\ ClosureInferred \in Kind /\ Numbers(f, Kind)
    BY <1>3, KindFinite, PendingAt DEF Numbers
  <2>2. rest \subseteq Rule /\ IsFiniteSet(rest)
    BY <2>1, KindsSplit, FS_Subset
  <2>3. \A k \in rest : f[k] = 0
    BY <1>2, <2>2 DEF RulesQuiet
  <2>4. SumOf(m.pending[t], Kind) = 0
    BY <1>1, KindFinite, SumZero
  <2> HIDE DEF f, rest
  <2>5. SumOf(f, rest) = 0
    BY <2>2, <2>3, SumZero
  <2>6. SumOf(f, Kind) = f[ClosureInferred] + SumOf(f, rest)
    BY <2>1, SumTake DEF rest
  <2>7. f[ClosureInferred] \in Int
    BY <2>1 DEF Numbers
  <2>8. Reported(d, t) = f[ClosureInferred] /\ Reported(m, t) = 0
    BY <2>4, <2>5, <2>6, <2>7 DEF Reported, f
  <2>9. Reported(d, t) + m.derived[t] = Reported(m, t) + d.derived[t]
    BY DEF Moves, Tells
  <2>10. m.derived[t] \in {0, 1} /\ d.derived[t] \in {0, 1}
    BY <1>3 DEF WellFormed, Owners
  <2>11. f[ClosureInferred] \in -1 .. 1
    BY <2>7, <2>8, <2>9, <2>10
  <2> QED BY <2>11 DEF f
<1> QED BY <1>2, <1>4

-----------------------------------------------------------------------------
(* What the rules publish.                                                   *)

\* Each net record is +1, -1 or nothing.
Units(c) == \A t \in Triple, k \in Kind : c.pending[t][k] \in -1 .. 1
ClosureUnits(c) == \A t \in Triple : c.pending[t][ClosureInferred] \in -1 .. 1

\* Since c, the rules have published insertions only, and kept their rows.
OnlyAdds(c, d) ==
    \A t \in Triple :
        /\ d.pending[t][ClosureInferred] = c.pending[t][ClosureInferred]
        /\ Owned(c, t) => Owned(d, t)
        /\ \A r \in Rule : /\ d.pending[t][r] \in {0, 1}
                           /\ d.derived[t] = 0 => d.pending[t][r] = 0

LEMMA AddsUnits ==
    ASSUME NEW c, ClosureUnits(c), NEW d, OnlyAdds(c, d)
    PROVE  Units(d)
<1> SUFFICES ASSUME NEW t \in Triple, NEW k \in Kind PROVE d.pending[t][k] \in -1 .. 1
  BY DEF Units
<1>1. k = ClosureInferred \/ k \in Rule
  BY KindsSplit
<1>2. d.pending[t][ClosureInferred] \in -1 .. 1
  BY DEF OnlyAdds, ClosureUnits
<1>3. \A r \in Rule : d.pending[t][r] \in -1 .. 1
  BY DEF OnlyAdds
<1> QED BY <1>1, <1>2, <1>3

LEMMA RuleRowsEmit ==
    ASSUME NEW c \in CircuitState, NEW ts
    PROVE  LET d == MaterializeRuleRows(c, ts)
           IN  \A t \in Triple, k \in Kind :
                 d.pending[t][k] = c.pending[t][k] + (IF t \in ts /\ k = FirstAttrRule(c, t) THEN 1 ELSE 0)
<1> DEFINE kinds == [t \in Triple |-> FirstAttrRule(c, t)]
<1>1. MaterializeRuleRows(c, ts).pending = Emit(c.pending, ts, 1, kinds)
  BY StateShape DEF MaterializeRuleRows
<1>2. \A t \in Triple : kinds[t] = FirstAttrRule(c, t)
  OBVIOUS
<1> HIDE DEF kinds
<1> SUFFICES ASSUME NEW t \in Triple, NEW k \in Kind
             PROVE  Emit(c.pending, ts, 1, kinds)[t][k] =
                       c.pending[t][k] + (IF t \in ts /\ k = FirstAttrRule(c, t) THEN 1 ELSE 0)
  BY <1>1
<1> QED BY <1>2, EmitAt

LEMMA RuleRowsAdd ==
    ASSUME NEW c, NEW d, WellFormed(d), OnlyAdds(c, d), NEW ts,
           \A t \in ts \cap Triple : FirstAttrRule(d, t) \in Rule /\ d.derived[t] = 0
    PROVE  OnlyAdds(c, MaterializeRuleRows(d, ts))
<1> DEFINE e == MaterializeRuleRows(d, ts)
<1>1. d \in CircuitState
  BY DEF WellFormed
<1>2. \A t \in Triple, k \in Kind :
         e.pending[t][k] = d.pending[t][k] + (IF t \in ts /\ k = FirstAttrRule(d, t) THEN 1 ELSE 0)
  BY <1>1, RuleRowsEmit
<1>3. \A t \in Triple : /\ e.derived[t] = d.derived[t] + (IF t \in ts THEN 1 ELSE 0)
                        /\ e.attr[t] = IF t \in ts THEN FirstAttrRule(d, t) ELSE d.attr[t]
  BY <1>1, RuleRowsFields
<1> HIDE DEF e
<1>4. ASSUME NEW t \in Triple
      PROVE  e.pending[t][ClosureInferred] = c.pending[t][ClosureInferred]
  <2>1. ClosureInferred \in Kind /\ (t \in ts => ClosureInferred # FirstAttrRule(d, t))
    BY KindFinite, KindsSplit
  <2>2. d.pending[t][ClosureInferred] = c.pending[t][ClosureInferred]
    BY DEF OnlyAdds
  <2>3. d.pending[t][ClosureInferred] \in Int
    BY <1>1, <2>1, PendingAt
  <2> QED BY <1>2, <2>1, <2>2, <2>3
<1>5. ASSUME NEW t \in Triple, NEW r \in Rule
      PROVE  e.pending[t][r] \in {0, 1} /\ (e.derived[t] = 0 => e.pending[t][r] = 0)
  <2>1. d.pending[t][r] \in {0, 1} /\ (d.derived[t] = 0 => d.pending[t][r] = 0) /\ d.derived[t] \in Int
    BY <1>1, ReportedType DEF OnlyAdds
  <2>2. e.pending[t][r] = d.pending[t][r] + (IF t \in ts /\ r = FirstAttrRule(d, t) THEN 1 ELSE 0)
    BY <1>2, KindsSplit
  <2>3. e.derived[t] = d.derived[t] + (IF t \in ts THEN 1 ELSE 0)
    BY <1>3
  <2>4. t \in ts => d.derived[t] = 0
    OBVIOUS
  <2> QED BY <2>1, <2>2, <2>3, <2>4
<1>6. ASSUME NEW t \in Triple, Owned(c, t) PROVE Owned(e, t)
  <2>1. Owned(d, t)
    BY <1>6 DEF OnlyAdds
  <2>2. t \in ts => FirstAttrRule(d, t) # NoRule
    BY KindsSplit
  <2> QED BY <1>3, <2>1, <2>2 DEF Owned
<1> QED BY <1>4, <1>5, <1>6 DEF OnlyAdds, e

LEMMA InsertionSettleAdds ==
    ASSUME NEW c, WellFormed(c), NEW s \in InsertionStates(c), OnlyAdds(c, s.circuit)
    PROVE  OnlyAdds(c, InsertionSettle(s, FixpointRound(s.circuit, s.delta)).circuit)
<1> DEFINE b    == s.circuit
           d    == FixpointRound(b, s.delta)
           cond == NoneBelowZero(b, d) /\ Grew(b, d)
           e    == Check(d, cond)
           rows == {t \in Crossed(b, d) : d.asserted[t] <= 0 /\ d.derived[t] = 0}
           done == MaterializeRuleRows(e, rows)
<1>1. WellFormed(b) /\ s.delta \in Zset
  BY DEF InsertionStates, Moves
<1>2. InsertionSettle(s, d).circuit = done
  BY DEF InsertionSettle
<1>3. OnlyAdds(c, b)
  OBVIOUS
<1> HIDE DEF b
<1>4. SameRows(b, d) /\ WellFormed(d)
  BY <1>1, RoundMoves DEF Moves
<1> HIDE DEF d
<1>5. WellFormed(e) /\ SameRows(d, e) /\ Beside(d, e)
  BY <1>4, CheckMoves DEF Moves
<1>6. \A t \in rows \cap Triple : FirstAttrRule(e, t) \in Rule /\ e.derived[t] = 0
  <2>1. d.weights \in Weighing
    BY <1>4, StateShape DEF WellFormed
  <2>2. \A t \in rows \cap Triple : TotalWeight(d, t) > 0 /\ d.derived[t] = 0
    BY DEF Crossed
  <2>3. \A t \in rows \cap Triple : FirstAttrRule(d, t) \in Rule
    <3> HIDE DEF rows
    <3> QED BY <2>1, <2>2, FirstRule
  <2>4. \A t : FirstAttrRule(e, t) = FirstAttrRule(d, t)
    BY <1>5 DEF FirstAttrRule, Beside
  <2> HIDE DEF rows, e
  <2> QED BY <1>5, <2>2, <2>3, <2>4 DEF SameRows
<1> HIDE DEF e, rows
<1>7. OnlyAdds(c, e)
  BY <1>3, <1>4, <1>5 DEF OnlyAdds, SameRows, Owned
<1>8. OnlyAdds(c, done)
  BY <1>5, <1>6, <1>7, RuleRowsAdd
<1> QED BY <1>2, <1>8 DEF d, b

LEMMA InsertionUnits ==
    ASSUME NEW c, WellFormed(c), RulesQuiet(c), ClosureUnits(c), NEW delta \in Zset
    PROVE  LET d == InsertionFixpoint(c, delta)
           IN  Units(d) /\ \A t \in Triple : Owned(c, t) => Owned(d, t)
<1> DEFINE start == [circuit |-> c, delta |-> delta]
           V == {s \in InsertionStates(c) : OnlyAdds(c, s.circuit)}
<1>0. OnlyAdds(c, c)
  BY DEF OnlyAdds, RulesQuiet
<1>1. start \in V
  <2>1. c \in CircuitState
    BY DEF WellFormed
  <2>2. Moves(c, c)
    BY <2>1, SameRowsMove DEF SameRows
  <2>3. start.circuit = c
    OBVIOUS
  <2>4. start \in InsertionStates(c)
    <3> HIDE DEF Zset
    <3> QED BY <2>1, <2>2 DEF InsertionStates
  <2> HIDE DEF start
  <2> QED BY <1>0, <2>3, <2>4
<1>2. \A s \in V : InsertionSettle(s, FixpointRound(s.circuit, s.delta)) \in V
  BY InsertionSettleMoves, InsertionSettleAdds
<1>3. \A s \in V : s \in InsertionStates(c) /\ OnlyAdds(c, s.circuit)
  OBVIOUS
<1> HIDE DEF start, V
<1>4. \E last \in V : InsertionEnd(start) =
                        [last EXCEPT !.circuit = Check(@, last.delta = EmptyZset)]
  BY <1>1, <1>2, InsertionRun
<1>5. PICK last \in V : InsertionEnd(start) =
                          [last EXCEPT !.circuit = Check(@, last.delta = EmptyZset)]
  BY <1>4
<1>6. /\ WellFormed(last.circuit) /\ OnlyAdds(c, last.circuit)
      /\ last \in [circuit : CircuitState, delta : Zset]
  BY <1>3, <1>5 DEF InsertionStates, Moves
<1> DEFINE e == Check(last.circuit, last.delta = EmptyZset)
<1>7. InsertionFixpoint(c, delta) = e
  BY <1>5, <1>6 DEF InsertionFixpoint, InsertionEnd, start
<1>8. SameRows(last.circuit, e)
  BY <1>6, CheckMoves
<1> HIDE DEF e
<1>9. OnlyAdds(c, e)
  BY <1>6, <1>8 DEF OnlyAdds, SameRows, Owned
<1> QED BY <1>7, <1>9, AddsUnits DEF OnlyAdds

NamesRules(kindOf, ts) == \A t \in ts \cap Triple : kindOf[t] \in Rule

\* One pass of additions and one of withdrawals, of different rows.
LEMMA PassesUnits ==
    ASSUME NEW c \in CircuitState, RulesQuiet(c), ClosureUnits(c),
           NEW fresh, NEW gone, fresh \cap gone = {}, NEW k1, NEW k2, NamesRules(k1, fresh), NamesRules(k2, gone)
    PROVE  \A t \in Triple, k \in Kind :
              Emit(Emit(c.pending, fresh, 1, k1), gone, -1, k2)[t][k] \in -1 .. 1
<1> SUFFICES ASSUME NEW t \in Triple, NEW k \in Kind
             PROVE  Emit(Emit(c.pending, fresh, 1, k1), gone, -1, k2)[t][k] \in -1 .. 1
  OBVIOUS
<1> DEFINE p == c.pending[t][k]
           q == Emit(c.pending, fresh, 1, k1)[t][k]
           r == Emit(Emit(c.pending, fresh, 1, k1), gone, -1, k2)[t][k]
<1>1. q = p + (IF t \in fresh /\ k = k1[t] THEN 1 ELSE 0)
  BY EmitAt
<1>2. r = q + (IF t \in gone /\ k = k2[t] THEN -1 ELSE 0)
  BY EmitAt
<1>3. k = ClosureInferred \/ k \in Rule
  BY KindsSplit
<1>4. k = ClosureInferred => p \in -1 .. 1 /\ ~(t \in fresh /\ k = k1[t]) /\ ~(t \in gone /\ k = k2[t])
  BY KindsSplit DEF ClosureUnits, NamesRules
<1>5. k \in Rule => p = 0
  BY DEF RulesQuiet
<1>6. ~(t \in fresh /\ t \in gone)
  OBVIOUS
<1> HIDE DEF p, q, r
<1>7. CASE k = ClosureInferred
  BY <1>1, <1>2, <1>4, <1>7 DEF r
<1>8. CASE k \in Rule
  <2>1. r \in -1 .. 1
    BY <1>1, <1>2, <1>5, <1>6, <1>8
  <2> QED BY <2>1 DEF r
<1> QED BY <1>3, <1>7, <1>8

LEMMA NetTransitionsUnits ==
    ASSUME NEW c, WellFormed(c), RulesQuiet(c), ClosureUnits(c), NEW touched \in SUBSET Triple
    PROVE  Units(NetTransitions(c, touched))
<1> DEFINE covered == {t \in touched : c.asserted[t] > 0 \/ t \in c.support}
           should   == {t \in touched : /\ TotalWeight(c, t) > 0
                                        /\ c.extent[t] > 0
                                        /\ Owned(c, t) \/ t \notin covered}
           kept     == {t \in should : Owned(c, t)}
           fresh    == should \ kept
           lapsed   == {t \in touched \ should : Owned(c, t)}
           test     == /\ \A t \in touched : TotalWeight(c, t) <= 0 \/ c.extent[t] > 0
                       /\ \A t \in fresh : c.derived[t] = 0
           checked  == Check(c, test)
           names    == [t \in Triple |-> IF t \in kept THEN FirstAttrRule(c, t) ELSE checked.attr[t]]
           renamed  == [checked EXCEPT !.attr = names]
           added    == MaterializeRuleRows(renamed, fresh)
           ts       == lapsed \ c.support
           gone     == WithdrawDerivedRows(added, ts, c.attr)
           left     == [t \in Triple |-> IF t \in lapsed THEN NoRule ELSE gone.attr[t]]
           done     == [gone EXCEPT !.attr = left]
           kinds    == [t \in Triple |-> FirstAttrRule(renamed, t)]
<1>0. NetTransitions(c, touched) = done
  BY DEF NetTransitions
<1>1. c \in CircuitState /\ c.weights \in Weighing
  BY StateShape DEF WellFormed
<1>2. /\ \A t \in fresh : t \in Triple /\ ~Owned(c, t) /\ TotalWeight(c, t) > 0
      /\ \A t \in lapsed : t \in Triple /\ Owned(c, t)
      /\ test \in BOOLEAN
  OBVIOUS
<1> HIDE DEF kept, fresh, lapsed, should, covered, test
<1>3. checked.pending = c.pending /\ checked.weights = c.weights /\ DOMAIN checked = DOMAIN c
  BY <1>1, StateShape DEF Check
<1> HIDE DEF checked, names
<1>4. renamed.pending = c.pending /\ renamed.weights = c.weights /\ DOMAIN renamed = DOMAIN c
  BY <1>1, <1>3, StateShape
<1> HIDE DEF renamed
<1>5. NamesRules(kinds, fresh)
  <2>1. \A t \in fresh : FirstAttrRule(c, t) \in Rule
    BY <1>1, <1>2, FirstRule
  <2>2. \A t : FirstAttrRule(renamed, t) = FirstAttrRule(c, t)
    BY <1>4 DEF FirstAttrRule
  <2> QED BY <2>1, <2>2 DEF NamesRules
<1>6. NamesRules(c.attr, ts)
  BY <1>1, <1>2, Attributed DEF NamesRules, Owned
<1>7. fresh \cap ts = {}
  BY <1>2
<1>8. added.pending = Emit(c.pending, fresh, 1, kinds) /\ DOMAIN added = DOMAIN c
  BY <1>1, <1>4, StateShape DEF MaterializeRuleRows
<1> HIDE DEF added, ts, kinds
<1>9. gone.pending = Emit(added.pending, ts, -1, c.attr) /\ DOMAIN gone = DOMAIN c
  BY <1>1, <1>8, StateShape DEF WithdrawDerivedRows
<1> HIDE DEF gone, left
<1>10. done.pending = Emit(Emit(c.pending, fresh, 1, kinds), ts, -1, c.attr)
  BY <1>1, <1>8, <1>9, StateShape
<1> HIDE DEF done
<1>11. \A t \in Triple, k \in Kind :
          Emit(Emit(c.pending, fresh, 1, kinds), ts, -1, c.attr)[t][k] \in -1 .. 1
  BY <1>1, <1>5, <1>6, <1>7, PassesUnits
<1> QED BY <1>0, <1>10, <1>11 DEF Units

LEMMA ReplacedUnits ==
    ASSUME NEW c, WellFormed(c), RulesQuiet(c), ClosureUnits(c), NEW attr \in AttrMap
    PROVE  Units(ReplaceRuleRows(c, attr))
<1> DEFINE fresh   == {t \in Triple : attr[t] # NoRule /\ ~Owned(c, t)}
           lapsed  == {t \in Triple : attr[t] = NoRule /\ Owned(c, t)} \ c.support
           added   == [c EXCEPT !.derived = Plus(@, OneFor(fresh, 1)), !.pending = Emit(@, fresh, 1, attr)]
           gone    == WithdrawDerivedRows(added, lapsed, c.attr)
           named   == [gone EXCEPT !.attr = attr]
           d       == ResyncIncrementalState(named)
<1>0. ReplaceRuleRows(c, attr) = d
  BY DEF ReplaceRuleRows
<1>1. c \in CircuitState
  BY DEF WellFormed
<1>2. NamesRules(attr, fresh)
  BY DEF NamesRules, AttrMap
<1>3. NamesRules(c.attr, lapsed)
  BY <1>1, Attributed DEF NamesRules, Owned
<1>4. fresh \cap lapsed = {}
  OBVIOUS
<1> HIDE DEF fresh, lapsed
<1>5. added.pending = Emit(c.pending, fresh, 1, attr) /\ DOMAIN added = DOMAIN c
  BY <1>1, StateShape
<1> HIDE DEF added
<1>6. gone.pending = Emit(added.pending, lapsed, -1, c.attr) /\ DOMAIN gone = DOMAIN c
  BY <1>1, <1>5, StateShape DEF WithdrawDerivedRows
<1> HIDE DEF gone
<1>7. named.pending = gone.pending /\ DOMAIN named = DOMAIN c
  BY <1>1, <1>6, StateShape
<1> HIDE DEF named
<1>8. d.pending = named.pending
  BY <1>1, <1>7, StateShape DEF ResyncIncrementalState
<1> HIDE DEF d
<1>9. \A t \in Triple, k \in Kind :
          Emit(Emit(c.pending, fresh, 1, attr), lapsed, -1, c.attr)[t][k] \in -1 .. 1
  BY <1>1, <1>2, <1>3, <1>4, PassesUnits
<1> QED BY <1>0, <1>5, <1>6, <1>7, <1>8, <1>9 DEF Units

LEMMA RecomputeRulesUnits ==
    ASSUME NEW c, WellFormed(c), RulesQuiet(c), ClosureUnits(c)
    PROVE  Units(RecomputeRules(c))
<1> DEFINE found   == RecomputeRuleClosure(c)
           checked == Check(c, found.converged)
<1>1. c \in CircuitState
  BY DEF WellFormed
<1>2. found.attr \in AttrMap /\ found.converged \in BOOLEAN
  BY <1>1, RecomputedAttr, RecomputedDerives
<1>3. RecomputeRules(c) = ReplaceRuleRows(checked, found.attr)
  BY DEF RecomputeRules
<1> HIDE DEF found
<1>4. WellFormed(checked) /\ SameRows(c, checked)
  BY <1>2, Checked
<1> HIDE DEF checked
<1>5. RulesQuiet(checked) /\ ClosureUnits(checked)
  BY <1>4 DEF SameRows, RulesQuiet, ClosureUnits
<1> QED BY <1>2, <1>3, <1>4, <1>5, ReplacedUnits

\* The two phases publish nothing before the net transitions.
SilentStates(c) == {s \in PhaseStates(c) : s.circuit.pending = c.pending}

LEMMA PhasesSilent ==
    ASSUME NEW c, WellFormed(c), NEW start \in SilentStates(c)
    PROVE  OverdeleteEnd(start) \in SilentStates(c) /\ RederiveEnd(start) \in SilentStates(c)
<1>1. \A s \in SilentStates(c) :
         /\ s \in PhaseStates(c) /\ s.circuit.pending = c.pending
         /\ WellFormed(s.circuit) /\ s.delta \in Zset
  BY DEF SilentStates, PhaseStates, Moves
<1>2. ASSUME NEW s \in SilentStates(c), NEW condition
      PROVE  Check(FixpointRound(s.circuit, s.delta), condition).pending = c.pending
  <2> DEFINE b == s.circuit
             d == FixpointRound(b, s.delta)
  <2>1. WellFormed(b) /\ s.delta \in Zset /\ b.pending = c.pending
    BY <1>1
  <2> HIDE DEF b
  <2>2. SameRows(b, d) /\ d \in CircuitState
    BY <2>1, RoundMoves DEF Moves, WellFormed
  <2> HIDE DEF d
  <2>3. Check(d, condition).pending = d.pending
    BY <2>2, StateShape DEF Check
  <2> QED BY <2>1, <2>2, <2>3 DEF SameRows, b, d
<1>3. ASSUME NEW s \in SilentStates(c)
      PROVE  /\ OverdeleteSettle(s, FixpointRound(s.circuit, s.delta)) \in SilentStates(c)
             /\ RederiveSettle(s, FixpointRound(s.circuit, s.delta)) \in SilentStates(c)
  <2> DEFINE d == FixpointRound(s.circuit, s.delta)
             o == OverdeleteSettle(s, d)
             r == RederiveSettle(s, d)
  <2>1. o \in PhaseStates(c) /\ r \in PhaseStates(c)
    BY <1>1, OverdeleteSettleMoves, RederiveSettleMoves
  <2>2. o.circuit = Check(d, NoneBelowZero(s.circuit, d) /\ Shrank(s.circuit, d))
    BY DEF OverdeleteSettle
  <2>3. r.circuit = Check(d, NoneBelowZero(s.circuit, d) /\ Grew(s.circuit, d))
    <3>1. DOMAIN s = {"circuit", "delta", "candidates", "touched"}
      BY <1>1 DEF PhaseStates
    <3> QED BY <3>1 DEF RederiveSettle
  <2>4. o.circuit.pending = c.pending /\ r.circuit.pending = c.pending
    BY <1>2, <2>2, <2>3
  <2> HIDE DEF o, r
  <2>5. o \in SilentStates(c) /\ r \in SilentStates(c)
    BY <2>1, <2>4 DEF SilentStates
  <2> QED BY <2>5 DEF o, r
<1> DEFINE V == SilentStates(c)
<1>4. ASSUME NEW last \in V
      PROVE  [last EXCEPT !.circuit = Check(@, last.delta = EmptyZset)] \in V
  <2> DEFINE e == Check(last.circuit, last.delta = EmptyZset)
  <2>1. /\ Moves(c, last.circuit) /\ last.circuit.pending = c.pending
        /\ last \in [circuit : CircuitState, delta : Zset, candidates : SUBSET Triple, touched : SUBSET Triple]
    BY DEF PhaseStates, SilentStates
  <2>2. Moves(last.circuit, e) /\ SameRows(last.circuit, e)
    BY <2>1, CheckMoves DEF Moves
  <2> HIDE DEF e
  <2>3. Moves(c, e) /\ e \in CircuitState /\ e.pending = c.pending
    BY <2>1, <2>2, MovesOn DEF Moves, WellFormed, SameRows
  <2> HIDE DEF Zset
  <2> QED BY <2>1, <2>3 DEF PhaseStates, SilentStates, e
<1> HIDE DEF V
<1>5. start \in V
  BY DEF V
<1>6. \E last \in V : OverdeleteEnd(start) = [last EXCEPT !.circuit = Check(@, last.delta = EmptyZset)]
  <2>1. \A s \in V : OverdeleteSettle(s, FixpointRound(s.circuit, s.delta)) \in V
    BY <1>3 DEF V
  <2> QED BY <1>5, <2>1, OverdeleteRun
<1>7. \E last \in V : RederiveEnd(start) = [last EXCEPT !.circuit = Check(@, last.delta = EmptyZset)]
  <2>1. \A s \in V : RederiveSettle(s, FixpointRound(s.circuit, s.delta)) \in V
    BY <1>3 DEF V
  <2> QED BY <1>5, <2>1, RederiveRun
<1> QED BY <1>4, <1>6, <1>7 DEF V

LEMMA TwoPhaseUnits ==
    ASSUME NEW c, WellFormed(c), RulesQuiet(c), ClosureUnits(c), NEW delta \in Zset
    PROVE  Units(TwoPhaseFixpoint(c, delta))
<1> DEFINE start == OverdeleteStart(c, delta)
           cut   == OverdeleteEnd(start)
           gain  == Gain(delta)
           from  == RederiveStart(cut, gain)
           grow  == RederiveEnd(from)
<1>1. TwoPhaseFixpoint(c, delta) = NetTransitions(grow.circuit, grow.touched)
  BY DEF TwoPhaseFixpoint, Rederive, OverdeleteEnd, RederiveEnd, OverdeleteStart, RederiveStart,
         SeedRows, Lost, Gain
<1>2. c \in CircuitState
  BY DEF WellFormed
<1>3. start \in SilentStates(c)
  <2> DEFINE down == [t \in Triple |-> IF t \in Lost(delta) THEN delta[t] ELSE 0]
             seed == SeedRows(c, delta)
  <2>1. start = [circuit |-> c, delta |-> down, candidates |-> seed, touched |-> seed]
    BY DEF OverdeleteStart
  <2>2. Moves(c, c)
    BY <1>2, SameRowsMove DEF SameRows
  <2>3. down \in Zset /\ seed \in SUBSET Triple
    BY DEF Zset, SeedRows, Lost
  <2> HIDE DEF start, Zset, down, seed
  <2> QED BY <1>2, <2>1, <2>2, <2>3 DEF PhaseStates, SilentStates
<1> HIDE DEF start
<1>4. cut \in SilentStates(c)
  BY <1>3, PhasesSilent
<1> HIDE DEF cut
<1>5. gain \in Zset
  BY DEF Zset, Gain
<1> HIDE DEF gain
<1>6. from \in SilentStates(c)
  <2> DEFINE seeds == RederiveSeed(cut.circuit, cut.candidates, gain)
  <2>1. \A ts : OneFor(ts, 1) \in Zset
    BY OneForType
  <2>2. seeds \in Zset
    BY <1>5, <2>1, PlusAt DEF RederiveSeed
  <2>3. from = [cut EXCEPT !.delta = seeds]
    BY DEF RederiveStart
  <2> HIDE DEF Zset, seeds, from
  <2> QED BY <1>4, <2>2, <2>3 DEF PhaseStates, SilentStates
<1> HIDE DEF from
<1>7. grow \in SilentStates(c)
  BY <1>6, PhasesSilent
<1> HIDE DEF grow
<1>8. WellFormed(grow.circuit) /\ grow.touched \in SUBSET Triple /\ grow.circuit.pending = c.pending
  BY <1>7 DEF SilentStates, PhaseStates, Moves
<1>9. RulesQuiet(grow.circuit) /\ ClosureUnits(grow.circuit)
  BY <1>8 DEF RulesQuiet, ClosureUnits
<1> QED BY <1>1, <1>8, <1>9, NetTransitionsUnits

-----------------------------------------------------------------------------
(* The assertions of a tick hold.                                            *)

\* The closure passes of a tick publish what they did to the rows.
LEMMA ClosurePartRecords ==
    ASSUME NEW m, WellFormed(m), m.pending = NoEmission, NEW flipped,
           NEW ins \in SUBSET EdgeTriple, NEW del \in SUBSET EdgeTriple, NEW retracts
    PROVE  LET part == ClosurePart(m, flipped, ins, del, retracts)
               d == part.pass.circuit
           IN  /\ WellFormed(d) /\ RulesQuiet(d) /\ ClosureUnits(d) /\ part.pass.delta \in Zset
               /\ d.sound = m.sound
<1> DEFINE noted == NotePresenceChange(m, flipped, EmptyZset)
           cut   == IF retracts THEN ClosureRetractPass(m, del, noted)
                    ELSE [circuit |-> m, delta |-> noted, orphans |-> {}]
           grown == ClosureInsertionPass(cut.circuit, ins, cut.delta)
           d     == grown.circuit
<1>1. ClosurePart(m, flipped, ins, del, retracts).pass = grown
  BY DEF ClosurePart
<1>2. m \in CircuitState /\ noted \in Zset
  BY EmptySum, NoteTyped DEF WellFormed
<1> HIDE DEF noted
<1>3. /\ Moves(m, cut.circuit) /\ SameRules(m, cut.circuit) /\ cut.circuit.sound = m.sound
      /\ cut.delta \in Zset
  <2>1. CASE retracts
    <3>1. cut = ClosureRetractPass(m, del, noted)
      BY <2>1
    <3> HIDE DEF cut
    <3> QED BY <1>2, <3>1, ClosurePassesMove, ClosurePassesNote, ClosurePassesQuiet DEF Carried
  <2>2. CASE ~retracts
    <3>1. cut.circuit = m /\ cut.delta = noted
      BY <2>2
    <3>2. Moves(m, m)
      BY <1>2, SameRowsMove DEF SameRows
    <3> HIDE DEF cut
    <3> QED BY <1>2, <3>1, <3>2 DEF SameRules
  <2> QED BY <2>1, <2>2
<1> HIDE DEF cut
<1>4. WellFormed(cut.circuit)
  BY <1>3 DEF Moves
<1>5. /\ Moves(cut.circuit, d) /\ SameRules(cut.circuit, d) /\ d.sound = cut.circuit.sound
      /\ grown.delta \in Zset
  BY <1>3, <1>4, ClosurePassesMove, ClosurePassesNote, ClosurePassesQuiet DEF Carried
<1> HIDE DEF grown
<1>6. Moves(m, d) /\ SameRules(m, d) /\ d.sound = m.sound
  <2>1. Moves(m, d)
    BY <1>3, <1>5, MovesOn
  <2> QED BY <1>3, <1>5, <2>1 DEF SameRules
<1>7. RulesQuiet(d) /\ ClosureUnits(d)
  BY <1>6, ClosureRecords DEF ClosureUnits
<1> QED BY <1>1, <1>5, <1>6, <1>7 DEF Moves

\* A seed is typed, whatever the orphans.
LEMMA SeedTyped ==
    ASSUME NEW c, NEW orphans, NEW delta \in Zset
    PROVE  OrphanReseed(c, orphans, delta) \in Zset
<1>1. \A ts : OneFor(ts, -1) \in Zset
  <2>1. -1 \in Int
    OBVIOUS
  <2> QED BY <2>1, OneForType
<1> QED BY <1>1, PlusAt DEF OrphanReseed

\* A net record is +1, -1 or nothing, in both retraction regimes.
LEMMA RegimesUnits ==
    ASSUME NEW m, WellFormed(m), m.pending = NoEmission, NEW flipped,
           NEW ins \in SUBSET EdgeTriple, NEW del \in SUBSET EdgeTriple, NEW retracts
    PROVE  /\ Units(UnifiedPath(m, flipped, ins, del, retracts))
           /\ Units(RecomputeFallback(m, ins, del))
           /\ MaxRounds >= Cardinality(Triple) => RecomputeFallback(m, ins, del).sound = m.sound
<1>1. Units(UnifiedPath(m, flipped, ins, del, retracts))
  <2> DEFINE part == ClosurePart(m, flipped, ins, del, retracts)
             d    == part.pass.circuit
             seed == OrphanReseed(d, part.orphans, part.pass.delta)
  <2>1. UnifiedPath(m, flipped, ins, del, retracts) = RunRules(d, seed)
    BY DEF UnifiedPath, InsertionsAndRules, RulesAfterClosure, ClosurePart
  <2>2. WellFormed(d) /\ RulesQuiet(d) /\ ClosureUnits(d) /\ part.pass.delta \in Zset
    BY ClosurePartRecords
  <2> HIDE DEF part
  <2>3. seed \in Zset
    BY <2>2, SeedTyped
  <2> HIDE DEF seed
  <2>4. Units(TwoPhaseFixpoint(d, seed)) /\ Units(InsertionFixpoint(d, seed))
    BY <2>2, <2>3, TwoPhaseUnits, InsertionUnits
  <2> QED BY <2>1, <2>4 DEF RunRules
<1>2. /\ Units(RecomputeFallback(m, ins, del))
      /\ MaxRounds >= Cardinality(Triple) => RecomputeFallback(m, ins, del).sound = m.sound
  <2> DEFINE cut   == ClosureRetractPass(m, del, EmptyZset).circuit
             grown == ClosureInsertionPass(cut, ins, EmptyZset).circuit
  <2>1. EmptyZset \in Zset /\ RecomputeFallback(m, ins, del) = RecomputeRules(grown)
    BY EmptySum DEF RecomputeFallback
  <2>2. Moves(m, cut) /\ SameRules(m, cut) /\ cut.sound = m.sound
    BY <2>1, ClosurePassesMove, ClosurePassesNote, ClosurePassesQuiet DEF Carried
  <2>3. WellFormed(cut)
    BY <2>2 DEF Moves
  <2> HIDE DEF cut
  <2>4. Moves(cut, grown) /\ SameRules(cut, grown) /\ grown.sound = cut.sound
    BY <2>1, <2>3, ClosurePassesMove, ClosurePassesNote, ClosurePassesQuiet DEF Carried
  <2> HIDE DEF grown
  <2>5. Moves(m, grown) /\ SameRules(m, grown) /\ grown.sound = m.sound /\ WellFormed(grown)
    <3>1. Moves(m, grown)
      BY <2>2, <2>4, MovesOn
    <3> QED BY <2>2, <2>4, <3>1 DEF SameRules, Moves
  <2>6. RulesQuiet(grown) /\ ClosureUnits(grown)
    BY <2>5, ClosureRecords DEF ClosureUnits
  <2>7. MaxRounds >= Cardinality(Triple) => RecomputeRules(grown).sound = grown.sound
    BY <2>5, RecomputeRulesExact
  <2> QED BY <2>1, <2>5, <2>6, <2>7, RecomputeRulesUnits
<1> QED BY <1>1, <1>2

\* Circuit::tick: with a round for every triple, no assert! and no debug_assert!
\* of it fails, whatever the records.
THEOREM TickSound ==
    ASSUME NEW c, Held(c), c.sound, NEW X, Summable(X), NEW records \in Seq(X),
           MaxRounds >= Cardinality(Triple)
    PROVE  Tick(c, records).sound
<1> DEFINE delta    == NetDelta(records)
           merged   == [c EXCEPT !.asserted = Plus(@, delta), !.pending = NoEmission]
           flipped  == {t \in Triple : (c.asserted[t] > 0) # (merged.asserted[t] > 0)}
           insEdges == InsertedEdges(merged, delta)
           delEdges == DeletedEdges(merged, delta)
           retracts == \E n \in DOMAIN records : records[n].mult < 0
           fallen   == RecomputeFallback(merged, insEdges, delEdges)
           unified  == UnifiedPath(merged, flipped, insEdges, delEdges, retracts)
           last     == IF c.fallback /\ retracts THEN fallen ELSE unified
<1>1. Tick(c, records) = NetRecordsChecked(last)
  BY DEF Tick
<1>2. insEdges \in SUBSET EdgeTriple /\ delEdges \in SUBSET EdgeTriple /\ delta \in Zset
  BY NetType DEF InsertedEdges, DeletedEdges
<1>3. WellFormed(c) /\ Exact(c) /\ Filled(c)
  BY DEF Held
<1>4. Merged(c, merged) /\ merged.asserted = Plus(c.asserted, delta)
  BY <1>2, <1>3, TickMerges
<1>5. flipped = FlippedRows(c, merged)
  BY DEF FlippedRows
<1>6. WellFormed(merged) /\ merged.sound = c.sound /\ merged.pending = NoEmission
  BY <1>4 DEF Merged
<1>7. WellFormed(last)
  <2>1. WellFormed(fallen) /\ WellFormed(unified)
    BY <1>2, <1>6, TickRegimesMove DEF Moves
  <2> QED BY <2>1
<1> HIDE DEF merged, flipped, insEdges, delEdges, retracts, delta
<1>8. Units(fallen) /\ Units(unified) /\ fallen.sound = c.sound
  BY <1>2, <1>6, RegimesUnits
<1>9. unified.sound = c.sound
  BY <1>2, <1>3, <1>4, <1>5, UnifiedPathExact
<1> HIDE DEF fallen, unified
<1>10. Units(last) /\ last.sound = c.sound
  BY <1>8, <1>9
<1> HIDE DEF last
<1>11. \A t \in Triple, k \in Kind : last.pending[t][k] \in -1 .. 1
  BY <1>10 DEF Units
<1>12. Check(last, TRUE).sound = (last.sound /\ TRUE)
  BY <1>7, Checked
<1>13. Tick(c, records) = Check(last, TRUE)
  <2>1. (\A t \in Triple, k \in Kind : last.pending[t][k] \in -1 .. 1) = TRUE
    BY <1>11
  <2> QED BY <1>1, <2>1 DEF NetRecordsChecked
<1> QED BY <1>10, <1>12, <1>13

-----------------------------------------------------------------------------
(* What a set of asserted triples entails.                                   *)

EntailedSeed(asserted) ==
    asserted \cup {Edge(p) : p \in Reachable({PairOf(t) : t \in asserted \cap EdgeTriple})}

Ent == INSTANCE RecursionFacts WITH
        Bottom <- LAMBDA n : n = 0,
        Prev   <- LAMBDA n : n - 1,
        Rank   <- LAMBDA n : n,
        Base   <- LAMBDA seed, n : seed,
        Step   <- LAMBDA seed, n, S : Consequences(S)

LEMMA SeedTriples ==
    ASSUME NEW A \in SUBSET Triple
    PROVE  EntailedSeed(A) \in SUBSET Triple
<1> DEFINE ps == {PairOf(t) : t \in A \cap EdgeTriple}
<1>1. ps \subseteq Pair
  BY EdgePairs
<1>2. Reachable(ps) \subseteq Pair
  BY <1>1, ReachableClosed, ClosedIs
<1> DEFINE R == Reachable(ps)
<1>3. EntailedSeed(A) = A \cup {Edge(p) : p \in R}
  BY DEF EntailedSeed
<1> HIDE DEF R
<1>4. {Edge(p) : p \in R} \subseteq EdgeTriple
  BY <1>2 DEF EdgeTriple, R
<1> QED BY <1>3, <1>4 DEF Triple

LEMMA ConsequencesIn ==
    ASSUME NEW S \in SUBSET Triple
    PROVE  Consequences(S) \in SUBSET Triple /\ S \subseteq Consequences(S)
BY InstanceAssumption DEF Consequences

LEMMA EntailedRounds ==
    ASSUME NEW A
    PROVE  /\ Ent!Grounded(0 .. Cardinality(Triple))
           /\ Cardinality(Triple) \in Nat
           /\ Entailed(A) = Ent!Solution(EntailedSeed(A), 0 .. Cardinality(Triple))[Cardinality(Triple)]
<1>1. Cardinality(Triple) \in Nat
  BY TriplesFinite, FS_CardinalityType
<1>2. Ent!Grounded(0 .. Cardinality(Triple))
  BY <1>1, Induction DEF Ent!Grounded, Ent!Ranked, Ent!Inductive
<1>3. Entailed(A) = Ent!Solution(EntailedSeed(A), 0 .. Cardinality(Triple))[Cardinality(Triple)]
  BY DEF Entailed, Ent!Solution, EntailedSeed
<1> QED BY <1>1, <1>2, <1>3

\* The least set ...
LEMMA EntailedLeast ==
    ASSUME NEW A, NEW Y, EntailedSeed(A) \subseteq Y, Closes(Y)
    PROVE  Entailed(A) \subseteq Y
<1> DEFINE D == 0 .. Cardinality(Triple)
           seed == EntailedSeed(A)
           V == SUBSET Y
<1>1. Ent!Grounded(D) /\ Cardinality(Triple) \in D /\ Entailed(A) = Ent!Solution(seed, D)[Cardinality(Triple)]
  BY EntailedRounds
<1>2. seed \in V
  OBVIOUS
<1>3. ASSUME NEW S \in V PROVE Consequences(S) \in V
  <2>1. ASSUME NEW i \in Instance, Derives(i, S) PROVE i.head \in Y
    <3>1. Derives(i, Y)
      BY <2>1 DEF Derives
    <3> QED BY <3>1 DEF Closes
  <2> QED BY <2>1 DEF Consequences
<1>4. \A n \in D : Ent!Solution(seed, D)[n] \in V
  <2> HIDE DEF D, V, seed
  <2> QED BY <1>1, <1>2, <1>3, Ent!SolutionIn
<1> QED BY <1>1, <1>4

\* ... with the asserted triples, the closure of the asserted edges and the
\* consequences of every rule.
LEMMA EntailedCloses ==
    ASSUME NEW A \in SUBSET Triple
    PROVE  /\ Closes(Entailed(A)) /\ EntailedSeed(A) \subseteq Entailed(A)
           /\ Entailed(A) \in SUBSET Triple
<1> DEFINE N == Cardinality(Triple)
           D == 0 .. N
           seed == EntailedSeed(A)
           f == Ent!Solution(seed, D)
           h == [S \in SUBSET Triple |-> Consequences(S)]
           V == {S \in SUBSET Triple : seed \subseteq S}
<1>1. Ent!Grounded(D) /\ N \in D /\ Entailed(A) = f[N] /\ N \in Nat
  BY EntailedRounds
<1>2. seed \in SUBSET Triple
  BY SeedTriples
<1> HIDE DEF seed
<1>3. \A n \in D : f[n] = IF n = 0 THEN seed ELSE Consequences(f[n - 1])
  <2> HIDE DEF D
  <2> QED BY <1>1, Ent!SolutionSolves
<1>4. \A n \in D : f[n] \in V
  <2>1. seed \in V /\ \A S \in V : Consequences(S) \in V
    BY <1>2, ConsequencesIn
  <2> HIDE DEF D, V
  <2> QED BY <1>1, <2>1, Ent!SolutionIn
<1> HIDE DEF f
<1>5. \A n \in 0 .. N - 1 : f[n + 1] = h[f[n]]
  <2> SUFFICES ASSUME NEW n \in 0 .. N - 1 PROVE f[n + 1] = h[f[n]]
    OBVIOUS
  <2>1. n + 1 \in D /\ n + 1 # 0 /\ (n + 1) - 1 = n /\ n \in D
    BY <1>1
  <2>2. f[n + 1] = Consequences(f[n])
    BY <1>3, <2>1
  <2> QED BY <1>4, <2>1, <2>2
<1>6. \A S \in SUBSET Triple : h[S] \in SUBSET Triple /\ S \subseteq h[S]
  BY ConsequencesIn
<1>7. f[0] \in SUBSET Triple
  <2>1. 0 \in D
    BY <1>1
  <2> QED BY <1>4, <2>1
<1>8. h[f[N]] = f[N] /\ f[N] \in SUBSET Triple
  <2>1. Growing(Triple, N, f, h)
    <3> HIDE DEF h, N
    <3> QED BY <1>5, <1>6, <1>7 DEF Growing
  <2>2. N >= Cardinality(Triple)
    BY <1>1
  <2> HIDE DEF h, N
  <2> QED BY <1>1, <2>1, <2>2, TriplesFinite, RoundsSettle
<1>9. Consequences(f[N]) = f[N] /\ seed \subseteq f[N]
  BY <1>1, <1>4, <1>8
<1>10. Closes(f[N])
  BY <1>9 DEF Closes, Consequences
<1> QED BY <1>1, <1>8, <1>9, <1>10 DEF seed

-----------------------------------------------------------------------------
(* Present and entailed.                                                     *)

\* The closure's rows are between the asserted edges and their closure.
LEMMA SupportEntailed ==
    ASSUME NEW c, WellFormed(c), PlanHolds(c)
    PROVE  /\ c.support \subseteq EntailedSeed(AssertedSet(c))
           /\ \A t \in EntailedSeed(AssertedSet(c)) : t \in Triple /\ Covered(c, t)
<1>1. c.closure.base \in SUBSET Pair /\ PlanClosed(c.closure)
  BY StateShape DEF WellFormed, PlanHolds, Closure
<1>2. c.closure.closed = Reachable(c.closure.base)
  <2>1. c.closure.closed = Closed(c.closure.base)
    BY <1>1, PlanClosedIs
  <2> QED BY <1>1, <2>1, ReachableClosed
<1>3. c.closure.base = {PairOf(t) : t \in AssertedSet(c) \cap EdgeTriple}
  BY DEF PlanHolds, PairsOf
<1> DEFINE closed == c.closure.closed
<1>4. EntailedSeed(AssertedSet(c)) = AssertedSet(c) \cup {Edge(p) : p \in closed}
  BY <1>2, <1>3 DEF EntailedSeed
<1>5. EntailedSeed(AssertedSet(c)) \in SUBSET Triple
  BY SeedTriples DEF AssertedSet
<1>6. c.support \subseteq {Edge(p) : p \in closed}
  BY DEF PlanHolds, SupportHolds, EdgeOf
<1>7. \A p \in closed : Edge(p) \in c.support \/ c.asserted[Edge(p)] > 0
  BY DEF PlanHolds, SupportHolds
<1> HIDE DEF closed
<1>8. ASSUME NEW t \in EntailedSeed(AssertedSet(c)) PROVE Covered(c, t)
  <2>1. CASE t \in AssertedSet(c)
    BY <2>1 DEF AssertedSet, Covered
  <2>2. CASE t \in {Edge(p) : p \in closed}
    BY <1>7, <2>2 DEF Covered
  <2> QED BY <1>4, <2>1, <2>2
<1> QED BY <1>4, <1>5, <1>6, <1>8

\* What is entailed is present, while no assertion failed.
LEMMA EntailedPresent ==
    ASSUME NEW c, Held(c), c.sound
    PROVE  /\ Entailed(AssertedSet(c)) \subseteq PresentSet(c)
           /\ PresentSet(c) = In(c.extent)
<1>1. WellFormed(c) /\ c \in CircuitState /\ Owners(c) /\ PlanHolds(c) /\ Exact(c) /\ Filled(c)
  BY DEF Held, WellFormed
<1>2. \A t \in Triple : c.extent[t] = One(BasePresence(c, t))
  BY <1>1, FullFilled DEF Exact
<1>3. \A t \in Triple : t \in PresentSet(c) <=> BasePresence(c, t)
  BY DEF PresentSet, AssertedSet, DerivedSet, BasePresence
<1>4. PresentSet(c) \subseteq Triple
  BY DEF PresentSet, AssertedSet, DerivedSet
<1>5. In(c.extent) = PresentSet(c)
  BY <1>2, <1>3, <1>4 DEF In, One
<1>6. EntailedSeed(AssertedSet(c)) \subseteq PresentSet(c)
  <2> SUFFICES ASSUME NEW t \in EntailedSeed(AssertedSet(c)) PROVE t \in PresentSet(c)
    OBVIOUS
  <2>1. t \in Triple /\ Covered(c, t)
    BY <1>1, SupportEntailed
  <2>2. t \in c.support => c.derived[t] = 1
    BY <1>1, <2>1 DEF Owners
  <2> QED BY <1>3, <2>1, <2>2 DEF Covered, BasePresence
<1>7. Closes(PresentSet(c))
  <2> SUFFICES ASSUME NEW i \in Instance, Derives(i, PresentSet(c)) PROVE i.head \in PresentSet(c)
    BY DEF Closes
  <2>1. i.head \in Triple
    BY InstanceAssumption
  <2>2. TotalWeight(c, i.head) > 0
    BY <1>1, <1>5, <2>1, WeightMeans DEF Exact
  <2>3. c.extent[i.head] > 0
    BY <1>1, <2>1, <2>2 DEF Filled
  <2> QED BY <1>2, <1>3, <2>1, <2>3 DEF One
<1> QED BY <1>5, <1>6, <1>7, EntailedLeast

-----------------------------------------------------------------------------
(* Nothing is present that is not entailed.                                  *)

\* What a circuit held before its records were merged: the rows were entailed by
\* A, the seed of A was present, and a row of the seed that only a rule is left
\* with either goes to the two phases or the rule gives it up.
Rooted(c, delta, d, A) ==
    /\ \A t \in Triple : Owned(c, t) => t \in Entailed(A)
    /\ \A t \in EntailedSeed(A) :
          /\ t \in Triple /\ c.extent[t] > 0
          /\ ~Covered(c, t) /\ Owned(c, t) => delta[t] < 0 \/ ~Owned(d, t)

\* A row whose weights are unchanged over a smaller extent has its derivations there.
LEMMA SameDerivations ==
    ASSUME NEW a \in CircuitState, Recounted(a), NEW c \in CircuitState, Recounted(c),
           In(a.extent) \subseteq In(c.extent),
           NEW i \in Instance, Derives(i, In(c.extent)), a.weights[i.head] = c.weights[i.head]
    PROVE  Derives(i, In(a.extent))
<1> DEFINE t == i.head
           r == i.rule
           S == InstancesOf[t][r]
           A == DerivedBy(S, In(a.extent))
           C == DerivedBy(S, In(c.extent))
<1>1. t \in Triple /\ r \in Rule
  BY InstanceAssumption
<1>2. i \in S /\ IsFiniteSet(S)
  BY <1>1, InstancesFinite DEF InstancesOf
<1>3. A \subseteq C
  BY DEF DerivedBy, Derives
<1>4. IsFiniteSet(C) /\ i \in C
  BY <1>2, FS_Subset DEF DerivedBy
<1>5. Cardinality(A) = Cardinality(C)
  BY <1>1 DEF Recounted
<1>6. A = C
  <2> HIDE DEF A, C
  <2> QED BY <1>3, <1>4, <1>5, FS_Subset
<1> QED BY <1>4, <1>6 DEF DerivedBy

\* Overdeletion leaves of the old rows those that do not need what went.
LEMMA CutCloses ==
    ASSUME NEW c, WellFormed(c), NEW delta \in Zset, Recounted(c), Seeded(c, delta), Filled(c),
           NEW cut \in PhaseStates(c), cut.delta = EmptyZset, Shrunk(c, delta, cut),
           NEW X, Closes(X), CoveredIn(c, X)
    PROVE  Closes({t \in In(c.extent) : cut.circuit.extent[t] + Gain(delta)[t] = 1 => t \in X})
<1> DEFINE a    == cut.circuit
           gain == Gain(delta)
           Y    == {t \in In(c.extent) : a.extent[t] + gain[t] = 1 => t \in X}
<1> SUFFICES ASSUME NEW i \in Instance, Derives(i, Y) PROVE i.head \in Y
  BY DEF Closes
<1>1. c \in CircuitState /\ a \in CircuitState
  BY DEF WellFormed, PhaseStates, Moves
<1>2. Recounted(a)
  BY DEF Shrunk
<1>3. ASSUME NEW t \in Triple
      PROVE  /\ a.extent[t] = IF t \in Lost(delta) \cup cut.candidates THEN 0 ELSE c.extent[t]
             /\ gain[t] = IF t \in Lost(delta) THEN 0 ELSE delta[t]
             /\ c.extent[t] \in {0, 1}
             /\ t \notin Lost(delta) => delta[t] \in {0, 1} /\ c.extent[t] + delta[t] \in {0, 1}
  <2>1. /\ a.extent[t] = IF t \in Lost(delta) \cup cut.candidates THEN 0 ELSE c.extent[t]
        /\ gain[t] = IF t \in Lost(delta) THEN 0 ELSE delta[t]
    BY CutExtent
  <2> HIDE DEF a, gain
  <2> QED BY <2>1, LostMeans
<1>4. \A t \in Triple : /\ t \in cut.touched => t \in cut.candidates \/ Covered(c, t)
                        /\ t \notin cut.touched => a.weights[t] = c.weights[t]
  BY DEF Shrunk
<1> HIDE DEF a, gain
<1>5. In(a.extent) \subseteq In(c.extent)
  BY <1>3 DEF In
<1>6. ASSUME NEW t \in In(a.extent) PROVE t \in Triple /\ a.extent[t] + gain[t] = 1
  <2>1. t \in Triple /\ a.extent[t] > 0
    BY DEF In
  <2> QED BY <1>3, <2>1
<1>7. Y \subseteq In(c.extent)
  OBVIOUS
<1>8. Derives(i, In(c.extent))
  BY <1>7 DEF Derives
<1>9. i.head \in Triple /\ i.head \in In(c.extent)
  <2>1. i.head \in Triple
    BY InstanceAssumption
  <2>2. c.extent[i.head] > 0
    BY <1>1, <1>8, <2>1, WeightMeans DEF Filled
  <2> QED BY <2>1, <2>2 DEF In
<1>10. ASSUME a.extent[i.head] + gain[i.head] = 1 PROVE i.head \in X
  <2>1. CASE Covered(c, i.head)
    BY <1>9, <2>1 DEF CoveredIn
  <2>2. CASE ~Covered(c, i.head)
    <3>1. c.extent[i.head] = 1
      BY <1>3, <1>9 DEF In
    <3>2. i.head \notin cut.candidates
      BY <1>3, <1>9, <1>10, <3>1
    <3>3. a.weights[i.head] = c.weights[i.head]
      BY <1>4, <1>9, <2>2, <3>2
    <3>4. Derives(i, In(a.extent))
      BY <1>1, <1>2, <1>5, <1>8, <3>3, SameDerivations
    <3>5. Derives(i, X)
      <4>1. \A t \in In(a.extent) : t \in Y => t \in X
        BY <1>6
      <4> HIDE DEF Y
      <4> QED BY <3>4, <4>1 DEF Derives
    <3> QED BY <3>5 DEF Closes
  <2> QED BY <2>1, <2>2
<1> QED BY <1>9, <1>10

\* TwoPhaseFixpoint: what is left and comes back is inside every closed set that
\* the covered rows are in, unless a rule keeps a row of the old seed.
LEMMA TwoPhaseInside ==
    ASSUME NEW c, WellFormed(c), NEW delta \in Zset, Recounted(c), Seeded(c, delta),
           Owning(c), OwnedIn(c), Filled(c), NEW X, Closes(X), CoveredIn(c, X),
           NEW A, Rooted(c, delta, TwoPhaseFixpoint(c, delta), A),
           TwoPhaseFixpoint(c, delta).sound
    PROVE  Within(TwoPhaseFixpoint(c, delta), X)
<1> DEFINE cut   == Cut(c, delta)
           gain  == Gain(delta)
           grow  == Regrow(c, delta)
           a     == cut.circuit
           b     == grow.circuit
           touched == grow.touched
           d     == TwoPhaseFixpoint(c, delta)
           Y     == {t \in In(c.extent) : a.extent[t] + gain[t] = 1 => t \in X}
<1>1. /\ cut.delta = EmptyZset /\ grow.delta = EmptyZset
      /\ cut \in PhaseStates(c) /\ Shrunk(c, delta, cut)
      /\ grow \in PhaseStates(c) /\ Regrown(c, cut, gain, grow)
      /\ d = NetTransitions(b, touched)
  BY TwoPhaseEnds
<1>2. Exact(d)
  BY TwoPhaseExact
<1>3. Rooted(c, delta, d, A) /\ c \in CircuitState /\ Owners(c)
  BY DEF WellFormed
<1>4. /\ WellFormed(b) /\ touched \in SUBSET Triple /\ b.attr = c.attr /\ b.asserted = c.asserted
      /\ b.support = c.support /\ b \in CircuitState
  <2>1. WellFormed(b) /\ touched \in SUBSET Triple /\ Besides(c, b)
    BY <1>1 DEF PhaseStates, Moves, Regrown
  <2> QED BY <2>1 DEF Besides, WellFormed
<1> HIDE DEF cut, grow, d
<1>5. /\ d \in CircuitState /\ d.extent = b.extent
      /\ \A t \in Triple :
            /\ t \in Should(b, touched) => d.attr[t] \in Rule
            /\ t \notin touched => d.attr[t] = b.attr[t]
  <2> HIDE DEF b, touched
  <2> QED BY <1>1, <1>4, NetTransitionsFields DEF Beside
<1>6. ASSUME NEW t \in Triple
      PROVE  /\ a.extent[t] + gain[t] = 1 => b.extent[t] = 1
             /\ t \in touched => t \in cut.touched \/ TotalWeight(b, t) > 0
  <2>1. /\ a.extent[t] + gain[t] = 1 => b.extent[t] + grow.delta[t] = 1
        /\ t \in touched => t \in cut.touched \/ TotalWeight(b, t) > 0
    BY <1>1 DEF Regrown
  <2>2. b.extent[t] \in Int /\ grow.delta[t] = 0
    BY <1>1, <1>4, StateShape, ZsetAt DEF EmptyZset
  <2> HIDE DEF a, b, gain
  <2> QED BY <2>1, <2>2
<1>7. ASSUME NEW t \in Triple
      PROVE  /\ a.extent[t] = IF t \in Lost(delta) \cup cut.candidates THEN 0 ELSE c.extent[t]
             /\ gain[t] = IF t \in Lost(delta) THEN 0 ELSE delta[t]
             /\ c.extent[t] \in {0, 1} /\ delta[t] \in Int
             /\ t \notin Lost(delta) => delta[t] \in {0, 1} /\ c.extent[t] + delta[t] = One(BasePresence(c, t))
             /\ BasePresence(c, t) <=> Covered(c, t) \/ Owned(c, t)
  <2>1. /\ a.extent[t] = IF t \in Lost(delta) \cup cut.candidates THEN 0 ELSE c.extent[t]
        /\ gain[t] = IF t \in Lost(delta) THEN 0 ELSE delta[t]
    BY <1>1, CutExtent
  <2> HIDE DEF a, gain
  <2> QED BY <2>1, LostMeans
<1>8. \A t \in Triple : t \in cut.touched => t \in cut.candidates \/ Covered(c, t)
  BY <1>1 DEF Shrunk
<1>9. ASSUME NEW t \in Triple, ~Covered(c, t), a.extent[t] + gain[t] = 1 PROVE Owned(c, t)
  <2> HIDE DEF a, gain
  <2>1. t \notin Lost(delta)
    BY <1>7, <1>9
  <2>2. BasePresence(c, t)
    BY <1>7, <1>9, <2>1 DEF One
  <2> QED BY <1>7, <1>9, <2>2
<1>10. Closes(Y)
  BY <1>1, CutCloses
<1>11. ASSUME NEW t \in EntailedSeed(A) PROVE t \in Y
  <2>1. t \in Triple /\ c.extent[t] > 0 /\ (~Covered(c, t) /\ Owned(c, t) => delta[t] < 0 \/ ~Owned(d, t))
    BY <1>3 DEF Rooted
  <2>2. t \in In(c.extent) /\ c.extent[t] = 1
    BY <1>7, <2>1 DEF In
  <2>3. ASSUME a.extent[t] + gain[t] = 1, ~Covered(c, t) PROVE FALSE
    <3>1. Owned(c, t)
      BY <1>9, <2>1, <2>3
    <3>2. b.extent[t] = 1 /\ (t \in touched => t \in cut.touched \/ TotalWeight(b, t) > 0)
      BY <1>6, <2>1, <2>3
    <3> HIDE DEF a, b, gain, touched
    <3>3. t \notin Lost(delta) /\ t \notin cut.candidates
      BY <1>7, <2>1, <2>2, <2>3 DEF One
    <3>4. ~(delta[t] < 0)
      BY <2>1, <3>3 DEF Lost
    <3>5. ~Owned(d, t)
      BY <2>1, <2>3, <3>1, <3>4
    <3>6. t \notin cut.touched
      BY <1>8, <2>1, <2>3, <3>3
    <3>7. CASE t \in touched
      <4>1. TotalWeight(b, t) > 0 /\ Owned(b, t)
        BY <1>4, <3>1, <3>2, <3>6, <3>7 DEF Owned
      <4>2. t \in Should(b, touched)
        BY <3>2, <3>7, <4>1 DEF Should
      <4>3. d.attr[t] \in Rule
        BY <1>5, <2>1, <4>2
      <4> QED BY <1>5, <2>1, <3>5, <4>3, Attributed DEF Owned
    <3>8. CASE t \notin touched
      BY <1>4, <1>5, <2>1, <3>1, <3>5, <3>8 DEF Owned
    <3> QED BY <3>7, <3>8
  <2>4. Covered(c, t) => t \in X
    BY <2>1 DEF CoveredIn
  <2> QED BY <2>2, <2>3, <2>4
<1>12. Entailed(A) \subseteq Y
  <2> HIDE DEF Y
  <2> QED BY <1>10, <1>11, EntailedLeast
<1>13. InsideOf(X, a.extent, gain)
  <2> SUFFICES ASSUME NEW t \in Triple, a.extent[t] + gain[t] = 1 PROVE t \in X
    BY DEF InsideOf
  <2>1. CASE Covered(c, t)
    BY <2>1 DEF CoveredIn
  <2>2. CASE ~Covered(c, t)
    <3>1. t \in Entailed(A)
      BY <1>3, <1>9, <2>2 DEF Rooted
    <3>2. t \in Y
      BY <1>12, <3>1
    <3> QED BY <3>2
  <2> QED BY <2>1, <2>2
<1>14. InsideOf(X, b.extent, EmptyZset)
  <2>1. Regrown(c, cut, gain, grow) /\ grow.delta = EmptyZset
    BY <1>1
  <2> QED BY <1>13, <2>1 DEF Regrown
<1>15. ASSUME NEW t \in Triple, BasePresence(d, t) PROVE t \in X
  <2> HIDE DEF b
  <2>1. d.extent[t] = 1
    BY <1>2, <1>5, <1>15, FullFilled DEF One, Exact
  <2>2. b.extent[t] + EmptyZset[t] = 1
    BY <1>5, <2>1 DEF EmptyZset
  <2> QED BY <1>14, <2>2 DEF InsideOf
<1> QED BY <1>15 DEF Within, d

-----------------------------------------------------------------------------
(* A tick brings nothing that is not entailed.                               *)

\* ClosureWithdraw: a row that lost its closure support and that a rule owns is
\* an orphan.
LEMMA WithdrawOrphans ==
    ASSUME NEW c \in CircuitState, NEW outcome, NEW delta
    PROVE  LET pass == ClosureWithdraw(c, outcome, delta)
           IN  \A t \in c.support : Owned(c, t) => t \in pass.circuit.support \/ t \in pass.orphans
<1> DEFINE withdraw == {Edge(p) : p \in outcome.withdrawn}
           lost     == withdraw \cap c.support
           orphans  == {t \in lost : Owned(c, t)}
           cut      == [c EXCEPT !.closure = outcome.closure, !.support = Listed(@ \ withdraw)]
           kinds    == [t \in Triple |-> ClosureInferred]
           zeroed   == WithdrawDerivedRows(cut, lost \ orphans, kinds)
           promote  == {t \in {Edge(p) : p \in outcome.survived} :
                           t \notin zeroed.support /\ c.asserted[t] <= 0}
           rows     == {t \in promote : zeroed.derived[t] <= 0}
           grown    == MaterializeClosureRows(zeroed, rows)
           done     == [grown EXCEPT !.support = Listed(@ \cup promote)]
<1>1. /\ ClosureWithdraw(c, outcome, delta).circuit = done
      /\ ClosureWithdraw(c, outcome, delta).orphans = orphans
  BY DEF ClosureWithdraw
<1>2. DOMAIN c = {"asserted", "derived", "extent", "weights", "attr", "support", "closure", "warm",
                  "trace", "pending", "fallback", "sound"}
  BY StateShape
<1> HIDE DEF withdraw
<1>3. cut.support = c.support \ withdraw /\ DOMAIN cut = DOMAIN c
  BY <1>2, ListedIs
<1> HIDE DEF cut
<1>4. zeroed.support = cut.support /\ DOMAIN zeroed = DOMAIN c
  BY <1>2, <1>3 DEF WithdrawDerivedRows
<1> HIDE DEF zeroed
<1>5. grown.support = zeroed.support \cup rows /\ DOMAIN grown = DOMAIN c
  BY <1>2, <1>4, ListedIs DEF MaterializeClosureRows
<1> HIDE DEF grown, rows, promote
<1>6. done.support = grown.support \cup promote
  BY <1>2, <1>5, ListedIs
<1> HIDE DEF done
<1>7. \A t \in c.support : Owned(c, t) => t \in done.support \/ t \in orphans
  BY <1>3, <1>4, <1>5, <1>6
<1> QED BY <1>1, <1>7

\* The orphans of a tick are all the rows that only a rule is left with.
LEMMA TickOrphans ==
    ASSUME NEW m, WellFormed(m), NEW flipped,
           NEW ins \in SUBSET EdgeTriple, NEW del \in SUBSET EdgeTriple, NEW retracts
    PROVE  LET part == ClosurePart(m, flipped, ins, del, retracts)
           IN  \A t \in m.support : Owned(m, t) => t \in part.pass.circuit.support \/ t \in part.orphans
<1> DEFINE noted == NotePresenceChange(m, flipped, EmptyZset)
           cut   == IF retracts THEN ClosureRetractPass(m, del, noted)
                    ELSE [circuit |-> m, delta |-> noted, orphans |-> {}]
           grown == ClosureInsertionPass(cut.circuit, ins, cut.delta)
<1>1. ClosurePart(m, flipped, ins, del, retracts) = [pass |-> grown, orphans |-> cut.orphans]
  BY DEF ClosurePart
<1>2. noted \in Zset /\ m \in CircuitState
  BY EmptySum, NoteTyped DEF WellFormed
<1> HIDE DEF noted
<1>3. /\ WellFormed(cut.circuit) /\ cut.delta \in Zset
      /\ \A t \in m.support : Owned(m, t) => t \in cut.circuit.support \/ t \in cut.orphans
  <2>1. CASE retracts
    <3>1. cut = ClosureRetractPass(m, del, noted)
      BY <2>1
    <3>2. cut = ClosureWithdraw(m, DeleteEdges(m.closure, {PairOf(t) : t \in del}), noted)
      BY <3>1 DEF ClosureRetractPass
    <3> HIDE DEF cut
    <3>3. \A t \in m.support : Owned(m, t) => t \in cut.circuit.support \/ t \in cut.orphans
      BY <1>2, <3>2, WithdrawOrphans
    <3> QED BY <1>2, <3>1, <3>3, ClosurePassesMove DEF Moves
  <2>2. CASE ~retracts
    <3>1. cut.circuit = m /\ cut.delta = noted
      BY <2>2
    <3> HIDE DEF cut
    <3> QED BY <1>2, <3>1
  <2> QED BY <2>1, <2>2
<1> HIDE DEF cut
<1>4. cut.circuit.support \subseteq grown.circuit.support
  BY <1>3, ClosurePassesNote
<1> HIDE DEF grown
<1> QED BY <1>1, <1>3, <1>4

\* RunRules: the rules bring nothing that is outside of a closed set with the
\* covered rows, unless a rule keeps a row of the old seed.
LEMMA RulesInside ==
    ASSUME NEW c, WellFormed(c), Recounted(c), Owning(c), OwnedIn(c), Filled(c),
           RulesQuiet(c), ClosureUnits(c), NEW delta \in Zset, Noted(c, delta), NEW orphans,
           NEW X, Closes(X), CoveredIn(c, X), NEW A,
           Rooted(c, OrphanReseed(c, orphans, delta),
                  RunRules(c, OrphanReseed(c, orphans, delta)), A),
           RunRules(c, OrphanReseed(c, orphans, delta)).sound
    PROVE  Within(RunRules(c, OrphanReseed(c, orphans, delta)), X)
<1> DEFINE seed == OrphanReseed(c, orphans, delta)
           d    == RunRules(c, seed)
<1>1. /\ seed \in Zset /\ Seeded(c, seed)
      /\ ~(\E t \in Triple : seed[t] < 0) => Noted(c, seed) /\ Gains(seed)
  BY OrphansSeeded
<1>2. Rooted(c, seed, d, A) /\ d.sound
  OBVIOUS
<1> HIDE DEF seed
<1>3. CASE \E t \in Triple : seed[t] < 0
  <2>1. d = TwoPhaseFixpoint(c, seed)
    BY <1>3 DEF RunRules
  <2> HIDE DEF d
  <2> QED BY <1>1, <1>2, <2>1, TwoPhaseInside DEF d, seed
<1>4. CASE ~(\E t \in Triple : seed[t] < 0)
  <2>1. d = InsertionFixpoint(c, seed)
    BY <1>4 DEF RunRules
  <2> HIDE DEF d
  <2>2. \A t \in Triple : Owned(c, t) => Owned(d, t)
    BY <1>1, <2>1, InsertionUnits
  <2>3. c \in CircuitState /\ Owners(c)
    BY DEF WellFormed
  <2>4. \A t \in Triple : BasePresence(c, t) <=> Covered(c, t) \/ Owned(c, t)
    BY <2>3 DEF BasePresence, Covered, Owners
  <2>5. EntailedSeed(A) \subseteq X
    <3> SUFFICES ASSUME NEW t \in EntailedSeed(A), ~Covered(c, t) PROVE FALSE
      BY <1>2 DEF Rooted, CoveredIn
    <3>1. t \in Triple /\ c.extent[t] > 0 /\ (Owned(c, t) => seed[t] < 0 \/ ~Owned(d, t))
      BY <1>2 DEF Rooted
    <3>2. ~(seed[t] < 0)
      BY <1>4, <3>1
    <3>3. ~Owned(c, t)
      BY <2>2, <3>1, <3>2
    <3>4. c.extent[t] + seed[t] = 0
      BY <1>1, <1>4, <2>4, <3>1, <3>3 DEF Noted, One
    <3>5. c.extent[t] \in Int /\ seed[t] \in Int
      BY <1>1, <2>3, <3>1, StateShape, ZsetAt
    <3> QED BY <3>1, <3>2, <3>4, <3>5
  <2>6. Entailed(A) \subseteq X
    BY <2>5, EntailedLeast
  <2>7. Within(c, X)
    BY <1>2, <2>4, <2>6 DEF Within, CoveredIn, Rooted
  <2> QED BY <1>1, <1>4, <2>1, <2>7, InsertionExact DEF d, seed
<1> QED BY <1>3, <1>4

\* An orphan with no other cover is taken out before the rules run.
LEMMA OrphanTaken ==
    ASSUME NEW c, WellFormed(c), NEW delta \in Zset, Noted(c, delta), NEW orphans,
           NEW t \in Triple, t \in orphans, ~Covered(c, t), Owned(c, t), c.extent[t] = 1
    PROVE  OrphanReseed(c, orphans, delta)[t] < 0
<1> DEFINE rows == {x \in orphans : /\ x \notin c.support
                                    /\ c.asserted[x] <= 0
                                    /\ Owned(c, x)
                                    /\ delta[x] = 0}
<1>1. c \in CircuitState /\ Owners(c) /\ OneFor(rows, -1) \in Zset
  <2>1. -1 \in Int
    OBVIOUS
  <2> QED BY <2>1, OneForType DEF WellFormed
<1>2. c.asserted[t] \in Int /\ delta[t] \in Int
  BY <1>1, StateShape, ZsetAt
<1>3. BasePresence(c, t)
  BY <1>1 DEF Owners, BasePresence
<1>4. delta[t] = 0
  BY <1>2, <1>3 DEF Noted, One
<1>5. t \in rows
  BY <1>2, <1>4 DEF Covered
<1>6. OneFor(rows, -1)[t] = -1
  BY <1>5 DEF OneFor
<1>7. OrphanReseed(c, orphans, delta) = Plus(delta, OneFor(rows, -1))
  BY DEF OrphanReseed
<1> HIDE DEF rows
<1>8. OrphanReseed(c, orphans, delta)[t] = delta[t] + OneFor(rows, -1)[t]
  BY <1>1, <1>7, PlusAt
<1> QED BY <1>4, <1>6, <1>8

\* The unified path of a tick: if every row was entailed, and no rule keeps a row
\* that was asserted and is not any more, nothing outside of a closed set with
\* the covered rows is present.
LEMMA UnifiedInside ==
    ASSUME NEW c, WellFormed(c), Exact(c), Filled(c), PlanHolds(c), NEW m, Merged(c, m),
           PresentSet(c) \subseteq Entailed(AssertedSet(c)),
           NEW ins \in SUBSET EdgeTriple, NEW del \in SUBSET EdgeTriple, NEW retracts,
           NEW X, Closes(X),
           CoveredIn(UnifiedPath(m, FlippedRows(c, m), ins, del, retracts), X),
           \A t \in Triple : c.asserted[t] > 0 /\ Owned(c, t) /\ ~(m.asserted[t] > 0) =>
                ~Owned(UnifiedPath(m, FlippedRows(c, m), ins, del, retracts), t),
           UnifiedPath(m, FlippedRows(c, m), ins, del, retracts).sound
    PROVE  Within(UnifiedPath(m, FlippedRows(c, m), ins, del, retracts), X)
<1> DEFINE part  == ClosurePart(m, FlippedRows(c, m), ins, del, retracts)
           orphans == part.orphans
           delta == part.pass.delta
           e     == part.pass.circuit
           seed  == OrphanReseed(e, orphans, delta)
           d     == UnifiedPath(m, FlippedRows(c, m), ins, del, retracts)
           A     == AssertedSet(c)
<1>1. /\ d = RunRules(e, seed)
      /\ Moves(m, e) /\ Carried(m, e) /\ delta \in Zset /\ Noted(e, delta)
      /\ Recounted(e) /\ Owning(e) /\ OwnedIn(e) /\ Filled(e)
  BY ClosurePartHolds
<1>2. WellFormed(m) /\ m.pending = NoEmission /\ m.support = c.support /\ m.attr = c.attr /\ m.extent = c.extent
  BY DEF Merged
<1>3. WellFormed(e) /\ RulesQuiet(e) /\ ClosureUnits(e)
  BY <1>2, ClosurePartRecords
<1>4. \A t \in m.support : Owned(m, t) => t \in e.support \/ t \in orphans
  BY <1>2, TickOrphans
<1>5. /\ CoveredIn(d, X) /\ d.sound
      /\ \A t \in Triple : c.asserted[t] > 0 /\ Owned(c, t) /\ ~(m.asserted[t] > 0) => ~Owned(d, t)
  OBVIOUS
<1> HIDE DEF part, d
<1>6. e.asserted = m.asserted /\ e.attr = c.attr /\ e.extent = c.extent
  BY <1>1, <1>2 DEF Carried
<1>7. c \in CircuitState /\ Owners(c) /\ \A t \in Triple : c.extent[t] = One(BasePresence(c, t))
  BY FullFilled DEF WellFormed, Exact
<1>8. CoveredIn(e, X)
  <2>1. HasBase(e)
    BY <1>3, StateShape DEF WellFormed, HasBase
  <2>2. Keeps(e, d)
    BY <1>1, <2>1, TwoPhaseFixpointKeeps, InsertionFixpointKeeps DEF RunRules
  <2> QED BY <1>5, <2>2 DEF Keeps, KeepsBase, CoveredIn, Covered
<1>9. \A t \in Triple : Owned(e, t) => t \in Entailed(A)
  <2> SUFFICES ASSUME NEW t \in Triple, Owned(e, t) PROVE t \in Entailed(A)
    OBVIOUS
  <2>1. Owned(c, t)
    BY <1>6 DEF Owned
  <2>2. c.derived[t] = 1
    BY <1>7, <2>1 DEF Owners
  <2>3. t \in PresentSet(c)
    BY <2>2 DEF PresentSet, DerivedSet
  <2> QED BY <2>3
<1>10. ASSUME NEW t \in EntailedSeed(A)
       PROVE  /\ t \in Triple /\ e.extent[t] > 0
              /\ ~Covered(e, t) /\ Owned(e, t) => seed[t] < 0 \/ ~Owned(d, t)
  <2>1. t \in Triple /\ Covered(c, t)
    BY SupportEntailed
  <2>2. t \in c.support => c.derived[t] = 1
    BY <1>7, <2>1 DEF Owners
  <2>3. e.extent[t] = 1
    BY <1>6, <1>7, <2>1, <2>2 DEF Covered, BasePresence, One
  <2>4. ASSUME ~Covered(e, t), Owned(e, t) PROVE seed[t] < 0 \/ ~Owned(d, t)
    <3>1. Owned(c, t) /\ Owned(m, t)
      BY <1>2, <1>6, <2>4 DEF Owned
    <3>2. CASE c.asserted[t] > 0
      BY <1>5, <1>6, <2>1, <2>4, <3>1, <3>2 DEF Covered
    <3>3. CASE t \in c.support
      <4>1. t \in orphans
        BY <1>2, <1>4, <2>4, <3>1, <3>3 DEF Covered
      <4> HIDE DEF e, orphans, delta
      <4>2. seed[t] < 0
        BY <1>1, <1>3, <2>1, <2>3, <2>4, <4>1, OrphanTaken
      <4> QED BY <4>2
    <3> QED BY <2>1, <3>2, <3>3 DEF Covered
  <2> QED BY <2>1, <2>3, <2>4
<1>11. Rooted(e, seed, d, A)
  <2> HIDE DEF seed, e
  <2> QED BY <1>9, <1>10 DEF Rooted
<1> HIDE DEF e, orphans, delta, A
<1>12. Within(d, X)
  BY <1>1, <1>3, <1>5, <1>8, <1>11, RulesInside
<1> QED BY <1>12 DEF d

\* Circuit::tick, in both retraction regimes: if a query saw nothing but what the
\* asserted base entailed, and a tick of the unified path takes no asserted copy
\* of a row that a rule owns before and after it, a query sees nothing else after
\* it: a row whose only support is itself, through the rules or through the
\* closure, is gone.
THEOREM TickSupported ==
    ASSUME NEW c, Held(c), c.sound, PresentSet(c) \subseteq Entailed(AssertedSet(c)),
           NEW X, Summable(X), NEW records \in Seq(X),
           Tick(c, records).sound, ~Unshadows(c, Tick(c, records))
    PROVE  PresentSet(Tick(c, records)) \subseteq Entailed(AssertedSet(Tick(c, records)))
<1> DEFINE delta    == NetDelta(records)
           merged   == [c EXCEPT !.asserted = Plus(@, delta), !.pending = NoEmission]
           flipped  == {t \in Triple : (c.asserted[t] > 0) # (merged.asserted[t] > 0)}
           insEdges == InsertedEdges(merged, delta)
           delEdges == DeletedEdges(merged, delta)
           retracts == \E n \in DOMAIN records : records[n].mult < 0
           fallen   == RecomputeFallback(merged, insEdges, delEdges)
           unified  == UnifiedPath(merged, flipped, insEdges, delEdges, retracts)
           last     == IF c.fallback /\ retracts THEN fallen ELSE unified
           d        == Tick(c, records)
           E        == Entailed(AssertedSet(d))
<1>1. d = NetRecordsChecked(last)
  BY DEF Tick
<1>2. ~retracts => \A t \in Triple : delta[t] >= 0
  BY NetAsserts
<1>3. insEdges \in SUBSET EdgeTriple /\ delEdges \in SUBSET EdgeTriple /\ delta \in Zset
  BY NetType DEF InsertedEdges, DeletedEdges
<1>4. WellFormed(c) /\ Exact(c) /\ Filled(c) /\ PlanHolds(c)
  BY DEF Held
<1>5. Merged(c, merged) /\ merged.asserted = Plus(c.asserted, delta)
  BY <1>3, <1>4, TickMerges
<1>6. flipped = FlippedRows(c, merged)
  BY DEF FlippedRows
<1>7. WellFormed(merged)
  BY <1>5 DEF Merged
<1>8. WellFormed(last)
  <2>1. WellFormed(fallen) /\ WellFormed(unified)
    BY <1>3, <1>7, TickRegimesMove DEF Moves
  <2> QED BY <2>1
<1>9. Held(d)
  BY TickHeld
<1>10. d.asserted = Plus(c.asserted, delta)
  <2>1. HasBase(c)
    BY <1>4, StateShape DEF WellFormed, HasBase
  <2> QED BY <2>1, TickAsserts
<1>11. d.sound /\ ~Unshadows(c, d)
  OBVIOUS
<1> HIDE DEF merged, flipped, insEdges, delEdges, retracts, delta, fallen, unified, last, d
<1>12. SameRows(last, d) /\ Beside(last, d) /\ (d.sound => last.sound)
  <2> DEFINE test == \A t \in Triple, k \in Kind : last.pending[t][k] \in -1 .. 1
  <2>1. d = Check(last, test) /\ test \in BOOLEAN
    BY <1>1 DEF NetRecordsChecked
  <2> HIDE DEF test
  <2> QED BY <1>8, <2>1, Checked
<1>13. /\ last.sound
       /\ \A t \in Triple : /\ Owned(d, t) <=> Owned(last, t)
                            /\ BasePresence(d, t) <=> BasePresence(last, t)
                            /\ Covered(d, t) <=> Covered(last, t)
  <2>1. /\ last.sound /\ d.asserted = last.asserted /\ d.derived = last.derived
        /\ d.attr = last.attr /\ d.support = last.support
    BY <1>11, <1>12 DEF SameRows, Beside
  <2> QED BY <2>1 DEF Owned, BasePresence, Covered
<1>14. Closes(E) /\ EntailedSeed(AssertedSet(d)) \subseteq E
  <2>1. AssertedSet(d) \in SUBSET Triple
    BY DEF AssertedSet
  <2> QED BY <2>1, EntailedCloses
<1>15. CoveredIn(last, E)
  <2> SUFFICES ASSUME NEW t \in Triple, Covered(d, t) PROVE t \in E
    BY <1>13 DEF CoveredIn
  <2>1. d.support \subseteq EntailedSeed(AssertedSet(d))
    BY <1>9, SupportEntailed DEF Held
  <2>2. AssertedSet(d) \subseteq EntailedSeed(AssertedSet(d))
    BY DEF EntailedSeed
  <2>3. t \in AssertedSet(d) \/ t \in d.support
    BY DEF Covered, AssertedSet
  <2> QED BY <1>14, <2>1, <2>2, <2>3
<1> HIDE DEF E
<1>16. CASE c.fallback /\ retracts
  <2>1. last = fallen
    BY <1>16 DEF last
  <2>2. Within(fallen, E)
    BY <1>3, <1>7, <1>14, <1>15, <2>1, RecomputeFallbackExact DEF fallen
  <2> QED BY <1>13, <2>1, <2>2 DEF Within, PresentSet, AssertedSet, DerivedSet, BasePresence, E, d
<1>17. CASE ~(c.fallback /\ retracts)
  <2>1. last = unified
    BY <1>17 DEF last
  <2>2. ASSUME NEW t \in Triple, c.asserted[t] > 0, Owned(c, t), ~(merged.asserted[t] > 0)
        PROVE  ~Owned(unified, t)
    <3>1. /\ d.asserted = merged.asserted /\ d.asserted[t] \in Int
          /\ c.asserted \in Zset /\ c.asserted[t] \in Int /\ delta[t] \in Int
          /\ merged.asserted[t] = c.asserted[t] + delta[t]
      BY <1>3, <1>4, <1>5, <1>9, <1>10, StateShape, ZsetAt, PlusAt DEF Held, WellFormed
    <3>2. d.asserted[t] <= 0 /\ delta[t] < 0
      BY <2>2, <3>1
    <3>3. ~c.fallback
      BY <1>2, <1>17, <3>1, <3>2
    <3>4. ~Owned(d, t)
      BY <1>11, <2>2, <3>2, <3>3 DEF Unshadows
    <3> QED BY <1>13, <2>1, <3>4
  <2>3. Within(unified, E)
    <3>1. unified = UnifiedPath(merged, FlippedRows(c, merged), insEdges, delEdges, retracts)
      BY <1>6 DEF unified
    <3>2. unified.sound /\ CoveredIn(unified, E)
      BY <1>13, <1>15, <2>1
    <3> QED BY <1>3, <1>4, <1>5, <1>14, <2>2, <3>1, <3>2, UnifiedInside
  <2> QED BY <1>13, <2>1, <2>3 DEF Within, PresentSet, AssertedSet, DerivedSet, BasePresence, E, d
<1> QED BY <1>16, <1>17
=============================================================================

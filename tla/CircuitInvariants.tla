------------------------- MODULE CircuitInvariants -------------------------
(***************************************************************************)
(* What has to hold of a circuit between two ticks: the invariants its     *)
(* debug_validate checks, and that it holds what its asserted base entails.*)
(* The modules that drive a circuit state these of theirs.                 *)
(***************************************************************************)
EXTENDS Circuit

AssertedSet(c) == {t \in Triple : c.asserted[t] > 0}
DerivedSet(c) == {t \in Triple : c.derived[t] > 0}
PresentSet(c) == AssertedSet(c) \cup DerivedSet(c)

\* debug_validate (i) and (ii): the extent is what one of the bases has, each
\* row once; weights and traces, kept up by deltas alone, count the one-step
\* derivations over it.
IncrementalExact(c) ==
    /\ c.extent = OneFor(PresentSet(c), 1)
    /\ \A t \in Triple, r \in Rule :
          c.weights[t][r] = Cardinality({i \in InstancesOf[t][r] : Derives(i, PresentSet(c))})
    /\ c.warm => \A p \in Prefix : c.trace[p] = c.extent[p[1]] * c.extent[p[2]]

\* debug_validate (iii) and (iv), both ways: a derived row is there once and
\* has an owner, the closure or a rule that derives it; an owner has its row.
RowsOwned(c) ==
    \A t \in Triple :
        /\ c.derived[t] = IF Owned(c, t) \/ t \in c.support THEN 1 ELSE 0
        /\ Owned(c, t) => c.weights[t][c.attr[t]] > 0

\* The pairs a path of edges connects: paths one edge longer in each round.
Reachable(edges) ==
    RepeatPerNode(
        LAMBDA R : R \cup {p \in Pair :
            \E z \in Node : <<p[1], z>> \in edges /\ <<z, p[2]>> \in R},
        edges)

\* The plan's base are the asserted edges, and its closed relation is their
\* transitive closure, whatever edges came and went in whatever order; its two
\* deletion algorithms would drop the same pairs.
ClosurePlanExact(c) ==
    /\ c.closure.base = {PairOf(t) : t \in AssertedSet(c) \cap EdgeTriple}
    /\ c.closure.closed = Reachable(c.closure.base)
    /\ \A e \in c.closure.base :
          DeleteBySupport(c.closure, e) = DeleteByRecompute(c.closure, e)

\* The least set with the asserted triples, the closure of the asserted edges
\* and the consequences of every rule.
Consequences(S) == S \cup {i.head : i \in {j \in Instance : Derives(j, S)}}
Entailed(asserted) ==
    LET edges == {Edge(p) : p \in Reachable({PairOf(t) : t \in asserted \cap EdgeTriple})}
        grow[n \in 0 .. Cardinality(Triple)] ==
            IF n = 0 THEN asserted \cup edges ELSE Consequences(grow[n - 1])
    IN  grow[Cardinality(Triple)]

\* A tick of the unified path, from c to d, took the asserted copy of a row a rule
\* owns: the row's presence does not change, so nothing re-examines its derivations.
Unshadows(c, d) ==
    /\ ~c.fallback
    /\ \E t \in Triple : /\ c.asserted[t] > 0 /\ d.asserted[t] <= 0
                         /\ Owned(c, t) /\ Owned(d, t)
=============================================================================

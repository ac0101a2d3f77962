--------------------------- MODULE MCCircuitDriver ---------------------------
(* Instances of CircuitDriver for TLC.                                       *)
EXTENDS CircuitDriver

MCEdge(x, y) == <<x, "partOf", y>>
MCFact(n) == <<n, "is", n>>

\* The closure derives a partOf c, and from it the rules u; u gives a partOf c
\* a second derivation, which is no support of its own.
MCFacts == {MCFact("u")}
MCRules == 1 .. 2
MCInstances ==
    {[rule |-> 1, body |-> <<MCEdge("a", "c"), MCEdge("a", "b")>>, head |-> MCFact("u")],
     [rule |-> 2, body |-> <<MCFact("u"), MCEdge("b", "c"), MCFact("u")>>,
      head |-> MCEdge("a", "c")]}
MCDelta(t, m) == [triple |-> t, mult |-> m]
MCInput == {MCDelta(MCEdge("a", "b"), 1), MCDelta(MCEdge("a", "b"), -1), MCDelta(MCEdge("b", "c"), 1)}
MCSetup == {[policy |-> "EveryBatch", fallback |-> FALSE], [policy |-> "Every", fallback |-> TRUE]}
=============================================================================

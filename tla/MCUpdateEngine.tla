--------------------------- MODULE MCUpdateEngine ---------------------------
(* Instances of UpdateEngine for TLC.                                        *)
EXTENDS UpdateEngine

MCEdge(x, y) == <<x, "partOf", y>>
MCFact(n) == <<n, "is", n>>

\* While k holds, a partOf c and u derive each other; the closure derives
\* a partOf c as well, and with b partOf c a second rule, of three atoms.  The
\* edges that can be asserted are those of a cycle, c partOf a from the start,
\* and a partOf c beside the path over b: what is deleted may be entailed by the
\* rest, and pairs that went with it may come back.
MCFacts == {MCFact(n) : n \in {"k", "u"}}
MCRules == 1 .. 3
MCInstances ==
    {[rule |-> 1, body |-> <<MCEdge("a", "c"), MCFact("k")>>, head |-> MCFact("u")],
     [rule |-> 2, body |-> <<MCFact("u"), MCFact("k")>>, head |-> MCEdge("a", "c")],
     [rule |-> 3, body |-> <<MCEdge("b", "c"), MCFact("k"), MCFact("u")>>,
      head |-> MCEdge("a", "c")]}
MCSeed == {MCFact("k"), MCEdge("c", "a")}

MCData(dels, adds) == [kind |-> "data", dels |-> {Default} \X dels, adds |-> {Default} \X adds]
MCSweep(g, silent) == [kind |-> "clear", graph |-> g, silent |-> silent]
MCInsert(t) == MCData({}, {t})
MCDelete(t) == MCData({t}, {})

\* a partOf b goes, and b partOf c comes, with the batch that does both.
MCOperations ==
    {MCInsert(t) : t \in {MCEdge("a", "b"), MCEdge("a", "c"), MCFact("u")}} \cup
    {MCDelete(t) : t \in {MCEdge("b", "c"), MCEdge("a", "c"), MCFact("u")}} \cup
    {MCData({MCEdge("a", "b"), MCFact("u")}, {MCEdge("b", "c")}),
     [kind |-> "data", dels |-> {}, adds |-> {<<Named, MCFact("k")>>}],
     MCSweep(Named, FALSE), MCSweep("all", FALSE),
     [kind |-> "create", silent |-> FALSE],
     [kind |-> "reserved"]}
MCBulk == {MCEdge("b", "c")}

\* A symmetric predicate (prp-symp): knows is declared symmetric.
MCKnows(x, y) == <<x, "knows", y>>
MCDeclared == <<"knows", "a", "SymmetricProperty">>
MCSymmetricFacts == {MCKnows("x", "y"), MCKnows("y", "x"), MCDeclared}
MCSymmetricRules == {1}
MCSymmetricInstances ==
    {[rule |-> 1, body |-> <<MCDeclared, MCKnows("x", "y")>>, head |-> MCKnows("y", "x")],
     [rule |-> 1, body |-> <<MCDeclared, MCKnows("y", "x")>>, head |-> MCKnows("x", "y")]}
MCSymmetricOperations ==
    {MCInsert(t) : t \in MCSymmetricFacts} \cup {MCDelete(t) : t \in MCSymmetricFacts}
=============================================================================

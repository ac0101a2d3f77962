------------------------- MODULE IncrementalClosure -------------------------
(***************************************************************************)
(* The transitive closure the closure backend keeps for one predicate      *)
(* (crates/closure/src/closure/incremental.rs): the asserted edges and the *)
(* closed relation, updated edge by edge.  Deletion has two algorithms,    *)
(* over-delete and re-derive (the default) and the affected-region         *)
(* recompute.  The forward and backward adjacency maps of the code are two *)
(* indexes of one relation; here each relation is a set of pairs.          *)
(***************************************************************************)
EXTENDS Integers, FiniteSets, FiniteSetsExt

CONSTANT Node      \* the dictionary ids the predicate's edges connect

ASSUME NodeAssumption == IsFiniteSet(Node)

Pair == Node \X Node

\* The asserted base edges and the closed relation.
Closure == [base : SUBSET Pair, closed : SUBSET Pair]
EmptyClosure == [base |-> {}, closed |-> {}]

\* S itself.  TLC keeps a set as the expression that defines it, and so all
\* the sets it is built from; a map over S makes it list the elements.
Listed(S) == {x : x \in S}

Into(R, y) == {x \in Node : <<x, y>> \in R}
From(R, x) == {y \in Node : <<x, y>> \in R}

\* Op applied once per node: every worklist below follows a path, so it has
\* nothing left to do by then.
RepeatPerNode(Op(_), start) ==
    LET round[n \in 0 .. Cardinality(Node)] ==
            IF n = 0 THEN Listed(start) ELSE Listed(Op(round[n - 1]))
    IN  round[Cardinality(Node)]

(***************************************************************************)
(* Insertion: what reaches the source, times what the target reaches.      *)
(***************************************************************************)
InsertEdge(c, e) ==
    [base   |-> Listed(c.base \cup {e}),
     closed |-> Listed(c.closed \cup ((Into(c.closed, e[1]) \cup {e[1]})
                                          \X (From(c.closed, e[2]) \cup {e[2]})))]

InsertEdges(c, edges) == FoldSet(LAMBDA e, acc : InsertEdge(acc, e), c, edges)

(***************************************************************************)
(* Deletion.  `base` below is the base the edge has already left.          *)
(***************************************************************************)
Targets(c, o) == From(c.closed, o) \cup {o}

\* Closed pairs that may have used the deleted edge: from its source, then
\* backward along the base edges that remain.
OverDeleted(c, e, base) ==
    RepeatPerNode(
        LAMBDA over : over \cup {p \in c.closed :
            \E x \in Node : <<p[1], x>> \in base /\ <<x, p[2]>> \in over},
        ({e[1]} \X Targets(c, e[2])) \cap c.closed)

\* Some base edge from p's source ends at p's target or at what reaches it.
Supported(p, base, closed) ==
    \E z \in From(base, p[1]) : z = p[2] \/ <<z, p[2]>> \in closed

\* Mutant: the pairs that rest on a pair that came back do not follow.
ReDerived_OnePass(over, base, kept) == kept \cup {p \in over : Supported(p, base, kept)}

\* The over-deleted pairs that what is left still supports come back.
ReDerived(over, base, kept) ==
    RepeatPerNode(
        LAMBDA closed : closed \cup {p \in over : Supported(p, base, closed)},
        kept)

Outcome(c, e, base, closed) ==
    [closure   |-> [base |-> Listed(base), closed |-> Listed(closed)],
     withdrawn |-> Listed(c.closed \ closed),
     survived  |-> {e} \cap closed]

Untouched(c) == [closure |-> c, withdrawn |-> {}, survived |-> {}]

DeleteBySupport(c, e) ==
    LET base == c.base \ {e}
        over == OverDeleted(c, e, base)
    IN  IF e \in c.base
        THEN Outcome(c, e, base, ReDerived(over, base, c.closed \ over))
        ELSE Untouched(c)

\* Everything a base path leads to from x.
BaseReach(base, x) ==
    RepeatPerNode(
        LAMBDA seen : seen \cup UNION {From(base, n) : n \in seen},
        From(base, x))

DeleteByRecompute(c, e) ==
    LET base    == c.base \ {e}
        region  == (Into(c.closed, e[1]) \cup {e[1]}) \X Targets(c, e[2])
        dropped == {p \in c.closed \cap region : p[2] \notin BaseReach(base, p[1])}
    IN  IF e \in c.base
        THEN Outcome(c, e, base, c.closed \ dropped)
        ELSE Untouched(c)

\* Edges deleted one at a time; a deleted edge that a later deletion of the
\* same call withdraws is no longer a survivor.
DeleteEdges(c, edges) ==
    LET all == FoldSet(
                 LAMBDA e, acc :
                    LET one == DeleteBySupport(acc.closure, e)
                    IN  [closure   |-> one.closure,
                         withdrawn |-> acc.withdrawn \cup one.withdrawn,
                         survived  |-> acc.survived \cup one.survived],
                 Untouched(c), edges)
    IN  [all EXCEPT !.survived = @ \cap all.closure.closed]
=============================================================================

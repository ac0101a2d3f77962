--------------------------- MODULE CircuitProofs ---------------------------
(***************************************************************************)
(* Proofs about the incremental closure: an inserted edge keeps the closed *)
(* relation closed, and both deletion algorithms leave the closure of the  *)
(* edges that are left.  And about one tick of the circuit, whatever its   *)
(* closure passes, its fixpoints or its recompute fallback do: the         *)
(* asserted base after it is the one before it plus the sum of the tick's  *)
(* records (TickAsserts), a derived row is there once and has an owner,    *)
(* and the net records the tick publishes are the derived rows it brought  *)
(* and took (TickMoves).  CircuitExactness builds on both.                 *)
(***************************************************************************)
EXTENDS CircuitInvariants, SequencesExt, FiniteSetTheorems, FunctionTheorems, SequenceTheorems,
        WellFoundedInduction, TLAPS

(***************************************************************************)
(* Induction over the natural numbers and over finite sets, in the form    *)
(* the facts on recursions and folds take as a hypothesis.                 *)
(***************************************************************************)

\* A non-empty set of natural numbers has a least element.
LEMMA LeastElement ==
    ASSUME NEW T, T \subseteq Nat, T # {}
    PROVE  \E n \in T : \A k \in T : n <= k
<1>1. IsWellFoundedOn(OpToRel(<, Nat), Nat)
  BY NatLessThanWellFounded
<1>2. PICK x \in T : \A y \in T : ~(<<y, x>> \in OpToRel(<, Nat))
  BY <1>1, WFMin
<1>3. \A y \in T : ~(y < x)
  BY <1>2 DEF OpToRel
<1> QED BY <1>3

\* A set with 0 and every successor of an element has every natural number.
LEMMA Induction ==
    ASSUME NEW S, 0 \in S, \A n \in Nat : n \in S => n + 1 \in S
    PROVE  \A n \in Nat : n \in S
<1> SUFFICES ASSUME Nat \ S # {} PROVE FALSE
  OBVIOUS
<1>1. PICK n \in Nat \ S : \A k \in Nat \ S : n <= k
  BY LeastElement
<1>2. n # 0
  OBVIOUS
<1>3. n - 1 \in Nat
  BY <1>2
<1>4. n - 1 \in S
  BY <1>1, <1>3
<1>5. n - 1 + 1 \in S
  BY <1>3, <1>4
<1> QED BY <1>5

LEMMA FiniteCounted ==
    ASSUME NEW S, IsFiniteSet(S)
    PROVE  \A d \in SUBSET S : /\ Cardinality(d) \in Nat
                               /\ \A x \in d : Cardinality(d \ {x}) < Cardinality(d)
<1> SUFFICES ASSUME NEW d \in SUBSET S
             PROVE  /\ Cardinality(d) \in Nat
                    /\ \A x \in d : Cardinality(d \ {x}) < Cardinality(d)
  OBVIOUS
<1>1. IsFiniteSet(d) /\ Cardinality(d) \in Nat
  BY FS_Subset, FS_CardinalityType
<1>2. ASSUME NEW x \in d PROVE Cardinality(d \ {x}) = Cardinality(d) - 1
  BY <1>1, FS_RemoveElement
<1> QED BY <1>1, <1>2

-----------------------------------------------------------------------------
(* The closure of a set of edges.                                            *)

Transitive(R) == \A x, y, z \in Node : <<x, y>> \in R /\ <<y, z>> \in R => <<x, z>> \in R

\* The pairs that every transitive relation with these edges has.
Closed(edges) == {p \in Pair : \A R \in SUBSET Pair : edges \subseteq R /\ Transitive(R) => p \in R}

LEMMA PairParts ==
    /\ \A p \in Pair : p = <<p[1], p[2]>> /\ p[1] \in Node /\ p[2] \in Node
    /\ \A x, y \in Node : <<x, y>> \in Pair /\ <<x, y>>[1] = x /\ <<x, y>>[2] = y
BY DEF Pair

LEMMA ClosedIs ==
    ASSUME NEW edges \in SUBSET Pair
    PROVE  edges \subseteq Closed(edges) /\ Transitive(Closed(edges)) /\ Closed(edges) \subseteq Pair
<1>1. edges \subseteq Closed(edges) /\ Closed(edges) \subseteq Pair
  BY DEF Closed
<1>2. ASSUME NEW x \in Node, NEW y \in Node, NEW z \in Node,
             <<x, y>> \in Closed(edges), <<y, z>> \in Closed(edges)
      PROVE  <<x, z>> \in Closed(edges)
  <2>1. <<x, z>> \in Pair
    BY PairParts
  <2>2. ASSUME NEW R \in SUBSET Pair, edges \subseteq R, Transitive(R) PROVE <<x, z>> \in R
    <3>1. <<x, y>> \in R /\ <<y, z>> \in R
      BY <1>2, <2>2 DEF Closed
    <3> QED BY <2>2, <3>1 DEF Transitive
  <2> QED BY <2>1, <2>2 DEF Closed
<1> QED BY <1>1, <1>2 DEF Transitive

LEMMA ClosedLeast ==
    ASSUME NEW edges, NEW R \in SUBSET Pair, edges \subseteq R, Transitive(R)
    PROVE  Closed(edges) \subseteq R
BY DEF Closed

\* Induction along a path, from its end.
LEMMA ClosedBackward ==
    ASSUME NEW edges \in SUBSET Pair, NEW S \in SUBSET Pair, edges \subseteq S,
           \A x, y, z \in Node : <<x, y>> \in edges /\ <<y, z>> \in S => <<x, z>> \in S
    PROVE  Closed(edges) \subseteq S
<1> DEFINE R == {p \in Pair : p \in S /\ \A z \in Node : <<p[2], z>> \in S => <<p[1], z>> \in S}
<1>1. edges \subseteq R
  BY PairParts
<1>2. Transitive(R)
  BY PairParts DEF Transitive
<1>3. R \in SUBSET Pair /\ R \subseteq S
  OBVIOUS
<1> HIDE DEF R
<1> QED BY <1>1, <1>2, <1>3, ClosedLeast

LEMMA ClosedMonotone ==
    ASSUME NEW less \in SUBSET Pair, NEW more \in SUBSET Pair, less \subseteq more
    PROVE  Closed(less) \subseteq Closed(more)
<1>1. less \subseteq Closed(more) /\ Transitive(Closed(more)) /\ Closed(more) \in SUBSET Pair
  BY ClosedIs
<1> QED BY <1>1, ClosedLeast

-----------------------------------------------------------------------------
(* Rounds that add to a set of nodes settle within as many rounds.           *)

Rounds == INSTANCE RecursionFacts WITH
        Bottom <- LAMBDA n : n = 0,
        Prev   <- LAMBDA n : n - 1,
        Rank   <- LAMBDA n : n,
        Base   <- LAMBDA x, n : x,
        Step   <- LAMBDA x, n, v : v

\* h is a step that only adds, f the sets it goes through in N rounds.
Growing(X, N, f, h) ==
    /\ \A S \in SUBSET X : h[S] \in SUBSET X /\ S \subseteq h[S]
    /\ f[0] \in SUBSET X
    /\ \A n \in 0 .. N - 1 : f[n + 1] = h[f[n]]

LEMMA RoundsSettle ==
    ASSUME NEW X, IsFiniteSet(X), NEW N \in Nat, N >= Cardinality(X), NEW f, NEW h,
           Growing(X, N, f, h)
    PROVE  h[f[N]] = f[N] /\ f[N] \in SUBSET X
<1> USE DEF Growing
<1> DEFINE M == {n \in Nat : n <= N => /\ f[n] \in SUBSET X
                                       /\ h[f[n]] = f[n] \/ Cardinality(f[n]) >= n}
<1>1. 0 \in M
  <2>1. Cardinality(f[0]) >= 0
    BY FS_Subset, FS_CardinalityType
  <2> QED BY <2>1
<1>2. ASSUME NEW n \in Nat, n \in M PROVE n + 1 \in M
  <2> SUFFICES ASSUME n + 1 <= N PROVE /\ f[n + 1] \in SUBSET X
                                       /\ h[f[n + 1]] = f[n + 1] \/ Cardinality(f[n + 1]) >= n + 1
    OBVIOUS
  <2>1. f[n + 1] = h[f[n]] /\ f[n] \in SUBSET X /\ (h[f[n]] = f[n] \/ Cardinality(f[n]) >= n)
    BY <1>2
  <2>2. f[n + 1] \in SUBSET X /\ f[n] \subseteq f[n + 1]
    BY <2>1
  <2>3. CASE h[f[n]] = f[n]
    BY <2>1, <2>2, <2>3
  <2>4. CASE h[f[n]] # f[n]
    <3>1. IsFiniteSet(f[n + 1]) /\ Cardinality(f[n + 1]) \in Nat
      BY <2>2, FS_Subset, FS_CardinalityType
    <3>2. Cardinality(f[n]) \in Nat /\ Cardinality(f[n]) <= Cardinality(f[n + 1])
          /\ Cardinality(f[n]) # Cardinality(f[n + 1])
      BY <2>1, <2>2, <2>4, <3>1, FS_Subset, FS_CardinalityType
    <3>3. Cardinality(f[n]) >= n
      BY <2>1, <2>4
    <3> QED BY <2>2, <3>1, <3>2, <3>3
  <2> QED BY <2>3, <2>4
<1>3. \A n \in Nat : n \in M
  <2> HIDE DEF M
  <2> QED BY <1>1, <1>2, Induction
<1>4. f[N] \in SUBSET X /\ (h[f[N]] = f[N] \/ Cardinality(f[N]) >= N)
  BY <1>3
<1>5. ASSUME Cardinality(f[N]) >= N PROVE h[f[N]] = f[N]
  <2>1. Cardinality(f[N]) \in Nat /\ Cardinality(X) \in Nat /\ Cardinality(f[N]) <= Cardinality(X)
    BY <1>4, FS_Subset, FS_CardinalityType
  <2>2. Cardinality(f[N]) = Cardinality(X)
    BY <1>5, <2>1
  <2>3. f[N] = X
    BY <1>4, <2>2, FS_Subset
  <2>4. h[X] \in SUBSET X /\ X \subseteq h[X]
    OBVIOUS
  <2>5. h[X] = X
    BY <2>4
  <2> QED BY <2>3, <2>5
<1> QED BY <1>4, <1>5

LEMMA NodeCount == Cardinality(Node) \in Nat
BY NodeAssumption, FS_CardinalityType

-----------------------------------------------------------------------------
(* The three worklists, and what they have when they are done.               *)

OverStep(c, e, base, over) ==
    over \cup {p \in c.closed : \E x \in Node : <<p[1], x>> \in base /\ <<x, p[2]>> \in over}

OverRounds == INSTANCE RecursionFacts WITH
        Bottom <- LAMBDA n : n = 0,
        Prev   <- LAMBDA n : n - 1,
        Rank   <- LAMBDA n : n,
        Base   <- LAMBDA x, n : Listed(({x[2][1]} \X Targets(x[1], x[2][2])) \cap x[1].closed),
        Step   <- LAMBDA x, n, over : Listed(OverStep(x[1], x[2], x[3], over))

BackStep(over, base, closed) == closed \cup {p \in over : Supported(p, base, closed)}

BackRounds == INSTANCE RecursionFacts WITH
        Bottom <- LAMBDA n : n = 0,
        Prev   <- LAMBDA n : n - 1,
        Rank   <- LAMBDA n : n,
        Base   <- LAMBDA x, n : Listed(x[3]),
        Step   <- LAMBDA x, n, closed : Listed(BackStep(x[1], x[2], closed))

ReachStep(base, seen) == seen \cup UNION {From(base, n) : n \in seen}

ReachRounds == INSTANCE RecursionFacts WITH
        Bottom <- LAMBDA n : n = 0,
        Prev   <- LAMBDA n : n - 1,
        Rank   <- LAMBDA n : n,
        Base   <- LAMBDA x, n : Listed(From(x[1], x[2])),
        Step   <- LAMBDA x, n, seen : Listed(ReachStep(x[1], seen))

LEMMA OverDeletedWithin ==
    ASSUME NEW c, NEW e, NEW base
    PROVE  /\ OverDeleted(c, e, base) \subseteq c.closed
           /\ ({e[1]} \X Targets(c, e[2])) \cap c.closed \subseteq OverDeleted(c, e, base)
<1> DEFINE D == 0 .. Cardinality(Node)
           first == ({e[1]} \X Targets(c, e[2])) \cap c.closed
           V == {S \in SUBSET c.closed : first \subseteq S}
           ctx == <<c, e, base>>
<1>1. OverRounds!Grounded(D) /\ Cardinality(Node) \in D
  BY NodeCount, Induction DEF OverRounds!Grounded, OverRounds!Ranked, OverRounds!Inductive
<1>2. OverDeleted(c, e, base) = OverRounds!Solution(ctx, D)[Cardinality(Node)]
  BY DEF OverDeleted, RepeatPerNode, OverRounds!Solution, OverStep
<1>3. Listed(({ctx[2][1]} \X Targets(ctx[1], ctx[2][2])) \cap ctx[1].closed) \in V
  BY DEF Listed
<1>4. \A over \in V : Listed(OverStep(ctx[1], ctx[2], ctx[3], over)) \in V
  BY DEF Listed, OverStep
<1>5. \A n \in D : OverRounds!Solution(ctx, D)[n] \in V
  <2> HIDE DEF D, V, ctx
  <2> QED BY <1>1, <1>3, <1>4, OverRounds!SolutionIn
<1> QED BY <1>1, <1>2, <1>5

\* Nothing more leads to an over-deleted pair: pairs with one target are found
\* in at most a round per source.
LEMMA OverDeletedSettles ==
    ASSUME NEW c \in Closure, NEW e, NEW base,
           NEW x \in Node, NEW y \in Node, NEW z \in Node,
           <<x, y>> \in base, <<y, z>> \in OverDeleted(c, e, base), <<x, z>> \in c.closed
    PROVE  <<x, z>> \in OverDeleted(c, e, base)
<1> DEFINE N == Cardinality(Node)
           D == 0 .. N
           ctx == <<c, e, base>>
           sol == OverRounds!Solution(ctx, D)
           f == [n \in D |-> {w \in Node : <<w, z>> \in sol[n]}]
           h == [S \in SUBSET Node |-> S \cup {w \in Node : /\ <<w, z>> \in c.closed
                                                           /\ \E v \in Node : <<w, v>> \in base /\ v \in S}]
<1>1. OverRounds!Grounded(D) /\ N \in D /\ N \in Nat
  BY NodeCount, Induction DEF OverRounds!Grounded, OverRounds!Ranked, OverRounds!Inductive
<1>2. OverDeleted(c, e, base) = sol[N]
  BY DEF OverDeleted, RepeatPerNode, OverRounds!Solution, OverStep
<1>3. \A n \in D : sol[n] = IF n = 0 THEN Listed(({ctx[2][1]} \X Targets(ctx[1], ctx[2][2])) \cap ctx[1].closed)
                            ELSE Listed(OverStep(ctx[1], ctx[2], ctx[3], sol[n - 1]))
  <2> HIDE DEF D, ctx
  <2> QED BY <1>1, OverRounds!SolutionSolves
<1> HIDE DEF sol
<1>4. \A n \in 0 .. N - 1 : sol[n + 1] = OverStep(c, e, base, sol[n])
  <2> SUFFICES ASSUME NEW n \in 0 .. N - 1 PROVE sol[n + 1] = OverStep(c, e, base, sol[n])
    OBVIOUS
  <2>1. n + 1 \in D /\ n + 1 # 0 /\ (n + 1) - 1 = n
    BY <1>1
  <2>2. sol[n + 1] = Listed(OverStep(ctx[1], ctx[2], ctx[3], sol[n]))
    BY <1>3, <2>1
  <2> QED BY <2>2 DEF Listed
<1>5. \A n \in 0 .. N - 1 : f[n + 1] = h[f[n]]
  <2> SUFFICES ASSUME NEW n \in 0 .. N - 1 PROVE f[n + 1] = h[f[n]]
    OBVIOUS
  <2>1. n \in D /\ n + 1 \in D
    BY <1>1
  <2>2. f[n + 1] = {w \in Node : <<w, z>> \in OverStep(c, e, base, sol[n])}
    BY <1>4, <2>1
  <2>3. \A w \in Node : <<w, z>> \in OverStep(c, e, base, sol[n]) <=>
            \/ <<w, z>> \in sol[n]
            \/ <<w, z>> \in c.closed /\ \E v \in Node : <<w, v>> \in base /\ <<v, z>> \in sol[n]
    BY DEF OverStep
  <2>4. f[n] = {w \in Node : <<w, z>> \in sol[n]}
    BY <2>1
  <2> QED BY <2>2, <2>3, <2>4
<1>6. \A S \in SUBSET Node : h[S] \in SUBSET Node /\ S \subseteq h[S]
  OBVIOUS
<1>7. f[0] \in SUBSET Node /\ f[N] = {w \in Node : <<w, z>> \in sol[N]}
  BY <1>1
<1>8. h[f[N]] = f[N] /\ f[N] \in SUBSET Node
  <2>1. N >= Cardinality(Node) /\ N \in Nat
    BY <1>1
  <2>2. IsFiniteSet(Node)
    BY NodeAssumption
  <2>3. f[0] \in SUBSET Node
    BY <1>7
  <2>4. Growing(Node, N, f, h)
    <3> HIDE DEF f, h, N
    <3> QED BY <1>5, <1>6, <2>3 DEF Growing
  <2> HIDE DEF f, h, N
  <2> QED BY <2>1, <2>2, <2>4, RoundsSettle
<1>9. y \in f[N]
  BY <1>2, <1>7
<1>10. x \in h[f[N]]
  <2> HIDE DEF f
  <2> QED BY <1>8, <1>9
<1> HIDE DEF f, h
<1> QED BY <1>2, <1>7, <1>8, <1>10

\* S is between the kept pairs and any bound that the re-deriving step keeps.
LEMMA ReDerivedWithin ==
    ASSUME NEW over, NEW base, NEW kept, NEW bound, kept \subseteq bound,
           \A p \in over : Supported(p, base, bound) => p \in bound
    PROVE  kept \subseteq ReDerived(over, base, kept) /\ ReDerived(over, base, kept) \subseteq bound
<1> DEFINE D == 0 .. Cardinality(Node)
           V == {S \in SUBSET bound : kept \subseteq S}
           ctx == <<over, base, kept>>
<1>1. BackRounds!Grounded(D) /\ Cardinality(Node) \in D
  BY NodeCount, Induction DEF BackRounds!Grounded, BackRounds!Ranked, BackRounds!Inductive
<1>2. ReDerived(over, base, kept) = BackRounds!Solution(ctx, D)[Cardinality(Node)]
  BY DEF ReDerived, RepeatPerNode, BackRounds!Solution, BackStep
<1>3. Listed(ctx[3]) \in V
  BY DEF Listed
<1>4. \A closed \in V : Listed(BackStep(ctx[1], ctx[2], closed)) \in V
  <2>1. \A closed \in V : \A p : Supported(p, base, closed) => Supported(p, base, bound)
    BY DEF Supported
  <2> QED BY <2>1 DEF Listed, BackStep
<1>5. \A n \in D : BackRounds!Solution(ctx, D)[n] \in V
  <2> HIDE DEF D, V, ctx
  <2> QED BY <1>1, <1>3, <1>4, BackRounds!SolutionIn
<1> QED BY <1>1, <1>2, <1>5

\* No over-deleted pair is left out that what came back supports.
LEMMA ReDerivedSettles ==
    ASSUME NEW over \in SUBSET Pair, NEW base, NEW kept \in SUBSET Pair, NEW p \in over,
           Supported(p, base, ReDerived(over, base, kept))
    PROVE  p \in ReDerived(over, base, kept)
<1> DEFINE N == Cardinality(Node)
           D == 0 .. N
           ctx == <<over, base, kept>>
           sol == BackRounds!Solution(ctx, D)
           x == p[1]
           z == p[2]
           f == [n \in D |-> {w \in Node : <<w, z>> \in sol[n]}]
           h == [S \in SUBSET Node |-> S \cup {w \in Node : /\ <<w, z>> \in over
                                                           /\ \E v \in From(base, w) : v = z \/ v \in S}]
<1>0. p = <<x, z>> /\ x \in Node /\ z \in Node
  BY PairParts
<1> HIDE DEF x, z
<1>1. BackRounds!Grounded(D) /\ N \in D /\ N \in Nat
  BY NodeCount, Induction DEF BackRounds!Grounded, BackRounds!Ranked, BackRounds!Inductive
<1>2. ReDerived(over, base, kept) = sol[N]
  BY DEF ReDerived, RepeatPerNode, BackRounds!Solution, BackStep
<1>3. \A n \in D : sol[n] = IF n = 0 THEN Listed(ctx[3])
                            ELSE Listed(BackStep(ctx[1], ctx[2], sol[n - 1]))
  <2> HIDE DEF D, ctx
  <2> QED BY <1>1, BackRounds!SolutionSolves
<1> HIDE DEF sol
<1>4. \A n \in 0 .. N - 1 : sol[n + 1] = BackStep(over, base, sol[n])
  <2> SUFFICES ASSUME NEW n \in 0 .. N - 1 PROVE sol[n + 1] = BackStep(over, base, sol[n])
    OBVIOUS
  <2>1. n + 1 \in D /\ n + 1 # 0 /\ (n + 1) - 1 = n
    BY <1>1
  <2>2. sol[n + 1] = Listed(BackStep(ctx[1], ctx[2], sol[n]))
    BY <1>3, <2>1
  <2> QED BY <2>2 DEF Listed
<1>5. \A n \in 0 .. N - 1 : f[n + 1] = h[f[n]]
  <2> SUFFICES ASSUME NEW n \in 0 .. N - 1 PROVE f[n + 1] = h[f[n]]
    OBVIOUS
  <2>1. n \in D /\ n + 1 \in D
    BY <1>1
  <2>2. f[n + 1] = {w \in Node : <<w, z>> \in BackStep(over, base, sol[n])}
    BY <1>4, <2>1
  <2>3. ASSUME NEW w \in Node
        PROVE  <<w, z>> \in BackStep(over, base, sol[n]) <=>
                  \/ <<w, z>> \in sol[n]
                  \/ <<w, z>> \in over /\ \E v \in From(base, w) : v = z \/ <<v, z>> \in sol[n]
    <3>1. <<w, z>>[1] = w /\ <<w, z>>[2] = z
      OBVIOUS
    <3> QED BY <3>1 DEF BackStep, Supported
  <2>4. f[n] = {w \in Node : <<w, z>> \in sol[n]}
    BY <2>1
  <2>5. \A w \in Node : \A v \in From(base, w) : <<v, z>> \in sol[n] <=> v \in f[n]
    BY <2>4 DEF From
  <2>6. \A w \in Node : w \in f[n + 1] <=>
            \/ w \in f[n]
            \/ <<w, z>> \in over /\ \E v \in From(base, w) : v = z \/ v \in f[n]
    <3> HIDE DEF f
    <3> QED BY <2>2, <2>3, <2>4, <2>5
  <2>7. f[n] \in SUBSET Node /\ f[n + 1] \subseteq Node
    BY <2>2, <2>4
  <2> HIDE DEF f
  <2> QED BY <2>6, <2>7
<1>6. \A S \in SUBSET Node : h[S] \in SUBSET Node /\ S \subseteq h[S]
  OBVIOUS
<1>7. f[0] \in SUBSET Node /\ f[N] = {w \in Node : <<w, z>> \in sol[N]}
  BY <1>1
<1>8. h[f[N]] = f[N] /\ f[N] \in SUBSET Node
  <2>1. N >= Cardinality(Node) /\ N \in Nat
    BY <1>1
  <2>2. IsFiniteSet(Node)
    BY NodeAssumption
  <2>3. f[0] \in SUBSET Node
    BY <1>7
  <2>4. Growing(Node, N, f, h)
    <3> HIDE DEF f, h, N
    <3> QED BY <1>5, <1>6, <2>3 DEF Growing
  <2> HIDE DEF f, h, N
  <2> QED BY <2>1, <2>2, <2>4, RoundsSettle
<1>9. PICK v \in From(base, x) : v = z \/ <<v, z>> \in sol[N]
  BY <1>0, <1>2 DEF Supported
<1>10. v \in Node /\ (v = z \/ v \in f[N])
  BY <1>7, <1>9 DEF From
<1>11. x \in h[f[N]]
  <2> HIDE DEF f
  <2> QED BY <1>0, <1>8, <1>9, <1>10
<1> HIDE DEF f, h
<1> QED BY <1>0, <1>2, <1>7, <1>8, <1>11

\* What the base leads to from a node is what its closure leads to.
LEMMA BaseReachClosed ==
    ASSUME NEW base \in SUBSET Pair, NEW x \in Node
    PROVE  BaseReach(base, x) = {y \in Node : <<x, y>> \in Closed(base)}
<1> DEFINE N == Cardinality(Node)
           D == 0 .. N
           ctx == <<base, x>>
           sol == ReachRounds!Solution(ctx, D)
           R == {y \in Node : <<x, y>> \in Closed(base)}
           h == [S \in SUBSET Node |-> ReachStep(base, S)]
<1>0. base \subseteq Closed(base) /\ Transitive(Closed(base))
  BY ClosedIs
<1>1. ReachRounds!Grounded(D) /\ N \in D /\ N \in Nat
  BY NodeCount, Induction DEF ReachRounds!Grounded, ReachRounds!Ranked, ReachRounds!Inductive
<1>2. BaseReach(base, x) = sol[N]
  BY DEF BaseReach, RepeatPerNode, ReachRounds!Solution, ReachStep
<1>3. \A n \in D : sol[n] = IF n = 0 THEN Listed(From(ctx[1], ctx[2]))
                            ELSE Listed(ReachStep(ctx[1], sol[n - 1]))
  <2> HIDE DEF D, ctx
  <2> QED BY <1>1, ReachRounds!SolutionSolves
<1> DEFINE V == {S \in SUBSET R : From(base, x) \subseteq S}
<1>4. \A n \in D : sol[n] \in V
  <2>1. Listed(From(ctx[1], ctx[2])) \in V
    BY <1>0 DEF Listed, From
  <2>2. ASSUME NEW S \in V PROVE Listed(ReachStep(ctx[1], S)) \in V
    <3>1. \A n \in S : n \in Node /\ <<x, n>> \in Closed(base)
      OBVIOUS
    <3>2. \A n \in S : \A y \in From(base, n) : y \in Node /\ <<x, y>> \in Closed(base)
      BY <1>0, <3>1 DEF From, Transitive
    <3> QED BY <3>2 DEF Listed, ReachStep
  <2> HIDE DEF D, V, ctx
  <2> QED BY <1>1, <2>1, <2>2, ReachRounds!SolutionIn
<1> HIDE DEF sol
<1>5. \A n \in 0 .. N - 1 : sol[n + 1] = h[sol[n]]
  <2> SUFFICES ASSUME NEW n \in 0 .. N - 1 PROVE sol[n + 1] = h[sol[n]]
    OBVIOUS
  <2>1. n + 1 \in D /\ n + 1 # 0 /\ (n + 1) - 1 = n /\ n \in D
    BY <1>1
  <2>2. sol[n + 1] = Listed(ReachStep(ctx[1], sol[n]))
    BY <1>3, <2>1
  <2>3. sol[n] \in SUBSET Node
    BY <1>4, <2>1
  <2> QED BY <2>2, <2>3 DEF Listed
<1>6. \A S \in SUBSET Node : h[S] \in SUBSET Node /\ S \subseteq h[S]
  BY DEF ReachStep, From
<1>7. sol[0] \in SUBSET Node
  <2>1. 0 \in D
    BY <1>1
  <2>2. sol[0] \in V
    BY <1>4, <2>1
  <2> QED BY <2>2
<1>8. h[sol[N]] = sol[N] /\ sol[N] \in SUBSET Node
  <2>1. N >= Cardinality(Node) /\ N \in Nat
    BY <1>1
  <2>2. IsFiniteSet(Node)
    BY NodeAssumption
  <2>4. Growing(Node, N, sol, h)
    <3> HIDE DEF h, N
    <3> QED BY <1>5, <1>6, <1>7 DEF Growing
  <2> HIDE DEF h, N
  <2> QED BY <2>1, <2>2, <2>4, RoundsSettle
<1> DEFINE F == sol[N]
<1>9. F \in V /\ ReachStep(base, F) = F
  BY <1>1, <1>4, <1>8
<1> HIDE DEF F
<1>10. \A n \in F : \A y \in From(base, n) : y \in F
  BY <1>9 DEF ReachStep
<1> DEFINE Q == {p \in Pair : p[1] \in F \cup {x} => p[2] \in F}
<1>11. base \subseteq Q
  <2> SUFFICES ASSUME NEW p \in base, p[1] \in F \cup {x} PROVE p[2] \in F
    OBVIOUS
  <2>1. p = <<p[1], p[2]>> /\ p[1] \in Node /\ p[2] \in Node
    BY PairParts
  <2>2. p[2] \in From(base, p[1])
    BY <2>1 DEF From
  <2> QED BY <1>9, <1>10, <2>2
<1>12. Transitive(Q)
  BY PairParts DEF Transitive
<1>13. Closed(base) \subseteq Q
  <2> HIDE DEF Q
  <2>1. Q \in SUBSET Pair
    BY DEF Q
  <2> QED BY <1>11, <1>12, <2>1, ClosedLeast
<1>14. R \subseteq F
  <2> SUFFICES ASSUME NEW y \in Node, <<x, y>> \in Closed(base) PROVE y \in F
    OBVIOUS
  <2>1. <<x, y>> \in Q
    BY <1>13
  <2> QED BY <2>1
<1>15. F \subseteq R
  BY <1>9
<1> QED BY <1>2, <1>14, <1>15 DEF F

-----------------------------------------------------------------------------
(* One edge more, one edge less.                                             *)

PlanClosed(c) == c \in Closure /\ c.closed = Closed(c.base)

LEMMA PlanClosedIs ==
    ASSUME NEW c, PlanClosed(c)
    PROVE  /\ c.base \in SUBSET Pair /\ c.closed \in SUBSET Pair
           /\ c = [base |-> c.base, closed |-> Closed(c.base)]
           /\ c.base \subseteq c.closed /\ Transitive(c.closed)
BY ClosedIs DEF PlanClosed, Closure

\* insert_edge adds what reaches the edge's start to what its end reaches, and no
\* more rounds: for every closed relation that is the closure of the base, it is
\* the closure of the base and the edge.
THEOREM InsertEdgeClosed ==
    ASSUME NEW c, PlanClosed(c), NEW e \in Pair
    PROVE  InsertEdge(c, e) = [base |-> c.base \cup {e}, closed |-> Closed(c.base \cup {e})]
<1> DEFINE base == c.base \cup {e}
           into == Into(c.closed, e[1]) \cup {e[1]}
           from == From(c.closed, e[2]) \cup {e[2]}
           grown == c.closed \cup (into \X from)
<1>1. /\ c.base \in SUBSET Pair /\ c.closed \in SUBSET Pair
      /\ c.base \subseteq c.closed /\ Transitive(c.closed) /\ c.closed = Closed(c.base)
  BY PlanClosedIs DEF PlanClosed
<1>2. e = <<e[1], e[2]>> /\ e[1] \in Node /\ e[2] \in Node /\ base \in SUBSET Pair
  BY <1>1, PairParts
<1>3. InsertEdge(c, e) = [base |-> base, closed |-> grown]
  BY DEF InsertEdge, Listed
<1>4. /\ \A x : x \in into <=> x \in Node /\ (x = e[1] \/ <<x, e[1]>> \in c.closed)
      /\ \A x : x \in from <=> x \in Node /\ (x = e[2] \/ <<e[2], x>> \in c.closed)
  BY <1>2 DEF Into, From
<1>5. /\ \A x, y \in Node : <<x, y>> \in grown <=> <<x, y>> \in c.closed \/ (x \in into /\ y \in from)
      /\ grown \in SUBSET Pair
  BY <1>1, <1>4 DEF Pair
<1>6. base \subseteq grown
  <2>1. e[1] \in into /\ e[2] \in from
    BY <1>2
  <2>2. e \in grown
    BY <1>2, <2>1
  <2> QED BY <1>1, <2>2
<1> HIDE DEF into, from, grown
<1>7. Transitive(grown)
  <2> SUFFICES ASSUME NEW x \in Node, NEW y \in Node, NEW z \in Node,
                      <<x, y>> \in grown, <<y, z>> \in grown
               PROVE  <<x, z>> \in grown
    BY DEF Transitive
  <2>1. CASE <<x, y>> \in c.closed /\ <<y, z>> \in c.closed
    BY <1>1, <1>5, <2>1 DEF Transitive
  <2>2. CASE <<x, y>> \in c.closed /\ y \in into /\ z \in from
    <3>1. x \in into
      BY <1>1, <1>2, <1>4, <2>2 DEF Transitive
    <3> QED BY <1>5, <2>2, <3>1
  <2>3. CASE x \in into /\ y \in from /\ <<y, z>> \in c.closed
    <3>1. z \in from
      BY <1>1, <1>2, <1>4, <2>3 DEF Transitive
    <3> QED BY <1>5, <2>3, <3>1
  <2>4. CASE x \in into /\ z \in from
    BY <1>5, <2>4
  <2> QED BY <1>5, <2>1, <2>2, <2>3, <2>4
<1>8. Closed(base) \subseteq grown
  <2> HIDE DEF base
  <2> QED BY <1>5, <1>6, <1>7, ClosedLeast
<1>9. grown \subseteq Closed(base)
  <2>1. base \subseteq Closed(base) /\ Transitive(Closed(base)) /\ c.closed \subseteq Closed(base)
    <3>1. c.base \subseteq base
      OBVIOUS
    <3> HIDE DEF base
    <3> QED BY <1>1, <1>2, <3>1, ClosedIs, ClosedMonotone
  <2> SUFFICES ASSUME NEW x \in Node, NEW y \in Node, x \in into, y \in from
               PROVE  <<x, y>> \in Closed(base)
    BY <1>5, <2>1, PairParts
  <2>2. <<e[1], e[2]>> \in Closed(base)
    BY <1>2, <2>1
  <2>3. <<x, e[2]>> \in Closed(base)
    <3>1. x = e[1] \/ <<x, e[1]>> \in Closed(base)
      BY <1>4, <2>1
    <3> HIDE DEF base
    <3> QED BY <1>2, <2>1, <2>2, <3>1 DEF Transitive
  <2> HIDE DEF base
  <2> QED BY <1>2, <1>4, <2>1, <2>2, <2>3 DEF Transitive
<1>10. grown = Closed(base)
  BY <1>8, <1>9
<1> QED BY <1>3, <1>10

\* delete_edge by support: whatever over-deletion along the base edges takes,
\* re-derivation brings back what the edges that are left still connect, cycles
\* included, and nothing else.
THEOREM DeleteBySupportClosed ==
    ASSUME NEW c, PlanClosed(c), NEW e \in c.base
    PROVE  DeleteBySupport(c, e) = Outcome(c, e, c.base \ {e}, Closed(c.base \ {e}))
<1> DEFINE base == c.base \ {e}
           over == OverDeleted(c, e, base)
           kept == c.closed \ over
           back == ReDerived(over, base, kept)
<1>1. /\ c.base \in SUBSET Pair /\ c.closed \in SUBSET Pair /\ c \in Closure
      /\ c.base \subseteq c.closed /\ Transitive(c.closed) /\ c.closed = Closed(c.base)
  BY PlanClosedIs DEF PlanClosed
<1>2. e = <<e[1], e[2]>> /\ e[1] \in Node /\ e[2] \in Node /\ base \in SUBSET Pair /\ base \subseteq c.base
      /\ e \in c.closed
  BY <1>1, PairParts
<1>3. base \subseteq Closed(base) /\ Transitive(Closed(base)) /\ Closed(base) \in SUBSET Pair
      /\ Closed(base) \subseteq c.closed
  <2> HIDE DEF base
  <2> QED BY <1>1, <1>2, ClosedIs, ClosedMonotone
<1>4. over \subseteq c.closed /\ ({e[1]} \X Targets(c, e[2])) \cap c.closed \subseteq over
  BY OverDeletedWithin
<1>5. \A z \in Node : z = e[2] \/ <<e[2], z>> \in c.closed => <<e[1], z>> \in over
  <2> SUFFICES ASSUME NEW z \in Node, z = e[2] \/ <<e[2], z>> \in c.closed PROVE <<e[1], z>> \in over
    OBVIOUS
  <2>1. <<e[1], z>> \in c.closed
    BY <1>1, <1>2 DEF Transitive
  <2>2. z \in Targets(c, e[2])
    BY DEF Targets, From
  <2> HIDE DEF over
  <2> QED BY <1>4, <2>1, <2>2
<1>6. \A x, y, z \in Node : <<x, y>> \in base /\ <<y, z>> \in over /\ <<x, z>> \in c.closed => <<x, z>> \in over
  <2> HIDE DEF base
  <2> QED BY <1>1, OverDeletedSettles
<1> HIDE DEF base, over
\* What is left alone does not need the edge.
<1>7. kept \subseteq Closed(base)
  <2> DEFINE S == Closed(base) \cup over
  <2>1. S \in SUBSET Pair /\ S \subseteq c.closed
    BY <1>1, <1>3, <1>4
  <2>2. c.base \subseteq S
    <3>1. e \in over
      BY <1>2, <1>5
    <3>2. c.base \subseteq base \cup {e}
      BY DEF base
    <3> QED BY <1>3, <3>1, <3>2
  <2>3. ASSUME NEW x \in Node, NEW y \in Node, NEW z \in Node, <<x, y>> \in c.base, <<y, z>> \in S
        PROVE  <<x, z>> \in S
    <3>1. <<y, z>> \in c.closed /\ <<x, z>> \in c.closed
      BY <1>1, <2>1, <2>3 DEF Transitive
    <3>2. CASE <<x, y>> = e
      BY <1>2, <1>5, <3>1, <3>2
    <3>3. CASE <<x, y>> # e
      <4>1. <<x, y>> \in base
        BY <2>3, <3>3 DEF base
      <4> QED BY <1>3, <1>6, <2>3, <3>1, <4>1 DEF Transitive
    <3> QED BY <3>2, <3>3
  <2>4. Closed(c.base) \subseteq S
    <3> HIDE DEF S
    <3> QED BY <1>1, <2>1, <2>2, <2>3, ClosedBackward
  <2> QED BY <1>1, <2>4
<1>8. kept \subseteq back /\ back \subseteq Closed(base)
  <2>1. \A p \in over : Supported(p, base, Closed(base)) => p \in Closed(base)
    <3> SUFFICES ASSUME NEW p \in over, Supported(p, base, Closed(base)) PROVE p \in Closed(base)
      OBVIOUS
    <3>1. p = <<p[1], p[2]>> /\ p[1] \in Node /\ p[2] \in Node
      BY <1>1, <1>4, PairParts
    <3>2. PICK z \in From(base, p[1]) : z = p[2] \/ <<z, p[2]>> \in Closed(base)
      BY DEF Supported
    <3>3. z \in Node /\ <<p[1], z>> \in Closed(base)
      BY <1>3, <3>2 DEF From
    <3>4. <<p[1], p[2]>> \in Closed(base)
      BY <1>3, <3>1, <3>2, <3>3 DEF Transitive
    <3> QED BY <3>1, <3>4
  <2> HIDE DEF kept
  <2> QED BY <1>7, <2>1, ReDerivedWithin
<1>9. Closed(base) \subseteq back
  <2>1. over \in SUBSET Pair /\ kept \in SUBSET Pair
    BY <1>1, <1>4
  <2>2. \A p \in over : Supported(p, base, back) => p \in back
    <3> HIDE DEF kept
    <3> QED BY <2>1, ReDerivedSettles
  <2>3. \A p \in c.closed : p \in over \/ p \in back
    <3> HIDE DEF back
    <3> QED BY <1>8
  <2>4. \A p \in c.closed : Supported(p, base, back) => p \in back
    <3> HIDE DEF back
    <3> QED BY <2>2, <2>3
  <2> HIDE DEF back
  <2>5. base \subseteq back
    <3> SUFFICES ASSUME NEW p \in base PROVE p \in back
      OBVIOUS
    <3>1. p = <<p[1], p[2]>> /\ p[1] \in Node /\ p[2] \in Node
      BY <1>2, PairParts
    <3>2. p[2] \in From(base, p[1])
      BY <3>1 DEF From
    <3>3. Supported(p, base, back)
      BY <3>2 DEF Supported
    <3> QED BY <1>1, <1>2, <2>4, <3>3
  <2>6. ASSUME NEW x \in Node, NEW y \in Node, NEW z \in Node, <<x, y>> \in base, <<y, z>> \in back
        PROVE  <<x, z>> \in back
    <3>1. <<x, z>> \in c.closed
      BY <1>1, <1>2, <1>3, <1>8, <2>6 DEF Transitive
    <3>2. y \in From(base, <<x, z>>[1])
      BY <2>6 DEF From
    <3>3. Supported(<<x, z>>, base, back)
      BY <2>6, <3>2 DEF Supported
    <3> QED BY <2>4, <3>1, <3>3
  <2>7. back \in SUBSET Pair
    BY <1>3, <1>8
  <2> QED BY <1>2, <2>5, <2>6, <2>7, ClosedBackward
<1>10. back = Closed(base)
  <2> HIDE DEF back
  <2> QED BY <1>8, <1>9
<1> QED BY <1>10 DEF DeleteBySupport, base, over

\* delete_edge by recompute: a search along the base edges from the nodes of the
\* affected region alone gives the closure of the edges that are left.
THEOREM DeleteByRecomputeClosed ==
    ASSUME NEW c, PlanClosed(c), NEW e \in c.base
    PROVE  DeleteByRecompute(c, e) = Outcome(c, e, c.base \ {e}, Closed(c.base \ {e}))
<1> DEFINE base == c.base \ {e}
           region == (Into(c.closed, e[1]) \cup {e[1]}) \X Targets(c, e[2])
           dropped == {p \in c.closed \cap region : p[2] \notin BaseReach(base, p[1])}
<1>1. /\ c.base \in SUBSET Pair /\ c.closed \in SUBSET Pair /\ c \in Closure
      /\ c.base \subseteq c.closed /\ Transitive(c.closed) /\ c.closed = Closed(c.base)
  BY PlanClosedIs DEF PlanClosed
<1>2. e = <<e[1], e[2]>> /\ e[1] \in Node /\ e[2] \in Node /\ base \in SUBSET Pair /\ base \subseteq c.base
      /\ c.base \subseteq base \cup {e}
  BY <1>1, PairParts
<1>3. base \subseteq Closed(base) /\ Transitive(Closed(base)) /\ Closed(base) \in SUBSET Pair
      /\ Closed(base) \subseteq c.closed
  <2> HIDE DEF base
  <2> QED BY <1>1, <1>2, ClosedIs, ClosedMonotone
<1>4. \A x, y \in Node : <<x, y>> \in region <=>
          /\ x = e[1] \/ <<x, e[1]>> \in c.closed
          /\ y = e[2] \/ <<e[2], y>> \in c.closed
  BY <1>2 DEF Into, Targets, From
<1>5. \A p \in c.closed : p \in dropped <=> p \in region /\ p \notin Closed(base)
  <2> SUFFICES ASSUME NEW p \in c.closed PROVE p[2] \notin BaseReach(base, p[1]) <=> p \notin Closed(base)
    OBVIOUS
  <2>1. p = <<p[1], p[2]>> /\ p[1] \in Node /\ p[2] \in Node
    BY <1>1, PairParts
  <2>2. BaseReach(base, p[1]) = {y \in Node : <<p[1], y>> \in Closed(base)}
    <3> HIDE DEF base
    <3> QED BY <1>2, <2>1, BaseReachClosed
  <2> HIDE DEF base
  <2> QED BY <2>1, <2>2
<1> HIDE DEF base, region, dropped
<1>6. c.closed \subseteq Closed(base) \cup region
  <2> DEFINE S == Closed(base) \cup (region \cap c.closed)
  <2>1. S \in SUBSET Pair /\ S \subseteq c.closed
    BY <1>1, <1>3
  <2>2. c.base \subseteq S
    <3>1. e \in region
      BY <1>2, <1>4
    <3> QED BY <1>1, <1>2, <1>3, <3>1
  <2>3. ASSUME NEW x \in Node, NEW y \in Node, NEW z \in Node, <<x, y>> \in c.base, <<y, z>> \in S
        PROVE  <<x, z>> \in S
    <3>1. <<x, y>> \in c.closed /\ <<y, z>> \in c.closed /\ <<x, z>> \in c.closed
      BY <1>1, <2>1, <2>3 DEF Transitive
    <3>2. CASE <<x, y>> = e
      <4>1. x = e[1] /\ y = e[2]
        BY <1>2, <3>2
      <4>2. <<x, z>> \in region
        BY <1>4, <3>1, <4>1
      <4> QED BY <3>1, <4>2
    <3>3. CASE <<x, y>> # e /\ <<y, z>> \in region
      <4>1. x = e[1] \/ <<x, e[1]>> \in c.closed
        BY <1>1, <1>2, <1>4, <3>1, <3>3 DEF Transitive
      <4>2. <<x, z>> \in region
        BY <1>4, <3>3, <4>1
      <4> QED BY <3>1, <4>2
    <3>4. CASE <<x, y>> # e /\ <<y, z>> \in Closed(base)
      <4>1. <<x, y>> \in Closed(base)
        BY <1>2, <1>3, <2>3, <3>4
      <4> QED BY <1>3, <3>4, <4>1 DEF Transitive
    <3> QED BY <2>3, <3>2, <3>3, <3>4
  <2>4. Closed(c.base) \subseteq S
    <3> HIDE DEF S
    <3> QED BY <1>1, <2>1, <2>2, <2>3, ClosedBackward
  <2> QED BY <1>1, <2>4
<1>7. c.closed \ dropped = Closed(base)
  BY <1>3, <1>5, <1>6
<1> QED BY <1>7 DEF DeleteByRecompute, base, region, dropped

LEMMA DeletionsAgree ==
    ASSUME NEW c, PlanClosed(c), NEW e \in c.base
    PROVE  DeleteBySupport(c, e) = DeleteByRecompute(c, e)
<1>1. DeleteBySupport(c, e) = Outcome(c, e, c.base \ {e}, Closed(c.base \ {e}))
  BY DeleteBySupportClosed
<1>2. DeleteByRecompute(c, e) = Outcome(c, e, c.base \ {e}, Closed(c.base \ {e}))
  BY DeleteByRecomputeClosed
<1> QED BY <1>1, <1>2

-----------------------------------------------------------------------------
(* The reference definition: what paths of edges connect.                    *)

PathStep(edges, R) ==
    R \cup {p \in Pair : \E z \in Node : <<p[1], z>> \in edges /\ <<z, p[2]>> \in R}

PathRounds == INSTANCE RecursionFacts WITH
        Bottom <- LAMBDA n : n = 0,
        Prev   <- LAMBDA n : n - 1,
        Rank   <- LAMBDA n : n,
        Base   <- LAMBDA edges, n : Listed(edges),
        Step   <- LAMBDA edges, n, R : Listed(PathStep(edges, R))

LEMMA ReachableClosed ==
    ASSUME NEW edges \in SUBSET Pair
    PROVE  Reachable(edges) = Closed(edges)
<1> DEFINE N == Cardinality(Node)
           D == 0 .. N
           sol == PathRounds!Solution(edges, D)
<1>0. edges \subseteq Closed(edges) /\ Transitive(Closed(edges)) /\ Closed(edges) \subseteq Pair
  BY ClosedIs
<1>1. PathRounds!Grounded(D) /\ N \in D /\ N \in Nat
  BY NodeCount, Induction DEF PathRounds!Grounded, PathRounds!Ranked, PathRounds!Inductive
<1>2. Reachable(edges) = sol[N]
  BY DEF Reachable, RepeatPerNode, PathRounds!Solution, PathStep
<1>3. \A n \in D : sol[n] = IF n = 0 THEN Listed(edges) ELSE Listed(PathStep(edges, sol[n - 1]))
  <2> HIDE DEF D
  <2> QED BY <1>1, PathRounds!SolutionSolves
<1> DEFINE V == {S \in SUBSET Closed(edges) : edges \subseteq S}
<1>4. \A n \in D : sol[n] \in V
  <2>1. Listed(edges) \in V
    BY <1>0 DEF Listed
  <2>2. ASSUME NEW S \in V PROVE Listed(PathStep(edges, S)) \in V
    <3>1. ASSUME NEW p \in Pair, NEW z \in Node, <<p[1], z>> \in edges, <<z, p[2]>> \in S PROVE p \in Closed(edges)
      <4>1. p = <<p[1], p[2]>> /\ p[1] \in Node /\ p[2] \in Node
        BY PairParts
      <4>2. <<p[1], z>> \in Closed(edges) /\ <<z, p[2]>> \in Closed(edges)
        BY <1>0, <3>1
      <4> QED BY <1>0, <4>1, <4>2 DEF Transitive
    <3> QED BY <3>1 DEF Listed, PathStep
  <2> HIDE DEF D, V
  <2> QED BY <1>1, <2>1, <2>2, PathRounds!SolutionIn
<1> HIDE DEF sol
<1>5. \A n \in 0 .. N - 1 : sol[n + 1] = PathStep(edges, sol[n])
  <2> SUFFICES ASSUME NEW n \in 0 .. N - 1 PROVE sol[n + 1] = PathStep(edges, sol[n])
    OBVIOUS
  <2>1. n + 1 \in D /\ n + 1 # 0 /\ (n + 1) - 1 = n
    BY <1>1
  <2>2. sol[n + 1] = Listed(PathStep(edges, sol[n]))
    BY <1>3, <2>1
  <2> QED BY <2>2 DEF Listed
<1>6. ASSUME NEW x \in Node, NEW y \in Node, NEW z \in Node, <<x, y>> \in edges, <<y, z>> \in sol[N]
      PROVE  <<x, z>> \in sol[N]
  <2> DEFINE f == [n \in D |-> {w \in Node : <<w, z>> \in sol[n]}]
             h == [S \in SUBSET Node |-> S \cup {w \in Node : \E v \in Node : <<w, v>> \in edges /\ v \in S}]
  <2>1. \A n \in 0 .. N - 1 : f[n + 1] = h[f[n]]
    <3> SUFFICES ASSUME NEW n \in 0 .. N - 1 PROVE f[n + 1] = h[f[n]]
      OBVIOUS
    <3>1. n \in D /\ n + 1 \in D
      BY <1>1
    <3>2. f[n + 1] = {w \in Node : <<w, z>> \in PathStep(edges, sol[n])}
      BY <1>5, <3>1
    <3>3. \A w \in Node : <<w, z>> \in PathStep(edges, sol[n]) <=>
              <<w, z>> \in sol[n] \/ \E v \in Node : <<w, v>> \in edges /\ <<v, z>> \in sol[n]
      BY PairParts DEF PathStep
    <3>4. f[n] = {w \in Node : <<w, z>> \in sol[n]}
      BY <3>1
    <3> QED BY <3>2, <3>3, <3>4
  <2>2. \A S \in SUBSET Node : h[S] \in SUBSET Node /\ S \subseteq h[S]
    OBVIOUS
  <2>3. f[0] \in SUBSET Node /\ f[N] = {w \in Node : <<w, z>> \in sol[N]}
    BY <1>1
  <2>4. h[f[N]] = f[N] /\ f[N] \in SUBSET Node
    <3>1. N >= Cardinality(Node) /\ N \in Nat
      BY <1>1
    <3>2. IsFiniteSet(Node)
      BY NodeAssumption
    <3>3. f[0] \in SUBSET Node
      BY <2>3
    <3>4. Growing(Node, N, f, h)
      <4> HIDE DEF f, h, N
      <4> QED BY <2>1, <2>2, <3>3 DEF Growing
    <3> HIDE DEF f, h, N
    <3> QED BY <3>1, <3>2, <3>4, RoundsSettle
  <2>5. y \in f[N]
    BY <1>6, <2>3
  <2>6. x \in h[f[N]]
    <3> HIDE DEF f
    <3> QED BY <1>6, <2>4, <2>5
  <2> HIDE DEF f, h
  <2> QED BY <2>3, <2>4, <2>6
<1>7. sol[N] \in V
  BY <1>1, <1>4
<1> DEFINE F == sol[N]
<1>8. Closed(edges) \subseteq F
  <2>1. F \in SUBSET Pair /\ edges \subseteq F
    BY <1>0, <1>7
  <2> HIDE DEF F
  <2>2. \A x, y, z \in Node : <<x, y>> \in edges /\ <<y, z>> \in F => <<x, z>> \in F
    BY <1>6 DEF F
  <2> QED BY <2>1, <2>2, ClosedBackward
<1> QED BY <1>2, <1>7, <1>8

-----------------------------------------------------------------------------
(* Edges inserted or deleted one after the other, in any order.              *)

DeleteStep(c, acc, e) ==
    LET one == DeleteBySupport(acc.closure, e)
    IN  [closure   |-> one.closure,
         withdrawn |-> acc.withdrawn \cup one.withdrawn,
         survived  |-> acc.survived \cup one.survived]
Del == INSTANCE FoldFacts WITH Op <- DeleteStep, Size <- Cardinality

InsertStep(c, acc, e) == InsertEdge(acc, e)
Inserted == INSTANCE FoldFacts WITH Op <- InsertStep, Size <- Cardinality

PlanOf(base) == [base |-> base, closed |-> Closed(base)]

LEMMA PlanOfClosed ==
    ASSUME NEW base \in SUBSET Pair
    PROVE  PlanClosed(PlanOf(base)) /\ PlanOf(base).base = base /\ PlanOf(base).closed = Closed(base)
BY ClosedIs DEF PlanClosed, PlanOf, Closure

LEMMA PlanClosedForm ==
    ASSUME NEW c, PlanClosed(c)
    PROVE  c = PlanOf(c.base) /\ c.base \in SUBSET Pair /\ c.closed = Closed(c.base) /\ c \in Closure
BY PlanClosedIs DEF PlanOf, PlanClosed

LEMMA InsertEdgesClosed ==
    ASSUME NEW c, PlanClosed(c), NEW edges \in SUBSET Pair, IsFiniteSet(edges)
    PROVE  InsertEdges(c, edges) = PlanOf(c.base \cup edges)
<1>1. InsertEdges(c, edges) = Inserted!SetFolded(0, c, edges)
  BY DEF InsertEdges, FoldSet, MapThenFoldSet, Inserted!SetFolded, Inserted!Picked,
         Inserted!MapThenFoldSet, InsertStep
<1>2. Inserted!Inductive /\ Inserted!Counted(edges)
  BY Induction, FiniteCounted DEF Inserted!Inductive, Inserted!Counted
<1> DEFINE N == {d \in SUBSET edges : Inserted!SetFolded(0, c, d) = PlanOf(c.base \cup d)}
<1>3. {} \in N
  <2>1. c.base \cup {} = c.base
    OBVIOUS
  <2>3. Inserted!Counted({})
    BY <1>2 DEF Inserted!Counted
  <2> QED BY <1>2, <2>1, <2>3, PlanClosedForm, Inserted!SetFoldNone
<1>4. ASSUME NEW d \in SUBSET edges, d # {}, d \ {Inserted!Picked(d)} \in N PROVE d \in N
  <2> DEFINE e == Inserted!Picked(d)
             r == d \ {e}
             base == c.base \cup r
  <2>1. e \in d /\ Inserted!Inductive /\ Inserted!Counted(d)
    <3>1. e \in d
      BY <1>4 DEF Inserted!Picked
    <3> QED BY <1>2, <3>1 DEF Inserted!Counted
  <2>2. Inserted!SetFolded(0, c, d) = InsertStep(0, Inserted!SetFolded(0, c, r), e)
    BY <1>4, <2>1, Inserted!SetFoldOn
  <2>3. Inserted!SetFolded(0, c, r) = PlanOf(base)
    BY <1>4
  <2>4. base \in SUBSET Pair /\ e \in Pair /\ base \cup {e} = c.base \cup d
    BY <2>1, PlanClosedForm
  <2> HIDE DEF e, r, base
  <2>5. InsertEdge(PlanOf(base), e) = PlanOf(base \cup {e})
    <3>1. PlanClosed(PlanOf(base)) /\ PlanOf(base).base = base
      BY <2>4, PlanOfClosed
    <3>2. InsertEdge(PlanOf(base), e) = [base |-> PlanOf(base).base \cup {e},
                                        closed |-> Closed(PlanOf(base).base \cup {e})]
      BY <2>4, <3>1, InsertEdgeClosed
    <3> QED BY <3>1, <3>2 DEF PlanOf
  <2> QED BY <2>2, <2>3, <2>4, <2>5 DEF InsertStep
<1>5. \A d \in SUBSET edges : d \in N
  <2> HIDE DEF N
  <2> QED BY <1>2, <1>3, <1>4, Inserted!SubsetInduction
<1> QED BY <1>1, <1>5

\* What deleting the edges d leaves, and tells of the pairs it withdrew.
Deleted(c, d, acc) ==
    /\ acc = [closure |-> acc.closure, withdrawn |-> acc.withdrawn, survived |-> acc.survived]
    /\ acc.closure = PlanOf(c.base \ d)
    /\ acc.withdrawn = c.closed \ Closed(c.base \ d)
    /\ acc.survived \subseteq d \cap c.base
    /\ d \cap c.base \cap Closed(c.base \ d) \subseteq acc.survived

LEMMA DeleteStepClosed ==
    ASSUME NEW c, PlanClosed(c), NEW d \in SUBSET Pair, NEW acc, Deleted(c, d, acc),
           NEW e \in Pair, e \notin d
    PROVE  Deleted(c, d \cup {e}, DeleteStep(0, acc, e))
<1> DEFINE base == c.base \ d
           less == c.base \ (d \cup {e})
           one  == DeleteBySupport(acc.closure, e)
<1>1. /\ c.base \in SUBSET Pair /\ base \in SUBSET Pair /\ less \in SUBSET Pair /\ less = base \ {e}
      /\ less \subseteq base /\ base \subseteq c.base /\ c.closed = Closed(c.base)
  BY PlanClosedForm
<1>2. PlanClosed(acc.closure) /\ acc.closure.base = base /\ acc.closure.closed = Closed(base)
  <2> HIDE DEF base
  <2> QED BY <1>1, PlanOfClosed DEF Deleted, base
<1>3. Closed(less) \subseteq Closed(base) /\ Closed(base) \subseteq c.closed
  <2> HIDE DEF base, less
  <2> QED BY <1>1, ClosedMonotone
<1>4. DeleteStep(0, acc, e) = [closure |-> one.closure, withdrawn |-> acc.withdrawn \cup one.withdrawn,
                               survived |-> acc.survived \cup one.survived]
  BY DEF DeleteStep
<1>5. CASE e \in c.base
  <2>1. one = Outcome(acc.closure, e, base \ {e}, Closed(base \ {e}))
    <3>1. e \in acc.closure.base
      BY <1>2, <1>5
    <3> HIDE DEF base
    <3> QED BY <1>2, <3>1, DeleteBySupportClosed
  <2>2. one.closure = PlanOf(less) /\ one.withdrawn = Closed(base) \ Closed(less)
        /\ one.survived = {e} \cap Closed(less)
    <3> HIDE DEF base, less
    <3> QED BY <1>1, <1>2, <2>1 DEF Outcome, Listed, PlanOf
  <2> HIDE DEF one
  <2>3. acc.withdrawn \cup one.withdrawn = c.closed \ Closed(less)
    <3>1. acc.withdrawn = c.closed \ Closed(base)
      BY DEF Deleted
    <3> HIDE DEF base, less
    <3> QED BY <1>3, <2>2, <3>1
  <2>4. /\ acc.survived \cup one.survived \subseteq (d \cup {e}) \cap c.base
        /\ (d \cup {e}) \cap c.base \cap Closed(less) \subseteq acc.survived \cup one.survived
    <3>1. acc.survived \subseteq d \cap c.base /\ d \cap c.base \cap Closed(base) \subseteq acc.survived
      BY DEF Deleted
    <3> HIDE DEF base, less
    <3> QED BY <1>3, <1>5, <2>2, <3>1
  <2> DEFINE res == DeleteStep(0, acc, e)
  <2>5. /\ res = [closure |-> res.closure, withdrawn |-> res.withdrawn, survived |-> res.survived]
        /\ res.closure = PlanOf(less)
        /\ res.withdrawn = c.closed \ Closed(less)
        /\ res.survived = acc.survived \cup one.survived
    <3> HIDE DEF less
    <3> QED BY <1>4, <2>2, <2>3
  <2> HIDE DEF res
  <2>6. Deleted(c, d \cup {e}, res)
    BY <2>4, <2>5 DEF Deleted
  <2> QED BY <2>6 DEF res
<1>6. CASE e \notin c.base
  <2>1. one = Untouched(acc.closure)
    BY <1>2, <1>6 DEF DeleteBySupport
  <2>2. less = base /\ (d \cup {e}) \cap c.base = d \cap c.base
    BY <1>6
  <2>3. DeleteStep(0, acc, e) = acc
    BY <1>4, <2>1 DEF Untouched, Deleted
  <2> QED BY <2>2, <2>3 DEF Deleted
<1> QED BY <1>5, <1>6

LEMMA DeleteEdgesClosed ==
    ASSUME NEW c, PlanClosed(c), NEW edges \in SUBSET Pair, IsFiniteSet(edges)
    PROVE  DeleteEdges(c, edges) =
              [closure   |-> PlanOf(c.base \ edges),
               withdrawn |-> c.closed \ Closed(c.base \ edges),
               survived  |-> edges \cap c.base \cap Closed(c.base \ edges)]
<1> DEFINE all == Del!SetFolded(0, Untouched(c), edges)
<1>1. DeleteEdges(c, edges) = [all EXCEPT !.survived = @ \cap all.closure.closed]
  BY DEF DeleteEdges, FoldSet, MapThenFoldSet, Del!SetFolded, Del!Picked, Del!MapThenFoldSet, DeleteStep
<1>2. Del!Inductive /\ Del!Counted(edges)
  BY Induction, FiniteCounted DEF Del!Inductive, Del!Counted
<1> DEFINE N == {d \in SUBSET edges : Deleted(c, d, Del!SetFolded(0, Untouched(c), d))}
<1>3. {} \in N
  <2>1. c.base \ {} = c.base /\ c = PlanOf(c.base) /\ c.closed = Closed(c.base)
    BY PlanClosedForm
  <2>2. Deleted(c, {}, Untouched(c))
    BY <2>1 DEF Deleted, Untouched
  <2>3. Del!Counted({})
    BY <1>2 DEF Del!Counted
  <2> QED BY <1>2, <2>2, <2>3, Del!SetFoldNone
<1>4. ASSUME NEW d \in SUBSET edges, d # {}, d \ {Del!Picked(d)} \in N PROVE d \in N
  <2> DEFINE e == Del!Picked(d)
             r == d \ {e}
             acc == Del!SetFolded(0, Untouched(c), r)
  <2>1. e \in d /\ Del!Inductive /\ Del!Counted(d)
    <3>1. e \in d
      BY <1>4 DEF Del!Picked
    <3> QED BY <1>2, <3>1 DEF Del!Counted
  <2>2. Del!SetFolded(0, Untouched(c), d) = DeleteStep(0, acc, e)
    BY <1>4, <2>1, Del!SetFoldOn
  <2>3. Deleted(c, r, acc)
    BY <1>4
  <2>4. r \in SUBSET Pair /\ e \in Pair /\ e \notin r /\ r \cup {e} = d
    BY <2>1
  <2> HIDE DEF e, r, acc
  <2>5. Deleted(c, d, DeleteStep(0, acc, e))
    <3>1. Deleted(c, r \cup {e}, DeleteStep(0, acc, e))
      BY <2>3, <2>4, DeleteStepClosed
    <3> QED BY <2>4, <3>1
  <2> QED BY <2>2, <2>5
<1>5. \A d \in SUBSET edges : d \in N
  <2> HIDE DEF N
  <2> QED BY <1>2, <1>3, <1>4, Del!SubsetInduction
<1>6. Deleted(c, edges, all)
  BY <1>5
<1> HIDE DEF all
<1>7. all.closure.closed = Closed(c.base \ edges)
  BY <1>6 DEF Deleted, PlanOf
<1>8. all.survived \cap Closed(c.base \ edges) = edges \cap c.base \cap Closed(c.base \ edges)
  BY <1>6 DEF Deleted
<1>9. DeleteEdges(c, edges) = [closure |-> all.closure, withdrawn |-> all.withdrawn,
                               survived |-> all.survived \cap Closed(c.base \ edges)]
  BY <1>1, <1>6, <1>7 DEF Deleted
<1> QED BY <1>6, <1>8, <1>9 DEF Deleted

-----------------------------------------------------------------------------
(***************************************************************************)
(* Nothing in a tick but its first step touches the asserted base.         *)
(***************************************************************************)
HasBase(c) == {"asserted", "support", "closure", "fallback", "sound"} \subseteq DOMAIN c
KeepsBase(c, d) ==
    /\ HasBase(d)
    /\ d.asserted = c.asserted
    /\ d.fallback = c.fallback
    /\ d.sound => c.sound

\* The rules leave the closure and its rows alone, too.
Keeps(c, d) ==
    /\ KeepsBase(c, d)
    /\ d.support = c.support
    /\ d.closure = c.closure

LEMMA KeepsTransitive ==
    ASSUME NEW b, NEW c, NEW d, Keeps(b, c), Keeps(c, d)
    PROVE  Keeps(b, d)
BY DEF Keeps, KeepsBase

LEMMA KeepsBaseTransitive ==
    ASSUME NEW b, NEW c, NEW d, KeepsBase(b, c), KeepsBase(c, d)
    PROVE  KeepsBase(b, d)
BY DEF KeepsBase

LEMMA CheckKeeps ==
    ASSUME NEW c, NEW condition, HasBase(c)
    PROVE  Keeps(c, Check(c, condition))
BY DEF KeepsBase, Keeps, HasBase, Check

LEMMA RowStepsKeep ==
    ASSUME NEW c, NEW ts, NEW kindOf, HasBase(c)
    PROVE  /\ Keeps(c, MaterializeRuleRows(c, ts))
           /\ Keeps(c, WithdrawDerivedRows(c, ts, kindOf))
           /\ KeepsBase(c, MaterializeClosureRows(c, ts))
BY DEF KeepsBase, Keeps, HasBase, MaterializeRuleRows, WithdrawDerivedRows, MaterializeClosureRows

LEMMA ClosureWithdrawKeeps ==
    ASSUME NEW c, NEW outcome, NEW delta, HasBase(c)
    PROVE  KeepsBase(c, ClosureWithdraw(c, outcome, delta).circuit)
<1> DEFINE withdraw == {Edge(p) : p \in outcome.withdrawn}
           lost     == withdraw \cap c.support
           orphans  == {t \in lost : Owned(c, t)}
           cut      == [c EXCEPT !.closure = outcome.closure, !.support = Listed(@ \ withdraw)]
           zeroed   == WithdrawDerivedRows(cut, lost \ orphans, [t \in Triple |-> ClosureInferred])
           promote  == {t \in {Edge(p) : p \in outcome.survived} :
                           t \notin zeroed.support /\ c.asserted[t] <= 0}
           rows     == {t \in promote : zeroed.derived[t] <= 0}
           grown    == MaterializeClosureRows(zeroed, rows)
           done     == [grown EXCEPT !.support = Listed(@ \cup promote)]
<1>1. KeepsBase(c, cut)
  BY DEF KeepsBase, HasBase
<1>2. KeepsBase(cut, zeroed)
  <2> HIDE DEF cut
  <2> QED BY <1>1, RowStepsKeep DEF Keeps, KeepsBase
<1>3. KeepsBase(zeroed, grown)
  <2> HIDE DEF zeroed, rows
  <2> QED BY <1>2, RowStepsKeep DEF Keeps, KeepsBase
<1>4. KeepsBase(grown, done)
  <2> HIDE DEF grown, promote
  <2> QED BY <1>3 DEF KeepsBase, HasBase
<1>5. ClosureWithdraw(c, outcome, delta).circuit = done
  BY DEF ClosureWithdraw
<1> HIDE DEF cut, zeroed, grown, done
<1> QED BY <1>1, <1>2, <1>3, <1>4, <1>5 DEF KeepsBase

LEMMA ClosurePassesKeep ==
    ASSUME NEW c, NEW edges, NEW delta, HasBase(c)
    PROVE  /\ KeepsBase(c, ClosureRetractPass(c, edges, delta).circuit)
           /\ KeepsBase(c, ClosureInsertionPass(c, edges, delta).circuit)
<1>1. KeepsBase(c, ClosureRetractPass(c, edges, delta).circuit)
  BY ClosureWithdrawKeeps DEF ClosureRetractPass
<1>2. KeepsBase(c, ClosureInsertionPass(c, edges, delta).circuit)
  <2> DEFINE closure  == InsertEdges(c.closure, {PairOf(t) : t \in edges})
             inferred == {Edge(p) : p \in closure.closed \ c.closure.closed}
             rows     == {t \in inferred : ~BasePresence(c, t)}
             shared   == {t \in inferred : BasePresence(c, t) /\ c.derived[t] # 0}
             grown    == MaterializeClosureRows(c, rows)
             done     == [grown EXCEPT !.closure = closure, !.support = Listed(@ \cup shared)]
  <2>1. KeepsBase(c, grown)
    <3> HIDE DEF rows
    <3> QED BY RowStepsKeep DEF Keeps
  <2>2. KeepsBase(grown, done)
    <3> HIDE DEF grown, closure, shared
    <3> QED BY <2>1 DEF KeepsBase, HasBase
  <2>3. ClosureInsertionPass(c, edges, delta).circuit = done
    BY DEF ClosureInsertionPass
  <2> HIDE DEF grown, done
  <2> QED BY <2>1, <2>2, <2>3 DEF KeepsBase
<1> QED BY <1>1, <1>2

LEMMA RoundKeeps ==
    ASSUME NEW c, NEW delta, HasBase(c)
    PROVE  Keeps(c, FixpointRound(c, delta))
BY DEF KeepsBase, Keeps, HasBase, FixpointRound

-----------------------------------------------------------------------------
(* The fixpoints.                                                            *)

\* A phase's state holds a circuit with the asserted base of c.
HoldsBase(c, s) == "circuit" \in DOMAIN s /\ Keeps(c, s.circuit)

LEMMA SettlesKeep ==
    ASSUME NEW c, NEW s, NEW d, HasBase(c), HoldsBase(c, s), Keeps(c, d)
    PROVE  /\ HoldsBase(c, InsertionSettle(s, d))
           /\ HoldsBase(c, OverdeleteSettle(s, d))
           /\ HoldsBase(c, RederiveSettle(s, d))
<1>1. ASSUME NEW cond, NEW rows
      PROVE  Keeps(c, MaterializeRuleRows(Check(d, cond), rows)) /\ Keeps(c, Check(d, cond))
  <2>1. Keeps(c, Check(d, cond))
    BY CheckKeeps DEF KeepsBase, Keeps
  <2> QED BY <2>1, RowStepsKeep DEF KeepsBase, Keeps
<1>2. HoldsBase(c, InsertionSettle(s, d))
  BY <1>1 DEF InsertionSettle, HoldsBase
<1>3. HoldsBase(c, OverdeleteSettle(s, d))
  BY <1>1 DEF OverdeleteSettle, HoldsBase
<1>4. HoldsBase(c, RederiveSettle(s, d))
  BY <1>1 DEF RederiveSettle, HoldsBase
<1> QED BY <1>2, <1>3, <1>4

Ins == INSTANCE RecursionFacts WITH
        Bottom <- LAMBDA n : n = 0,
        Prev   <- LAMBDA n : n - 1,
        Rank   <- LAMBDA n : n,
        Base   <- LAMBDA start, n : start,
        Step   <- LAMBDA start, n, s :
                     IF s.delta = EmptyZset THEN s
                     ELSE InsertionSettle(s, FixpointRound(s.circuit, s.delta))

Over == INSTANCE RecursionFacts WITH
        Bottom <- LAMBDA n : n = 0,
        Prev   <- LAMBDA n : n - 1,
        Rank   <- LAMBDA n : n,
        Base   <- LAMBDA start, n : start,
        Step   <- LAMBDA start, n, s :
                     IF s.delta = EmptyZset THEN s
                     ELSE OverdeleteSettle(s, FixpointRound(s.circuit, s.delta))

Red == INSTANCE RecursionFacts WITH
        Bottom <- LAMBDA n : n = 0,
        Prev   <- LAMBDA n : n - 1,
        Rank   <- LAMBDA n : n,
        Base   <- LAMBDA start, n : start,
        Step   <- LAMBDA start, n, s :
                     IF s.delta = EmptyZset THEN s
                     ELSE RederiveSettle(s, FixpointRound(s.circuit, s.delta))

LEMMA InsertionSettleFixpoint ==
    ASSUME NEW c, NEW start, HasBase(c), HoldsBase(c, start)
    PROVE  HoldsBase(c, Fixpoint(InsertionSettle, start))
<1> DEFINE run == Ins!Solution(start, 0 .. MaxRounds)
<1>1. Ins!Grounded(0 .. MaxRounds)
  BY RoundsAssumption, Induction DEF Ins!Grounded, Ins!Ranked, Ins!Inductive
<1>2. \A n \in 0 .. MaxRounds : run[n] =
          IF n = 0 THEN start
          ELSE IF run[n - 1].delta = EmptyZset THEN run[n - 1]
               ELSE InsertionSettle(run[n - 1], FixpointRound(run[n - 1].circuit, run[n - 1].delta))
  <2> DEFINE D == 0 .. MaxRounds
  <2> HIDE DEF D
  <2>1. Ins!Grounded(D)
    BY <1>1 DEF D
  <2>2. \A n \in D : Ins!Solution(start, D)[n] =
            IF n = 0 THEN start
            ELSE IF Ins!Solution(start, D)[n - 1].delta = EmptyZset THEN Ins!Solution(start, D)[n - 1]
                 ELSE InsertionSettle(Ins!Solution(start, D)[n - 1], FixpointRound(Ins!Solution(start, D)[n - 1].circuit, Ins!Solution(start, D)[n - 1].delta))
    BY <2>1, Ins!SolutionSolves
  <2> QED BY <2>2 DEF D
<1> HIDE DEF run
<1> DEFINE N == {n \in Nat : n <= MaxRounds => HoldsBase(c, run[n])}
<1>3. 0 \in N
  BY <1>2, RoundsAssumption
<1>4. ASSUME NEW n \in Nat, n \in N PROVE n + 1 \in N
  <2> SUFFICES ASSUME n + 1 <= MaxRounds PROVE HoldsBase(c, run[n + 1])
    OBVIOUS
  <2> DEFINE s == run[n]
             d == FixpointRound(s.circuit, s.delta)
  <2>1. n + 1 \in 0 .. MaxRounds /\ n + 1 # 0 /\ n + 1 - 1 = n /\ n <= MaxRounds
    BY RoundsAssumption
  <2>2. HoldsBase(c, s)
    BY <1>4, <2>1
  <2>3. run[n + 1] = IF s.delta = EmptyZset THEN s ELSE InsertionSettle(s, d)
    BY <1>2, <2>1
  <2> HIDE DEF s
  <2>4. Keeps(c, d)
    BY <2>2, RoundKeeps DEF KeepsBase, HoldsBase, Keeps
  <2> HIDE DEF d
  <2>5. HoldsBase(c, InsertionSettle(s, d))
    BY <2>2, <2>4, SettlesKeep
  <2> QED BY <2>2, <2>3, <2>5
<1>5. \A n \in Nat : n \in N
  <2> HIDE DEF N
  <2> QED BY <1>3, <1>4, Induction
<1> DEFINE last == run[MaxRounds]
<1>6. HoldsBase(c, last)
  BY <1>5, RoundsAssumption
<1>7. Fixpoint(InsertionSettle, start) =
          [last EXCEPT !.circuit = Check(@, last.delta = EmptyZset)]
  BY DEF Fixpoint, run, Ins!Solution
<1> HIDE DEF last
<1>8. Keeps(c, Check(last.circuit, last.delta = EmptyZset))
  BY <1>6, CheckKeeps DEF KeepsBase, HoldsBase, Keeps
<1> QED BY <1>6, <1>7, <1>8 DEF HoldsBase

LEMMA OverdeleteSettleFixpoint ==
    ASSUME NEW c, NEW start, HasBase(c), HoldsBase(c, start)
    PROVE  HoldsBase(c, Fixpoint(OverdeleteSettle, start))
<1> DEFINE run == Over!Solution(start, 0 .. MaxRounds)
<1>1. Over!Grounded(0 .. MaxRounds)
  BY RoundsAssumption, Induction DEF Over!Grounded, Over!Ranked, Over!Inductive
<1>2. \A n \in 0 .. MaxRounds : run[n] =
          IF n = 0 THEN start
          ELSE IF run[n - 1].delta = EmptyZset THEN run[n - 1]
               ELSE OverdeleteSettle(run[n - 1], FixpointRound(run[n - 1].circuit, run[n - 1].delta))
  <2> DEFINE D == 0 .. MaxRounds
  <2> HIDE DEF D
  <2>1. Over!Grounded(D)
    BY <1>1 DEF D
  <2>2. \A n \in D : Over!Solution(start, D)[n] =
            IF n = 0 THEN start
            ELSE IF Over!Solution(start, D)[n - 1].delta = EmptyZset THEN Over!Solution(start, D)[n - 1]
                 ELSE OverdeleteSettle(Over!Solution(start, D)[n - 1], FixpointRound(Over!Solution(start, D)[n - 1].circuit, Over!Solution(start, D)[n - 1].delta))
    BY <2>1, Over!SolutionSolves
  <2> QED BY <2>2 DEF D
<1> HIDE DEF run
<1> DEFINE N == {n \in Nat : n <= MaxRounds => HoldsBase(c, run[n])}
<1>3. 0 \in N
  BY <1>2, RoundsAssumption
<1>4. ASSUME NEW n \in Nat, n \in N PROVE n + 1 \in N
  <2> SUFFICES ASSUME n + 1 <= MaxRounds PROVE HoldsBase(c, run[n + 1])
    OBVIOUS
  <2> DEFINE s == run[n]
             d == FixpointRound(s.circuit, s.delta)
  <2>1. n + 1 \in 0 .. MaxRounds /\ n + 1 # 0 /\ n + 1 - 1 = n /\ n <= MaxRounds
    BY RoundsAssumption
  <2>2. HoldsBase(c, s)
    BY <1>4, <2>1
  <2>3. run[n + 1] = IF s.delta = EmptyZset THEN s ELSE OverdeleteSettle(s, d)
    BY <1>2, <2>1
  <2> HIDE DEF s
  <2>4. Keeps(c, d)
    BY <2>2, RoundKeeps DEF KeepsBase, HoldsBase, Keeps
  <2> HIDE DEF d
  <2>5. HoldsBase(c, OverdeleteSettle(s, d))
    BY <2>2, <2>4, SettlesKeep
  <2> QED BY <2>2, <2>3, <2>5
<1>5. \A n \in Nat : n \in N
  <2> HIDE DEF N
  <2> QED BY <1>3, <1>4, Induction
<1> DEFINE last == run[MaxRounds]
<1>6. HoldsBase(c, last)
  BY <1>5, RoundsAssumption
<1>7. Fixpoint(OverdeleteSettle, start) =
          [last EXCEPT !.circuit = Check(@, last.delta = EmptyZset)]
  BY DEF Fixpoint, run, Over!Solution
<1> HIDE DEF last
<1>8. Keeps(c, Check(last.circuit, last.delta = EmptyZset))
  BY <1>6, CheckKeeps DEF KeepsBase, HoldsBase, Keeps
<1> QED BY <1>6, <1>7, <1>8 DEF HoldsBase

LEMMA RederiveSettleFixpoint ==
    ASSUME NEW c, NEW start, HasBase(c), HoldsBase(c, start)
    PROVE  HoldsBase(c, Fixpoint(RederiveSettle, start))
<1> DEFINE run == Red!Solution(start, 0 .. MaxRounds)
<1>1. Red!Grounded(0 .. MaxRounds)
  BY RoundsAssumption, Induction DEF Red!Grounded, Red!Ranked, Red!Inductive
<1>2. \A n \in 0 .. MaxRounds : run[n] =
          IF n = 0 THEN start
          ELSE IF run[n - 1].delta = EmptyZset THEN run[n - 1]
               ELSE RederiveSettle(run[n - 1], FixpointRound(run[n - 1].circuit, run[n - 1].delta))
  <2> DEFINE D == 0 .. MaxRounds
  <2> HIDE DEF D
  <2>1. Red!Grounded(D)
    BY <1>1 DEF D
  <2>2. \A n \in D : Red!Solution(start, D)[n] =
            IF n = 0 THEN start
            ELSE IF Red!Solution(start, D)[n - 1].delta = EmptyZset THEN Red!Solution(start, D)[n - 1]
                 ELSE RederiveSettle(Red!Solution(start, D)[n - 1], FixpointRound(Red!Solution(start, D)[n - 1].circuit, Red!Solution(start, D)[n - 1].delta))
    BY <2>1, Red!SolutionSolves
  <2> QED BY <2>2 DEF D
<1> HIDE DEF run
<1> DEFINE N == {n \in Nat : n <= MaxRounds => HoldsBase(c, run[n])}
<1>3. 0 \in N
  BY <1>2, RoundsAssumption
<1>4. ASSUME NEW n \in Nat, n \in N PROVE n + 1 \in N
  <2> SUFFICES ASSUME n + 1 <= MaxRounds PROVE HoldsBase(c, run[n + 1])
    OBVIOUS
  <2> DEFINE s == run[n]
             d == FixpointRound(s.circuit, s.delta)
  <2>1. n + 1 \in 0 .. MaxRounds /\ n + 1 # 0 /\ n + 1 - 1 = n /\ n <= MaxRounds
    BY RoundsAssumption
  <2>2. HoldsBase(c, s)
    BY <1>4, <2>1
  <2>3. run[n + 1] = IF s.delta = EmptyZset THEN s ELSE RederiveSettle(s, d)
    BY <1>2, <2>1
  <2> HIDE DEF s
  <2>4. Keeps(c, d)
    BY <2>2, RoundKeeps DEF KeepsBase, HoldsBase, Keeps
  <2> HIDE DEF d
  <2>5. HoldsBase(c, RederiveSettle(s, d))
    BY <2>2, <2>4, SettlesKeep
  <2> QED BY <2>2, <2>3, <2>5
<1>5. \A n \in Nat : n \in N
  <2> HIDE DEF N
  <2> QED BY <1>3, <1>4, Induction
<1> DEFINE last == run[MaxRounds]
<1>6. HoldsBase(c, last)
  BY <1>5, RoundsAssumption
<1>7. Fixpoint(RederiveSettle, start) =
          [last EXCEPT !.circuit = Check(@, last.delta = EmptyZset)]
  BY DEF Fixpoint, run, Red!Solution
<1> HIDE DEF last
<1>8. Keeps(c, Check(last.circuit, last.delta = EmptyZset))
  BY <1>6, CheckKeeps DEF KeepsBase, HoldsBase, Keeps
<1> QED BY <1>6, <1>7, <1>8 DEF HoldsBase

-----------------------------------------------------------------------------
(* The rules.                                                                *)

LEMMA InsertionFixpointKeeps ==
    ASSUME NEW c, NEW delta, HasBase(c)
    PROVE  Keeps(c, InsertionFixpoint(c, delta))
<1> DEFINE start == [circuit |-> c, delta |-> delta]
<1>1. HoldsBase(c, start)
  BY DEF KeepsBase, HoldsBase, Keeps
<1> HIDE DEF start
<1>2. HoldsBase(c, Fixpoint(InsertionSettle, start))
  BY <1>1, InsertionSettleFixpoint
<1> QED BY <1>2 DEF InsertionFixpoint, HoldsBase, start

LEMMA NetTransitionsKeep ==
    ASSUME NEW c, NEW touched, HasBase(c)
    PROVE  Keeps(c, NetTransitions(c, touched))
<1> DEFINE covered == {t \in touched : c.asserted[t] > 0 \/ t \in c.support}
           should  == {t \in touched : /\ TotalWeight(c, t) > 0
                                       /\ c.extent[t] > 0
                                       /\ Owned(c, t) \/ t \notin covered}
           kept    == {t \in should : Owned(c, t)}
           fresh   == should \ kept
           lapsed  == {t \in touched \ should : Owned(c, t)}
           checked == Check(c, /\ \A t \in touched : TotalWeight(c, t) <= 0 \/ c.extent[t] > 0
                               /\ \A t \in fresh : c.derived[t] = 0)
           renamed == [checked EXCEPT !.attr = [t \in Triple |->
                          IF t \in kept THEN FirstAttrRule(c, t) ELSE @[t]]]
           added   == MaterializeRuleRows(renamed, fresh)
           gone    == WithdrawDerivedRows(added, lapsed \ c.support, c.attr)
           done    == [gone EXCEPT !.attr = [t \in Triple |-> IF t \in lapsed THEN NoRule ELSE @[t]]]
<1>1. Keeps(c, checked)
  BY CheckKeeps
<1> HIDE DEF checked, kept, fresh, lapsed
<1>2. Keeps(checked, renamed)
  BY <1>1 DEF KeepsBase, Keeps, HasBase
<1> HIDE DEF renamed
<1>3. Keeps(renamed, added)
  BY <1>2, RowStepsKeep DEF KeepsBase, Keeps
<1> HIDE DEF added
<1>4. Keeps(added, gone)
  BY <1>3, RowStepsKeep DEF KeepsBase, Keeps
<1> HIDE DEF gone
<1>5. Keeps(gone, done)
  BY <1>4 DEF KeepsBase, Keeps, HasBase
<1>6. NetTransitions(c, touched) = done
  BY DEF NetTransitions, covered, should, kept, fresh, lapsed, checked, renamed, added, gone
<1> HIDE DEF done
<1> QED BY <1>1, <1>2, <1>3, <1>4, <1>5, <1>6 DEF KeepsBase, Keeps

LEMMA TwoPhaseFixpointKeeps ==
    ASSUME NEW c, NEW delta, HasBase(c)
    PROVE  Keeps(c, TwoPhaseFixpoint(c, delta))
<1>1. ASSUME NEW cut, NEW gain, HoldsBase(c, cut) PROVE Keeps(c, Rederive(cut, gain))
  <2> DEFINE start == [cut EXCEPT !.delta = RederiveSeed(cut.circuit, cut.candidates, gain)]
             grow  == Fixpoint(RederiveSettle, start)
  <2>1. HoldsBase(c, start)
    BY <1>1 DEF HoldsBase
  <2> HIDE DEF start
  <2>2. HoldsBase(c, grow)
    BY <2>1, RederiveSettleFixpoint
  <2> HIDE DEF grow
  <2>3. Keeps(grow.circuit, NetTransitions(grow.circuit, grow.touched))
    BY <2>2, NetTransitionsKeep DEF KeepsBase, HoldsBase, Keeps
  <2>4. Rederive(cut, gain) = NetTransitions(grow.circuit, grow.touched)
    BY DEF Rederive, grow, start
  <2> QED BY <2>2, <2>3, <2>4 DEF KeepsBase, HoldsBase, Keeps
<1> DEFINE lost  == {t \in Triple : delta[t] < 0}
           seed  == {t \in lost : TotalWeight(c, t) > 0}
           start == [circuit    |-> c,
                     delta      |-> [t \in Triple |-> IF t \in lost THEN delta[t] ELSE 0],
                     candidates |-> seed, touched |-> seed]
           gain  == [t \in Triple |-> IF t \in lost THEN 0 ELSE delta[t]]
<1>2. HoldsBase(c, start)
  BY DEF KeepsBase, HoldsBase, Keeps
<1> HIDE DEF start
<1>3. HoldsBase(c, Fixpoint(OverdeleteSettle, start))
  BY <1>2, OverdeleteSettleFixpoint
<1>4. TwoPhaseFixpoint(c, delta) = Rederive(Fixpoint(OverdeleteSettle, start), gain)
  BY DEF TwoPhaseFixpoint, start
<1> HIDE DEF gain
<1> QED BY <1>1, <1>3, <1>4

LEMMA ReplaceRuleRowsKeeps ==
    ASSUME NEW c, HasBase(c), NEW attr
    PROVE  Keeps(c, ReplaceRuleRows(c, attr))
<1> DEFINE fresh  == {t \in Triple : attr[t] # NoRule /\ ~Owned(c, t)}
           lapsed == {t \in Triple : attr[t] = NoRule /\ Owned(c, t)} \ c.support
           added  == [c EXCEPT !.derived = Plus(@, OneFor(fresh, 1)),
                               !.pending = Emit(@, fresh, 1, attr)]
           gone   == WithdrawDerivedRows(added, lapsed, c.attr)
           named  == [gone EXCEPT !.attr = attr]
<1>1. ReplaceRuleRows(c, attr) = ResyncIncrementalState(named)
  BY DEF ReplaceRuleRows
<1> HIDE DEF fresh, lapsed
<1>2. Keeps(c, added)
  BY DEF KeepsBase, Keeps, HasBase
<1> HIDE DEF added
<1>3. Keeps(added, gone)
  BY <1>2, RowStepsKeep DEF KeepsBase, Keeps
<1> HIDE DEF gone
<1>4. Keeps(gone, named)
  BY <1>3 DEF KeepsBase, Keeps, HasBase
<1> HIDE DEF named
<1>5. Keeps(named, ResyncIncrementalState(named))
  BY <1>4 DEF KeepsBase, Keeps, HasBase, ResyncIncrementalState
<1> QED BY <1>1, <1>2, <1>3, <1>4, <1>5 DEF KeepsBase, Keeps

LEMMA RecomputeRulesKeep ==
    ASSUME NEW c, HasBase(c)
    PROVE  Keeps(c, RecomputeRules(c))
<1> DEFINE found   == RecomputeRuleClosure(c)
           checked == Check(c, found.converged)
<1>1. Keeps(c, checked)
  BY CheckKeeps
<1>2. RecomputeRules(c) = ReplaceRuleRows(checked, found.attr)
  BY DEF RecomputeRules
<1> HIDE DEF found, checked
<1>3. Keeps(checked, ReplaceRuleRows(checked, found.attr))
  BY <1>1, ReplaceRuleRowsKeeps DEF KeepsBase, Keeps
<1> QED BY <1>1, <1>2, <1>3 DEF KeepsBase, Keeps

-----------------------------------------------------------------------------
\* A tick adds the sum of its records to the asserted base, and does nothing
\* else to it.
LEMMA TickAsserts ==
    ASSUME NEW c, NEW records, HasBase(c)
    PROVE  /\ HasBase(Tick(c, records))
           /\ Tick(c, records).asserted = Plus(c.asserted, NetDelta(records))
           /\ Tick(c, records).fallback = c.fallback
           /\ Tick(c, records).sound => c.sound
<1> DEFINE delta    == NetDelta(records)
           merged   == [c EXCEPT !.asserted = Plus(@, delta), !.pending = NoEmission]
           flipped  == {t \in Triple : (c.asserted[t] > 0) # (merged.asserted[t] > 0)}
           insEdges == InsertedEdges(merged, delta)
           delEdges == DeletedEdges(merged, delta)
           retracts == \E n \in DOMAIN records : records[n].mult < 0
           fallen   == RecomputeFallback(merged, insEdges, delEdges)
           unified  == UnifiedPath(merged, flipped, insEdges, delEdges, retracts)
<1>1. HasBase(merged) /\ merged.asserted = Plus(c.asserted, delta)
      /\ merged.fallback = c.fallback /\ merged.sound = c.sound
  BY DEF HasBase
<1>2. Tick(c, records) = NetRecordsChecked(IF c.fallback /\ retracts THEN fallen ELSE unified)
  BY DEF Tick
<1> HIDE DEF delta, merged, flipped, insEdges, delEdges
<1>3. KeepsBase(merged, fallen)
  <2> DEFINE cut   == ClosureRetractPass(merged, delEdges, EmptyZset).circuit
             grown == ClosureInsertionPass(cut, insEdges, EmptyZset).circuit
  <2>1. KeepsBase(merged, cut)
    BY <1>1, ClosurePassesKeep
  <2> HIDE DEF cut
  <2>2. KeepsBase(cut, grown)
    BY <2>1, ClosurePassesKeep DEF KeepsBase
  <2> HIDE DEF grown
  <2>3. KeepsBase(grown, RecomputeRules(grown))
    BY <2>2, RecomputeRulesKeep DEF Keeps, KeepsBase
  <2>4. fallen = RecomputeRules(grown)
    BY DEF RecomputeFallback, cut, grown
  <2> QED BY <2>1, <2>2, <2>3, <2>4 DEF KeepsBase
<1>4. KeepsBase(merged, unified)
  <2>1. ASSUME NEW d, NEW x, HasBase(d) PROVE KeepsBase(d, RunRules(d, x))
    BY <2>1, TwoPhaseFixpointKeeps, InsertionFixpointKeeps DEF Keeps, RunRules
  <2> DEFINE noted == NotePresenceChange(merged, flipped, EmptyZset)
             cut   == IF retracts THEN ClosureRetractPass(merged, delEdges, noted)
                      ELSE [circuit |-> merged, delta |-> noted, orphans |-> {}]
             grown == ClosureInsertionPass(cut.circuit, insEdges, cut.delta)
             seed  == OrphanReseed(grown.circuit, cut.orphans, grown.delta)
  <2>2. KeepsBase(merged, cut.circuit)
    <3>1. KeepsBase(merged, ClosureRetractPass(merged, delEdges, noted).circuit)
      BY <1>1, ClosurePassesKeep
    <3> QED BY <1>1, <3>1 DEF KeepsBase
  <2>3. unified = RunRules(grown.circuit, seed)
    BY DEF UnifiedPath, InsertionsAndRules, RulesAfterClosure
  <2> HIDE DEF cut
  <2>4. KeepsBase(cut.circuit, grown.circuit)
    BY <2>2, ClosurePassesKeep DEF KeepsBase
  <2> HIDE DEF grown, seed, unified
  <2>5. KeepsBase(grown.circuit, RunRules(grown.circuit, seed))
    BY <2>1, <2>4 DEF KeepsBase
  <2> QED BY <2>2, <2>3, <2>4, <2>5 DEF KeepsBase
<1> HIDE DEF fallen, unified, retracts
<1> DEFINE last == IF c.fallback /\ retracts THEN fallen ELSE unified
<1>5. KeepsBase(merged, last)
  BY <1>3, <1>4
<1> HIDE DEF last
<1>6. KeepsBase(last, NetRecordsChecked(last))
  BY <1>5, CheckKeeps DEF NetRecordsChecked, Keeps, KeepsBase
<1>7. KeepsBase(merged, Tick(c, records))
  BY <1>2, <1>5, <1>6 DEF KeepsBase, last
<1> QED BY <1>1, <1>7 DEF KeepsBase, delta

-----------------------------------------------------------------------------
(* Sums of records.                                                          *)

LEMMA PlusAt ==
    ASSUME NEW z \in Zset, NEW d \in Zset
    PROVE  /\ Plus(z, d) \in Zset
           /\ \A t \in Triple : Plus(z, d)[t] = z[t] + d[t]
BY DEF Plus, Tabulated, Zset

LEMMA EmptySum == EmptyZset \in Zset /\ \A z \in Zset : Plus(z, EmptyZset) = z /\ Plus(EmptyZset, z) = z
<1>1. EmptyZset \in Zset
  BY DEF EmptyZset, Zset
<1>2. \A z \in Zset : Plus(z, EmptyZset) = z /\ Plus(EmptyZset, z) = z
  BY DEF Plus, Tabulated, EmptyZset, Zset
<1> QED BY <1>1, <1>2

LEMMA PlusAssociative ==
    ASSUME NEW a \in Zset, NEW b \in Zset, NEW c \in Zset
    PROVE  Plus(Plus(a, b), c) = Plus(a, Plus(b, c))
<1>1. \A t \in Triple : (a[t] + b[t]) + c[t] = a[t] + (b[t] + c[t])
  BY DEF Zset
<1>2. \A t \in Triple : Plus(Plus(a, b), c)[t] = Plus(a, Plus(b, c))[t]
  BY <1>1, PlusAt
<1>3. Plus(Plus(a, b), c) \in Zset /\ Plus(a, Plus(b, c)) \in Zset
  BY PlusAt
<1> HIDE DEF Zset
<1> DEFINE l == Plus(Plus(a, b), c)
           r == Plus(a, Plus(b, c))
<1>4. l \in [Triple -> Int] /\ r \in [Triple -> Int]
  BY <1>3 DEF Zset
<1> HIDE DEF l, r
<1>5. \A t \in Triple : l[t] = r[t]
  BY <1>2 DEF l, r
<1>6. l = r
  BY <1>4, <1>5
<1> QED BY <1>6 DEF l, r

\* The elements of a sequence of records, of whatever other fields.
Summable(X) == \A rec \in X : rec.triple \in Triple /\ rec.mult \in Int

Net == INSTANCE FoldFacts WITH
        Op   <- LAMBDA c, z, rec : [z EXCEPT ![rec.triple] = @ + rec.mult],
        Size <- Cardinality

LEMMA NetInductive == Net!Inductive
BY Induction DEF Net!Inductive

LEMMA NetFold == \A s : NetDelta(s) = Net!Folded(0, EmptyZset, s)
BY DEF NetDelta, Net!Folded, FoldLeft, MapThenFoldSet, Net!MapThenFoldSet, Max, Net!Latest

LEMMA NetNone == NetDelta(<<>>) = EmptyZset
BY NetFold, NetInductive, Net!FoldNone

LEMMA NetType ==
    ASSUME NEW X, Summable(X), NEW s \in Seq(X)
    PROVE  NetDelta(s) \in Zset
<1>1. ASSUME NEW z \in Zset, NEW rec \in X
      PROVE  [z EXCEPT ![rec.triple] = @ + rec.mult] \in Zset
  BY DEF Zset, Summable
<1>2. EmptyZset \in Zset
  BY EmptySum
<1>3. Net!Folded(0, EmptyZset, s) \in Zset
  <2> HIDE DEF Zset
  <2> QED BY <1>1, <1>2, NetInductive, Net!FoldIn
<1> QED BY <1>3, NetFold

LEMMA NetOn ==
    ASSUME NEW X, Summable(X), NEW s \in Seq(X), NEW x \in X
    PROVE  NetDelta(Append(s, x)) = [NetDelta(s) EXCEPT ![x.triple] = @ + x.mult]
BY NetFold, NetInductive, Net!FoldOn

LEMMA NetOne ==
    ASSUME NEW X, Summable(X), NEW x \in X
    PROVE  NetDelta(<<x>>) = [EmptyZset EXCEPT ![x.triple] = x.mult]
<1>1. <<>> \in Seq(X) /\ Append(<<>>, x) = <<x>>
  OBVIOUS
<1>2. NetDelta(<<x>>) = [EmptyZset EXCEPT ![x.triple] = @ + x.mult]
  <2>1. NetDelta(Append(<<>>, x)) = [NetDelta(<<>>) EXCEPT ![x.triple] = @ + x.mult]
    <3> DEFINE none == <<>>
    <3>1. none \in Seq(X)
      OBVIOUS
    <3> HIDE DEF none
    <3>2. NetDelta(Append(none, x)) = [NetDelta(none) EXCEPT ![x.triple] = @ + x.mult]
      BY <3>1, NetOn
    <3> QED BY <3>2 DEF none
  <2> QED BY <1>1, <2>1, NetNone
<1>3. x.triple \in Triple /\ x.mult \in Int
  BY DEF Summable
<1>4. EmptyZset[x.triple] + x.mult = x.mult
  BY <1>3 DEF EmptyZset
<1>5. NetDelta(<<x>>) = [EmptyZset EXCEPT ![x.triple] = EmptyZset[x.triple] + x.mult]
  BY <1>2
<1> QED BY <1>4, <1>5

\* The sum of a concatenation.
LEMMA NetConcat ==
    ASSUME NEW X, Summable(X), NEW s \in Seq(X), NEW t \in Seq(X)
    PROVE  NetDelta(s \o t) = Plus(NetDelta(s), NetDelta(t))
<1> DEFINE S == {u \in Seq(X) : NetDelta(s \o u) = Plus(NetDelta(s), NetDelta(u))}
<1>1. <<>> \in S
  <2>1. s \o <<>> = s /\ <<>> \in Seq(X)
    OBVIOUS
  <2>2. Plus(NetDelta(s), EmptyZset) = NetDelta(s)
    BY NetType, EmptySum
  <2> QED BY <2>1, <2>2, NetNone
<1>2. ASSUME NEW u \in Seq(X), NEW x \in X, u \in S PROVE Append(u, x) \in S
  <2>1. s \o u \in Seq(X) /\ s \o Append(u, x) = Append(s \o u, x) /\ Append(u, x) \in Seq(X)
    OBVIOUS
  <2> DEFINE v == s \o u
             a == NetDelta(s)
             b == NetDelta(u)
  <2>2. v \in Seq(X) /\ NetDelta(v) = Plus(a, b)
    BY <1>2, <2>1
  <2> HIDE DEF v
  <2>3. NetDelta(Append(v, x)) = [NetDelta(v) EXCEPT ![x.triple] = @ + x.mult]
    BY <2>2, NetOn
  <2>4. NetDelta(Append(u, x)) = [b EXCEPT ![x.triple] = @ + x.mult]
    BY NetOn
  <2>5. a \in Zset /\ b \in Zset /\ x.triple \in Triple /\ x.mult \in Int
    BY NetType DEF Summable
  <2> HIDE DEF a, b
  <2>6. [Plus(a, b) EXCEPT ![x.triple] = @ + x.mult] = Plus(a, [b EXCEPT ![x.triple] = @ + x.mult])
    <3> DEFINE n == x.mult
               tr == x.triple
               b2 == [b EXCEPT ![tr] = @ + n]
               l == [Plus(a, b) EXCEPT ![tr] = @ + n]
    <3>1. b2 \in Zset
      BY <2>5 DEF Zset
    <3>2. Plus(a, b) \in Zset /\ \A e \in Triple : Plus(a, b)[e] = a[e] + b[e]
      BY <2>5, PlusAt
    <3>3. l \in Zset /\ \A e \in Triple : l[e] = IF e = tr THEN a[e] + b[e] + n ELSE a[e] + b[e]
      BY <2>5, <3>2 DEF Zset
    <3>4. \A e \in Triple : b2[e] = IF e = tr THEN b[e] + n ELSE b[e]
      BY <2>5 DEF Zset
    <3> HIDE DEF b2, l
    <3>5. Plus(a, b2) \in Zset /\ \A e \in Triple : Plus(a, b2)[e] = a[e] + b2[e]
      BY <2>5, <3>1, PlusAt
    <3>6. \A e \in Triple : l[e] = Plus(a, b2)[e]
      <4> SUFFICES ASSUME NEW e \in Triple PROVE l[e] = Plus(a, b2)[e]
        OBVIOUS
      <4>1. a[e] \in Int /\ b[e] \in Int /\ n \in Int
        BY <2>5 DEF Zset
      <4> HIDE DEF n, tr
      <4>2. l[e] = (IF e = tr THEN a[e] + b[e] + n ELSE a[e] + b[e])
        BY <3>3
      <4>3. Plus(a, b2)[e] = a[e] + (IF e = tr THEN b[e] + n ELSE b[e])
        BY <3>4, <3>5
      <4> QED BY <4>1, <4>2, <4>3
    <3>7. l = Plus(a, b2)
      BY <3>3, <3>5, <3>6 DEF Zset
    <3> QED BY <3>7 DEF l, b2
  <2>7. NetDelta(Append(v, x)) = Plus(a, NetDelta(Append(u, x)))
    BY <2>2, <2>3, <2>4, <2>6
  <2> QED BY <2>1, <2>7 DEF v, a
<1>3. \A u \in Seq(X) : u \in S
  <2> HIDE DEF S
  <2> QED BY <1>1, <1>2, NetInductive, Net!SeqInduction
<1> QED BY <1>3

-----------------------------------------------------------------------------
(* Records that list a set: whatever the order, they sum up to it.           *)

LEMMA TriplesFinite == IsFiniteSet(Triple)
<1>1. IsFiniteSet(Pair)
  BY NodeAssumption, FS_Product DEF Pair
<1>2. IsFiniteSet(EdgeTriple)
  <2> DEFINE f == [p \in Pair |-> Edge(p)]
  <2>1. f \in Surjection(Pair, EdgeTriple)
    BY DEF Surjection, EdgeTriple
  <2> HIDE DEF f
  <2> QED BY <1>1, <2>1, FS_Surjection
<1> QED BY <1>2, FactAssumption, FS_Union DEF Triple

Listing == INSTANCE RecursionFacts WITH
        Bottom <- LAMBDA d : d = {},
        Prev   <- LAMBDA d : d \ {CHOOSE x \in d : TRUE},
        Rank   <- Cardinality,
        Base   <- LAMBDA z, d : <<>>,
        Step   <- LAMBDA z, d, s : Append(s, [triple |-> CHOOSE x \in d : TRUE,
                                              mult   |-> z[CHOOSE x \in d : TRUE]])

Delta == [triple : Triple, mult : Int]
LEMMA DeltasSummable == Summable(Delta)
BY DEF Summable, Delta

LEMMA SetsGrounded ==
    ASSUME NEW ts, IsFiniteSet(ts)
    PROVE  Listing!Grounded(SUBSET ts)
BY Induction, FiniteCounted DEF Listing!Grounded, Listing!Ranked, Listing!Inductive

LEMMA RecordsSum ==
    ASSUME NEW ts \in SUBSET Triple, NEW z \in Zset
    PROVE  /\ Records(ts, z) \in Seq(Delta)
           /\ NetDelta(Records(ts, z)) = [t \in Triple |-> IF t \in ts THEN z[t] ELSE 0]
<1> DEFINE D == SUBSET ts
           f == Listing!Solution(z, D)
           Part(d) == [t \in Triple |-> IF t \in d THEN z[t] ELSE 0]
           Good(d) == f[d] \in Seq(Delta) /\ NetDelta(f[d]) = Part(d)
           N == {n \in Nat : \A d \in D : Cardinality(d) = n => Good(d)}
<1>1. IsFiniteSet(ts)
  BY TriplesFinite, FS_Subset
<1>2. Listing!Grounded(D)
  BY <1>1, SetsGrounded
<1>3. \A d \in D : f[d] = IF d = {} THEN <<>>
                          ELSE Append(f[d \ {CHOOSE x \in d : TRUE}],
                                      [triple |-> CHOOSE x \in d : TRUE,
                                       mult   |-> z[CHOOSE x \in d : TRUE]])
  <2> HIDE DEF D
  <2> SUFFICES ASSUME NEW d \in D
               PROVE  f[d] = IF d = {} THEN <<>>
                             ELSE Append(f[d \ {CHOOSE x \in d : TRUE}],
                                         [triple |-> CHOOSE x \in d : TRUE,
                                          mult   |-> z[CHOOSE x \in d : TRUE]])
    OBVIOUS
  <2> QED BY <1>2, Listing!SolutionSolves
<1>4. Records(ts, z) = f[ts]
  BY DEF Records, FoldSet, MapThenFoldSet, Listing!Solution
<1> HIDE DEF f
<1>5. 0 \in N
  <2> SUFFICES ASSUME NEW d \in D, Cardinality(d) = 0 PROVE Good(d)
    OBVIOUS
  <2>1. d = {}
    BY <1>1, FS_Subset, FS_EmptySet
  <2>2. f[d] = <<>>
    BY <1>3, <2>1
  <2>3. EmptyZset = Part(d)
    BY <2>1 DEF EmptyZset
  <2>4. <<>> \in Seq(Delta)
    OBVIOUS
  <2> QED BY <2>2, <2>3, <2>4, NetNone
<1>6. ASSUME NEW n \in Nat, n \in N PROVE n + 1 \in N
  <2> SUFFICES ASSUME NEW d \in D, Cardinality(d) = n + 1 PROVE Good(d)
    OBVIOUS
  <2> DEFINE x == CHOOSE e \in d : TRUE
             r == d \ {x}
             rec == [triple |-> x, mult |-> z[x]]
  <2>1. IsFiniteSet(d) /\ d # {}
    BY <1>1, FS_Subset, FS_EmptySet
  <2>2. x \in d /\ x \in Triple
    BY <2>1
  <2>3. r \in D /\ Cardinality(r) = n
    <3> HIDE DEF x
    <3>1. Cardinality(d \ {x}) = Cardinality(d) - 1
      BY <2>1, <2>2, FS_RemoveElement
    <3> QED BY <3>1
  <2>4. Good(r)
    BY <1>6, <2>3
  <2>5. f[d] = Append(f[r], rec)
    BY <1>3, <2>1
  <2>6. rec \in Delta /\ rec.triple = x /\ rec.mult = z[x]
    BY <2>2 DEF Delta, Zset
  <2> HIDE DEF x, rec
  <2>7. f[d] \in Seq(Delta)
    BY <2>4, <2>5, <2>6
  <2>8. NetDelta(f[d]) = [NetDelta(f[r]) EXCEPT ![x] = @ + z[x]]
    <3> DEFINE s == f[r]
    <3>1. s \in Seq(Delta)
      BY <2>4
    <3> HIDE DEF s
    <3>2. NetDelta(Append(s, rec)) = [NetDelta(s) EXCEPT ![rec.triple] = @ + rec.mult]
      BY <3>1, <2>6, NetOn, DeltasSummable
    <3> QED BY <2>5, <2>6, <3>2 DEF s
  <2>9. NetDelta(f[d]) = [Part(r) EXCEPT ![x] = @ + z[x]]
    BY <2>4, <2>8
  <2>10. [Part(r) EXCEPT ![x] = @ + z[x]] = Part(d)
    <3>1. z[x] \in Int /\ Part(r)[x] = 0
      BY <2>2 DEF Zset
    <3>2. Part(r)[x] + z[x] = z[x]
      BY <3>1
    <3>3. [Part(r) EXCEPT ![x] = Part(r)[x] + z[x]] = Part(d)
      BY <2>2, <3>2
    <3> QED BY <3>3
  <2> QED BY <2>7, <2>9, <2>10
<1>7. \A n \in Nat : n \in N
  <2> HIDE DEF N
  <2> QED BY <1>5, <1>6, Induction
<1>8. Good(ts)
  <2>1. ts \in D /\ Cardinality(ts) \in Nat
    BY <1>1, FS_CardinalityType
  <2> QED BY <1>7, <2>1
<1> QED BY <1>4, <1>8

-----------------------------------------------------------------------------
(* Sums over a set.                                                          *)

SumOf(f, S) == MapThenSumSet(LAMBDA k : f[k], S)
Added(f, acc, k) == f[k] + acc
Su == INSTANCE FoldFacts WITH Op <- Added, Size <- Cardinality

LEMMA SumIsFold ==
    ASSUME NEW f, NEW S
    PROVE  SumOf(f, S) = Su!SetFolded(f, 0, S)
BY DEF SumOf, MapThenSumSet, MapThenFoldSet, Su!SetFolded, Su!Picked, Su!MapThenFoldSet, Added

LEMMA SumFinite == Su!Inductive /\ \A S : IsFiniteSet(S) => Su!Counted(S)
BY Induction, FiniteCounted DEF Su!Inductive, Su!Counted

LEMMA SumNone ==
    ASSUME NEW f
    PROVE  SumOf(f, {}) = 0
<1>1. Su!Counted({})
  BY SumFinite, FS_EmptySet
<1> QED BY <1>1, SumIsFold, SumFinite, Su!SetFoldNone

LEMMA SumOn ==
    ASSUME NEW f, NEW S, IsFiniteSet(S), S # {}
    PROVE  /\ Su!Picked(S) \in S
           /\ SumOf(f, S) = f[Su!Picked(S)] + SumOf(f, S \ {Su!Picked(S)})
<1> DEFINE x == Su!Picked(S)
<1>1. Su!SetFolded(f, 0, S) = Added(f, Su!SetFolded(f, 0, S \ {x}), x)
  BY SumFinite, Su!SetFoldOn
<1>2. x \in S
  BY DEF Su!Picked
<1> HIDE DEF x
<1>3. SumOf(f, S) = f[x] + SumOf(f, S \ {x})
  BY <1>1, SumIsFold DEF Added
<1> QED BY <1>2, <1>3 DEF x

Raised(f, g, S, x, n) ==
    \A k \in S : f[k] \in Int /\ g[k] = f[k] + (IF k = x THEN n ELSE 0)

\* Raising one summand by n raises the sum by n.
LEMMA SumRaised ==
    ASSUME NEW f, NEW g, NEW S, IsFiniteSet(S), NEW x, NEW n \in Int, Raised(f, g, S, x, n)
    PROVE  /\ SumOf(f, S) \in Int
           /\ SumOf(g, S) = SumOf(f, S) + (IF x \in S THEN n ELSE 0)
<1> DEFINE N == {d \in SUBSET S : /\ SumOf(f, d) \in Int
                                  /\ SumOf(g, d) = SumOf(f, d) + (IF x \in d THEN n ELSE 0)}
<1>1. {} \in N
  BY SumNone
<1>2. ASSUME NEW d \in SUBSET S, d # {}, d \ {Su!Picked(d)} \in N PROVE d \in N
  <2> DEFINE y == Su!Picked(d)
             r == d \ {y}
             P == SumOf(f, r)
             Q == SumOf(g, r)
  <2>1. y \in d /\ SumOf(f, d) = f[y] + P /\ SumOf(g, d) = g[y] + Q
    BY <1>2, FS_Subset, SumOn
  <2>2. P \in Int /\ Q = P + (IF x \in r THEN n ELSE 0)
    BY <1>2
  <2>3. f[y] \in Int /\ g[y] = f[y] + (IF y = x THEN n ELSE 0)
    BY <2>1 DEF Raised
  <2>4. x \in r <=> (x \in d /\ x # y)
    OBVIOUS
  <2> HIDE DEF P, Q, y, r
  <2>5. SumOf(f, d) \in Int
    BY <2>1, <2>2, <2>3
  <2>6. SumOf(g, d) = SumOf(f, d) + (IF x \in d THEN n ELSE 0)
    BY <2>1, <2>2, <2>3, <2>4
  <2> QED BY <2>5, <2>6
<1>3. \A d \in SUBSET S : d \in N
  <2> HIDE DEF N
  <2> QED BY <1>1, <1>2, SumFinite, Su!SubsetInduction
<1> QED BY <1>3

LEMMA SumZero ==
    ASSUME NEW f, NEW S, IsFiniteSet(S), \A k \in S : f[k] = 0
    PROVE  SumOf(f, S) = 0
<1> DEFINE N == {d \in SUBSET S : SumOf(f, d) = 0}
<1>1. {} \in N
  BY SumNone
<1>2. ASSUME NEW d \in SUBSET S, d # {}, d \ {Su!Picked(d)} \in N PROVE d \in N
  <2> DEFINE a == f[Su!Picked(d)]
             b == SumOf(f, d \ {Su!Picked(d)})
  <2>1. Su!Picked(d) \in d /\ SumOf(f, d) = a + b
    BY <1>2, FS_Subset, SumOn
  <2>2. a = 0 /\ b = 0
    BY <1>2, <2>1
  <2> QED BY <2>1, <2>2
<1>3. \A d \in SUBSET S : d \in N
  <2> HIDE DEF N
  <2> QED BY <1>1, <1>2, SumFinite, Su!SubsetInduction
<1> QED BY <1>3

\* A positive sum has a positive summand.
LEMMA SumPositive ==
    ASSUME NEW f, NEW S, IsFiniteSet(S), \A k \in S : f[k] \in Int, SumOf(f, S) > 0
    PROVE  \E k \in S : f[k] > 0
<1> SUFFICES ASSUME \A k \in S : ~(f[k] > 0) PROVE FALSE
  OBVIOUS
<1> DEFINE N == {d \in SUBSET S : SumOf(f, d) \in Int /\ SumOf(f, d) <= 0}
<1>1. {} \in N
  BY SumNone
<1>2. ASSUME NEW d \in SUBSET S, d # {}, d \ {Su!Picked(d)} \in N PROVE d \in N
  <2> DEFINE a == f[Su!Picked(d)]
             b == SumOf(f, d \ {Su!Picked(d)})
  <2>1. Su!Picked(d) \in d /\ SumOf(f, d) = a + b
    BY <1>2, FS_Subset, SumOn
  <2>2. a \in Int /\ ~(a > 0)
    BY <2>1
  <2>3. b \in Int /\ b <= 0
    BY <1>2
  <2> HIDE DEF a, b
  <2>4. SumOf(f, d) \in Int /\ SumOf(f, d) <= 0
    BY <2>1, <2>2, <2>3
  <2> QED BY <2>4
<1>3. \A d \in SUBSET S : d \in N
  <2> HIDE DEF N
  <2> QED BY <1>1, <1>2, SumFinite, Su!SubsetInduction
<1>4. S \in N
  BY <1>3
<1> QED BY <1>4

-----------------------------------------------------------------------------
(* The types of a circuit.                                                   *)

AttrMap == [Triple -> Rule \cup {NoRule}]
Weighing == [Triple -> [Rule -> Int]]
Traces == [Prefix -> Int]
Emission == [Triple -> [Kind -> Int]]

LEMMA StateShape ==
    CircuitState =
    [asserted : Zset, derived : Zset, extent : Zset, weights : Weighing, attr : AttrMap,
     support : SUBSET EdgeTriple, closure : Closure, warm : BOOLEAN, trace : Traces,
     pending : Emission, fallback : BOOLEAN, sound : BOOLEAN]
BY DEF CircuitState, Weighing, AttrMap, Traces, Emission

LEMMA KindFinite == IsFiniteSet(Kind) /\ Rule \subseteq Kind /\ ClosureInferred \in Kind
<1>1. IsFiniteSet(Rule)
  BY RuleAssumption
<1>2. IsFiniteSet(Rule \cup {ClosureInferred})
  BY <1>1, FS_AddElement
<1> QED BY <1>2 DEF Kind

LEMMA ZsetAt ==
    ASSUME NEW z \in Zset, NEW t \in Triple
    PROVE  z[t] \in Int
BY DEF Zset

\* What the records of a triple add up to.
Reported(c, t) == SumOf(c.pending[t], Kind)

LEMMA EmitTells ==
    ASSUME NEW p \in Emission, NEW ts, NEW n \in Int, NEW kindOf,
           \A t \in ts \cap Triple : kindOf[t] \in Kind
    PROVE  /\ Emit(p, ts, n, kindOf) \in Emission
           /\ \A t \in Triple :
                 /\ SumOf(p[t], Kind) \in Int
                 /\ SumOf(Emit(p, ts, n, kindOf)[t], Kind) =
                        SumOf(p[t], Kind) + (IF t \in ts THEN n ELSE 0)
<1> DEFINE q == Emit(p, ts, n, kindOf)
<1>1. q = [t \in Triple |-> [k \in Kind |-> p[t][k] + IF t \in ts /\ k = kindOf[t] THEN n ELSE 0]]
  BY DEF Emit, Tabulated
<1>2. \A t \in Triple, k \in Kind : p[t][k] \in Int
  BY DEF Emission
<1>3. q \in Emission
  <2> HIDE DEF q
  <2>1. \A t \in Triple, k \in Kind : (p[t][k] + IF t \in ts /\ k = kindOf[t] THEN n ELSE 0) \in Int
    BY <1>2
  <2> QED BY <1>1, <2>1 DEF Emission
<1>4. ASSUME NEW t \in Triple
      PROVE  /\ SumOf(p[t], Kind) \in Int
             /\ SumOf(q[t], Kind) = SumOf(p[t], Kind) + (IF t \in ts THEN n ELSE 0)
  <2> DEFINE f == p[t]
             g == q[t]
             m == IF t \in ts THEN n ELSE 0
             x == kindOf[t]
  <2>1. g = [k \in Kind |-> f[k] + IF t \in ts /\ k = x THEN n ELSE 0]
    <3> HIDE DEF q
    <3> QED BY <1>1
  <2>2. \A k \in Kind : f[k] \in Int
    BY <1>2
  <2>3. m \in Int /\ (t \in ts => x \in Kind)
    OBVIOUS
  <2> HIDE DEF f, g, x
  <2>4. Raised(f, g, Kind, x, m)
    BY <2>1, <2>2 DEF Raised
  <2> HIDE DEF m
  <2>5. IsFiniteSet(Kind)
    BY KindFinite
  <2>6. SumOf(f, Kind) \in Int
    BY <2>3, <2>4, <2>5, SumRaised
  <2>7. SumOf(g, Kind) = SumOf(f, Kind) + (IF x \in Kind THEN m ELSE 0)
    BY <2>3, <2>4, <2>5, SumRaised
  <2>8. SumOf(g, Kind) = SumOf(f, Kind) + (IF t \in ts THEN n ELSE 0)
    BY <2>3, <2>6, <2>7 DEF m
  <2> QED BY <2>6, <2>8 DEF f, g
<1> HIDE DEF q
<1> QED BY <1>3, <1>4 DEF q

LEMMA RowsAdded ==
    ASSUME NEW z \in Zset, NEW ts
    PROVE  /\ Plus(z, OneFor(ts, 1)) \in Zset
           /\ \A t \in Triple : Plus(z, OneFor(ts, 1))[t] = z[t] + (IF t \in ts THEN 1 ELSE 0)
<1>1. OneFor(ts, 1) \in Zset /\ \A t \in Triple : OneFor(ts, 1)[t] = IF t \in ts THEN 1 ELSE 0
  BY DEF OneFor, Zset
<1> HIDE DEF Zset
<1> QED BY <1>1, PlusAt

\* The parts of a circuit that row steps leave alone.
Beside(c, d) ==
    /\ d.asserted = c.asserted /\ d.extent = c.extent /\ d.weights = c.weights
    /\ d.closure = c.closure /\ d.fallback = c.fallback
    /\ d.warm = c.warm /\ d.trace = c.trace

LEMMA ClosureRowsFields ==
    ASSUME NEW c \in CircuitState, NEW ts \in SUBSET EdgeTriple
    PROVE  LET d == MaterializeClosureRows(c, ts)
           IN  /\ d \in CircuitState /\ Beside(c, d)
               /\ d.attr = c.attr /\ d.support = c.support \cup ts
               /\ \A t \in Triple :
                     /\ d.derived[t] = c.derived[t] + (IF t \in ts THEN 1 ELSE 0)
                     /\ Reported(d, t) = Reported(c, t) + (IF t \in ts THEN 1 ELSE 0)
<1> DEFINE kinds == [t \in Triple |-> ClosureInferred]
           derived == Plus(c.derived, OneFor(ts, 1))
           pending == Emit(c.pending, ts, 1, kinds)
           d == [c EXCEPT !.derived = derived, !.support = @ \cup ts, !.pending = pending]
<1>1. MaterializeClosureRows(c, ts) = d
  BY DEF MaterializeClosureRows, Listed
<1>2. c.derived \in Zset /\ c.pending \in Emission /\ c.support \in SUBSET EdgeTriple
  BY StateShape
<1>3. derived \in Zset /\ \A t \in Triple : derived[t] = c.derived[t] + (IF t \in ts THEN 1 ELSE 0)
  BY <1>2, RowsAdded
<1>4. \A t \in ts \cap Triple : kinds[t] \in Kind
  BY KindFinite
<1>5. /\ pending \in Emission
      /\ \A t \in Triple : SumOf(pending[t], Kind) = SumOf(c.pending[t], Kind) + (IF t \in ts THEN 1 ELSE 0)
  <2> HIDE DEF kinds
  <2> QED BY <1>2, <1>4, EmitTells
<1> HIDE DEF derived, pending
<1>6. d \in CircuitState /\ Beside(c, d) /\ d.attr = c.attr /\ d.support = c.support \cup ts
      /\ d.derived = derived /\ d.pending = pending
  BY <1>2, <1>3, <1>5, StateShape DEF Beside
<1> HIDE DEF d
<1> QED BY <1>1, <1>3, <1>5, <1>6 DEF Reported

LEMMA WithdrawFields ==
    ASSUME NEW c \in CircuitState, NEW ts, NEW kindOf, \A t \in ts \cap Triple : kindOf[t] \in Kind
    PROVE  LET d == WithdrawDerivedRows(c, ts, kindOf)
           IN  /\ d \in CircuitState /\ Beside(c, d)
               /\ d.attr = c.attr /\ d.support = c.support
               /\ \A t \in Triple :
                     /\ d.derived[t] = IF t \in ts THEN 0 ELSE c.derived[t]
                     /\ Reported(d, t) = Reported(c, t) + (IF t \in ts THEN -1 ELSE 0)
<1> DEFINE derived == [t \in Triple |-> IF t \in ts THEN 0 ELSE c.derived[t]]
           pending == Emit(c.pending, ts, -1, kindOf)
           d == [c EXCEPT !.derived = derived, !.pending = pending]
<1>1. WithdrawDerivedRows(c, ts, kindOf) = d
  BY DEF WithdrawDerivedRows, Tabulated
<1>2. c.derived \in Zset /\ c.pending \in Emission
  BY StateShape
<1>3. derived \in Zset /\ \A t \in Triple : derived[t] = IF t \in ts THEN 0 ELSE c.derived[t]
  BY <1>2 DEF Zset
<1>4. -1 \in Int
  OBVIOUS
<1>5. /\ pending \in Emission
      /\ \A t \in Triple : SumOf(pending[t], Kind) = SumOf(c.pending[t], Kind) + (IF t \in ts THEN -1 ELSE 0)
  BY <1>2, <1>4, EmitTells
<1> HIDE DEF derived, pending
<1>6. d \in CircuitState /\ Beside(c, d) /\ d.attr = c.attr /\ d.support = c.support
      /\ d.derived = derived /\ d.pending = pending
  BY <1>2, <1>3, <1>5, StateShape DEF Beside
<1> HIDE DEF d
<1> QED BY <1>1, <1>3, <1>5, <1>6 DEF Reported

\* A row with derivations has a first rule.
LEMMA FirstRule ==
    ASSUME NEW c, c.weights \in Weighing, NEW t \in Triple, TotalWeight(c, t) > 0
    PROVE  FirstAttrRule(c, t) \in Rule /\ c.weights[t][FirstAttrRule(c, t)] > 0
<1> DEFINE f == c.weights[t]
           S == {r \in Rule : f[r] # 0}
           T == {r \in Rule : f[r] > 0}
<1>1. f \in [Rule -> Int]
  BY DEF Weighing
<1>2. TotalWeight(c, t) = SumOf(f, S)
  BY DEF TotalWeight, SumOf
<1> HIDE DEF f
<1>3. IsFiniteSet(S)
  BY RuleAssumption, FS_Subset
<1>4. \E r \in S : f[r] > 0
  <2> DEFINE Z == S
  <2>1. \A k \in Z : f[k] \in Int
    BY <1>1
  <2> HIDE DEF Z
  <2> QED BY <1>2, <1>3, <2>1, SumPositive DEF Z
<1>5. T # {} /\ T \subseteq Nat
  BY <1>4, RuleAssumption
<1>6. \E x \in T : \A y \in T : x <= y
  <2> HIDE DEF T
  <2> QED BY <1>5, LeastElement
<1>7. Min(T) \in T
  <2> HIDE DEF T
  <2> QED BY <1>6 DEF Min
<1>8. FirstAttrRule(c, t) = Min(T)
  BY DEF FirstAttrRule, f
<1> QED BY <1>7, <1>8 DEF f

LEMMA RuleRowsFields ==
    ASSUME NEW c \in CircuitState, NEW ts, \A t \in ts \cap Triple : FirstAttrRule(c, t) \in Rule
    PROVE  LET d == MaterializeRuleRows(c, ts)
           IN  /\ d \in CircuitState /\ Beside(c, d)
               /\ d.support = c.support
               /\ \A t \in Triple :
                     /\ d.derived[t] = c.derived[t] + (IF t \in ts THEN 1 ELSE 0)
                     /\ d.attr[t] = IF t \in ts THEN FirstAttrRule(c, t) ELSE c.attr[t]
                     /\ Reported(d, t) = Reported(c, t) + (IF t \in ts THEN 1 ELSE 0)
<1> DEFINE kinds == [t \in Triple |-> FirstAttrRule(c, t)]
           derived == Plus(c.derived, OneFor(ts, 1))
           attr == [t \in Triple |-> IF t \in ts THEN FirstAttrRule(c, t) ELSE c.attr[t]]
           pending == Emit(c.pending, ts, 1, kinds)
           d == [c EXCEPT !.derived = derived, !.attr = attr, !.pending = pending]
<1>1. MaterializeRuleRows(c, ts) = d
  BY DEF MaterializeRuleRows, Tabulated
<1>2. c.derived \in Zset /\ c.pending \in Emission /\ c.attr \in AttrMap
  BY StateShape
<1>3. derived \in Zset /\ \A t \in Triple : derived[t] = c.derived[t] + (IF t \in ts THEN 1 ELSE 0)
  BY <1>2, RowsAdded
<1>4. \A t \in ts \cap Triple : kinds[t] \in Kind
  BY KindFinite
<1>5. /\ pending \in Emission
      /\ \A t \in Triple : SumOf(pending[t], Kind) = SumOf(c.pending[t], Kind) + (IF t \in ts THEN 1 ELSE 0)
  <2> HIDE DEF kinds
  <2> QED BY <1>2, <1>4, EmitTells
<1>6. attr \in AttrMap /\ \A t \in Triple : attr[t] = IF t \in ts THEN FirstAttrRule(c, t) ELSE c.attr[t]
  BY <1>2 DEF AttrMap
<1> HIDE DEF derived, pending, attr
<1>7. d \in CircuitState /\ Beside(c, d) /\ d.support = c.support
      /\ d.derived = derived /\ d.pending = pending /\ d.attr = attr
  BY <1>2, <1>3, <1>5, <1>6, StateShape DEF Beside
<1> HIDE DEF d
<1> QED BY <1>1, <1>3, <1>5, <1>6, <1>7 DEF Reported
-----------------------------------------------------------------------------
(* What every part of a tick does to the rows.                               *)

\* A derived row is there once, if the closure or a rule owns it.
Owners(c) == \A t \in Triple : c.derived[t] = IF Owned(c, t) \/ t \in c.support THEN 1 ELSE 0
WellFormed(c) == c \in CircuitState /\ Owners(c)

\* The records tell what happened to the rows.
Tells(c, d) == \A t \in Triple : Reported(d, t) + c.derived[t] = Reported(c, t) + d.derived[t]
Moves(c, d) == WellFormed(d) /\ Tells(c, d)

LEMMA ReportedType ==
    ASSUME NEW c \in CircuitState, NEW t \in Triple
    PROVE  Reported(c, t) \in Int /\ c.derived[t] \in Int
<1>1. c.pending \in Emission /\ c.derived \in Zset
  BY StateShape
<1> DEFINE f == c.pending[t]
<1>2. \A k \in Kind : f[k] \in Int
  BY <1>1 DEF Emission
<1> HIDE DEF f
<1>3. Raised(f, f, Kind, 0, 0)
  BY <1>2 DEF Raised
<1>4. IsFiniteSet(Kind) /\ 0 \in Int
  BY KindFinite
<1>5. SumOf(f, Kind) \in Int
  BY <1>3, <1>4, SumRaised
<1> QED BY <1>1, <1>5, ZsetAt DEF Reported, f

LEMMA MovesOn ==
    ASSUME NEW b, NEW c, NEW d, WellFormed(b), Moves(b, c), Moves(c, d)
    PROVE  Moves(b, d)
<1> SUFFICES ASSUME NEW t \in Triple PROVE Reported(d, t) + b.derived[t] = Reported(b, t) + d.derived[t]
  BY DEF Moves, Tells
<1>1. /\ Reported(b, t) \in Int /\ Reported(c, t) \in Int /\ Reported(d, t) \in Int
      /\ b.derived[t] \in Int /\ c.derived[t] \in Int /\ d.derived[t] \in Int
  BY ReportedType DEF WellFormed, Moves
<1>2. /\ Reported(c, t) + b.derived[t] = Reported(b, t) + c.derived[t]
      /\ Reported(d, t) + c.derived[t] = Reported(c, t) + d.derived[t]
  BY DEF Moves, Tells
<1> QED BY <1>1, <1>2

\* A step that touches neither the rows nor their owners.
SameRows(c, d) ==
    /\ d.derived = c.derived /\ d.attr = c.attr
    /\ d.support = c.support /\ d.pending = c.pending

LEMMA SameRowsMove ==
    ASSUME NEW c, WellFormed(c), NEW d \in CircuitState, SameRows(c, d)
    PROVE  Moves(c, d)
<1>1. Owners(d)
  BY DEF WellFormed, Owners, Owned, SameRows
<1>2. Tells(c, d)
  BY DEF Tells, Reported, SameRows
<1> QED BY <1>1, <1>2 DEF Moves, WellFormed

LEMMA CheckMoves ==
    ASSUME NEW c, WellFormed(c), NEW condition
    PROVE  /\ Moves(c, Check(c, condition))
           /\ SameRows(c, Check(c, condition))
           /\ Beside(c, Check(c, condition))
<1> DEFINE d == Check(c, condition)
<1>1. c \in CircuitState
  BY DEF WellFormed
<1>2. d \in CircuitState /\ SameRows(c, d) /\ Beside(c, d)
  BY <1>1, StateShape DEF Check, SameRows, Beside
<1> HIDE DEF d
<1>3. Moves(c, d)
  BY <1>2, SameRowsMove
<1> QED BY <1>2, <1>3 DEF d

-----------------------------------------------------------------------------
(* A round.                                                                  *)

DeltaAdded(c, acc, i) == InstanceDelta(c[1], c[2], i) + acc
InstanceSum == INSTANCE FoldFacts WITH Op <- DeltaAdded, Size <- Cardinality

LEMMA BodyTriples ==
    /\ \A p \in Prefix : p[1] \in Triple /\ p[2] \in Triple
    /\ \A i \in Instance :
          /\ i.body[1] \in Triple /\ i.body[2] \in Triple
          /\ Len(i.body) # 2 => i.body[3] \in Triple /\ <<i.body[1], i.body[2]>> \in Prefix
<1>1. ASSUME NEW i \in Instance
      PROVE  /\ i.body[1] \in Triple /\ i.body[2] \in Triple
             /\ Len(i.body) # 2 => i.body[3] \in Triple /\ Len(i.body) = 3
  <2>1. i.body \in Seq(Triple) /\ Len(i.body) \in {2, 3}
    BY InstanceAssumption
  <2> QED BY <2>1
<1> QED BY <1>1 DEF Prefix

LEMMA ProductsInt == \A a, b, da, db \in Int : JoinDelta(a, b, da, db) \in Int /\ a * b \in Int
BY DEF JoinDelta

LEMMA RoundTypes ==
    ASSUME NEW c \in CircuitState, NEW delta \in Zset
    PROVE  /\ \A p \in Prefix : Trace(c)[p] \in Int /\ FirstJoinDelta(c.extent, delta, p) \in Int
           /\ \A i \in Instance : InstanceDelta(c, delta, i) \in Int
<1>1. c.extent \in Zset /\ c.trace \in Traces
  BY StateShape
<1>2. \A t \in Triple : c.extent[t] \in Int /\ delta[t] \in Int
  BY <1>1, ZsetAt
<1>3. \A s, t \in Triple : FirstJoinDelta(c.extent, delta, <<s, t>>) \in Int
  BY <1>2, ProductsInt DEF FirstJoinDelta
<1>4. ASSUME NEW p \in Prefix PROVE Trace(c)[p] \in Int /\ FirstJoinDelta(c.extent, delta, p) \in Int
  <2>1. p[1] \in Triple /\ p[2] \in Triple
    BY BodyTriples
  <2>2. FirstJoinDelta(c.extent, delta, p) \in Int
    BY <1>2, <2>1, ProductsInt DEF FirstJoinDelta
  <2>3. c.extent[p[1]] * c.extent[p[2]] \in Int
    BY <1>2, <2>1, ProductsInt
  <2>4. Trace(c)[p] \in Int
    BY <1>1, <2>3 DEF Trace, Traces
  <2> QED BY <2>2, <2>4
<1>5. ASSUME NEW i \in Instance PROVE InstanceDelta(c, delta, i) \in Int
  <2> DEFINE p == <<i.body[1], i.body[2]>>
             first == FirstJoinDelta(c.extent, delta, p)
  <2>1. first \in Int
    BY <1>3, BodyTriples
  <2>2. CASE Len(i.body) = 2
    BY <2>1, <2>2 DEF InstanceDelta
  <2>3. CASE Len(i.body) # 2
    <3>1. Trace(c)[p] \in Int /\ i.body[3] \in Triple
      BY <1>4, <2>3, BodyTriples
    <3>2. c.extent[i.body[3]] \in Int /\ delta[i.body[3]] \in Int
      BY <1>2, <3>1
    <3>3. InstanceDelta(c, delta, i) = JoinDelta(Trace(c)[p], c.extent[i.body[3]], first, delta[i.body[3]])
      BY <2>3 DEF InstanceDelta
    <3> DEFINE a == Trace(c)[p]
               b == c.extent[i.body[3]]
               e == delta[i.body[3]]
    <3>4. a \in Int /\ b \in Int /\ first \in Int /\ e \in Int
      BY <2>1, <3>1, <3>2
    <3> HIDE DEF p, first, a, b, e
    <3>5. JoinDelta(a, b, first, e) \in Int
      BY <3>4, ProductsInt
    <3> QED BY <3>3, <3>5 DEF a, b, e
  <2> QED BY <2>2, <2>3
<1> QED BY <1>4, <1>5

LEMMA RoundMoves ==
    ASSUME NEW c, WellFormed(c), NEW delta \in Zset
    PROVE  Moves(c, FixpointRound(c, delta)) /\ SameRows(c, FixpointRound(c, delta))
<1> DEFINE sums(t, r) == MapThenSumSet(LAMBDA i : InstanceDelta(c, delta, i), InstancesOf[t][r])
           weights == [t \in Triple |-> [r \in Rule |-> c.weights[t][r] + sums(t, r)]]
           trace   == [p \in Prefix |-> Trace(c)[p] + FirstJoinDelta(c.extent, delta, p)]
           extent  == Plus(c.extent, delta)
           d == [c EXCEPT !.weights = weights, !.trace = trace, !.warm = TRUE, !.extent = extent]
<1>1. FixpointRound(c, delta) = d
  BY DEF FixpointRound, Tabulated
<1>2. c \in CircuitState /\ c.weights \in Weighing /\ c.extent \in Zset
  BY StateShape DEF WellFormed
<1>3. \A t \in Triple, r \in Rule : sums(t, r) \in Int
  <2> SUFFICES ASSUME NEW t \in Triple, NEW r \in Rule PROVE sums(t, r) \in Int
    OBVIOUS
  <2> DEFINE S == InstancesOf[t][r]
             ctx == <<c, delta>>
  <2>1. S = {i \in Instance : i.head = t /\ i.rule = r}
    BY DEF InstancesOf
  <2>2. S \subseteq Instance /\ IsFiniteSet(S)
    BY <2>1, InstanceAssumption, FS_Subset
  <2>3. sums(t, r) = InstanceSum!SetFolded(ctx, 0, S)
    BY DEF MapThenSumSet, MapThenFoldSet, InstanceSum!SetFolded, InstanceSum!Picked,
           InstanceSum!MapThenFoldSet, DeltaAdded
  <2>4. \A n \in Int, i \in S : DeltaAdded(ctx, n, i) \in Int
    <3>1. \A i \in S : InstanceDelta(c, delta, i) \in Int
      BY <1>2, <2>2, RoundTypes
    <3>2. ctx[1] = c /\ ctx[2] = delta
      OBVIOUS
    <3> HIDE DEF S, ctx
    <3> QED BY <3>1, <3>2 DEF DeltaAdded
  <2>5. InstanceSum!Inductive /\ InstanceSum!Counted(S)
    BY <2>2, Induction, FiniteCounted DEF InstanceSum!Inductive, InstanceSum!Counted
  <2>6. InstanceSum!SetFolded(ctx, 0, S) \in Int
    <3> HIDE DEF S, ctx
    <3> QED BY <2>4, <2>5, InstanceSum!SetFoldIn
  <2> QED BY <2>3, <2>6
<1> HIDE DEF sums
<1>4. weights \in Weighing
  BY <1>2, <1>3 DEF Weighing
<1>5. trace \in Traces
  BY <1>2, RoundTypes DEF Traces
<1>6. extent \in Zset
  BY <1>2, PlusAt
<1> HIDE DEF weights, trace, extent
<1>7. d \in CircuitState /\ SameRows(c, d)
  BY <1>2, <1>4, <1>5, <1>6, StateShape DEF SameRows
<1> HIDE DEF d
<1> QED BY <1>1, <1>7, SameRowsMove
-----------------------------------------------------------------------------
(* The fixpoints.                                                            *)

LEMMA NoteTyped ==
    ASSUME NEW c, NEW ts, NEW delta \in Zset
    PROVE  NotePresenceChange(c, ts, delta) \in Zset
<1> DEFINE step(t) == LET now     == BasePresence(c, t)
                          present == c.extent[t] + delta[t] > 0
                      IN  CASE t \in ts /\ now /\ ~present -> 1
                            [] t \in ts /\ ~now /\ present -> -1
                            [] OTHER -> 0
<1>1. NotePresenceChange(c, ts, delta) = [t \in Triple |-> delta[t] + step(t)]
  BY DEF NotePresenceChange, Tabulated
<1>2. \A t \in Triple : step(t) \in Int /\ delta[t] \in Int
  BY DEF Zset
<1> HIDE DEF step
<1> QED BY <1>1, <1>2 DEF Zset

LEMMA OneForType ==
    ASSUME NEW ts, NEW n \in Int
    PROVE  OneFor(ts, n) \in Zset
BY DEF OneFor, Zset

LEMMA Attributed ==
    ASSUME NEW c \in CircuitState, NEW t \in Triple
    PROVE  c.attr[t] \in Rule \cup {NoRule} /\ NoRule \notin Rule
<1>1. c.attr \in AttrMap
  BY StateShape
<1> QED BY <1>1, RuleAssumption DEF AttrMap, NoRule

LEMMA RuleRowsMove ==
    ASSUME NEW c, WellFormed(c), NEW ts,
           \A t \in ts \cap Triple : FirstAttrRule(c, t) \in Rule /\ c.derived[t] = 0
    PROVE  Moves(c, MaterializeRuleRows(c, ts))
<1> DEFINE d == MaterializeRuleRows(c, ts)
<1>1. c \in CircuitState /\ Owners(c)
  BY DEF WellFormed
<1>2. /\ d \in CircuitState /\ d.support = c.support
      /\ \A t \in Triple :
            /\ d.derived[t] = c.derived[t] + (IF t \in ts THEN 1 ELSE 0)
            /\ d.attr[t] = IF t \in ts THEN FirstAttrRule(c, t) ELSE c.attr[t]
            /\ Reported(d, t) = Reported(c, t) + (IF t \in ts THEN 1 ELSE 0)
  BY <1>1, RuleRowsFields
<1> HIDE DEF d
<1>3. ASSUME NEW t \in Triple
      PROVE  /\ d.derived[t] = IF Owned(d, t) \/ t \in d.support THEN 1 ELSE 0
             /\ Reported(d, t) + c.derived[t] = Reported(c, t) + d.derived[t]
  <2>1. Reported(c, t) \in Int /\ c.derived[t] \in Int
    BY <1>1, ReportedType
  <2>2. c.derived[t] = IF Owned(c, t) \/ t \in c.support THEN 1 ELSE 0
    BY <1>1 DEF Owners
  <2>3. CASE t \in ts
    <3>1. d.attr[t] \in Rule /\ c.derived[t] = 0
      BY <1>2, <2>3
    <3>2. Owned(d, t)
      BY <1>1, <3>1, Attributed DEF Owned
    <3> QED BY <1>2, <2>1, <2>3, <3>1, <3>2
  <2>4. CASE t \notin ts
    BY <1>2, <2>1, <2>2, <2>4 DEF Owned
  <2> QED BY <2>3, <2>4
<1>4. Owners(d)
  BY <1>3 DEF Owners
<1>5. Tells(c, d)
  BY <1>3 DEF Tells
<1> QED BY <1>2, <1>4, <1>5 DEF Moves, WellFormed, d

InsertionStates(c) == {s \in [circuit : CircuitState, delta : Zset] : Moves(c, s.circuit)}
PhaseStates(c) ==
    {s \in [circuit : CircuitState, delta : Zset, candidates : SUBSET Triple, touched : SUBSET Triple] :
        Moves(c, s.circuit)}

LEMMA InsertionSettleMoves ==
    ASSUME NEW c, WellFormed(c), NEW s \in InsertionStates(c)
    PROVE  InsertionSettle(s, FixpointRound(s.circuit, s.delta)) \in InsertionStates(c)
<1> DEFINE b    == s.circuit
           d    == FixpointRound(b, s.delta)
           cond == NoneBelowZero(b, d) /\ Grew(b, d)
           e    == Check(d, cond)
           rows == {t \in Crossed(b, d) : d.asserted[t] <= 0 /\ d.derived[t] = 0}
           done == MaterializeRuleRows(e, rows)
<1>1. Moves(c, b) /\ WellFormed(b) /\ s.delta \in Zset
  BY DEF InsertionStates, Moves
<1>2. InsertionSettle(s, d) = [circuit |-> done, delta |-> NotePresenceChange(done, rows, EmptyZset)]
  BY DEF InsertionSettle
<1> HIDE DEF b
<1>3. Moves(b, d) /\ WellFormed(d)
  BY <1>1, RoundMoves DEF Moves
<1> HIDE DEF d
<1>4. Moves(d, e) /\ WellFormed(e) /\ SameRows(d, e) /\ Beside(d, e)
  BY <1>3, CheckMoves DEF Moves
<1>5. \A t \in rows \cap Triple : FirstAttrRule(e, t) \in Rule /\ e.derived[t] = 0
  <2>1. d.weights \in Weighing
    BY <1>3, StateShape DEF WellFormed
  <2>2. \A t \in rows \cap Triple : TotalWeight(d, t) > 0 /\ d.derived[t] = 0
    BY DEF Crossed
  <2>3. \A t \in rows \cap Triple : FirstAttrRule(d, t) \in Rule
    <3> HIDE DEF rows
    <3> QED BY <2>1, <2>2, FirstRule
  <2>4. \A t : FirstAttrRule(e, t) = FirstAttrRule(d, t)
    BY <1>4 DEF FirstAttrRule, Beside
  <2> HIDE DEF rows, e
  <2> QED BY <1>4, <2>2, <2>3, <2>4 DEF SameRows
<1> HIDE DEF e, rows
<1>6. Moves(e, done)
  BY <1>4, <1>5, RuleRowsMove
<1> HIDE DEF done
<1>7. Moves(c, done)
  <2>1. Moves(b, e)
    BY <1>1, <1>3, <1>4, MovesOn
  <2>2. Moves(b, done)
    BY <1>1, <1>6, <2>1, MovesOn
  <2> QED BY <1>1, <2>2, MovesOn
<1>8. NotePresenceChange(done, rows, EmptyZset) \in Zset
  BY EmptySum, NoteTyped
<1>9. done \in CircuitState
  BY <1>7 DEF Moves, WellFormed
<1> HIDE DEF Zset
<1> QED BY <1>2, <1>7, <1>8, <1>9 DEF InsertionStates, d, b

LEMMA MovedTriples == \A c, d : Moved(c, d) \subseteq Triple
BY DEF Moved

LEMMA OverdeleteSettleMoves ==
    ASSUME NEW c, WellFormed(c), NEW s \in PhaseStates(c)
    PROVE  OverdeleteSettle(s, FixpointRound(s.circuit, s.delta)) \in PhaseStates(c)
<1> DEFINE b    == s.circuit
           d    == FixpointRound(b, s.delta)
           cond == NoneBelowZero(b, d) /\ Shrank(b, d)
           e    == Check(d, cond)
           rows == {t \in Moved(b, d) \ s.candidates :
                       /\ TotalWeight(d, t) < TotalWeight(b, t)
                       /\ d.asserted[t] <= 0
                       /\ t \notin d.support}
           fall == OneFor({t \in rows : d.extent[t] > 0}, -1)
<1>1. Moves(c, b) /\ WellFormed(b) /\ s.delta \in Zset /\ s.candidates \subseteq Triple /\ s.touched \subseteq Triple
  BY DEF PhaseStates, Moves
<1>2. OverdeleteSettle(s, d) = [circuit |-> e, delta |-> fall, candidates |-> s.candidates \cup rows,
                                touched |-> s.touched \cup Moved(b, d)]
  BY DEF OverdeleteSettle, Listed
<1> HIDE DEF b
<1>3. Moves(b, d) /\ WellFormed(d)
  BY <1>1, RoundMoves DEF Moves
<1> HIDE DEF d
<1>4. Moves(d, e)
  BY <1>3, CheckMoves
<1> HIDE DEF e
<1>5. Moves(c, e)
  <2>1. Moves(b, e)
    BY <1>1, <1>3, <1>4, MovesOn
  <2> QED BY <1>1, <2>1, MovesOn
<1>6. fall \in Zset
  <2>1. -1 \in Int
    OBVIOUS
  <2> QED BY <2>1, OneForType
<1>7. rows \subseteq Triple /\ Moved(b, d) \subseteq Triple
  BY MovedTriples
<1>8. e \in CircuitState
  BY <1>5 DEF Moves, WellFormed
<1> HIDE DEF Zset, fall, rows
<1> QED BY <1>1, <1>2, <1>5, <1>6, <1>7, <1>8 DEF PhaseStates, d, b

LEMMA RederiveSettleMoves ==
    ASSUME NEW c, WellFormed(c), NEW s \in PhaseStates(c)
    PROVE  RederiveSettle(s, FixpointRound(s.circuit, s.delta)) \in PhaseStates(c)
<1> DEFINE b    == s.circuit
           d    == FixpointRound(b, s.delta)
           cond == NoneBelowZero(b, d) /\ Grew(b, d)
           e    == Check(d, cond)
           rise == OneFor({t \in Crossed(b, d) : d.extent[t] <= 0}, 1)
<1>1. Moves(c, b) /\ WellFormed(b) /\ s.delta \in Zset /\ s.candidates \subseteq Triple /\ s.touched \subseteq Triple
      /\ s \in [circuit : CircuitState, delta : Zset, candidates : SUBSET Triple, touched : SUBSET Triple]
  BY DEF PhaseStates, Moves
<1>2. RederiveSettle(s, d) = [s EXCEPT !.circuit = e, !.delta = rise, !.touched = s.touched \cup Moved(b, d)]
  BY DEF RederiveSettle, Listed
<1> HIDE DEF b
<1>3. Moves(b, d) /\ WellFormed(d)
  BY <1>1, RoundMoves DEF Moves
<1> HIDE DEF d
<1>4. Moves(d, e)
  BY <1>3, CheckMoves
<1> HIDE DEF e
<1>5. Moves(c, e)
  <2>1. Moves(b, e)
    BY <1>1, <1>3, <1>4, MovesOn
  <2> QED BY <1>1, <2>1, MovesOn
<1>6. rise \in Zset
  BY OneForType
<1>7. Moved(b, d) \subseteq Triple
  BY MovedTriples
<1>8. e \in CircuitState
  BY <1>5 DEF Moves, WellFormed
<1> HIDE DEF Zset, rise
<1> QED BY <1>1, <1>2, <1>5, <1>6, <1>7, <1>8 DEF PhaseStates, d, b

InsertionEnd(start) == Fixpoint(InsertionSettle, start)
OverdeleteEnd(start) == Fixpoint(OverdeleteSettle, start)
RederiveEnd(start) == Fixpoint(RederiveSettle, start)

\* A set that the rounds do not leave has what the fixpoint ends with.
LEMMA InsertionRun ==
    ASSUME NEW V, NEW start \in V,
           \A s \in V : s.delta = EmptyZset
                         \/ InsertionSettle(s, FixpointRound(s.circuit, s.delta)) \in V
    PROVE  \E last \in V : InsertionEnd(start) =
                            [last EXCEPT !.circuit = Check(@, last.delta = EmptyZset)]
<1> DEFINE D == 0 .. MaxRounds
           last == Ins!Solution(start, D)[MaxRounds]
<1>1. Ins!Grounded(D) /\ MaxRounds \in D
  BY RoundsAssumption, Induction DEF Ins!Grounded, Ins!Ranked, Ins!Inductive
<1>2. InsertionEnd(start) = [last EXCEPT !.circuit = Check(@, last.delta = EmptyZset)]
  BY DEF InsertionEnd, Fixpoint, Ins!Solution
<1>3. \A n \in D : Ins!Solution(start, D)[n] \in V
  <2> HIDE DEF D
  <2> QED BY <1>1, Ins!SolutionIn
<1> QED BY <1>1, <1>2, <1>3

LEMMA OverdeleteRun ==
    ASSUME NEW V, NEW start \in V,
           \A s \in V : s.delta = EmptyZset
                         \/ OverdeleteSettle(s, FixpointRound(s.circuit, s.delta)) \in V
    PROVE  \E last \in V : OverdeleteEnd(start) =
                            [last EXCEPT !.circuit = Check(@, last.delta = EmptyZset)]
<1> DEFINE D == 0 .. MaxRounds
           last == Over!Solution(start, D)[MaxRounds]
<1>1. Over!Grounded(D) /\ MaxRounds \in D
  BY RoundsAssumption, Induction DEF Over!Grounded, Over!Ranked, Over!Inductive
<1>2. OverdeleteEnd(start) = [last EXCEPT !.circuit = Check(@, last.delta = EmptyZset)]
  BY DEF OverdeleteEnd, Fixpoint, Over!Solution
<1>3. \A n \in D : Over!Solution(start, D)[n] \in V
  <2> HIDE DEF D
  <2> QED BY <1>1, Over!SolutionIn
<1> QED BY <1>1, <1>2, <1>3

LEMMA RederiveRun ==
    ASSUME NEW V, NEW start \in V,
           \A s \in V : s.delta = EmptyZset
                         \/ RederiveSettle(s, FixpointRound(s.circuit, s.delta)) \in V
    PROVE  \E last \in V : RederiveEnd(start) =
                            [last EXCEPT !.circuit = Check(@, last.delta = EmptyZset)]
<1> DEFINE D == 0 .. MaxRounds
           last == Red!Solution(start, D)[MaxRounds]
<1>1. Red!Grounded(D) /\ MaxRounds \in D
  BY RoundsAssumption, Induction DEF Red!Grounded, Red!Ranked, Red!Inductive
<1>2. RederiveEnd(start) = [last EXCEPT !.circuit = Check(@, last.delta = EmptyZset)]
  BY DEF RederiveEnd, Fixpoint, Red!Solution
<1>3. \A n \in D : Red!Solution(start, D)[n] \in V
  <2> HIDE DEF D
  <2> QED BY <1>1, Red!SolutionIn
<1> QED BY <1>1, <1>2, <1>3

LEMMA InsertionFixpointMoves ==
    ASSUME NEW c, WellFormed(c), NEW delta \in Zset
    PROVE  Moves(c, InsertionFixpoint(c, delta))
<1> DEFINE start == [circuit |-> c, delta |-> delta]
           V == InsertionStates(c)
<1>1. start \in V
  <2>1. c \in CircuitState
    BY DEF WellFormed
  <2>2. Moves(c, c)
    BY <2>1, SameRowsMove DEF SameRows
  <2> HIDE DEF Zset
  <2> QED BY <2>1, <2>2 DEF InsertionStates
<1>2. \A s \in V : InsertionSettle(s, FixpointRound(s.circuit, s.delta)) \in V
  BY InsertionSettleMoves
<1> HIDE DEF start, V
<1>3. \E last \in V : InsertionEnd(start) =
                        [last EXCEPT !.circuit = Check(@, last.delta = EmptyZset)]
  BY <1>1, <1>2, InsertionRun
<1>4. PICK last \in V : InsertionEnd(start) =
                          [last EXCEPT !.circuit = Check(@, last.delta = EmptyZset)]
  BY <1>3
<1>5. last.circuit \in CircuitState /\ Moves(c, last.circuit)
      /\ last \in [circuit : CircuitState, delta : Zset]
  BY <1>4 DEF V, InsertionStates
<1> DEFINE e == Check(last.circuit, last.delta = EmptyZset)
<1>6. InsertionFixpoint(c, delta) = e
  BY <1>4, <1>5 DEF InsertionFixpoint, InsertionEnd, start
<1>7. Moves(last.circuit, e)
  BY <1>5, CheckMoves DEF Moves
<1> HIDE DEF e
<1> QED BY <1>5, <1>6, <1>7, MovesOn DEF Moves

-----------------------------------------------------------------------------
(* The net transitions of the two-phase fixpoint.                            *)

\* Rows go from bases and owners alike; a is who owns the rules' rows then.
LEMMA WithdrawMoves ==
    ASSUME NEW c, WellFormed(c), NEW ts, NEW kindOf, NEW a \in AttrMap,
           \A t \in ts \cap Triple : kindOf[t] \in Kind,
           \A t \in Triple :
              /\ t \in ts => c.derived[t] = 1 /\ a[t] = NoRule /\ t \notin c.support
              /\ t \notin ts => (a[t] # NoRule \/ t \in c.support <=> Owned(c, t) \/ t \in c.support)
    PROVE  Moves(c, [WithdrawDerivedRows(c, ts, kindOf) EXCEPT !.attr = a])
<1> DEFINE gone == WithdrawDerivedRows(c, ts, kindOf)
           d == [gone EXCEPT !.attr = a]
<1>1. c \in CircuitState /\ Owners(c)
  BY DEF WellFormed
<1>2. /\ gone \in CircuitState /\ gone.support = c.support
      /\ \A t \in Triple :
            /\ gone.derived[t] = IF t \in ts THEN 0 ELSE c.derived[t]
            /\ Reported(gone, t) = Reported(c, t) + (IF t \in ts THEN -1 ELSE 0)
  BY <1>1, WithdrawFields
<1> HIDE DEF gone
<1>3. d \in CircuitState /\ d.attr = a /\ d.support = gone.support /\ d.derived = gone.derived
      /\ d.pending = gone.pending
  BY <1>2, StateShape
<1> HIDE DEF d
<1>4. \A t \in Triple : Reported(d, t) = Reported(gone, t)
  BY <1>3 DEF Reported
<1>5. ASSUME NEW t \in Triple
      PROVE  /\ d.derived[t] = IF Owned(d, t) \/ t \in d.support THEN 1 ELSE 0
             /\ Reported(d, t) + c.derived[t] = Reported(c, t) + d.derived[t]
  <2>1. Reported(c, t) \in Int /\ c.derived[t] \in Int
    BY <1>1, ReportedType
  <2>2. c.derived[t] = IF Owned(c, t) \/ t \in c.support THEN 1 ELSE 0
    BY <1>1 DEF Owners
  <2>3. CASE t \in ts
    <3>1. d.derived[t] = 0 /\ c.derived[t] = 1 /\ Reported(d, t) = Reported(c, t) + -1
      BY <1>2, <1>3, <1>4, <2>3
    <3>2. ~Owned(d, t) /\ t \notin d.support
      BY <1>2, <1>3, <2>3 DEF Owned
    <3> QED BY <2>1, <3>1, <3>2
  <2>4. CASE t \notin ts
    <3>1. d.derived[t] = c.derived[t] /\ Reported(d, t) = Reported(c, t) + 0
      BY <1>2, <1>3, <1>4, <2>4
    <3>2. Owned(d, t) \/ t \in d.support <=> Owned(c, t) \/ t \in c.support
      BY <1>2, <1>3, <2>4 DEF Owned
    <3> QED BY <2>1, <2>2, <3>1, <3>2
  <2> QED BY <2>3, <2>4
<1>6. Owners(d)
  BY <1>5 DEF Owners
<1>7. Tells(c, d)
  BY <1>5 DEF Tells
<1> QED BY <1>3, <1>6, <1>7 DEF Moves, WellFormed, d, gone

LEMMA NetTransitionsMove ==
    ASSUME NEW c, WellFormed(c), NEW touched \in SUBSET Triple
    PROVE  Moves(c, NetTransitions(c, touched))
<1> DEFINE covered == {t \in touched : c.asserted[t] > 0 \/ t \in c.support}
           should   == {t \in touched : /\ TotalWeight(c, t) > 0
                                        /\ c.extent[t] > 0
                                        /\ Owned(c, t) \/ t \notin covered}
           kept     == {t \in should : Owned(c, t)}
           fresh    == should \ kept
           lapsed   == {t \in touched \ should : Owned(c, t)}
           checked  == Check(c, /\ \A t \in touched : TotalWeight(c, t) <= 0 \/ c.extent[t] > 0
                                /\ \A t \in fresh : c.derived[t] = 0)
           names    == [t \in Triple |-> IF t \in kept THEN FirstAttrRule(c, t) ELSE checked.attr[t]]
           renamed  == [checked EXCEPT !.attr = names]
           added    == MaterializeRuleRows(renamed, fresh)
           ts       == lapsed \ c.support
           gone     == WithdrawDerivedRows(added, ts, c.attr)
           left     == [t \in Triple |-> IF t \in lapsed THEN NoRule ELSE gone.attr[t]]
           done     == [gone EXCEPT !.attr = left]
<1>0. NetTransitions(c, touched) = done
  BY DEF NetTransitions
<1>1. c \in CircuitState /\ Owners(c) /\ c.weights \in Weighing /\ c.attr \in AttrMap
  BY StateShape DEF WellFormed
<1>2. /\ \A t \in kept : t \in Triple /\ Owned(c, t) /\ TotalWeight(c, t) > 0
      /\ \A t \in fresh : t \in Triple /\ ~Owned(c, t) /\ TotalWeight(c, t) > 0 /\ t \notin c.support
      /\ \A t \in lapsed : t \in Triple /\ Owned(c, t) /\ t \notin kept /\ t \notin fresh
      /\ lapsed \subseteq touched
  OBVIOUS
<1> HIDE DEF kept, fresh, lapsed, should, covered
<1>3. \A t \in kept \cup fresh : FirstAttrRule(c, t) \in Rule
  BY <1>1, <1>2, FirstRule
<1>4. Moves(c, checked) /\ SameRows(c, checked) /\ Beside(c, checked)
  BY CheckMoves
<1>5. checked \in CircuitState /\ WellFormed(checked)
  BY <1>4 DEF Moves, WellFormed
<1> HIDE DEF checked
<1>6. names \in AttrMap /\ \A t \in Triple : (names[t] # NoRule <=> Owned(c, t))
                                             /\ (t \notin kept => names[t] = c.attr[t])
  <2>1. checked.attr = c.attr
    BY <1>4 DEF SameRows
  <2>2. \A t \in Triple : c.attr[t] \in Rule \cup {NoRule} /\ NoRule \notin Rule
    BY <1>1, Attributed
  <2>3. \A t \in Triple : /\ names[t] \in Rule \cup {NoRule}
                          /\ names[t] # NoRule <=> Owned(c, t)
                          /\ t \notin kept => names[t] = c.attr[t]
    BY <1>2, <1>3, <2>1, <2>2 DEF Owned
  <2> QED BY <2>3 DEF AttrMap
<1> HIDE DEF names
<1>7. /\ renamed \in CircuitState /\ Beside(checked, renamed) /\ renamed.attr = names
      /\ renamed.derived = checked.derived /\ renamed.support = checked.support
      /\ renamed.pending = checked.pending
  BY <1>5, <1>6, StateShape DEF Beside
<1> HIDE DEF renamed
<1>8. /\ renamed.derived = c.derived /\ renamed.support = c.support /\ renamed.pending = c.pending
      /\ renamed.weights = c.weights
  BY <1>4, <1>7 DEF SameRows, Beside
<1>9. Moves(c, renamed) /\ WellFormed(renamed)
  <2>1. Owners(renamed)
    BY <1>1, <1>6, <1>7, <1>8 DEF Owners, Owned
  <2>2. Tells(c, renamed)
    BY <1>8 DEF Tells, Reported
  <2> QED BY <1>7, <2>1, <2>2 DEF Moves, WellFormed
<1>10. \A t \in fresh \cap Triple : FirstAttrRule(renamed, t) \in Rule /\ renamed.derived[t] = 0
  <2>1. \A t : FirstAttrRule(renamed, t) = FirstAttrRule(c, t)
    BY <1>8 DEF FirstAttrRule
  <2>2. \A t \in fresh : c.derived[t] = 0
    BY <1>1, <1>2 DEF Owners
  <2> QED BY <1>3, <1>8, <2>1, <2>2
<1>11. Moves(renamed, added) /\ WellFormed(added)
  BY <1>9, <1>10, RuleRowsMove DEF Moves
<1>12. /\ added \in CircuitState /\ added.support = c.support
       /\ \A t \in Triple : t \notin fresh =>
             added.derived[t] = c.derived[t] + 0 /\ added.attr[t] = names[t]
  <2>1. /\ added.support = renamed.support
        /\ \A t \in Triple :
              /\ added.derived[t] = renamed.derived[t] + (IF t \in fresh THEN 1 ELSE 0)
              /\ added.attr[t] = IF t \in fresh THEN FirstAttrRule(renamed, t) ELSE renamed.attr[t]
    BY <1>7, <1>10, RuleRowsFields
  <2> HIDE DEF added
  <2> QED BY <1>7, <1>8, <1>11, <2>1 DEF WellFormed
<1> HIDE DEF added
<1>13. gone.attr = added.attr
  BY <1>12, StateShape DEF WithdrawDerivedRows
<1>14. left \in AttrMap /\ \A t \in Triple : left[t] = IF t \in lapsed THEN NoRule ELSE added.attr[t]
  <2>1. added.attr \in AttrMap
    BY <1>12, StateShape
  <2> QED BY <1>13, <2>1 DEF AttrMap
<1>15. \A t \in ts \cap Triple : c.attr[t] \in Kind
  BY <1>1, <1>2, Attributed, KindFinite DEF Owned
<1>16. ASSUME NEW t \in Triple
       PROVE  /\ t \in ts => added.derived[t] = 1 /\ left[t] = NoRule /\ t \notin added.support
              /\ t \notin ts => (left[t] # NoRule \/ t \in added.support <=>
                                 Owned(added, t) \/ t \in added.support)
  <2>1. CASE t \in ts
    <3>1. t \in lapsed /\ t \notin c.support /\ Owned(c, t) /\ t \notin fresh
      BY <1>2, <2>1
    <3>2. c.derived[t] = 1
      BY <1>1, <3>1 DEF Owners
    <3>3. added.derived[t] = 1
      BY <1>12, <3>1, <3>2
    <3> QED BY <1>12, <1>14, <2>1, <3>1, <3>3
  <2>2. CASE t \notin ts
    <3>1. CASE t \in lapsed
      BY <1>12, <2>2, <3>1
    <3>2. CASE t \notin lapsed
      BY <1>14, <2>2, <3>2 DEF Owned
    <3> QED BY <3>1, <3>2
  <2> QED BY <2>1, <2>2
<1> HIDE DEF ts, left
<1>17. Moves(added, done)
  BY <1>11, <1>14, <1>15, <1>16, WithdrawMoves
<1> HIDE DEF done
<1>18. Moves(c, added)
  BY <1>9, <1>11, MovesOn
<1> QED BY <1>0, <1>17, <1>18, MovesOn
LEMMA PhaseEnds ==
    ASSUME NEW c, WellFormed(c), NEW start \in PhaseStates(c)
    PROVE  OverdeleteEnd(start) \in PhaseStates(c) /\ RederiveEnd(start) \in PhaseStates(c)
<1> DEFINE V == PhaseStates(c)
<1>0. \A s \in V : OverdeleteSettle(s, FixpointRound(s.circuit, s.delta)) \in V
  BY OverdeleteSettleMoves
<1>1. \A s \in V : RederiveSettle(s, FixpointRound(s.circuit, s.delta)) \in V
  BY RederiveSettleMoves
<1>2. ASSUME NEW last \in V
      PROVE  [last EXCEPT !.circuit = Check(@, last.delta = EmptyZset)] \in V
  <2> DEFINE e == Check(last.circuit, last.delta = EmptyZset)
  <2>1. Moves(c, last.circuit)
        /\ last \in [circuit : CircuitState, delta : Zset, candidates : SUBSET Triple, touched : SUBSET Triple]
    BY DEF PhaseStates
  <2>2. Moves(last.circuit, e)
    BY <2>1, CheckMoves DEF Moves
  <2> HIDE DEF e
  <2>3. Moves(c, e) /\ e \in CircuitState
    BY <2>1, <2>2, MovesOn DEF Moves, WellFormed
  <2> HIDE DEF Zset
  <2> QED BY <2>1, <2>3 DEF PhaseStates, e
<1> HIDE DEF V
<1>3. start \in V
  BY DEF V
<1>4. \E last \in V : OverdeleteEnd(start) = [last EXCEPT !.circuit = Check(@, last.delta = EmptyZset)]
  BY <1>0, <1>3, OverdeleteRun
<1>5. \E last \in V : RederiveEnd(start) = [last EXCEPT !.circuit = Check(@, last.delta = EmptyZset)]
  BY <1>1, <1>3, RederiveRun
<1> QED BY <1>2, <1>4, <1>5 DEF V

LEMMA TwoPhaseFixpointMoves ==
    ASSUME NEW c, WellFormed(c), NEW delta \in Zset
    PROVE  Moves(c, TwoPhaseFixpoint(c, delta))
<1> DEFINE lost  == {t \in Triple : delta[t] < 0}
           seed  == {t \in lost : TotalWeight(c, t) > 0}
           down  == [t \in Triple |-> IF t \in lost THEN delta[t] ELSE 0]
           gain  == [t \in Triple |-> IF t \in lost THEN 0 ELSE delta[t]]
           start == [circuit |-> c, delta |-> down, candidates |-> seed, touched |-> seed]
           cut   == OverdeleteEnd(start)
           from  == [cut EXCEPT !.delta = RederiveSeed(cut.circuit, cut.candidates, gain)]
           grow  == RederiveEnd(from)
<1>1. TwoPhaseFixpoint(c, delta) = NetTransitions(grow.circuit, grow.touched)
  BY DEF TwoPhaseFixpoint, Rederive, OverdeleteEnd, RederiveEnd
<1>2. down \in Zset /\ gain \in Zset /\ seed \subseteq Triple
  BY DEF Zset
<1> HIDE DEF down, gain, seed
<1>3. start \in PhaseStates(c)
  <2>1. c \in CircuitState
    BY DEF WellFormed
  <2>2. Moves(c, c)
    BY <2>1, SameRowsMove DEF SameRows
  <2> HIDE DEF Zset
  <2> QED BY <1>2, <2>1, <2>2 DEF PhaseStates
<1> HIDE DEF start
<1>4. cut \in PhaseStates(c)
  BY <1>3, PhaseEnds
<1> HIDE DEF cut
<1>5. from \in PhaseStates(c)
  <2>1. \A ts : OneFor(ts, 1) \in Zset
    BY OneForType
  <2>2. RederiveSeed(cut.circuit, cut.candidates, gain) \in Zset
    BY <1>2, <2>1, PlusAt DEF RederiveSeed
  <2> HIDE DEF Zset
  <2> QED BY <1>4, <2>2 DEF PhaseStates
<1> HIDE DEF from
<1>6. grow \in PhaseStates(c)
  BY <1>5, PhaseEnds
<1> HIDE DEF grow
<1>7. Moves(c, grow.circuit) /\ grow.touched \in SUBSET Triple
  BY <1>6 DEF PhaseStates
<1>8. Moves(grow.circuit, NetTransitions(grow.circuit, grow.touched))
  BY <1>7, NetTransitionsMove DEF Moves
<1> QED BY <1>1, <1>7, <1>8, MovesOn

-----------------------------------------------------------------------------
(* The recompute fallback.                                                   *)

RecomputeSeed(c) == {t \in Triple : c.asserted[t] > 0} \cup c.support
RecomputeRound(s) ==
    LET rules == [t \in Triple |-> {i.rule : i \in {j \in Instance : j.head = t /\ Derives(j, s.rows)}}]
        new   == {t \in Triple \ s.rows : rules[t] # {}}
    IN  [rows |-> s.rows \cup new,
         attr |-> [t \in Triple |-> IF t \in new THEN Min(rules[t]) ELSE s.attr[t]]]

Rec == INSTANCE RecursionFacts WITH
        Bottom <- LAMBDA n : n = 0,
        Prev   <- LAMBDA n : n - 1,
        Rank   <- LAMBDA n : n,
        Base   <- LAMBDA c, n : [rows |-> RecomputeSeed(c), attr |-> [t \in Triple |-> NoRule]],
        Step   <- LAMBDA c, n, s : RecomputeRound(s)

LEMMA LeastRule ==
    ASSUME NEW S \in SUBSET Rule, S # {}
    PROVE  Min(S) \in S
<1>1. S \subseteq Nat
  BY RuleAssumption
<1>2. \E x \in S : \A y \in S : x <= y
  BY <1>1, LeastElement
<1> QED BY <1>2 DEF Min

\* The recomputed rule rows are not rows of the closure.
LEMMA RecomputedAttr ==
    ASSUME NEW c \in CircuitState
    PROVE  /\ RecomputeRuleClosure(c).attr \in AttrMap
           /\ \A t \in c.support : RecomputeRuleClosure(c).attr[t] = NoRule
<1> DEFINE D == 0 .. MaxRounds
           V == {s \in [rows : SUBSET Triple, attr : AttrMap] :
                    c.support \subseteq s.rows /\ \A t \in c.support : s.attr[t] = NoRule}
<1>0. c.support \subseteq Triple
  BY StateShape DEF Triple
<1>1. Rec!Grounded(D) /\ MaxRounds \in D
  BY RoundsAssumption, Induction DEF Rec!Grounded, Rec!Ranked, Rec!Inductive
<1>2. RecomputeRuleClosure(c).attr = Rec!Solution(c, D)[MaxRounds].attr
  BY DEF RecomputeRuleClosure, Rec!Solution, RecomputeSeed, RecomputeRound
<1>3. [rows |-> RecomputeSeed(c), attr |-> [t \in Triple |-> NoRule]] \in V
  <2>1. [t \in Triple |-> NoRule] \in AttrMap
    BY DEF AttrMap
  <2>2. RecomputeSeed(c) \subseteq Triple /\ c.support \subseteq RecomputeSeed(c)
    BY <1>0 DEF RecomputeSeed
  <2> HIDE DEF AttrMap
  <2> QED BY <1>0, <2>1, <2>2
<1>4. ASSUME NEW s \in V PROVE RecomputeRound(s) \in V
  <2> DEFINE rules == [t \in Triple |-> {i.rule : i \in {j \in Instance : j.head = t /\ Derives(j, s.rows)}}]
             new   == {t \in Triple \ s.rows : rules[t] # {}}
             attr  == [t \in Triple |-> IF t \in new THEN Min(rules[t]) ELSE s.attr[t]]
  <2>1. RecomputeRound(s) = [rows |-> s.rows \cup new, attr |-> attr]
    BY DEF RecomputeRound
  <2>2. \A t \in Triple : rules[t] \in SUBSET Rule
    BY InstanceAssumption
  <2> HIDE DEF rules
  <2>3. \A t \in new : Min(rules[t]) \in Rule
    BY <2>2, LeastRule
  <2>4. new \subseteq Triple /\ new \cap c.support = {}
    OBVIOUS
  <2> HIDE DEF new
  <2>5. s.attr \in AttrMap /\ s.rows \subseteq Triple /\ c.support \subseteq s.rows
        /\ \A t \in c.support : s.attr[t] = NoRule
    OBVIOUS
  <2>6. attr \in AttrMap /\ \A t \in c.support : attr[t] = NoRule
    BY <1>0, <2>3, <2>4, <2>5 DEF AttrMap
  <2> HIDE DEF attr
  <2> QED BY <2>1, <2>4, <2>5, <2>6
<1>5. Rec!Solution(c, D)[MaxRounds] \in V
  <2>1. \A n \in D : Rec!Solution(c, D)[n] \in V
    <3> HIDE DEF D, V
    <3> QED BY <1>1, <1>3, <1>4, Rec!SolutionIn
  <2> QED BY <1>1, <2>1
<1> QED BY <1>2, <1>5

LEMMA ResyncMoves ==
    ASSUME NEW c, WellFormed(c)
    PROVE  Moves(c, ResyncIncrementalState(c))
<1> DEFINE present == {t \in Triple : BasePresence(c, t)}
           counts(t, r) == Cardinality({i \in InstancesOf[t][r] : Derives(i, present)})
           weights == [t \in Triple |-> [r \in Rule |-> counts(t, r)]]
           extent == OneFor(present, 1)
           trace == [p \in Prefix |-> 0]
           d == [c EXCEPT !.extent = extent, !.weights = weights, !.warm = FALSE, !.trace = trace]
<1>1. ResyncIncrementalState(c) = d
  BY DEF ResyncIncrementalState, Tabulated
<1>2. ASSUME NEW t \in Triple, NEW r \in Rule PROVE counts(t, r) \in Int
  <2> DEFINE S == {i \in InstancesOf[t][r] : Derives(i, present)}
  <2>1. S \subseteq Instance
    BY DEF InstancesOf
  <2>2. IsFiniteSet(S)
    BY <2>1, InstanceAssumption, FS_Subset
  <2> HIDE DEF S
  <2>3. Cardinality(S) \in Nat
    BY <2>2, FS_CardinalityType
  <2> QED BY <2>3 DEF S
<1> HIDE DEF counts
<1>3. weights \in Weighing
  BY <1>2 DEF Weighing
<1>4. extent \in Zset /\ trace \in Traces
  BY OneForType DEF Traces
<1>5. c \in CircuitState
  BY DEF WellFormed
<1> HIDE DEF weights, extent, trace
<1>6. d \in CircuitState /\ SameRows(c, d)
  BY <1>3, <1>4, <1>5, StateShape DEF SameRows
<1> HIDE DEF d
<1> QED BY <1>1, <1>6, SameRowsMove

LEMMA ReplaceRuleRowsMoves ==
    ASSUME NEW c, WellFormed(c), NEW attr \in AttrMap, \A t \in c.support : attr[t] = NoRule
    PROVE  Moves(c, ReplaceRuleRows(c, attr))
<1> DEFINE fresh   == {t \in Triple : attr[t] # NoRule /\ ~Owned(c, t)}
           lapsed  == {t \in Triple : attr[t] = NoRule /\ Owned(c, t)} \ c.support
           derived == Plus(c.derived, OneFor(fresh, 1))
           pending == Emit(c.pending, fresh, 1, attr)
           added   == [c EXCEPT !.derived = derived, !.pending = pending]
           gone    == WithdrawDerivedRows(added, lapsed, c.attr)
           named   == [gone EXCEPT !.attr = attr]
<1>0. ReplaceRuleRows(c, attr) = ResyncIncrementalState(named)
  BY DEF ReplaceRuleRows
<1>1. c \in CircuitState /\ Owners(c) /\ c.derived \in Zset /\ c.pending \in Emission /\ c.attr \in AttrMap
  BY StateShape DEF WellFormed
<1>2. attr \in AttrMap /\ \A t \in c.support : attr[t] = NoRule
  OBVIOUS
<1>3. /\ \A t \in Triple : t \in fresh <=> attr[t] # NoRule /\ ~Owned(c, t)
      /\ \A t \in Triple : t \in lapsed <=> attr[t] = NoRule /\ Owned(c, t) /\ t \notin c.support
      /\ fresh \subseteq Triple /\ lapsed \subseteq Triple
  OBVIOUS
<1> HIDE DEF fresh, lapsed
<1>4. derived \in Zset /\ \A t \in Triple : derived[t] = c.derived[t] + (IF t \in fresh THEN 1 ELSE 0)
  BY <1>1, RowsAdded
<1>5. \A t \in fresh \cap Triple : attr[t] \in Kind
  BY <1>2, <1>3, KindFinite DEF AttrMap
<1>6. /\ pending \in Emission
      /\ \A t \in Triple : SumOf(pending[t], Kind) = SumOf(c.pending[t], Kind) + (IF t \in fresh THEN 1 ELSE 0)
  BY <1>1, <1>5, EmitTells
<1> HIDE DEF derived, pending
<1>7. /\ added \in CircuitState /\ added.derived = derived /\ added.pending = pending
      /\ added.support = c.support
  BY <1>1, <1>4, <1>6, StateShape
<1> HIDE DEF added
<1>8. \A t \in lapsed \cap Triple : c.attr[t] \in Kind
  BY <1>1, <1>3, Attributed, KindFinite DEF Owned
<1>9. /\ gone \in CircuitState /\ gone.support = added.support
      /\ \A t \in Triple :
            /\ gone.derived[t] = IF t \in lapsed THEN 0 ELSE added.derived[t]
            /\ Reported(gone, t) = Reported(added, t) + (IF t \in lapsed THEN -1 ELSE 0)
  BY <1>7, <1>8, WithdrawFields
<1> HIDE DEF gone
<1>10. /\ named \in CircuitState /\ named.attr = attr /\ named.support = c.support
       /\ named.derived = gone.derived /\ named.pending = gone.pending
  BY <1>2, <1>7, <1>9, StateShape
<1> HIDE DEF named
<1>11. ASSUME NEW t \in Triple
       PROVE  /\ named.derived[t] = IF Owned(named, t) \/ t \in named.support THEN 1 ELSE 0
              /\ Reported(named, t) + c.derived[t] = Reported(c, t) + named.derived[t]
  <2>1. Reported(c, t) \in Int /\ c.derived[t] \in Int
    BY <1>1, ReportedType
  <2>2. c.derived[t] = IF Owned(c, t) \/ t \in c.support THEN 1 ELSE 0
    BY <1>1 DEF Owners
  <2>3. Reported(added, t) = Reported(c, t) + (IF t \in fresh THEN 1 ELSE 0)
    BY <1>6, <1>7 DEF Reported
  <2>4. Reported(named, t) = Reported(gone, t)
    BY <1>10 DEF Reported
  <2>5. Owned(named, t) <=> attr[t] # NoRule
    BY <1>10 DEF Owned
  <2>6. CASE t \in fresh
    <3>1. c.derived[t] = 0 /\ attr[t] # NoRule /\ t \notin lapsed
      BY <1>2, <1>3, <2>2, <2>6
    <3>2. Reported(named, t) = Reported(c, t) + 1 + 0 /\ named.derived[t] = 0 + 1
      BY <1>4, <1>7, <1>9, <1>10, <2>3, <2>4, <2>6, <3>1
    <3> QED BY <2>1, <2>5, <3>1, <3>2
  <2>7. CASE t \in lapsed
    <3>1. c.derived[t] = 1 /\ attr[t] = NoRule /\ t \notin fresh /\ t \notin c.support
      BY <1>3, <2>2, <2>7
    <3>2. Reported(named, t) = Reported(c, t) + 0 + -1 /\ named.derived[t] = 0
      BY <1>4, <1>7, <1>9, <1>10, <2>3, <2>4, <2>7, <3>1
    <3> QED BY <1>10, <2>1, <2>5, <3>1, <3>2
  <2>8. CASE t \notin fresh /\ t \notin lapsed
    <3>1. Reported(named, t) = Reported(c, t) + 0 + 0 /\ named.derived[t] = c.derived[t] + 0
      BY <1>4, <1>7, <1>9, <1>10, <2>3, <2>4, <2>8
    <3>2. attr[t] # NoRule \/ t \in c.support <=> Owned(c, t) \/ t \in c.support
      BY <1>3, <2>8
    <3> QED BY <1>10, <2>1, <2>2, <2>5, <3>1, <3>2
  <2> QED BY <2>6, <2>7, <2>8
<1>12. Owners(named)
  BY <1>11 DEF Owners
<1>13. Tells(c, named)
  BY <1>11 DEF Tells
<1>14. Moves(c, named)
  BY <1>10, <1>12, <1>13 DEF Moves, WellFormed
<1>15. Moves(named, ResyncIncrementalState(named))
  BY <1>14, ResyncMoves DEF Moves
<1> QED BY <1>0, <1>14, <1>15, MovesOn

LEMMA RecomputeRulesMove ==
    ASSUME NEW c, WellFormed(c)
    PROVE  Moves(c, RecomputeRules(c))
<1> DEFINE found   == RecomputeRuleClosure(c)
           checked == Check(c, found.converged)
<1>1. c \in CircuitState
  BY DEF WellFormed
<1>2. found.attr \in AttrMap /\ \A t \in c.support : found.attr[t] = NoRule
  BY <1>1, RecomputedAttr
<1>3. Moves(c, checked) /\ checked.support = c.support
  BY CheckMoves DEF SameRows
<1>4. RecomputeRules(c) = ReplaceRuleRows(checked, found.attr)
  BY DEF RecomputeRules
<1> HIDE DEF found, checked
<1>5. Moves(checked, ReplaceRuleRows(checked, found.attr))
  BY <1>2, <1>3, ReplaceRuleRowsMoves DEF Moves
<1> QED BY <1>3, <1>4, <1>5, MovesOn

-----------------------------------------------------------------------------
(* The types of the closure.                                                 *)

Outcomes == [closure : Closure, withdrawn : SUBSET Pair, survived : SUBSET Pair]

LEMMA DeleteTyped ==
    ASSUME NEW c \in Closure, NEW e \in Pair
    PROVE  DeleteBySupport(c, e) \in Outcomes
<1> DEFINE base == c.base \ {e}
           over == OverDeleted(c, e, base)
           closed == ReDerived(over, base, c.closed \ over)
<1>1. c.base \subseteq Pair /\ c.closed \subseteq Pair
  BY DEF Closure
<1>2. over \subseteq Pair
  BY <1>1, OverDeletedWithin
<1> HIDE DEF over
<1>3. closed \subseteq Pair
  BY <1>1, <1>2, ReDerivedWithin
<1> HIDE DEF closed
<1>4. CASE e \in c.base
  <2>1. DeleteBySupport(c, e) = [closure |-> [base |-> base, closed |-> closed],
                                 withdrawn |-> c.closed \ closed, survived |-> {e} \cap closed]
    BY <1>4 DEF DeleteBySupport, Outcome, Listed, over, closed
  <2> QED BY <1>1, <1>3, <2>1 DEF Outcomes, Closure
<1>5. CASE e \notin c.base
  BY <1>5 DEF DeleteBySupport, Untouched, Outcomes
<1> QED BY <1>4, <1>5

LEMMA DeleteEdgesTyped ==
    ASSUME NEW c \in Closure, NEW edges \in SUBSET Pair, IsFiniteSet(edges)
    PROVE  DeleteEdges(c, edges) \in Outcomes
<1> DEFINE all == Del!SetFolded(0, Untouched(c), edges)
<1>1. DeleteEdges(c, edges) = [all EXCEPT !.survived = @ \cap all.closure.closed]
  BY DEF DeleteEdges, FoldSet, MapThenFoldSet, Del!SetFolded, Del!Picked, Del!MapThenFoldSet, DeleteStep
<1>2. Untouched(c) \in Outcomes
  BY DEF Untouched, Outcomes
<1>3. \A acc \in Outcomes, e \in edges : DeleteStep(0, acc, e) \in Outcomes
  <2> SUFFICES ASSUME NEW acc \in Outcomes, NEW e \in edges PROVE DeleteStep(0, acc, e) \in Outcomes
    OBVIOUS
  <2> DEFINE one == DeleteBySupport(acc.closure, e)
  <2>1. one \in Outcomes
    BY DeleteTyped DEF Outcomes
  <2> HIDE DEF one
  <2> QED BY <2>1 DEF DeleteStep, one, Outcomes
<1>4. Del!Inductive /\ Del!Counted(edges)
  BY Induction, FiniteCounted DEF Del!Inductive, Del!Counted
<1>5. all \in Outcomes
  <2> HIDE DEF Outcomes
  <2> QED BY <1>2, <1>3, <1>4, Del!SetFoldIn
<1> HIDE DEF all
<1> QED BY <1>1, <1>5 DEF Outcomes

LEMMA InsertEdgesTyped ==
    ASSUME NEW c \in Closure, NEW edges \in SUBSET Pair, IsFiniteSet(edges)
    PROVE  InsertEdges(c, edges) \in Closure
<1>1. InsertEdges(c, edges) = Inserted!SetFolded(0, c, edges)
  BY DEF InsertEdges, FoldSet, MapThenFoldSet, Inserted!SetFolded, Inserted!Picked,
         Inserted!MapThenFoldSet, InsertStep
<1>2. \A acc \in Closure, e \in edges : InsertStep(0, acc, e) \in Closure
  <2> SUFFICES ASSUME NEW acc \in Closure, NEW e \in edges PROVE InsertEdge(acc, e) \in Closure
    BY DEF InsertStep
  <2> DEFINE into == Into(acc.closed, e[1]) \cup {e[1]}
             from == From(acc.closed, e[2]) \cup {e[2]}
  <2>1. InsertEdge(acc, e) = [base |-> acc.base \cup {e}, closed |-> acc.closed \cup (into \X from)]
    BY DEF InsertEdge, Listed
  <2>2. e \in Pair /\ e[1] \in Node /\ e[2] \in Node /\ acc.base \subseteq Pair /\ acc.closed \subseteq Pair
    BY DEF Pair, Closure
  <2>3. into \subseteq Node /\ from \subseteq Node
    BY <2>2 DEF Into, From
  <2> HIDE DEF into, from
  <2>4. into \X from \subseteq Pair
    BY <2>3 DEF Pair
  <2> QED BY <2>1, <2>2, <2>4 DEF Closure
<1>3. Inserted!Inductive /\ Inserted!Counted(edges)
  BY Induction, FiniteCounted DEF Inserted!Inductive, Inserted!Counted
<1>4. Inserted!SetFolded(0, c, edges) \in Closure
  <2> HIDE DEF Closure
  <2> QED BY <1>2, <1>3, Inserted!SetFoldIn
<1> QED BY <1>1, <1>4

LEMMA EdgePairs ==
    /\ \A p \in Pair : Edge(p) \in EdgeTriple /\ PairOf(Edge(p)) = p
    /\ \A t \in EdgeTriple : PairOf(t) \in Pair /\ t = Edge(PairOf(t))
    /\ EdgeTriple \subseteq Triple
    /\ \A ts \in SUBSET EdgeTriple : LET ps == {PairOf(t) : t \in ts}
                                    IN  ps \subseteq Pair /\ IsFiniteSet(ps)
<1>1. \A p \in Pair : Edge(p) \in EdgeTriple /\ PairOf(Edge(p)) = p
  BY DEF EdgeTriple, Edge, PairOf, Pair
<1>2. \A t \in EdgeTriple : PairOf(t) \in Pair /\ t = Edge(PairOf(t))
  BY <1>1 DEF EdgeTriple
<1>3. IsFiniteSet(Pair)
  BY NodeAssumption, FS_Product DEF Pair
<1>4. \A ts \in SUBSET EdgeTriple : {PairOf(t) : t \in ts} \subseteq Pair
  BY <1>2
<1>5. \A ts \in SUBSET EdgeTriple : IsFiniteSet({PairOf(t) : t \in ts})
  BY <1>3, <1>4, FS_Subset
<1> QED BY <1>1, <1>2, <1>4, <1>5 DEF Triple

-----------------------------------------------------------------------------
(* The closure passes.                                                       *)

LEMMA ClosureWithdrawMoves ==
    ASSUME NEW c, WellFormed(c), NEW outcome \in Outcomes, NEW delta \in Zset
    PROVE  LET pass == ClosureWithdraw(c, outcome, delta)
           IN  Moves(c, pass.circuit) /\ pass.delta \in Zset
<1> DEFINE withdraw == {Edge(p) : p \in outcome.withdrawn}
           lost     == withdraw \cap c.support
           orphans  == {t \in lost : Owned(c, t)}
           down     == lost \ orphans
           cut      == [c EXCEPT !.closure = outcome.closure, !.support = Listed(@ \ withdraw)]
           kinds    == [t \in Triple |-> ClosureInferred]
           zeroed   == WithdrawDerivedRows(cut, down, kinds)
           promote  == {t \in {Edge(p) : p \in outcome.survived} :
                           t \notin zeroed.support /\ c.asserted[t] <= 0}
           rows     == {t \in promote : zeroed.derived[t] <= 0}
           grown    == MaterializeClosureRows(zeroed, rows)
           done     == [grown EXCEPT !.support = Listed(@ \cup promote)]
<1>0. /\ ClosureWithdraw(c, outcome, delta).circuit = done
      /\ ClosureWithdraw(c, outcome, delta).delta = NotePresenceChange(done, down \cup rows, delta)
  BY DEF ClosureWithdraw
<1>1. c \in CircuitState /\ Owners(c) /\ c.support \in SUBSET EdgeTriple
  BY StateShape DEF WellFormed
<1>2. outcome.closure \in Closure /\ withdraw \subseteq EdgeTriple
      /\ {Edge(p) : p \in outcome.survived} \subseteq EdgeTriple
  BY EdgePairs DEF Outcomes
<1>3. /\ down \subseteq withdraw /\ down \subseteq c.support /\ \A t \in down : ~Owned(c, t)
      /\ \A t \in c.support \ down : t \in withdraw => Owned(c, t)
  OBVIOUS
<1>4. /\ cut \in CircuitState /\ cut.support = c.support \ withdraw /\ cut.attr = c.attr
      /\ cut.derived = c.derived /\ cut.pending = c.pending
  BY <1>1, <1>2, StateShape DEF Listed
<1>5. \A t \in down \cap Triple : kinds[t] \in Kind
  BY KindFinite
<1> HIDE DEF withdraw, down, cut, kinds
<1>6. /\ zeroed \in CircuitState /\ zeroed.attr = cut.attr /\ zeroed.support = cut.support
      /\ \A t \in Triple :
            /\ zeroed.derived[t] = IF t \in down THEN 0 ELSE cut.derived[t]
            /\ Reported(zeroed, t) = Reported(cut, t) + (IF t \in down THEN -1 ELSE 0)
  BY <1>4, <1>5, WithdrawFields
<1>7. /\ promote \subseteq EdgeTriple /\ rows \subseteq promote
      /\ \A t \in promote : t \notin zeroed.support
      /\ \A t \in promote : t \in rows <=> zeroed.derived[t] <= 0
  BY <1>2
<1> HIDE DEF zeroed, promote, rows
<1>8. /\ grown \in CircuitState /\ grown.attr = zeroed.attr /\ grown.support = zeroed.support \cup rows
      /\ \A t \in Triple :
            /\ grown.derived[t] = zeroed.derived[t] + (IF t \in rows THEN 1 ELSE 0)
            /\ Reported(grown, t) = Reported(zeroed, t) + (IF t \in rows THEN 1 ELSE 0)
  BY <1>6, <1>7, ClosureRowsFields
<1> HIDE DEF grown
<1>9. /\ done \in CircuitState /\ done.attr = c.attr /\ done.support = (c.support \ withdraw) \cup promote
      /\ done.derived = grown.derived /\ done.pending = grown.pending
  <2>1. done.support = grown.support \cup promote /\ done \in CircuitState
        /\ done.attr = grown.attr /\ done.derived = grown.derived /\ done.pending = grown.pending
    BY <1>1, <1>7, <1>8, StateShape DEF Listed
  <2> HIDE DEF done
  <2> QED BY <1>4, <1>6, <1>7, <1>8, <2>1
<1> HIDE DEF done
<1>10. ASSUME NEW t \in Triple
       PROVE  /\ done.derived[t] = IF Owned(done, t) \/ t \in done.support THEN 1 ELSE 0
              /\ Reported(done, t) + c.derived[t] = Reported(c, t) + done.derived[t]
  <2>1. Reported(c, t) \in Int /\ c.derived[t] \in Int
    BY <1>1, ReportedType
  <2>2. c.derived[t] = IF Owned(c, t) \/ t \in c.support THEN 1 ELSE 0
    BY <1>1 DEF Owners
  <2>3. Reported(done, t) = Reported(c, t) + (IF t \in down THEN -1 ELSE 0) + (IF t \in rows THEN 1 ELSE 0)
    BY <1>4, <1>6, <1>8, <1>9 DEF Reported
  <2>4. done.derived[t] = (IF t \in down THEN 0 ELSE c.derived[t]) + (IF t \in rows THEN 1 ELSE 0)
    BY <1>4, <1>6, <1>8, <1>9
  <2>5. Owned(done, t) <=> Owned(c, t)
    BY <1>9 DEF Owned
  <2> DEFINE z == IF t \in down THEN 0 ELSE c.derived[t]
  <2>6. z = IF Owned(c, t) \/ t \in c.support \ withdraw THEN 1 ELSE 0
    BY <1>3, <2>2
  <2>7. t \in promote => (t \in rows <=> z <= 0)
    BY <1>4, <1>6, <1>7
  <2>8. t \in down => c.derived[t] = 1
    BY <1>3, <2>2
  <2>9. t \in rows => t \in promote
    BY <1>7
  <2>10. t \in done.support <=> t \in c.support \ withdraw \/ t \in promote
    BY <1>9
  <2>11. done.derived[t] = z + (IF t \in rows THEN 1 ELSE 0)
    BY <2>4
  <2>12. Reported(done, t) + c.derived[t] = Reported(c, t) + done.derived[t]
    BY <2>1, <2>3, <2>4, <2>8
  <2> HIDE DEF z
  <2>13. done.derived[t] = IF Owned(done, t) \/ t \in done.support THEN 1 ELSE 0
    BY <2>5, <2>6, <2>7, <2>9, <2>10, <2>11
  <2> QED BY <2>12, <2>13
<1>11. Owners(done)
  BY <1>10 DEF Owners
<1>12. Tells(c, done)
  BY <1>10 DEF Tells
<1>13. NotePresenceChange(done, down \cup rows, delta) \in Zset
  BY NoteTyped
<1> QED BY <1>0, <1>9, <1>11, <1>12, <1>13 DEF Moves, WellFormed

LEMMA ClosurePassesMove ==
    ASSUME NEW c, WellFormed(c), NEW edges \in SUBSET EdgeTriple, NEW delta \in Zset
    PROVE  /\ Moves(c, ClosureRetractPass(c, edges, delta).circuit)
           /\ ClosureRetractPass(c, edges, delta).delta \in Zset
           /\ Moves(c, ClosureInsertionPass(c, edges, delta).circuit)
           /\ ClosureInsertionPass(c, edges, delta).delta \in Zset
<1> DEFINE ps == {PairOf(t) : t \in edges}
<1>1. c \in CircuitState /\ Owners(c) /\ c.closure \in Closure /\ c.support \in SUBSET EdgeTriple
  BY StateShape DEF WellFormed
<1>2. ps \subseteq Pair /\ IsFiniteSet(ps)
  BY EdgePairs
<1> HIDE DEF ps
<1>3. /\ Moves(c, ClosureRetractPass(c, edges, delta).circuit)
      /\ ClosureRetractPass(c, edges, delta).delta \in Zset
  <2> DEFINE outcome == DeleteEdges(c.closure, ps)
  <2>1. outcome \in Outcomes
    BY <1>1, <1>2, DeleteEdgesTyped
  <2>2. ClosureRetractPass(c, edges, delta) = ClosureWithdraw(c, outcome, delta)
    BY DEF ClosureRetractPass, ps
  <2> HIDE DEF outcome
  <2> QED BY <2>1, <2>2, ClosureWithdrawMoves
<1>4. /\ Moves(c, ClosureInsertionPass(c, edges, delta).circuit)
      /\ ClosureInsertionPass(c, edges, delta).delta \in Zset
  <2> DEFINE closure  == InsertEdges(c.closure, ps)
             inferred == {Edge(p) : p \in closure.closed \ c.closure.closed}
             rows     == {t \in inferred : ~BasePresence(c, t)}
             shared   == {t \in inferred : BasePresence(c, t) /\ c.derived[t] # 0}
             grown    == MaterializeClosureRows(c, rows)
             done     == [grown EXCEPT !.closure = closure, !.support = Listed(@ \cup shared)]
  <2>1. /\ ClosureInsertionPass(c, edges, delta).circuit = done
        /\ ClosureInsertionPass(c, edges, delta).delta = NotePresenceChange(done, rows, delta)
    BY DEF ClosureInsertionPass, ps
  <2>2. closure \in Closure
    BY <1>1, <1>2, InsertEdgesTyped
  <2> HIDE DEF closure
  <2>3. inferred \subseteq EdgeTriple
    BY <2>2, EdgePairs DEF Closure
  <2>4. /\ rows \subseteq EdgeTriple /\ shared \subseteq EdgeTriple
        /\ \A t \in rows : ~(c.derived[t] > 0)
        /\ \A t \in shared : c.derived[t] # 0
    BY <2>3 DEF BasePresence
  <2> HIDE DEF rows, shared
  <2>5. /\ grown \in CircuitState /\ grown.attr = c.attr /\ grown.support = c.support \cup rows
        /\ \A t \in Triple :
              /\ grown.derived[t] = c.derived[t] + (IF t \in rows THEN 1 ELSE 0)
              /\ Reported(grown, t) = Reported(c, t) + (IF t \in rows THEN 1 ELSE 0)
    BY <1>1, <2>4, ClosureRowsFields
  <2> HIDE DEF grown
  <2>6. /\ done \in CircuitState /\ done.attr = c.attr /\ done.support = c.support \cup rows \cup shared
        /\ done.derived = grown.derived /\ done.pending = grown.pending
    <3>1. /\ done \in CircuitState /\ done.attr = grown.attr /\ done.support = grown.support \cup shared
          /\ done.derived = grown.derived /\ done.pending = grown.pending
      <4>1. Listed(grown.support \cup shared) = grown.support \cup shared
        BY DEF Listed
      <4>2. grown.support \cup shared \in SUBSET EdgeTriple
        BY <1>1, <2>4, <2>5
      <4>3. done = [grown EXCEPT !.closure = closure, !.support = grown.support \cup shared]
        BY <4>1
      <4> HIDE DEF done
      <4> QED BY <2>2, <2>5, <4>2, <4>3, StateShape
    <3> HIDE DEF done
    <3> QED BY <2>5, <3>1
  <2> HIDE DEF done
  <2>7. ASSUME NEW t \in Triple
        PROVE  /\ done.derived[t] = IF Owned(done, t) \/ t \in done.support THEN 1 ELSE 0
               /\ Reported(done, t) + c.derived[t] = Reported(c, t) + done.derived[t]
    <3>1. Reported(c, t) \in Int /\ c.derived[t] \in Int
      BY <1>1, ReportedType
    <3>2. c.derived[t] = IF Owned(c, t) \/ t \in c.support THEN 1 ELSE 0
      BY <1>1 DEF Owners
    <3>3. Owned(done, t) <=> Owned(c, t)
      BY <2>6 DEF Owned
    <3>4. Reported(done, t) = Reported(grown, t)
      BY <2>6 DEF Reported
    <3> QED BY <2>4, <2>5, <2>6, <3>1, <3>2, <3>3, <3>4
  <2>8. Owners(done)
    BY <2>7 DEF Owners
  <2>9. Tells(c, done)
    BY <2>7 DEF Tells
  <2>10. NotePresenceChange(done, rows, delta) \in Zset
    BY NoteTyped
  <2> QED BY <2>1, <2>6, <2>8, <2>9, <2>10 DEF Moves, WellFormed
<1> QED BY <1>3, <1>4

-----------------------------------------------------------------------------
(* The tick.                                                                 *)

\* What a tick does after it has merged its records, in either regime.
LEMMA TickRegimesMove ==
    ASSUME NEW m, WellFormed(m), NEW ins \in SUBSET EdgeTriple, NEW del \in SUBSET EdgeTriple,
           NEW flipped, NEW retracts
    PROVE  /\ Moves(m, RecomputeFallback(m, ins, del))
           /\ Moves(m, UnifiedPath(m, flipped, ins, del, retracts))
<1> DEFINE fallen   == RecomputeFallback(m, ins, del)
           unified  == UnifiedPath(m, flipped, ins, del, retracts)
<1>1. EmptyZset \in Zset
  BY EmptySum
<1>2. Moves(m, fallen)
  <2> DEFINE cut   == ClosureRetractPass(m, del, EmptyZset).circuit
             grown == ClosureInsertionPass(cut, ins, EmptyZset).circuit
  <2>1. Moves(m, cut)
    BY <1>1, ClosurePassesMove
  <2> HIDE DEF cut
  <2>2. Moves(cut, grown)
    BY <1>1, <2>1, ClosurePassesMove DEF Moves
  <2> HIDE DEF grown
  <2>3. Moves(grown, RecomputeRules(grown))
    BY <2>2, RecomputeRulesMove DEF Moves
  <2>4. fallen = RecomputeRules(grown)
    BY DEF RecomputeFallback, cut, grown
  <2>5. Moves(m, grown)
    BY <2>1, <2>2, MovesOn
  <2> QED BY <2>3, <2>4, <2>5, MovesOn
<1>3. Moves(m, unified)
  <2>1. ASSUME NEW d, NEW x \in Zset, WellFormed(d) PROVE Moves(d, RunRules(d, x))
    BY <2>1, TwoPhaseFixpointMoves, InsertionFixpointMoves DEF RunRules
  <2> DEFINE noted == NotePresenceChange(m, flipped, EmptyZset)
             cut   == IF retracts THEN ClosureRetractPass(m, del, noted)
                      ELSE [circuit |-> m, delta |-> noted, orphans |-> {}]
             grown == ClosureInsertionPass(cut.circuit, ins, cut.delta)
             seed  == OrphanReseed(grown.circuit, cut.orphans, grown.delta)
  <2>2. unified = RunRules(grown.circuit, seed)
    BY DEF UnifiedPath, InsertionsAndRules, RulesAfterClosure
  <2>3. noted \in Zset
    BY <1>1, NoteTyped
  <2> HIDE DEF noted
  <2>4. Moves(m, cut.circuit) /\ cut.delta \in Zset
    <3>1. /\ Moves(m, ClosureRetractPass(m, del, noted).circuit)
          /\ ClosureRetractPass(m, del, noted).delta \in Zset
      BY <2>3, ClosurePassesMove
    <3>2. Moves(m, m)
      BY SameRowsMove DEF SameRows, WellFormed
    <3> QED BY <2>3, <3>1, <3>2
  <2> HIDE DEF cut
  <2>5. Moves(cut.circuit, grown.circuit) /\ grown.delta \in Zset
    BY <2>4, ClosurePassesMove DEF Moves
  <2> HIDE DEF grown
  <2>6. seed \in Zset
    <3>1. -1 \in Int
      OBVIOUS
    <3>2. \A ts : OneFor(ts, -1) \in Zset
      BY <3>1, OneForType
    <3> QED BY <2>5, <3>2, PlusAt DEF OrphanReseed
  <2> HIDE DEF seed, unified
  <2>7. Moves(grown.circuit, RunRules(grown.circuit, seed))
    BY <2>1, <2>5, <2>6 DEF Moves
  <2>8. Moves(m, grown.circuit)
    BY <2>4, <2>5, MovesOn
  <2> QED BY <2>2, <2>7, <2>8, MovesOn
<1> HIDE DEF fallen, unified
<1> QED BY <1>2, <1>3 DEF fallen, unified

\* Circuit::tick, for every rule set, closure and list of records, in both
\* retraction regimes: it leaves a circuit of the right shape whose derived rows
\* are there once and have their owners, and what the net records it publishes
\* say of a triple adds up to what happened to the triple's derived row.
THEOREM TickMoves ==
    ASSUME NEW c, WellFormed(c), NEW records, NetDelta(records) \in Zset
    PROVE  LET d == Tick(c, records)
           IN  /\ WellFormed(d)
               /\ \A t \in Triple : Reported(d, t) = d.derived[t] - c.derived[t]
<1> DEFINE delta    == NetDelta(records)
           merged   == [c EXCEPT !.asserted = Plus(@, delta), !.pending = NoEmission]
           flipped  == {t \in Triple : (c.asserted[t] > 0) # (merged.asserted[t] > 0)}
           insEdges == InsertedEdges(merged, delta)
           delEdges == DeletedEdges(merged, delta)
           retracts == \E n \in DOMAIN records : records[n].mult < 0
           fallen   == RecomputeFallback(merged, insEdges, delEdges)
           unified  == UnifiedPath(merged, flipped, insEdges, delEdges, retracts)
<1>1. Tick(c, records) = NetRecordsChecked(IF c.fallback /\ retracts THEN fallen ELSE unified)
  BY DEF Tick
<1>2. insEdges \in SUBSET EdgeTriple /\ delEdges \in SUBSET EdgeTriple
  BY DEF InsertedEdges, DeletedEdges
<1>3. /\ merged \in CircuitState /\ merged.derived = c.derived /\ merged.attr = c.attr
      /\ merged.support = c.support /\ merged.pending = NoEmission
  <2>1. c.asserted \in Zset /\ c \in CircuitState
    BY StateShape DEF WellFormed
  <2>2. Plus(c.asserted, delta) \in Zset
    BY <2>1, PlusAt
  <2>3. NoEmission \in Emission
    BY DEF NoEmission, Emission
  <2> QED BY <2>1, <2>2, <2>3, StateShape
<1>4. WellFormed(merged)
  BY <1>3 DEF WellFormed, Owners, Owned
<1>5. \A t \in Triple : Reported(merged, t) = 0
  <2> SUFFICES ASSUME NEW t \in Triple PROVE SumOf(NoEmission[t], Kind) = 0
    BY <1>3 DEF Reported
  <2>1. NoEmission[t] = [k \in Kind |-> 0]
    BY DEF NoEmission
  <2> QED BY <2>1, KindFinite, SumZero
<1> HIDE DEF delta, merged, flipped, insEdges, delEdges, retracts
<1>7. Moves(merged, fallen) /\ Moves(merged, unified)
  BY <1>2, <1>4, TickRegimesMove
<1> HIDE DEF fallen, unified, retracts
<1> DEFINE last == IF c.fallback /\ retracts THEN fallen ELSE unified
           d == NetRecordsChecked(last)
<1>9. Moves(merged, last)
  BY <1>7
<1>10. Tick(c, records) = d
  BY <1>1
<1> HIDE DEF last
<1>11. Moves(last, d)
  BY <1>9, CheckMoves DEF NetRecordsChecked, Moves
<1> HIDE DEF d
<1>12. Moves(merged, d)
  BY <1>4, <1>9, <1>11, MovesOn
<1>13. ASSUME NEW t \in Triple PROVE Reported(d, t) = d.derived[t] - c.derived[t]
  <2>1. Reported(d, t) + c.derived[t] = 0 + d.derived[t]
    BY <1>3, <1>5, <1>12 DEF Moves, Tells
  <2>2. Reported(d, t) \in Int /\ d.derived[t] \in Int /\ c.derived[t] \in Int
    BY <1>12, ReportedType DEF Moves, WellFormed
  <2> QED BY <2>1, <2>2
<1> QED BY <1>10, <1>12, <1>13 DEF Moves

LEMMA NewCircuitFormed ==
    ASSUME NEW fallback \in BOOLEAN
    PROVE  WellFormed(NewCircuit(fallback))
<1> DEFINE c == NewCircuit(fallback)
<1>1. NoEmission \in Emission /\ EmptyZset \in Zset /\ EmptyClosure \in Closure
  BY DEF NoEmission, Emission, EmptyZset, Zset, EmptyClosure, Closure, Pair
<1>2. /\ [t \in Triple |-> [r \in Rule |-> 0]] \in Weighing
      /\ [t \in Triple |-> NoRule] \in AttrMap
      /\ [p \in Prefix |-> 0] \in Traces
  BY DEF Weighing, AttrMap, Traces
<1>3. /\ c \in CircuitState /\ c.derived = EmptyZset /\ c.support = {}
      /\ c.attr = [t \in Triple |-> NoRule]
  <2> HIDE DEF Emission, Zset, Closure, Weighing, AttrMap, Traces
  <2> QED BY <1>1, <1>2, StateShape DEF NewCircuit
<1> HIDE DEF c
<1>4. \A t \in Triple : c.derived[t] = 0 /\ ~Owned(c, t)
  BY <1>3 DEF Owned, EmptyZset
<1> QED BY <1>3, <1>4 DEF WellFormed, Owners, c
=============================================================================

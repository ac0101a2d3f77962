--------------------------- MODULE RecursionFacts ---------------------------
(***************************************************************************)
(* What a recursive function definition computes.  TLA+ defines f[x \in D] *)
(* as a CHOOSE: the definition means something only where a function with  *)
(* that equation exists.  It does when every key leads, in finitely many   *)
(* steps, to one that needs no other: then there is exactly one such       *)
(* function, and its equation may be used.                                 *)
(*                                                                         *)
(* The folds of the library, and the rounds of the models' loops, are of   *)
(* this form.  A module of proofs instantiates this one with the step of   *)
(* its recursion; the context c holds what the step reads besides the key. *)
(***************************************************************************)
EXTENDS Integers, TLAPS

CONSTANTS
    Bottom(_),         \* the key needs no other
    Prev(_),           \* the key it needs
    Rank(_),           \* a measure that Prev lowers
    Base(_, _),        \* the value at a bottom key
    Step(_, _, _)      \* the value at a key, from the value at Prev

Solves(h, c, D) == h = [k \in D |-> IF Bottom(k) THEN Base(c, k) ELSE Step(c, k, h[Prev(k)])]

\* What the definition stands for.
Solution(c, D) ==
    CHOOSE h : h = [k \in D |-> IF Bottom(k) THEN Base(c, k) ELSE Step(c, k, h[Prev(k)])]

\* Induction over the natural numbers, for a set.  It is a hypothesis here and a
\* lemma of the modules that instantiate this one: they reach the theorems on
\* well-founded relations, which every instance would otherwise carry along.
Inductive ==
    \A S : 0 \in S /\ (\A n \in Nat : n \in S => n + 1 \in S) => \A n \in Nat : n \in S

Ranked(D) ==
    \A k \in D : /\ Rank(k) \in Nat
                 /\ ~Bottom(k) => Prev(k) \in D /\ Rank(Prev(k)) < Rank(k)

Grounded(D) == Inductive /\ Ranked(D)

\* The keys of D do not tell the contexts c and d apart.
SameSteps(c, d, D) ==
    \A k \in D : IF Bottom(k) THEN Base(c, k) = Base(d, k)
                             ELSE \A v : Step(c, k, v) = Step(d, k, v)

-----------------------------------------------------------------------------
(* Solutions.                                                                *)

Below(D, n) == {k \in D : Rank(k) < n}

LEMMA PrevBelow ==
    ASSUME NEW D, Grounded(D), NEW n \in Nat, NEW k \in Below(D, n + 1), ~Bottom(k)
    PROVE  Prev(k) \in Below(D, n)
<1>1. /\ k \in D
      /\ Rank(k) \in Nat
      /\ Rank(k) < n + 1
      /\ Prev(k) \in D
      /\ Rank(Prev(k)) < Rank(k)
  BY DEF Below, Grounded, Ranked
<1>2. Rank(Prev(k)) \in Nat
  BY <1>1 DEF Grounded, Ranked
<1>3. Rank(Prev(k)) < n
  BY <1>1, <1>2
<1> QED BY <1>1, <1>3 DEF Below

\* A grounded recursion has a solution: it is built up rank by rank.
LEMMA Solvable ==
    ASSUME NEW c, NEW D, Grounded(D)
    PROVE  \E h : Solves(h, c, D)
<1> DEFINE N == {n \in Nat : \E h : Solves(h, c, Below(D, n))}
<1>1. 0 \in N
  <2> DEFINE h == [k \in Below(D, 0) |-> 0]
  <2>1. \A k \in Below(D, 0) : FALSE
    BY DEF Below, Grounded, Ranked
  <2>2. Solves(h, c, Below(D, 0))
    BY <2>1 DEF Solves
  <2> QED BY <2>2
<1>2. ASSUME NEW n \in Nat, n \in N PROVE n + 1 \in N
  <2>1. PICK h : Solves(h, c, Below(D, n))
    BY <1>2
  <2> DEFINE g == [k \in Below(D, n + 1) |->
                      IF Bottom(k) THEN Base(c, k) ELSE Step(c, k, h[Prev(k)])]
  <2>2. Below(D, n) \subseteq Below(D, n + 1)
    BY DEF Below, Grounded, Ranked
  <2>3. \A k \in Below(D, n) : g[k] = h[k]
    BY <2>1, <2>2 DEF Solves
  <2>4. \A k \in Below(D, n + 1) : ~Bottom(k) => g[Prev(k)] = h[Prev(k)]
    BY <2>3, PrevBelow
  <2>5. Solves(g, c, Below(D, n + 1))
    BY <2>4 DEF Solves
  <2> QED BY <2>5
<1>3. \A n \in Nat : n \in N
  <2> HIDE DEF N
  <2> QED BY <1>1, <1>2 DEF Grounded, Inductive
<1> DEFINE value == [n \in Nat |-> CHOOSE h : Solves(h, c, Below(D, n))]
<1>4. \A n \in Nat : Solves(value[n], c, Below(D, n))
  BY <1>3
<1> HIDE DEF value
<1>5. \A n \in Nat : \A k \in Below(D, n) : value[n][k] = value[n + 1][k]
  <2> DEFINE A == {n \in Nat : \A m \in Nat : \A k \in Below(D, n) :
                      k \in Below(D, m) => value[m][k] = value[m + 1][k]}
  <2>1. 0 \in A
    BY DEF Below, Grounded, Ranked
  <2>2. ASSUME NEW n \in Nat, n \in A PROVE n + 1 \in A
    <3> SUFFICES ASSUME NEW m \in Nat, NEW k \in Below(D, n + 1), k \in Below(D, m)
                 PROVE  value[m][k] = value[m + 1][k]
      OBVIOUS
    <3>1. k \in Below(D, m + 1)
      BY DEF Below, Grounded, Ranked
    <3>2. /\ value[m][k] = IF Bottom(k) THEN Base(c, k) ELSE Step(c, k, value[m][Prev(k)])
          /\ value[m + 1][k] = IF Bottom(k) THEN Base(c, k) ELSE Step(c, k, value[m + 1][Prev(k)])
      <4>1. Solves(value[m], c, Below(D, m)) /\ Solves(value[m + 1], c, Below(D, m + 1))
        BY <1>4
      <4> QED BY <3>1, <4>1 DEF Solves
    <3>3. ASSUME ~Bottom(k) PROVE value[m][Prev(k)] = value[m + 1][Prev(k)]
      <4>1. Prev(k) \in Below(D, n)
        BY <3>3, PrevBelow
      <4>2. Prev(k) \in Below(D, m)
        BY <3>3 DEF Below, Grounded, Ranked
      <4> QED BY <2>2, <4>1, <4>2
    <3> QED BY <3>2, <3>3
  <2>3. \A n \in Nat : n \in A
    <3> HIDE DEF A
    <3> QED BY <2>1, <2>2 DEF Grounded, Inductive
  <2> QED BY <2>3
<1> DEFINE f == [k \in D |-> value[Rank(k) + 1][k]]
<1>6. \A k \in D : Rank(k) \in Nat /\ k \in Below(D, Rank(k) + 1)
  BY DEF Below, Grounded, Ranked
<1>7. \A k \in D : \A m \in Nat : k \in Below(D, m) => value[m][k] = f[k]
  <2> SUFFICES ASSUME NEW k \in D
               PROVE  \A m \in Nat : k \in Below(D, m) => value[m][k] = value[Rank(k) + 1][k]
    OBVIOUS
  <2> DEFINE B == {m \in Nat : k \in Below(D, m) => value[m][k] = value[Rank(k) + 1][k]}
  <2>1. 0 \in B
    BY DEF Below, Grounded, Ranked
  <2>2. ASSUME NEW m \in Nat, m \in B PROVE m + 1 \in B
    <3>1. CASE k \in Below(D, m)
      BY <1>5, <2>2, <3>1
    <3>2. CASE k \notin Below(D, m)
      <4>1. k \in Below(D, m + 1) => m = Rank(k)
        BY <1>6, <3>2 DEF Below
      <4> QED BY <4>1
    <3> QED BY <3>1, <3>2
  <2>3. \A m \in Nat : m \in B
    <3> HIDE DEF B
    <3> QED BY <2>1, <2>2 DEF Grounded, Inductive
  <2> QED BY <2>3
<1>8. Solves(f, c, D)
  <2> SUFFICES ASSUME NEW k \in D
               PROVE  f[k] = IF Bottom(k) THEN Base(c, k) ELSE Step(c, k, f[Prev(k)])
    BY DEF Solves
  <2>1. Solves(value[Rank(k) + 1], c, Below(D, Rank(k) + 1))
    BY <1>4, <1>6
  <2>2. f[k] = IF Bottom(k) THEN Base(c, k) ELSE Step(c, k, value[Rank(k) + 1][Prev(k)])
    BY <1>6, <2>1 DEF Solves
  <2>3. ASSUME ~Bottom(k) PROVE value[Rank(k) + 1][Prev(k)] = f[Prev(k)]
    <3>1. Prev(k) \in D /\ Prev(k) \in Below(D, Rank(k) + 1)
      BY <1>6, <2>3 DEF Below, Grounded, Ranked
    <3> QED BY <1>6, <1>7, <3>1
  <2> QED BY <2>2, <2>3
<1> QED BY <1>8

\* Two solutions agree on the keys they share, if their steps do.
LEMMA Agree ==
    ASSUME NEW c, NEW d, NEW D, NEW E, NEW h, NEW g,
           Grounded(D), D \subseteq E, SameSteps(c, d, D),
           Solves(h, c, D), Solves(g, d, E)
    PROVE  \A k \in D : h[k] = g[k]
<1> DEFINE N == {n \in Nat : \A k \in Below(D, n) : h[k] = g[k]}
<1>1. 0 \in N
  BY DEF Below, Grounded, Ranked
<1>2. ASSUME NEW n \in Nat, n \in N PROVE n + 1 \in N
  <2> SUFFICES ASSUME NEW k \in Below(D, n + 1) PROVE h[k] = g[k]
    OBVIOUS
  <2>1. k \in D /\ k \in E
    BY DEF Below
  <2>2. /\ h[k] = IF Bottom(k) THEN Base(c, k) ELSE Step(c, k, h[Prev(k)])
        /\ g[k] = IF Bottom(k) THEN Base(d, k) ELSE Step(d, k, g[Prev(k)])
    BY <2>1 DEF Solves
  <2>3. ~Bottom(k) => h[Prev(k)] = g[Prev(k)]
    BY <1>2, PrevBelow
  <2>4. CASE Bottom(k)
    BY <2>1, <2>2, <2>4 DEF SameSteps
  <2>5. CASE ~Bottom(k)
    BY <2>1, <2>2, <2>3, <2>5 DEF SameSteps
  <2> QED BY <2>4, <2>5
<1>3. \A n \in Nat : n \in N
  <2> HIDE DEF N
  <2> QED BY <1>1, <1>2 DEF Grounded, Inductive
<1>4. \A k \in D : Rank(k) + 1 \in Nat /\ k \in Below(D, Rank(k) + 1)
  BY DEF Below, Grounded, Ranked
<1> QED BY <1>3, <1>4

-----------------------------------------------------------------------------
(* What the proofs cite.                                                     *)

\* The equation of the definition holds.
LEMMA SolutionSolves ==
    ASSUME NEW c, NEW D, Grounded(D)
    PROVE  /\ Solves(Solution(c, D), c, D)
           /\ DOMAIN Solution(c, D) = D
           /\ \A k \in D : Solution(c, D)[k] =
                 IF Bottom(k) THEN Base(c, k) ELSE Step(c, k, Solution(c, D)[Prev(k)])
<1>1. Solves(Solution(c, D), c, D)
  BY Solvable DEF Solves, Solution
<1>2. \A k \in D : Solution(c, D)[k] =
          IF Bottom(k) THEN Base(c, k) ELSE Step(c, k, Solution(c, D)[Prev(k)])
  BY <1>1 DEF Solves
<1>3. DOMAIN Solution(c, D) = D
  BY <1>1 DEF Solves
<1> QED BY <1>1, <1>2, <1>3

\* A larger domain, and a context the keys do not tell apart, change nothing.
LEMMA SolutionsAgree ==
    ASSUME NEW c, NEW d, NEW D, NEW E, Grounded(D), Grounded(E), D \subseteq E, SameSteps(c, d, D)
    PROVE  \A k \in D : Solution(c, D)[k] = Solution(d, E)[k]
<1>1. Solves(Solution(c, D), c, D) /\ Solves(Solution(d, E), d, E)
  BY SolutionSolves
<1> HIDE DEF Solution
<1> QED BY <1>1, Agree

\* A set for every key, with the value at a bottom key and with what a step
\* makes of the set before, has the value of its key.
LEMMA SolutionAt ==
    ASSUME NEW c, NEW D, Grounded(D), NEW V,
           \A k \in D : IF Bottom(k) THEN Base(c, k) \in V[k]
                                    ELSE \A v \in V[Prev(k)] : Step(c, k, v) \in V[k]
    PROVE  \A k \in D : Solution(c, D)[k] \in V[k]
<1> DEFINE f == Solution(c, D)
           N == {n \in Nat : \A k \in Below(D, n) : f[k] \in V[k]}
<1>1. \A k \in D : f[k] = IF Bottom(k) THEN Base(c, k) ELSE Step(c, k, f[Prev(k)])
  BY SolutionSolves
<1> HIDE DEF f
<1>2. 0 \in N
  BY DEF Below, Grounded, Ranked
<1>3. ASSUME NEW n \in Nat, n \in N PROVE n + 1 \in N
  <2> SUFFICES ASSUME NEW k \in Below(D, n + 1) PROVE f[k] \in V[k]
    OBVIOUS
  <2>1. k \in D
    BY DEF Below
  <2>2. CASE Bottom(k)
    BY <1>1, <2>1, <2>2
  <2>3. CASE ~Bottom(k)
    <3>1. f[Prev(k)] \in V[Prev(k)]
      BY <1>3, <2>3, PrevBelow
    <3> QED BY <1>1, <2>1, <2>3, <3>1
  <2> QED BY <2>2, <2>3
<1>4. \A n \in Nat : n \in N
  <2> HIDE DEF N
  <2> QED BY <1>2, <1>3 DEF Grounded, Inductive
<1>5. \A k \in D : Rank(k) + 1 \in Nat /\ k \in Below(D, Rank(k) + 1)
  BY DEF Below, Grounded, Ranked
<1> QED BY <1>4, <1>5 DEF f

\* A set with the values at the bottom keys, and with what a step makes of its
\* elements, has every value.
LEMMA SolutionIn ==
    ASSUME NEW c, NEW D, Grounded(D), NEW V,
           \A k \in D : IF Bottom(k) THEN Base(c, k) \in V
                                    ELSE \A v \in V : Step(c, k, v) \in V
    PROVE  \A k \in D : Solution(c, D)[k] \in V
<1> DEFINE W == [k \in D |-> V]
<1>1. \A k \in D : W[k] = V /\ (~Bottom(k) => Prev(k) \in D /\ W[Prev(k)] = V)
  BY DEF Grounded, Ranked
<1> HIDE DEF W
<1>2. \A k \in D : Solution(c, D)[k] \in W[k]
  <2>1. \A k \in D : IF Bottom(k) THEN Base(c, k) \in W[k]
                                  ELSE \A v \in W[Prev(k)] : Step(c, k, v) \in W[k]
    BY <1>1
  <2> HIDE DEF Solution
  <2> QED BY <2>1, SolutionAt
<1> QED BY <1>1, <1>2
=============================================================================

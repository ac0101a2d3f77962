----------------------------- MODULE FoldFacts -----------------------------
(***************************************************************************)
(* What FoldLeft and FoldSet of the community modules compute, for every   *)
(* sequence and every finite set, given what `Inductive` and `Counted`     *)
(* say, which the modules that instantiate this one prove.  FoldLeft recurs over the subsets of the *)
(* sequence's domain, from the largest index down, FoldSet over those of   *)
(* the set; here they get the equations a proof needs: nothing to fold,    *)
(* one element more, a concatenation, and an invariant set.                *)
(*                                                                         *)
(* A module of proofs instantiates this one with the step of its fold; the *)
(* context c holds what the step reads besides its arguments.              *)
(***************************************************************************)
EXTENDS Integers, Sequences, SequenceTheorems, Folds, TLAPS

CONSTANTS
    Op(_, _, _),       \* context, accumulated value, element
    Size(_)            \* of a finite set: Cardinality

\* Induction over the natural numbers, for a set: a hypothesis, as in RecursionFacts.
Inductive ==
    \A S : 0 \in S /\ (\A n \in Nat : n \in S => n + 1 \in S) => \A n \in Nat : n \in S

\* The last index of a domain; FoldLeft's Max.
Latest(d) == CHOOSE x \in d : \A y \in d : x >= y

\* FoldLeft(LAMBDA acc, e : Op(c, acc, e), base, s)
Folded(c, base, s) ==
    MapThenFoldSet(LAMBDA e, acc : Op(c, acc, e), base, LAMBDA i : s[i], Latest, DOMAIN s)

Top(d) == IF d = {} THEN 0 ELSE Latest(d)

\* FoldLeft's recursion: its context is the fold's, its base and its sequence.
R == INSTANCE RecursionFacts WITH
        Bottom <- LAMBDA d : d = {},
        Prev   <- LAMBDA d : d \ {Latest(d)},
        Rank   <- Top,
        Base   <- LAMBDA c, d : c[2],
        Step   <- LAMBDA c, d, acc : Op(c[1], acc, c[3][Latest(d)])

-----------------------------------------------------------------------------
LEMMA FoldedIsSolution ==
    ASSUME NEW c, NEW base, NEW s
    PROVE  Folded(c, base, s) = R!Solution(<<c, base, s>>, SUBSET DOMAIN s)[DOMAIN s]
BY DEF Folded, MapThenFoldSet, R!Solution

LEMMA LatestBelow ==
    ASSUME Inductive, NEW n \in Nat, NEW d \in SUBSET (1 .. n), d # {}
    PROVE  Latest(d) \in d /\ \A y \in d : Latest(d) >= y
<1> DEFINE N == {m \in Nat : \A e \in SUBSET (1 .. m) :
                    e # {} => \E x \in e : \A y \in e : x >= y}
<1>1. 0 \in N
  <2>1. \A e \in SUBSET (1 .. 0) : e = {}
    OBVIOUS
  <2> QED BY <2>1
<1>2. ASSUME NEW m \in Nat, m \in N PROVE m + 1 \in N
  <2> SUFFICES ASSUME NEW e \in SUBSET (1 .. m + 1), e # {}
               PROVE  \E x \in e : \A y \in e : x >= y
    OBVIOUS
  <2>1. CASE m + 1 \in e
    BY <2>1
  <2>2. CASE m + 1 \notin e
    <3>1. e \in SUBSET (1 .. m)
      BY <2>2
    <3> QED BY <1>2, <3>1
  <2> QED BY <2>1, <2>2
<1>3. n \in N
  <2> HIDE DEF N
  <2> QED BY <1>1, <1>2 DEF Inductive
<1> QED BY <1>3 DEF Latest

LEMMA Intervals ==
    ASSUME Inductive, NEW n \in Nat
    PROVE  Latest(1 .. n + 1) = n + 1 /\ (1 .. n + 1) \ {n + 1} = 1 .. n
<1> DEFINE d == 1 .. n + 1
<1>1. n + 1 \in Nat /\ d \in SUBSET (1 .. n + 1) /\ d # {} /\ n + 1 \in d
  OBVIOUS
<1>2. Latest(d) \in d /\ \A y \in d : Latest(d) >= y
  <2> HIDE DEF d
  <2> QED BY <1>1, LatestBelow
<1>3. Latest(d) >= n + 1 /\ Latest(d) \in 1 .. n + 1
  BY <1>1, <1>2
<1>4. Latest(d) = n + 1
  BY <1>3
<1> QED BY <1>4

LEMMA DomainsGrounded ==
    ASSUME Inductive, NEW n \in Nat
    PROVE  R!Grounded(SUBSET (1 .. n))
<1> SUFFICES ASSUME NEW d \in SUBSET (1 .. n)
             PROVE  /\ Top(d) \in Nat
                    /\ d # {} => /\ d \ {Latest(d)} \in SUBSET (1 .. n)
                                 /\ Top(d \ {Latest(d)}) < Top(d)
  BY DEF R!Grounded, R!Ranked, R!Inductive, Inductive
<1>1. CASE d = {}
  BY <1>1 DEF Top
<1>2. CASE d # {}
  <2> DEFINE e == d \ {Latest(d)}
  <2>1. e \in SUBSET (1 .. n)
    OBVIOUS
  <2>2. Latest(d) \in d /\ \A y \in d : Latest(d) >= y
    BY <1>2, LatestBelow
  <2>3. e # {} => Latest(e) \in e
    <3> HIDE DEF e
    <3> QED BY <2>1, LatestBelow
  <2>4. Top(d) = Latest(d) /\ Latest(d) \in 1 .. n
    BY <1>2, <2>2 DEF Top
  <2>5. Top(e) < Top(d)
    <3>1. e # {} => Latest(e) \in 1 .. n /\ Latest(e) <= Latest(d) /\ Latest(e) # Latest(d)
      BY <2>1, <2>2, <2>3
    <3> HIDE DEF e
    <3> QED BY <2>4, <3>1 DEF Top
  <2> QED BY <2>1, <2>4, <2>5
<1> QED BY <1>1, <1>2

-----------------------------------------------------------------------------
\* A sequence that is not empty is its front and its last element.
LEMMA SplitLast ==
    ASSUME NEW X, NEW n \in Nat, NEW s \in Seq(X), Len(s) = n + 1
    PROVE  /\ SubSeq(s, 1, n) \in Seq(X)
           /\ Len(SubSeq(s, 1, n)) = n
           /\ s[n + 1] \in X
           /\ s = Append(SubSeq(s, 1, n), s[n + 1])
<1> DEFINE r == SubSeq(s, 1, n)
<1>1. r \in Seq(X) /\ Len(r) = n /\ s[n + 1] \in X
  OBVIOUS
<1>2. Append(r, s[n + 1]) \in Seq(X) /\ Len(Append(r, s[n + 1])) = n + 1
  BY <1>1
<1>3. \A i \in 1 .. n + 1 : Append(r, s[n + 1])[i] = s[i]
  BY <1>1
<1>4. s = Append(r, s[n + 1])
  <2> HIDE DEF r
  <2> QED BY <1>2, <1>3, SeqEqual
<1> QED BY <1>1, <1>4

\* Induction over sequences, for a set.
LEMMA SeqInduction ==
    ASSUME Inductive, NEW X, NEW S, <<>> \in S,
           \A s \in Seq(X), x \in X : s \in S => Append(s, x) \in S
    PROVE  \A s \in Seq(X) : s \in S
<1> DEFINE N == {n \in Nat : \A s \in Seq(X) : Len(s) = n => s \in S}
<1>1. 0 \in N
  <2>1. \A s \in Seq(X) : Len(s) = 0 => s = <<>>
    BY EmptySeq
  <2> QED BY <2>1
<1>2. ASSUME NEW n \in Nat, n \in N PROVE n + 1 \in N
  <2> SUFFICES ASSUME NEW s \in Seq(X), Len(s) = n + 1 PROVE s \in S
    OBVIOUS
  <2> DEFINE r == SubSeq(s, 1, n)
  <2>1. r \in Seq(X) /\ Len(r) = n /\ s[n + 1] \in X /\ s = Append(r, s[n + 1])
    BY SplitLast
  <2> HIDE DEF r
  <2>2. r \in S
    BY <1>2, <2>1
  <2> QED BY <2>1, <2>2
<1>3. \A n \in Nat : n \in N
  <2> HIDE DEF N
  <2> QED BY <1>1, <1>2 DEF Inductive
<1> QED BY <1>3, LenProperties

-----------------------------------------------------------------------------
(* What the proofs cite.                                                     *)

\* Nothing to fold.
LEMMA FoldNone ==
    ASSUME Inductive, NEW c, NEW base
    PROVE  Folded(c, base, <<>>) = base
<1> DEFINE ctx == <<c, base, <<>>>>
           D == SUBSET (1 .. 0)
<1>1. DOMAIN <<>> = 1 .. 0
  OBVIOUS
<1>2. Folded(c, base, <<>>) = R!Solution(ctx, D)[1 .. 0]
  BY <1>1, FoldedIsSolution
<1>3. R!Solution(ctx, D)[1 .. 0] = ctx[2]
  <2>1. 1 .. 0 \in D /\ 1 .. 0 = {}
    OBVIOUS
  <2>2. R!Grounded(D)
    BY DomainsGrounded
  <2> HIDE DEF D, ctx
  <2> QED BY <2>1, <2>2, R!SolutionSolves
<1> QED BY <1>2, <1>3

\* One element more.
LEMMA FoldOn ==
    ASSUME Inductive, NEW c, NEW base, NEW X, NEW s \in Seq(X), NEW x \in X
    PROVE  Folded(c, base, Append(s, x)) = Op(c, Folded(c, base, s), x)
<1> DEFINE n == Len(s)
           t == Append(s, x)
           ctx == <<c, base, s>>
           ctxt == <<c, base, t>>
           D == SUBSET (1 .. n)
           E == SUBSET (1 .. n + 1)
<1>1. /\ n \in Nat
      /\ DOMAIN s = 1 .. n
      /\ DOMAIN t = 1 .. n + 1
      /\ t[n + 1] = x
      /\ \A i \in 1 .. n : t[i] = s[i]
  OBVIOUS
<1>2. Folded(c, base, s) = R!Solution(ctx, D)[1 .. n]
  BY <1>1, FoldedIsSolution
<1>3. Folded(c, base, t) = R!Solution(ctxt, E)[1 .. n + 1]
  BY <1>1, FoldedIsSolution
<1>4. R!Grounded(D) /\ R!Grounded(E)
  BY <1>1, DomainsGrounded
<1>5. R!Solution(ctxt, E)[1 .. n + 1] = Op(c, R!Solution(ctxt, E)[1 .. n], x)
  <2>1. 1 .. n + 1 \in E /\ 1 .. n + 1 # {}
    <3>1. n + 1 \in 1 .. n + 1
      BY <1>1
    <3> HIDE DEF n
    <3> QED BY <3>1
  <2>2. R!Solution(ctxt, E)[1 .. n + 1] =
            Op(ctxt[1], R!Solution(ctxt, E)[(1 .. n + 1) \ {Latest(1 .. n + 1)}], ctxt[3][Latest(1 .. n + 1)])
    <3> HIDE DEF n, t, ctxt, E
    <3> QED BY <1>4, <2>1, R!SolutionSolves
  <2>3. Latest(1 .. n + 1) = n + 1 /\ (1 .. n + 1) \ {n + 1} = 1 .. n
    BY <1>1, Intervals
  <2> HIDE DEF n, t, E
  <2> QED BY <1>1, <2>2, <2>3
<1>6. \A d \in D : R!Solution(ctx, D)[d] = R!Solution(ctxt, E)[d]
  <2>1. \A d \in D : d # {} => s[Latest(d)] = t[Latest(d)]
    <3> SUFFICES ASSUME NEW d \in D, d # {} PROVE s[Latest(d)] = t[Latest(d)]
      OBVIOUS
    <3>1. Latest(d) \in d
      BY <1>1, LatestBelow
    <3>2. Latest(d) \in 1 .. n
      BY <3>1
    <3> HIDE DEF n, t
    <3> QED BY <1>1, <3>2
  <2>2. R!SameSteps(ctx, ctxt, D)
    <3> HIDE DEF n, t, D
    <3> QED BY <2>1 DEF R!SameSteps
  <2>3. D \subseteq E
    BY <1>1
  <2> HIDE DEF n, t, ctx, ctxt, D, E
  <2> QED BY <1>4, <2>2, <2>3, R!SolutionsAgree
<1>7. 1 .. n \in D
  OBVIOUS
<1> HIDE DEF n, t, ctx, ctxt, D, E
<1>8. R!Solution(ctxt, E)[1 .. n] = Folded(c, base, s)
  BY <1>2, <1>6, <1>7
<1>9. Folded(c, base, t) = Op(c, Folded(c, base, s), x)
  BY <1>3, <1>5, <1>8
<1> QED BY <1>9 DEF t

\* A set with the base, and with what the step makes of its elements, has the
\* result.
LEMMA FoldIn ==
    ASSUME Inductive, NEW c, NEW X, NEW P, NEW base \in P, NEW s \in Seq(X),
           \A acc \in P, x \in X : Op(c, acc, x) \in P
    PROVE  Folded(c, base, s) \in P
<1> DEFINE S == {t \in Seq(X) : Folded(c, base, t) \in P}
<1>1. <<>> \in S
  BY FoldNone
<1>2. \A t \in Seq(X), x \in X : t \in S => Append(t, x) \in S
  BY FoldOn
<1>3. \A t \in Seq(X) : t \in S
  <2> HIDE DEF S
  <2> QED BY <1>1, <1>2, SeqInduction
<1> QED BY <1>3

\* Folding on from where another fold ended.
LEMMA FoldConcat ==
    ASSUME Inductive, NEW c, NEW X, NEW base, NEW s \in Seq(X), NEW t \in Seq(X)
    PROVE  Folded(c, base, s \o t) = Folded(c, Folded(c, base, s), t)
<1> DEFINE S == {u \in Seq(X) : Folded(c, base, s \o u) = Folded(c, Folded(c, base, s), u)}
<1>1. <<>> \in S
  <2>1. s \o <<>> = s
    OBVIOUS
  <2> QED BY <2>1, FoldNone
<1>2. ASSUME NEW u \in Seq(X), NEW x \in X, u \in S PROVE Append(u, x) \in S
  <2>1. s \o u \in Seq(X) /\ s \o Append(u, x) = Append(s \o u, x) /\ Append(u, x) \in Seq(X)
    OBVIOUS
  <2>2. Folded(c, base, Append(s \o u, x)) = Op(c, Folded(c, base, s \o u), x)
    <3> DEFINE v == s \o u
    <3>1. v \in Seq(X)
      BY <2>1
    <3> HIDE DEF v
    <3>2. Folded(c, base, Append(v, x)) = Op(c, Folded(c, base, v), x)
      BY <3>1, FoldOn
    <3> QED BY <3>2 DEF v
  <2>3. Folded(c, Folded(c, base, s), Append(u, x)) = Op(c, Folded(c, Folded(c, base, s), u), x)
    BY FoldOn
  <2> QED BY <1>2, <2>1, <2>2, <2>3
<1>3. \A u \in Seq(X) : u \in S
  <2> HIDE DEF S
  <2> QED BY <1>1, <1>2, SeqInduction
<1> QED BY <1>3

-----------------------------------------------------------------------------
(* Folds over finite sets, element by element as CHOOSE picks them.          *)

Picked(d) == CHOOSE x \in d : TRUE

\* FoldSet(LAMBDA x, acc : Op(c, acc, x), base, S)
SetFolded(c, base, S) ==
    MapThenFoldSet(LAMBDA x, acc : Op(c, acc, x), base, LAMBDA x : x, Picked, S)

\* S is finite, by what Size says of its subsets.
Counted(S) ==
    \A d \in SUBSET S : /\ Size(d) \in Nat
                        /\ \A x \in d : Size(d \ {x}) < Size(d)

\* FoldSet's recursion: its context is the fold's and its base.
T == INSTANCE RecursionFacts WITH
        Bottom <- LAMBDA d : d = {},
        Prev   <- LAMBDA d : d \ {CHOOSE x \in d : TRUE},
        Rank   <- Size,
        Base   <- LAMBDA c, d : c[2],
        Step   <- LAMBDA c, d, acc : Op(c[1], acc, CHOOSE x \in d : TRUE)

LEMMA SetFoldIsSolution ==
    ASSUME NEW c, NEW base, NEW S
    PROVE  SetFolded(c, base, S) = T!Solution(<<c, base>>, SUBSET S)[S]
BY DEF SetFolded, Picked, MapThenFoldSet, T!Solution

LEMMA SubsetsGrounded ==
    ASSUME Inductive, NEW S, Counted(S)
    PROVE  T!Grounded(SUBSET S)
BY DEF T!Grounded, T!Ranked, T!Inductive, Inductive, Counted

\* A set of sets with the empty one, and with each set whose remainder it has, has
\* every subset of a finite set.
LEMMA SubsetInduction ==
    ASSUME Inductive, NEW S, Counted(S), NEW N, {} \in N,
           \A d \in SUBSET S : d # {} /\ d \ {Picked(d)} \in N => d \in N
    PROVE  \A d \in SUBSET S : d \in N
<1> DEFINE M == {n \in Nat : \A d \in SUBSET S : Size(d) <= n => d \in N}
<1>1. \A d \in SUBSET S : d # {} => /\ d \ {Picked(d)} \in SUBSET S
                                    /\ Size(d \ {Picked(d)}) < Size(d)
  BY DEF Picked, Counted
<1>2. \A d \in SUBSET S : Size(d) \in Nat
  BY DEF Counted
<1>3. 0 \in M
  <2> SUFFICES ASSUME NEW d \in SUBSET S, Size(d) <= 0, d # {} PROVE FALSE
    OBVIOUS
  <2> DEFINE e == d \ {Picked(d)}
  <2>1. e \in SUBSET S /\ Size(e) < Size(d)
    BY <1>1
  <2>2. Size(d) \in Nat /\ Size(e) \in Nat
    BY <1>2, <2>1
  <2> HIDE DEF e
  <2> QED BY <2>1, <2>2
<1>4. ASSUME NEW n \in Nat, n \in M PROVE n + 1 \in M
  <2> SUFFICES ASSUME NEW d \in SUBSET S, Size(d) <= n + 1, d # {} PROVE d \in N
    OBVIOUS
  <2>1. /\ d \ {Picked(d)} \in SUBSET S
        /\ Size(d \ {Picked(d)}) < Size(d)
        /\ Size(d) \in Nat
        /\ Size(d \ {Picked(d)}) \in Nat
    BY <1>1, <1>2
  <2>2. d \ {Picked(d)} \in N
    BY <1>4, <2>1
  <2> QED BY <2>2
<1>5. \A n \in Nat : n \in M
  <2> HIDE DEF M
  <2> QED BY <1>3, <1>4 DEF Inductive
<1> QED BY <1>2, <1>5

LEMMA SetFoldNone ==
    ASSUME Inductive, Counted({}), NEW c, NEW base
    PROVE  SetFolded(c, base, {}) = base
<1> DEFINE D == SUBSET {}
           ctx == <<c, base>>
<1>1. T!Grounded(D)
  BY SubsetsGrounded
<1>2. {} \in D
  OBVIOUS
<1>3. SetFolded(c, base, {}) = T!Solution(ctx, D)[{}]
  BY SetFoldIsSolution
<1>4. T!Solution(ctx, D)[{}] = ctx[2]
  <2> HIDE DEF D, ctx
  <2> QED BY <1>1, <1>2, T!SolutionSolves
<1> QED BY <1>3, <1>4

\* The element that CHOOSE picks comes last.
LEMMA SetFoldOn ==
    ASSUME Inductive, NEW c, NEW base, NEW S, Counted(S), S # {}
    PROVE  SetFolded(c, base, S) = Op(c, SetFolded(c, base, S \ {Picked(S)}), Picked(S))
<1> DEFINE D == SUBSET S
           r == S \ {Picked(S)}
           E == SUBSET r
           ctx == <<c, base>>
<1>1. T!Grounded(D) /\ T!Grounded(E)
  <2>1. Counted(r)
    BY DEF Counted
  <2> QED BY <2>1, SubsetsGrounded
<1>2. SetFolded(c, base, S) = T!Solution(ctx, D)[S] /\ SetFolded(c, base, r) = T!Solution(ctx, E)[r]
  BY SetFoldIsSolution
<1>3. S \in D /\ r \in E /\ E \subseteq D
  OBVIOUS
<1>4. T!Solution(ctx, D)[S] = Op(ctx[1], T!Solution(ctx, D)[r], Picked(S))
  <2> HIDE DEF D, ctx
  <2> QED BY <1>1, <1>3, T!SolutionSolves DEF Picked
<1>5. T!Solution(ctx, E)[r] = T!Solution(ctx, D)[r]
  <2>1. T!SameSteps(ctx, ctx, E)
    BY DEF T!SameSteps
  <2> HIDE DEF D, E, r, ctx
  <2> QED BY <1>1, <1>3, <2>1, T!SolutionsAgree
<1> HIDE DEF D, E, r
<1> QED BY <1>2, <1>4, <1>5 DEF r

\* A set with the base, and with what the step makes of its elements, has the
\* result.
LEMMA SetFoldIn ==
    ASSUME Inductive, NEW c, NEW S, Counted(S), NEW P, NEW base \in P,
           \A acc \in P, x \in S : Op(c, acc, x) \in P
    PROVE  SetFolded(c, base, S) \in P
<1> DEFINE N == {d \in SUBSET S : SetFolded(c, base, d) \in P}
<1>1. {} \in N
  <2>1. Counted({})
    BY DEF Counted
  <2> QED BY <2>1, SetFoldNone
<1>2. ASSUME NEW d \in SUBSET S, d # {}, d \ {Picked(d)} \in N PROVE d \in N
  <2>1. Counted(d) /\ Picked(d) \in S
    BY <1>2 DEF Picked, Counted
  <2>2. SetFolded(c, base, d) = Op(c, SetFolded(c, base, d \ {Picked(d)}), Picked(d))
    BY <1>2, <2>1, SetFoldOn
  <2> QED BY <1>2, <2>1, <2>2
<1>3. \A d \in SUBSET S : d \in N
  <2> HIDE DEF N
  <2> QED BY <1>1, <1>2, SubsetInduction
<1> QED BY <1>3
=============================================================================

------------------------- MODULE DurableStoreProofs -------------------------
(***************************************************************************)
(* Proofs about DurableStore: whatever is cut off a log by crashes, a      *)
(* store can be opened again, is not behind what it acknowledged, and      *)
(* holds what was committed at the version it comes back with.             *)
(***************************************************************************)
EXTENDS DurableStore, WellFoundedInduction, FiniteSetTheorems, FunctionTheorems, SequenceTheorems, TLAPS

Slot == Term \cup {Free}
Ops == {"insert", "apply", "delete"}

LogRecord ==
    [kind : {"insert", "apply", "checkpoint"}, version : Nat, first : Nat,
     terms : Seq(Slot), dels : SUBSET Nat, adds : SUBSET Nat]
Entry == LogRecord \cup {Torn}
TierState == [version : Nat, rows : SUBSET Nat]
ReplayState == [ok : BOOLEAN, dict : Seq(Slot), seen : BOOLEAN, mem : TierState]

OneIndex(d) == \A i, k \in DOMAIN d : (d[i] = d[k] /\ d[i] # Free) => i = k

LEMMA FreeNotTerm == Free \notin Term
BY DurableAssumption

LEMMA BoundsNat ==
    /\ MaxVersion \in Nat /\ MaxSlot \in Nat /\ MaxRecords \in Nat
    /\ MaxGen \in Nat /\ MaxCrashes \in Nat
BY DurableAssumption

LEMMA TornIsNoRecord == Torn \notin LogRecord
<1>1. \A rec \in LogRecord : rec.kind # "torn"
  BY DEF LogRecord
<1> QED BY <1>1 DEF Torn

-----------------------------------------------------------------------------
(* Induction over the natural numbers, for a set.                            *)

\* A non-empty set of natural numbers has a least element.
LEMMA LeastElement ==
    ASSUME NEW T, T \subseteq Nat, T # {}
    PROVE  \E n \in T : \A k \in T : n <= k
<1>1. IsWellFoundedOn(OpToRel(<, Nat), Nat)
  BY NatLessThanWellFounded
<1>2. PICK x \in T : \A y \in T : ~(<<y, x>> \in OpToRel(<, Nat))
  BY <1>1, WFMin
<1>3. \A y \in T : ~(y < x)
  BY <1>2 DEF OpToRel
<1> QED BY <1>3

\* A set with 0 and every successor of an element has every natural number.
LEMMA Induction ==
    ASSUME NEW S, 0 \in S, \A n \in Nat : n \in S => n + 1 \in S
    PROVE  \A n \in Nat : n \in S
<1> SUFFICES ASSUME Nat \ S # {} PROVE FALSE
  OBVIOUS
<1>1. PICK n \in Nat \ S : \A k \in Nat \ S : n <= k
  BY LeastElement
<1>2. n # 0
  OBVIOUS
<1>3. n - 1 \in Nat
  BY <1>2
<1>4. n - 1 \in S
  BY <1>1, <1>3
<1>5. n - 1 + 1 \in S
  BY <1>3, <1>4
<1> QED BY <1>5

-----------------------------------------------------------------------------
(* Replaying the terms of a record.                                          *)

TermStep(c, d, t) == ReplayTerm(d, t)
Tm == INSTANCE FoldFacts WITH Op <- TermStep, Size <- Cardinality

LEMMA TmInductive == Tm!Inductive
BY Induction DEF Tm!Inductive

Spelt(d, ts) == FoldLeft(ReplayTerm, d, ts)

LEMMA SpeltFold == \A d, ts : Spelt(d, ts) = Tm!Folded(0, d, ts)
BY DEF Spelt, Tm!Folded, FoldLeft, MapThenFoldSet, Tm!MapThenFoldSet, Max, Tm!Latest, TermStep

LEMMA SpeltNone == \A d : Spelt(d, <<>>) = d
BY SpeltFold, TmInductive, Tm!FoldNone

LEMMA SpeltOn ==
    ASSUME NEW X, NEW d, NEW ts \in Seq(X), NEW t \in X
    PROVE  Spelt(d, Append(ts, t)) = ReplayTerm(Spelt(d, ts), t)
<1>1. Spelt(d, Append(ts, t)) = TermStep(0, Spelt(d, ts), t)
  BY SpeltFold, TmInductive, Tm!FoldOn
<1> QED BY <1>1 DEF TermStep

LEMMA TermType ==
    ASSUME NEW d \in Seq(Slot), NEW t \in Slot
    PROVE  /\ ReplayTerm(d, t) \in Seq(Slot)
           /\ Len(ReplayTerm(d, t)) = Len(d) + 1
           /\ ReplayTerm(d, t)[Len(d) + 1] = t
           /\ \A i \in 1 .. Len(d) : ReplayTerm(d, t)[i] = IF d[i] = t THEN Free ELSE d[i]
<1> DEFINE e == [i \in DOMAIN d |-> IF d[i] = t THEN Free ELSE d[i]]
<1>1. e \in Seq(Slot) /\ Len(e) = Len(d) /\ \A i \in 1 .. Len(d) : e[i] = IF d[i] = t THEN Free ELSE d[i]
  <2>1. DOMAIN d = 1 .. Len(d) /\ Len(d) \in Nat
    OBVIOUS
  <2>2. e \in [1 .. Len(d) -> Slot]
    BY <2>1 DEF Slot
  <2> QED BY <2>1, <2>2
<1>2. ReplayTerm(d, t) = Append(e, t)
  BY DEF ReplayTerm
<1> HIDE DEF e
<1> QED BY <1>1, <1>2

LEMMA TermOneIndex ==
    ASSUME NEW d \in Seq(Slot), NEW t \in Slot, OneIndex(d)
    PROVE  OneIndex(ReplayTerm(d, t))
<1> DEFINE e == ReplayTerm(d, t)
           n == Len(d)
<1>0. n \in Nat
  OBVIOUS
<1>1. /\ e \in Seq(Slot) /\ Len(e) = n + 1
      /\ e[n + 1] = t
      /\ \A i \in 1 .. n : e[i] = IF d[i] = t THEN Free ELSE d[i]
  BY TermType
<1>2. DOMAIN d = 1 .. n /\ DOMAIN e = 1 .. n + 1
  <2> HIDE DEF e
  <2> QED BY <1>1
<1> HIDE DEF e, n
<1> SUFFICES ASSUME NEW i \in 1 .. n + 1, NEW k \in 1 .. n + 1, e[i] = e[k], e[i] # Free
             PROVE  i = k
  BY <1>2 DEF OneIndex, e
<1>3. i \in 1 .. n \/ i = n + 1
  BY <1>0
<1>4. k \in 1 .. n \/ k = n + 1
  BY <1>0
<1> QED BY <1>0, <1>1, <1>2, <1>3, <1>4 DEF OneIndex

LEMMA SpeltOneIndex ==
    ASSUME NEW d \in Seq(Slot), OneIndex(d), NEW ts \in Seq(Slot)
    PROVE  Spelt(d, ts) \in Seq(Slot) /\ OneIndex(Spelt(d, ts))
<1> DEFINE P == {e \in Seq(Slot) : OneIndex(e)}
<1>1. d \in P
  OBVIOUS
<1>2. \A e \in P, t \in Slot : TermStep(0, e, t) \in P
  BY TermType, TermOneIndex DEF TermStep
<1>3. Tm!Folded(0, d, ts) \in P
  <2> HIDE DEF P
  <2> QED BY <1>1, <1>2, TmInductive, Tm!FoldIn
<1> QED BY <1>3, SpeltFold

LEMMA SpeltType ==
    ASSUME NEW d \in Seq(Slot), NEW ts \in Seq(Slot)
    PROVE  Spelt(d, ts) \in Seq(Slot) /\ Len(Spelt(d, ts)) = Len(d) + Len(ts)
<1> DEFINE S == {u \in Seq(Slot) : Spelt(d, u) \in Seq(Slot) /\ Len(Spelt(d, u)) = Len(d) + Len(u)}
<1>1. <<>> \in S
  BY SpeltNone
<1>2. ASSUME NEW u \in Seq(Slot), NEW t \in Slot, u \in S PROVE Append(u, t) \in S
  <2> DEFINE e == Spelt(d, u)
             f == Spelt(d, Append(u, t))
  <2>1. e \in Seq(Slot) /\ Len(e) = Len(d) + Len(u)
    BY <1>2
  <2>2. f = ReplayTerm(e, t)
    BY SpeltOn
  <2>3. Append(u, t) \in Seq(Slot) /\ Len(Append(u, t)) = Len(u) + 1 /\ Len(u) \in Nat /\ Len(d) \in Nat
    OBVIOUS
  <2> HIDE DEF e, f
  <2>4. f \in Seq(Slot) /\ Len(f) = Len(e) + 1
    BY <2>1, <2>2, TermType
  <2>5. f \in Seq(Slot) /\ Len(f) = Len(d) + Len(Append(u, t))
    BY <2>1, <2>3, <2>4
  <2> QED BY <2>3, <2>5 DEF f
<1>3. \A u \in Seq(Slot) : u \in S
  <2> HIDE DEF S
  <2> QED BY <1>1, <1>2, TmInductive, Tm!SeqInduction
<1> QED BY <1>3

\* Terms that differ from each other go to the next indices, and take the older
\* slots that held them out of use.
LEMMA SpeltAt ==
    ASSUME NEW d \in Seq(Slot), NEW ts \in Seq(Term),
           \A i, k \in 1 .. Len(ts) : ts[i] = ts[k] => i = k
    PROVE  /\ \A i \in 1 .. Len(ts) : Spelt(d, ts)[Len(d) + i] = ts[i]
           /\ \A i \in 1 .. Len(d) : (\A k \in 1 .. Len(ts) : ts[k] # d[i]) => Spelt(d, ts)[i] = d[i]
<1> DEFINE Distinct(u) == \A i, k \in 1 .. Len(u) : u[i] = u[k] => i = k
           Placed(u) == \A i \in 1 .. Len(u) : Spelt(d, u)[Len(d) + i] = u[i]
           Kept(u) == \A i \in 1 .. Len(d) : (\A k \in 1 .. Len(u) : u[k] # d[i]) => Spelt(d, u)[i] = d[i]
           S == {u \in Seq(Term) : Distinct(u) => Placed(u) /\ Kept(u)}
<1>1. <<>> \in S
  BY SpeltNone
<1>2. ASSUME NEW u \in Seq(Term), NEW t \in Term, u \in S PROVE Append(u, t) \in S
  <2> DEFINE v == Append(u, t)
             e == Spelt(d, u)
             f == Spelt(d, v)
  <2>0. Len(u) \in Nat /\ Len(d) \in Nat
    OBVIOUS
  <2>1. v \in Seq(Term) /\ Len(v) = Len(u) + 1 /\ v[Len(u) + 1] = t /\ \A i \in 1 .. Len(u) : v[i] = u[i]
    OBVIOUS
  <2>2. u \in Seq(Slot) /\ t \in Slot
    BY DEF Slot
  <2>3. f = ReplayTerm(e, t)
    BY <2>2, SpeltOn
  <2>4. e \in Seq(Slot) /\ Len(e) = Len(d) + Len(u)
    BY <2>2, SpeltType
  <2> HIDE DEF v, e, f
  <2>5. f[Len(e) + 1] = t /\ \A i \in 1 .. Len(e) : f[i] = IF e[i] = t THEN Free ELSE e[i]
    BY <2>2, <2>3, <2>4, TermType
  <2> SUFFICES ASSUME Distinct(v) PROVE Placed(v) /\ Kept(v)
    BY <2>1 DEF v
  <2>6. Distinct(u)
    <3> SUFFICES ASSUME NEW i \in 1 .. Len(u), NEW k \in 1 .. Len(u), u[i] = u[k] PROVE i = k
      OBVIOUS
    <3>1. i \in 1 .. Len(v) /\ k \in 1 .. Len(v) /\ v[i] = v[k]
      BY <2>0, <2>1
    <3> QED BY <3>1
  <2>7. Placed(u) /\ Kept(u)
    BY <1>2, <2>6
  <2>8. ASSUME NEW i \in 1 .. Len(v) PROVE f[Len(d) + i] = v[i]
    <3>1. CASE i = Len(u) + 1
      <4>1. Len(d) + i = Len(e) + 1
        BY <2>0, <2>4, <3>1
      <4> QED BY <2>1, <2>5, <3>1, <4>1
    <3>2. CASE i \in 1 .. Len(u)
      <4>1. Len(d) + i \in 1 .. Len(e)
        BY <2>0, <2>4, <3>2
      <4>2. e[Len(d) + i] = u[i]
        BY <2>7, <3>2 DEF e
      <4>3. i # Len(u) + 1 /\ Len(u) + 1 \in 1 .. Len(v)
        BY <2>0, <2>1, <3>2
      <4>4. v[i] # t
        BY <2>1, <4>3
      <4> QED BY <2>1, <2>5, <3>2, <4>1, <4>2, <4>4
    <3>3. i = Len(u) + 1 \/ i \in 1 .. Len(u)
      BY <2>0, <2>1
    <3> QED BY <3>1, <3>2, <3>3
  <2>9. ASSUME NEW i \in 1 .. Len(d), \A k \in 1 .. Len(v) : v[k] # d[i] PROVE f[i] = d[i]
    <3>1. \A k \in 1 .. Len(u) : u[k] # d[i]
      <4> SUFFICES ASSUME NEW k \in 1 .. Len(u) PROVE u[k] # d[i]
        OBVIOUS
      <4>1. k \in 1 .. Len(v) /\ v[k] = u[k]
        BY <2>0, <2>1
      <4> QED BY <2>9, <4>1
    <3>2. e[i] = d[i]
      BY <2>7, <3>1 DEF e
    <3>3. Len(u) + 1 \in 1 .. Len(v)
      BY <2>0, <2>1
    <3>4. d[i] # t
      BY <2>1, <2>9, <3>3
    <3>5. i \in 1 .. Len(e)
      BY <2>0, <2>4
    <3> QED BY <2>5, <3>2, <3>4, <3>5
  <2> QED BY <2>8, <2>9 DEF f
<1>3. \A u \in Seq(Term) : u \in S
  <2> HIDE DEF S
  <2> QED BY <1>1, <1>2, TmInductive, Tm!SeqInduction
<1>4. ts \in S
  BY <1>3
<1>5. Distinct(ts)
  OBVIOUS
<1>6. Placed(ts) /\ Kept(ts)
  BY <1>4, <1>5
<1> QED BY <1>6

-----------------------------------------------------------------------------
(* Replaying records.                                                        *)

Accepts(st, rec) ==
    /\ rec.terms = <<>> \/ rec.first = Len(st.dict) + 1
    /\ IF rec.kind = "checkpoint"
       THEN ~st.seen /\ (st.mem.version = 0 \/ st.mem.version = rec.version)
       ELSE rec.version = st.mem.version + 1

MemAfter(m, rec) ==
    IF rec.kind = "checkpoint"
    THEN [version |-> rec.version, rows |-> m.rows \cup rec.adds]
    ELSE Applied(m, rec)

LEMMA MemAfterType ==
    ASSUME NEW m \in TierState, NEW rec \in LogRecord
    PROVE  MemAfter(m, rec) \in TierState
BY DEF MemAfter, Applied, TierState, LogRecord

LEMMA RecordStep ==
    ASSUME NEW st \in ReplayState, NEW rec \in LogRecord
    PROVE  LET u == ReplayRecord(st, rec)
           IN  /\ u \in ReplayState
               /\ u.ok <=> (st.ok /\ Accepts(st, rec))
               /\ ~st.ok => u = st
               /\ st.ok => /\ u.dict = Spelt(st.dict, rec.terms)
                           /\ u.mem = MemAfter(st.mem, rec)
                           /\ u.seen <=> (st.seen \/ rec.kind # "checkpoint")
<1> DEFINE u == ReplayRecord(st, rec)
           good == Accepts(st, rec)
           past == st.seen \/ rec.kind # "checkpoint"
           d == Spelt(st.dict, rec.terms)
           m == MemAfter(st.mem, rec)
<1>1. good \in BOOLEAN /\ past \in BOOLEAN
  BY DEF Accepts
<1>2. d \in Seq(Slot) /\ m \in TierState
  <2>1. st.dict \in Seq(Slot) /\ rec.terms \in Seq(Slot) /\ st.mem \in TierState
    BY DEF ReplayState, LogRecord
  <2> QED BY <2>1, SpeltType, MemAfterType
<1>3. u = IF ~st.ok THEN st ELSE [ok |-> good, dict |-> d, seen |-> past, mem |-> m]
  BY DEF ReplayRecord, Accepts, Spelt, MemAfter
<1> HIDE DEF u, good, past, d, m
<1>4. CASE st.ok
  <2>1. u = [ok |-> good, dict |-> d, seen |-> past, mem |-> m]
    BY <1>3, <1>4
  <2>2. u \in ReplayState
    BY <1>1, <1>2, <2>1 DEF ReplayState
  <2>3. u.ok = good /\ u.dict = d /\ u.seen = past /\ u.mem = m
    BY <2>1
  <2> QED BY <1>4, <2>2, <2>3 DEF u, good, past, d, m
<1>5. CASE ~st.ok
  <2>1. u = st
    BY <1>3, <1>5
  <2> QED BY <1>5, <2>1 DEF u
<1> QED BY <1>4, <1>5

RecordFold(c, st, rec) == ReplayRecord(st, rec)
Rc == INSTANCE FoldFacts WITH Op <- RecordFold, Size <- Cardinality

LEMMA RcInductive == Rc!Inductive
BY Induction DEF Rc!Inductive

Start(b) ==
    [ok |-> TRUE, dict |-> b, seen |-> FALSE, mem |-> [version |-> 0, rows |-> {}]]
Rep(b, recs) == FoldLeft(ReplayRecord, Start(b), recs)

\* What the model replays is a replay from the generation's base.
LEMMA ReplayedIsRep == \A g, recs : Replayed(g, recs) = Rep(base[g], recs)
BY DEF Replayed, Rep, ReplayStart, Start

LEMMA RepFold == \A b, recs : Rep(b, recs) = Rc!Folded(0, Start(b), recs)
BY DEF Rep, Rc!Folded, FoldLeft, MapThenFoldSet, Rc!MapThenFoldSet, Max, Rc!Latest, RecordFold

LEMMA RepNone == \A b : Rep(b, <<>>) = Start(b)
BY RepFold, RcInductive, Rc!FoldNone

LEMMA RepOn ==
    ASSUME NEW b, NEW recs \in Seq(LogRecord), NEW rec \in LogRecord
    PROVE  Rep(b, Append(recs, rec)) = ReplayRecord(Rep(b, recs), rec)
<1>1. Rep(b, Append(recs, rec)) = RecordFold(0, Rep(b, recs), rec)
  BY RepFold, RcInductive, Rc!FoldOn
<1> QED BY <1>1 DEF RecordFold

LEMMA StartType ==
    ASSUME NEW b \in Seq(Slot)
    PROVE  Start(b) \in ReplayState
BY DEF Start, ReplayState, TierState

LEMMA RepType ==
    ASSUME NEW b \in Seq(Slot), NEW recs \in Seq(LogRecord)
    PROVE  Rep(b, recs) \in ReplayState
<1>1. \A st \in ReplayState, rec \in LogRecord : RecordFold(0, st, rec) \in ReplayState
  BY RecordStep DEF RecordFold
<1>2. Rc!Folded(0, Start(b), recs) \in ReplayState
  BY <1>1, StartType, RcInductive, Rc!FoldIn
<1> QED BY <1>2, RepFold

LEMMA RepOneIndex ==
    ASSUME NEW b \in Seq(Slot), OneIndex(b), NEW recs \in Seq(LogRecord)
    PROVE  OneIndex(Rep(b, recs).dict)
<1> DEFINE P == {st \in ReplayState : OneIndex(st.dict)}
<1>1. Start(b) \in P
  BY StartType DEF Start
<1>2. ASSUME NEW st \in P, NEW rec \in LogRecord PROVE RecordFold(0, st, rec) \in P
  <2> DEFINE u == ReplayRecord(st, rec)
  <2>1. u \in ReplayState /\ (~st.ok => u = st) /\ (st.ok => u.dict = Spelt(st.dict, rec.terms))
    BY RecordStep
  <2>2. st.dict \in Seq(Slot) /\ rec.terms \in Seq(Slot) /\ st.ok \in BOOLEAN /\ OneIndex(st.dict)
    BY DEF ReplayState, LogRecord
  <2>3. OneIndex(Spelt(st.dict, rec.terms))
    BY <2>2, SpeltOneIndex
  <2> HIDE DEF u
  <2>4. OneIndex(u.dict)
    BY <2>1, <2>2, <2>3
  <2> QED BY <2>1, <2>4 DEF u, RecordFold
<1>3. Rc!Folded(0, Start(b), recs) \in P
  <2> HIDE DEF P
  <2> QED BY <1>1, <1>2, RcInductive, Rc!FoldIn
<1> QED BY <1>3, RepFold

\* A replay that gets to the end got to every record before it, and its clock
\* never went back.
LEMMA StepForward ==
    ASSUME NEW st \in ReplayState, NEW rec \in LogRecord, ReplayRecord(st, rec).ok
    PROVE  st.ok /\ st.mem.version <= ReplayRecord(st, rec).mem.version
<1>1. st.ok /\ Accepts(st, rec) /\ ReplayRecord(st, rec).mem = MemAfter(st.mem, rec)
  BY RecordStep
<1>2. st.mem \in TierState /\ st.mem.version \in Nat
  BY DEF ReplayState, TierState
<1>3. CASE rec.kind = "checkpoint"
  BY <1>1, <1>2, <1>3 DEF Accepts, MemAfter, LogRecord
<1>4. CASE rec.kind # "checkpoint"
  <2>1. rec.version = st.mem.version + 1 /\ MemAfter(st.mem, rec) = Applied(st.mem, rec)
    BY <1>1, <1>4 DEF Accepts, MemAfter
  <2>2. Applied(st.mem, rec).version \in {rec.version, st.mem.version}
    BY DEF Applied
  <2> QED BY <1>1, <1>2, <2>1, <2>2
<1> QED BY <1>3, <1>4

Cut(recs, k) == SubSeq(recs, 1, k)

LEMMA CutType ==
    ASSUME NEW X, NEW s \in Seq(X), NEW k \in 0 .. Len(s)
    PROVE  /\ Cut(s, k) \in Seq(X) /\ Len(Cut(s, k)) = k
           /\ \A i \in 1 .. k : Cut(s, k)[i] = s[i]
BY DEF Cut

LEMMA CutAll ==
    ASSUME NEW X, NEW s \in Seq(X)
    PROVE  Cut(s, Len(s)) = s
<1>1. /\ Cut(s, Len(s)) \in Seq(X) /\ Len(Cut(s, Len(s))) = Len(s)
      /\ \A i \in 1 .. Len(s) : Cut(s, Len(s))[i] = s[i]
  BY CutType
<1> QED BY <1>1, SeqEqual

LEMMA CutAppend ==
    ASSUME NEW X, NEW s \in Seq(X), NEW x \in X, NEW k \in 0 .. Len(s)
    PROVE  Cut(Append(s, x), k) = Cut(s, k)
<1> DEFINE t == Append(s, x)
<1>1. t \in Seq(X) /\ Len(t) = Len(s) + 1 /\ \A i \in 1 .. Len(s) : t[i] = s[i]
  OBVIOUS
<1>2. k \in 0 .. Len(t)
  BY <1>1
<1> HIDE DEF t
<1>3. Cut(t, k) \in Seq(X) /\ Len(Cut(t, k)) = k /\ \A i \in 1 .. k : Cut(t, k)[i] = t[i]
  BY <1>1, <1>2, CutType
<1>4. Cut(s, k) \in Seq(X) /\ Len(Cut(s, k)) = k /\ \A i \in 1 .. k : Cut(s, k)[i] = s[i]
  BY CutType
<1>5. \A i \in 1 .. k : Cut(t, k)[i] = Cut(s, k)[i]
  BY <1>1, <1>3, <1>4
<1>6. Cut(t, k) = Cut(s, k)
  BY <1>3, <1>4, <1>5, SeqEqual
<1> QED BY <1>6 DEF t

LEMMA CutCut ==
    ASSUME NEW X, NEW s \in Seq(X), NEW k \in 0 .. Len(s), NEW j \in 0 .. k
    PROVE  Cut(Cut(s, k), j) = Cut(s, j)
<1> DEFINE t == Cut(s, k)
<1>1. t \in Seq(X) /\ Len(t) = k /\ \A i \in 1 .. k : t[i] = s[i]
  BY CutType
<1>2. j \in 0 .. Len(s)
  OBVIOUS
<1>3. Cut(s, j) \in Seq(X) /\ Len(Cut(s, j)) = j /\ \A i \in 1 .. j : Cut(s, j)[i] = s[i]
  BY <1>2, CutType
<1> HIDE DEF t
<1>4. Cut(t, j) \in Seq(X) /\ Len(Cut(t, j)) = j /\ \A i \in 1 .. j : Cut(t, j)[i] = t[i]
  BY <1>1, CutType
<1>5. \A i \in 1 .. j : Cut(t, j)[i] = Cut(s, j)[i]
  BY <1>1, <1>3, <1>4
<1>6. Cut(t, j) = Cut(s, j)
  BY <1>3, <1>4, <1>5, SeqEqual
<1> QED BY <1>6 DEF t

LEMMA RepForward ==
    ASSUME NEW b \in Seq(Slot), NEW recs \in Seq(LogRecord), NEW k \in 0 .. Len(recs), Rep(b, recs).ok
    PROVE  /\ Rep(b, Cut(recs, k)).ok
           /\ Rep(b, Cut(recs, k)).mem.version <= Rep(b, recs).mem.version
<1> DEFINE S == {s \in Seq(LogRecord) : Rep(b, s).ok =>
                    \A j \in 0 .. Len(s) :
                       /\ Rep(b, Cut(s, j)).ok
                       /\ Rep(b, Cut(s, j)).mem.version <= Rep(b, s).mem.version}
<1>0. ASSUME NEW s \in Seq(LogRecord) PROVE Rep(b, s).mem.version \in Nat /\ Rep(b, s) \in ReplayState
  BY RepType DEF ReplayState, TierState
<1>1. <<>> \in S
  <2>1. \A j \in 0 .. Len(<<>>) : Cut(<<>>, j) = <<>>
    BY DEF Cut
  <2>2. <<>> \in Seq(LogRecord) /\ Start(b).mem.version = 0 /\ Start(b).ok
    BY DEF Start
  <2> QED BY <2>1, <2>2, RepNone
<1>2. ASSUME NEW s \in Seq(LogRecord), NEW rec \in LogRecord, s \in S PROVE Append(s, rec) \in S
  <2> DEFINE t == Append(s, rec)
             u == Rep(b, s)
             v == Rep(b, t)
  <2>1. t \in Seq(LogRecord) /\ Len(t) = Len(s) + 1 /\ Len(s) \in Nat
    OBVIOUS
  <2>2. v = ReplayRecord(u, rec)
    BY RepOn
  <2>3. u \in ReplayState /\ u.mem.version \in Nat
    BY <1>0
  <2>4. Cut(t, Len(t)) = t
    BY <2>1, CutAll
  <2>5. \A j \in 0 .. Len(s) : Cut(t, j) = Cut(s, j)
    BY CutAppend
  <2>6. v.mem.version \in Nat
    BY <1>0, <2>1
  <2> SUFFICES ASSUME v.ok, NEW j \in 0 .. Len(t)
               PROVE  Rep(b, Cut(t, j)).ok /\ Rep(b, Cut(t, j)).mem.version <= v.mem.version
    BY <2>1
  <2> HIDE DEF t, u, v
  <2>7. u.ok /\ u.mem.version <= v.mem.version
    BY <2>2, <2>3, StepForward
  <2>8. CASE j = Len(t)
    BY <2>4, <2>6, <2>8 DEF v
  <2>9. CASE j \in 0 .. Len(s)
    <3>1. Cut(t, j) = Cut(s, j)
      BY <2>5, <2>9
    <3>2. Rep(b, Cut(s, j)).ok /\ Rep(b, Cut(s, j)).mem.version <= u.mem.version
      BY <1>2, <2>7, <2>9 DEF u
    <3>3. Cut(s, j) \in Seq(LogRecord)
      BY <2>9, CutType
    <3>4. Rep(b, Cut(s, j)).mem.version \in Nat
      BY <1>0, <3>3
    <3> QED BY <2>3, <2>6, <2>7, <3>1, <3>2, <3>4
  <2>10. j = Len(t) \/ j \in 0 .. Len(s)
    BY <2>1
  <2> QED BY <2>8, <2>9, <2>10
<1>3. \A s \in Seq(LogRecord) : s \in S
  <2> HIDE DEF S
  <2> QED BY <1>1, <1>2, RcInductive, Rc!SeqInduction
<1> QED BY <1>3

-----------------------------------------------------------------------------
(* What can be read of a file, and what a checkpoint writes.                 *)

Clean(recs, k) == \A i \in 1 .. k : recs[i] # Torn

LEMMA CleanRecords ==
    ASSUME NEW recs \in Seq(Entry), NEW k \in 0 .. Len(recs), Clean(recs, k)
    PROVE  Cut(recs, k) \in Seq(LogRecord)
<1>1. Cut(recs, k) \in Seq(Entry) /\ Len(Cut(recs, k)) = k /\ \A i \in 1 .. k : Cut(recs, k)[i] = recs[i]
  BY CutType
<1>2. \A i \in 1 .. k : recs[i] \in LogRecord
  BY DEF Clean, Entry
<1> QED BY <1>1, <1>2

LEMMA ReadableIs ==
    ASSUME NEW recs \in Seq(Entry)
    PROVE  \E k \in 0 .. Len(recs) :
              /\ Readable(recs) = Cut(recs, k)
              /\ Clean(recs, k)
              /\ k < Len(recs) => recs[k + 1] = Torn
<1> DEFINE I == {i \in 1 .. Len(recs) : recs[i] = Torn}
<1>1. Intact(recs) = IF I # {} THEN Min(I) ELSE 0
  BY DEF Intact, SelectInSeq
<1>2. CASE I = {}
  <2>1. Readable(recs) = recs
    BY <1>1, <1>2 DEF Readable
  <2>2. Cut(recs, Len(recs)) = recs
    BY CutAll
  <2>3. Len(recs) \in 0 .. Len(recs) /\ ~(Len(recs) < Len(recs)) /\ Clean(recs, Len(recs))
    BY <1>2 DEF Clean
  <2> QED BY <2>1, <2>2, <2>3
<1>3. CASE I # {}
  <2>1. I \subseteq Nat
    OBVIOUS
  <2>2. PICK n \in I : \A y \in I : n <= y
    BY <1>3, <2>1, LeastElement
  <2>3. Min(I) \in I /\ \A y \in I : Min(I) <= y
    BY <2>2 DEF Min
  <2> DEFINE m == Min(I)
  <2>4. m \in 1 .. Len(recs) /\ recs[m] = Torn
    BY <2>3
  <2>5. Readable(recs) = Cut(recs, m - 1)
    <3>1. Intact(recs) = m /\ m # 0
      BY <1>1, <1>3, <2>4
    <3> HIDE DEF m
    <3> QED BY <3>1 DEF Readable, Cut
  <2> HIDE DEF m
  <2>6. m - 1 \in 0 .. Len(recs) /\ (m - 1) + 1 = m
    BY <2>4
  <2>7. Clean(recs, m - 1)
    <3> SUFFICES ASSUME NEW i \in 1 .. m - 1 PROVE recs[i] # Torn
      BY DEF Clean
    <3>1. i \in 1 .. Len(recs) /\ ~(m <= i)
      BY <2>4
    <3> QED BY <2>3, <3>1 DEF m
  <2> QED BY <2>4, <2>5, <2>6, <2>7
<1> QED BY <1>2, <1>3

\* A file whose only torn frame, if any, is its last one.
LEMMA ReadableCut ==
    ASSUME NEW recs \in Seq(Entry), NEW k \in 0 .. Len(recs), Clean(recs, k),
           k < Len(recs) => recs[k + 1] = Torn
    PROVE  Readable(recs) = Cut(recs, k)
<1>1. PICK j \in 0 .. Len(recs) : /\ Readable(recs) = Cut(recs, j)
                                  /\ Clean(recs, j)
                                  /\ j < Len(recs) => recs[j + 1] = Torn
  BY ReadableIs
<1>2. ~(j < k)
  <2> SUFFICES ASSUME j < k PROVE FALSE
    OBVIOUS
  <2>1. j + 1 \in 1 .. k /\ j < Len(recs)
    OBVIOUS
  <2> QED BY <1>1, <2>1 DEF Clean
<1>3. ~(k < j)
  <2> SUFFICES ASSUME k < j PROVE FALSE
    OBVIOUS
  <2>1. k + 1 \in 1 .. j /\ k < Len(recs)
    OBVIOUS
  <2> QED BY <1>1, <2>1 DEF Clean
<1>4. j = k
  BY <1>2, <1>3
<1> QED BY <1>1, <1>4

-----------------------------------------------------------------------------
Chunk(rec) == rec.kind = "checkpoint" /\ rec.terms = <<>>

\* Chunks say nothing about the dictionary, and bring no other rows than theirs.
LEMMA ChunksBound ==
    ASSUME NEW b \in Seq(Slot), NEW v \in Nat, NEW R, NEW recs \in Seq(LogRecord),
           \A i \in 1 .. Len(recs) : Chunk(recs[i]) /\ recs[i].version <= v /\ recs[i].adds \subseteq R
    PROVE  LET st == Rep(b, recs)
           IN  st.dict = b /\ st.mem.version <= v /\ st.mem.rows \subseteq R
<1> DEFINE P == {st \in ReplayState : st.dict = b /\ st.mem.version <= v /\ st.mem.rows \subseteq R}
           X == {rec \in LogRecord : Chunk(rec) /\ rec.version <= v /\ rec.adds \subseteq R}
<1>1. Start(b) \in P
  BY StartType DEF Start
<1>2. ASSUME NEW st \in P, NEW rec \in X PROVE RecordFold(0, st, rec) \in P
  <2> DEFINE u == ReplayRecord(st, rec)
  <2>1. /\ u \in ReplayState /\ (~st.ok => u = st)
        /\ st.ok => u.dict = Spelt(st.dict, rec.terms) /\ u.mem = MemAfter(st.mem, rec)
    BY RecordStep
  <2>2. Spelt(st.dict, rec.terms) = b
    BY SpeltNone DEF Chunk
  <2>3. MemAfter(st.mem, rec) = [version |-> rec.version, rows |-> st.mem.rows \cup rec.adds]
    BY DEF MemAfter, Chunk
  <2>4. MemAfter(st.mem, rec).version <= v /\ MemAfter(st.mem, rec).rows \subseteq R
    BY <2>3
  <2>5. st.ok \in BOOLEAN
    BY DEF ReplayState
  <2> HIDE DEF u
  <2>6. u \in P
    BY <2>1, <2>2, <2>4, <2>5
  <2> QED BY <2>6 DEF u, RecordFold
<1>3. recs \in Seq(X)
  <2>1. \A i \in 1 .. Len(recs) : recs[i] \in X
    OBVIOUS
  <2> HIDE DEF X
  <2> QED BY <2>1
<1>4. Rc!Folded(0, Start(b), recs) \in P
  <2> HIDE DEF P, X
  <2> QED BY <1>1, <1>2, <1>3, RcInductive, Rc!FoldIn
<1> QED BY <1>4, RepFold

\* Chunks of one checkpoint replay to its version and their rows.
LEMMA ChunksReplay ==
    ASSUME NEW b \in Seq(Slot), NEW v \in Nat, NEW recs \in Seq(LogRecord), recs # <<>>,
           \A i \in 1 .. Len(recs) : Chunk(recs[i]) /\ recs[i].version = v
    PROVE  LET st == Rep(b, recs)
           IN  /\ st.ok /\ st.dict = b
               /\ st.mem = [version |-> v, rows |-> UNION {recs[i].adds : i \in 1 .. Len(recs)}]
<1> DEFINE Rows(s) == UNION {s[i].adds : i \in 1 .. Len(s)}
           Chunked(s) == \A i \in 1 .. Len(s) : Chunk(s[i]) /\ s[i].version = v
           Clock(s) == IF s = <<>> THEN 0 ELSE v
           Done(s) == LET st == Rep(b, s)
                      IN  st.ok /\ st.dict = b /\ ~st.seen /\ st.mem = [version |-> Clock(s), rows |-> Rows(s)]
           S == {s \in Seq(LogRecord) : Chunked(s) => Done(s)}
<1>1. <<>> \in S
  <2>1. Rows(<<>>) = {}
    OBVIOUS
  <2>2. Rep(b, <<>>) = Start(b)
    BY RepNone
  <2>3. /\ Start(b).ok /\ Start(b).dict = b /\ ~Start(b).seen
        /\ Start(b).mem = [version |-> 0, rows |-> {}]
    BY DEF Start
  <2>4. Done(<<>>)
    <3> HIDE DEF Rows
    <3> QED BY <2>1, <2>2, <2>3
  <2> QED BY <2>4
<1>2. ASSUME NEW s \in Seq(LogRecord), NEW rec \in LogRecord, s \in S PROVE Append(s, rec) \in S
  <2> DEFINE t == Append(s, rec)
             st == Rep(b, s)
             u == Rep(b, t)
  <2>1. t \in Seq(LogRecord) /\ Len(t) = Len(s) + 1 /\ Len(s) \in Nat /\ t[Len(s) + 1] = rec
        /\ t # <<>> /\ \A i \in 1 .. Len(s) : t[i] = s[i]
    OBVIOUS
  <2> SUFFICES ASSUME Chunked(t) PROVE Done(t)
    BY <2>1
  <2>2. u = ReplayRecord(st, rec)
    BY RepOn
  <2>3. st \in ReplayState
    BY RepType
  <2> HIDE DEF t, st, u
  <2>4. Chunked(s)
    <3> SUFFICES ASSUME NEW i \in 1 .. Len(s) PROVE Chunk(s[i]) /\ s[i].version = v
      OBVIOUS
    <3>1. i \in 1 .. Len(t) /\ t[i] = s[i]
      BY <2>1
    <3> QED BY <3>1
  <2>5. st.ok /\ st.dict = b /\ ~st.seen /\ st.mem = [version |-> Clock(s), rows |-> Rows(s)]
    BY <1>2, <2>4 DEF st
  <2>6. Chunk(rec) /\ rec.version = v
    <3>1. Len(s) + 1 \in 1 .. Len(t)
      BY <2>1
    <3> QED BY <2>1, <3>1
  <2>7. Accepts(st, rec)
    BY <2>5, <2>6 DEF Accepts, Chunk
  <2>8. /\ u.ok /\ u.dict = Spelt(st.dict, rec.terms)
        /\ u.mem = MemAfter(st.mem, rec) /\ ~u.seen
    BY <2>2, <2>3, <2>5, <2>6, <2>7, RecordStep DEF Chunk
  <2>9. u.dict = b
    BY <2>5, <2>6, <2>8, SpeltNone DEF Chunk
  <2>10. Rows(t) = Rows(s) \cup rec.adds
    <3>1. 1 .. Len(t) = (1 .. Len(s)) \cup {Len(s) + 1}
      BY <2>1
    <3>2. {t[i].adds : i \in 1 .. Len(t)} = {t[i].adds : i \in 1 .. Len(s)} \cup {rec.adds}
      BY <2>1, <3>1
    <3>3. {t[i].adds : i \in 1 .. Len(s)} = {s[i].adds : i \in 1 .. Len(s)}
      BY <2>1
    <3> QED BY <3>2, <3>3
  <2>11. u.mem = [version |-> v, rows |-> Rows(t)]
    <3> HIDE DEF Rows, Clock
    <3> QED BY <2>5, <2>6, <2>8, <2>10 DEF MemAfter, Chunk
  <2> QED BY <2>1, <2>8, <2>9, <2>11 DEF u
<1>3. \A s \in Seq(LogRecord) : s \in S
  <2> HIDE DEF S
  <2> QED BY <1>1, <1>2, RcInductive, Rc!SeqInduction
<1>4. Chunked(recs) /\ recs \in S
  BY <1>3
<1>5. Done(recs)
  BY <1>4
<1> QED BY <1>5

LEMMA ListedAll ==
    ASSUME NEW S, IsFiniteSet(S)
    PROVE  SetToSeq(S) \in Seq(S) /\ S = {SetToSeq(S)[i] : i \in 1 .. Len(SetToSeq(S))}
<1> DEFINE n == Cardinality(S)
           f == SetToSeq(S)
<1>1. n \in Nat /\ ExistsBijection(1 .. n, S)
  BY FS_CardinalityType
<1>2. \E g \in [1 .. n -> S] : IsInjective(g)
  BY <1>1 DEF ExistsBijection, Bijection, Injection
<1>3. f \in [1 .. n -> S] /\ IsInjective(f)
  BY <1>2 DEF SetToSeq
<1>4. f \in Injection(1 .. n, S)
  BY <1>3 DEF Injection
<1>5. IsFiniteSet(1 .. n) /\ Cardinality(1 .. n) = n
  BY <1>1, FS_Interval
<1>6. f \in Surjection(1 .. n, S)
  <2> HIDE DEF f
  <2> QED BY <1>4, <1>5, FS_Injection
<1>7. f \in Seq(S) /\ Len(f) = n
  <2> HIDE DEF f, n
  <2> QED BY <1>1, <1>3
<1>8. S = {f[i] : i \in 1 .. n}
  <2> HIDE DEF f, n
  <2> QED BY <1>3, <1>6 DEF Surjection
<1> QED BY <1>7, <1>8

LEMMA CkRecordsAre ==
    ASSUME mem \in TierState, IsFiniteSet(mem.rows)
    PROVE  /\ CkRecords \in Seq(LogRecord) /\ CkRecords # <<>>
           /\ \A i \in 1 .. Len(CkRecords) :
                 /\ Chunk(CkRecords[i]) /\ CkRecords[i].version = mem.version
                 /\ CkRecords[i].adds \subseteq mem.rows
           /\ UNION {CkRecords[i].adds : i \in 1 .. Len(CkRecords)} = mem.rows
<1> DEFINE rows == SetToSeq(mem.rows)
           n == Len(rows)
           front == [i \in 1 .. n |-> CkRecord({rows[i]})]
           all == front \o <<CkRecord({})>>
<1>1. rows \in Seq(mem.rows) /\ mem.rows = {rows[i] : i \in 1 .. n}
  BY ListedAll
<1>2. CkRecords = all
  BY DEF CkRecords
<1>3. \A R \in SUBSET mem.rows :
         /\ CkRecord(R) \in LogRecord /\ Chunk(CkRecord(R))
         /\ CkRecord(R).version = mem.version /\ CkRecord(R).adds = R
  BY DEF CkRecord, LogRecord, Chunk, TierState
<1> HIDE DEF rows
<1>4. n \in Nat /\ \A i \in 1 .. n : rows[i] \in mem.rows
  BY <1>1
<1>5. front \in Seq(LogRecord) /\ Len(front) = n /\ \A i \in 1 .. n : front[i] = CkRecord({rows[i]})
  <2>1. \A i \in 1 .. n : CkRecord({rows[i]}) \in LogRecord
    BY <1>3, <1>4
  <2> HIDE DEF n
  <2> QED BY <1>4, <2>1
<1>6. CkRecord({}) \in LogRecord
  BY <1>3
<1>7. /\ all \in Seq(LogRecord) /\ Len(all) = n + 1
      /\ \A i \in 1 .. n : all[i] = CkRecord({rows[i]})
      /\ all[n + 1] = CkRecord({})
  <2> DEFINE last == CkRecord({})
  <2> HIDE DEF front, n, last
  <2> QED BY <1>4, <1>5, <1>6 DEF last
<1> HIDE DEF all, front, n
<1>8. \A i \in 1 .. n + 1 : \E R \in SUBSET mem.rows : all[i] = CkRecord(R)
  <2> SUFFICES ASSUME NEW i \in 1 .. n + 1 PROVE \E R \in SUBSET mem.rows : all[i] = CkRecord(R)
    OBVIOUS
  <2>1. i \in 1 .. n \/ i = n + 1
    BY <1>4
  <2>2. {} \in SUBSET mem.rows /\ \A j \in 1 .. n : {rows[j]} \in SUBSET mem.rows
    BY <1>4
  <2> QED BY <1>7, <2>1, <2>2
<1>9. UNION {all[i].adds : i \in 1 .. n + 1} = mem.rows
  <2>1. ASSUME NEW x \in mem.rows PROVE \E i \in 1 .. n + 1 : x \in all[i].adds
    <3>1. PICK i \in 1 .. n : x = rows[i]
      BY <1>1 DEF n
    <3>2. {x} \in SUBSET mem.rows /\ i \in 1 .. n + 1
      BY <1>4
    <3>3. all[i] = CkRecord({x}) /\ CkRecord({x}).adds = {x}
      BY <1>3, <1>7, <3>1, <3>2
    <3> QED BY <3>2, <3>3
  <2>2. \A i \in 1 .. n + 1 : all[i].adds \subseteq mem.rows
    BY <1>3, <1>8
  <2> QED BY <2>1, <2>2
<1>10. all # <<>>
  BY <1>4, <1>7
<1> QED BY <1>2, <1>3, <1>7, <1>8, <1>9, <1>10

-----------------------------------------------------------------------------
(* The shape of the state, whatever faults and crashes did.                  *)

Appending == lock.pc \in {"sync", "install"}
Checkpointing == lock.pc \in {"wal", "wal_sync", "manifest", "dir_sync", "reopen"}

DictTypes == dict \in Seq(Slot) /\ Len(dict) <= MaxSlot /\ OneIndex(dict)
MemTypes == mem \in TierState /\ mem.version <= MaxVersion /\ mem.rows \subseteq 1 .. Len(dict)
WriterTypes ==
    /\ writer \in [Writer -> [pc : {"idle", "holding"}, kind : Ops \cup {"none"}, id : Nat]]
    /\ \A w \in Writer : writer[w].pc = "holding" =>
          /\ writer[w].kind \in Ops
          /\ writer[w].id \in 1 .. Len(dict) /\ dict[writer[w].id] # Free
LogTypes ==
    /\ log \in [gen : Gen, file : Gen, logged : Nat, dirty : BOOLEAN, policy : Policies]
    /\ log.file <= log.gen /\ log.logged <= Len(dict)
FileTypes ==
    /\ wal \in [Gen -> [recs : Seq(Entry), synced : Nat]]
    /\ \A g \in Gen : wal[g].synced <= Len(wal[g].recs)
    /\ base \in [Gen -> Seq(Slot)]
    /\ \A g \in Gen : Len(base[g]) <= MaxSlot /\ OneIndex(base[g])
    /\ manifest \in [now : Gen, stable : Gen]
PromiseTypes == acked \in Nat /\ durable \in Nat /\ fault \in {"none", "marked", "lost"}

\* The log's lock: who holds it, and what cannot change under it.
LockTypes ==
    /\ status \in {"up", "down", "opening", "broken"}
    /\ lock \in [pc : {"free", "sync", "install", "wal", "wal_sync", "manifest", "dir_sync", "reopen"},
                 kind : Ops \cup {"none", "sweep"}, who : SUBSET Writer, id : Nat, slots : Nat]
    /\ lock.pc # "free" => log.logged <= lock.slots /\ lock.slots <= Len(dict)
    /\ Appending => /\ mem.version < MaxVersion /\ lock.kind \in Ops \cup {"sweep"}
                    /\ lock.kind # "sweep" => lock.id \in 1 .. lock.slots /\ dict[lock.id] # Free
    /\ Checkpointing => log.gen < MaxGen /\ mem.rows \subseteq 1 .. lock.slots
    /\ Sweeping => /\ Appending /\ lock.slots = Len(dict)
                   /\ \A w \in Writer : writer[w].pc = "idle"
    /\ \A i \in 1 .. Len(dict) : i > log.logged => dict[i] # Free
    /\ status # "up" => lock = Unlocked /\ dict = <<>>

Types ==
    /\ DictTypes /\ MemTypes /\ WriterTypes /\ LogTypes /\ FileTypes /\ PromiseTypes /\ LockTypes

-----------------------------------------------------------------------------
(* What a batch does.                                                        *)

Effect(m, kind, id) ==
    IF kind = "insert" \/ (kind = "apply" /\ id \notin m.rows)
    THEN [version |-> m.version + 1, rows |-> m.rows \cup {id}]
    ELSE IF kind = "delete" /\ id \in m.rows
         THEN [version |-> m.version + 1, rows |-> m.rows \ {id}]
         ELSE m

LEMMA BatchFields ==
    ASSUME NEW kind \in Ops \cup {"sweep"}, NEW id
    PROVE  LET rec == BatchRecord(kind, id)
           IN  /\ rec.version = mem.version + 1 /\ rec.first = log.logged + 1
               /\ rec.terms = SubSeq(dict, log.logged + 1, Len(dict))
               /\ rec.kind = IF kind = "insert" THEN "insert" ELSE "apply"
               /\ rec.dels = IF kind = "delete" THEN {id} ELSE {}
               /\ rec.adds = IF kind \in {"insert", "apply"} THEN {id} ELSE {}
<1>1. CASE kind = "insert" BY <1>1 DEF BatchRecord, Record
<1>2. CASE kind = "apply" BY <1>2 DEF BatchRecord, Record
<1>3. CASE kind = "delete" BY <1>3 DEF BatchRecord, Record
<1>4. CASE kind = "sweep" BY <1>4 DEF BatchRecord, Record
<1> QED BY <1>1, <1>2, <1>3, <1>4 DEF Ops

LEMMA EffectIs ==
    ASSUME NEW m \in TierState, m.version = mem.version, NEW kind \in Ops \cup {"sweep"}, NEW id
    PROVE  /\ Applied(m, BatchRecord(kind, id)) = Effect(m, kind, id)
           /\ MemAfter(m, BatchRecord(kind, id)) = Effect(m, kind, id)
<1> DEFINE rec == BatchRecord(kind, id)
<1>1. /\ rec.kind = IF kind = "insert" THEN "insert" ELSE "apply"
      /\ rec.version = m.version + 1
      /\ rec.dels = IF kind = "delete" THEN {id} ELSE {}
      /\ rec.adds = IF kind \in {"insert", "apply"} THEN {id} ELSE {}
  BY BatchFields
<1> HIDE DEF rec
<1>2. m = [version |-> m.version, rows |-> m.rows]
  BY DEF TierState
<1>3. Applied(m, rec) = Effect(m, kind, id)
  <2>1. CASE kind = "insert"
    <3>1. (m.rows \ rec.dels) \cup rec.adds = m.rows \cup {id}
      BY <1>1, <2>1
    <3> QED BY <1>1, <2>1, <3>1 DEF Applied, Effect
  <2>2. CASE kind = "apply"
    <3>1. (m.rows \ rec.dels) \cup rec.adds = m.rows \cup {id}
      BY <1>1, <2>2
    <3>2. (rec.dels \cap m.rows # {} \/ rec.adds \ (m.rows \ rec.dels) # {}) <=> id \notin m.rows
      BY <1>1, <2>2
    <3> QED BY <1>1, <2>2, <3>1, <3>2 DEF Applied, Effect
  <2>3. CASE kind = "delete"
    <3>1. (m.rows \ rec.dels) \cup rec.adds = m.rows \ {id}
      BY <1>1, <2>3
    <3>2. (rec.dels \cap m.rows # {} \/ rec.adds \ (m.rows \ rec.dels) # {}) <=> id \in m.rows
      BY <1>1, <2>3
    <3> QED BY <1>1, <2>3, <3>1, <3>2 DEF Applied, Effect
  <2>4. CASE kind = "sweep"
    <3>1. ~(rec.dels \cap m.rows # {} \/ rec.adds \ (m.rows \ rec.dels) # {})
      BY <1>1, <2>4
    <3> QED BY <1>1, <2>4, <3>1 DEF Applied, Effect
  <2> QED BY <2>1, <2>2, <2>3, <2>4 DEF Ops
<1>4. MemAfter(m, rec) = Applied(m, rec)
  BY <1>1 DEF MemAfter
<1> QED BY <1>3, <1>4 DEF rec

LEMMA EffectType ==
    ASSUME NEW m \in TierState, NEW kind, NEW id \in Nat
    PROVE  LET e == Effect(m, kind, id)
           IN  /\ e \in TierState
               /\ e = m \/ e.version = m.version + 1
               /\ e.rows \subseteq m.rows \cup {id}
               /\ kind = "sweep" => e = m
               /\ ~(kind \in {"insert", "apply"}) => e.rows \subseteq m.rows
BY DEF Effect, TierState

LEMMA BatchType ==
    ASSUME DictTypes, MemTypes, LogTypes, NEW kind \in Ops \cup {"sweep"}, NEW id \in Nat
    PROVE  /\ BatchRecord(kind, id) \in LogRecord
           /\ Len(BatchRecord(kind, id).terms) = Len(dict) - log.logged
<1> DEFINE terms == SubSeq(dict, log.logged + 1, Len(dict))
<1>1. terms \in Seq(Slot) /\ Len(terms) = Len(dict) - log.logged
  BY DEF DictTypes, LogTypes
<1>2. mem.version + 1 \in Nat /\ log.logged + 1 \in Nat
  BY DEF MemTypes, TierState, LogTypes
<1>3. ASSUME NEW k \in {"insert", "apply"}, NEW dels \in SUBSET Nat, NEW adds \in SUBSET Nat
      PROVE  Record(k, dels, adds) \in LogRecord /\ Record(k, dels, adds).terms = terms
  <2>1. Record(k, dels, adds) = [kind |-> k, version |-> mem.version + 1, first |-> log.logged + 1,
                                 terms |-> terms, dels |-> dels, adds |-> adds]
    BY DEF Record
  <2> HIDE DEF terms
  <2> QED BY <1>1, <1>2, <2>1 DEF LogRecord
<1>4. \E k \in {"insert", "apply"}, dels \in SUBSET Nat, adds \in SUBSET Nat :
         BatchRecord(kind, id) = Record(k, dels, adds)
  BY DEF BatchRecord, Ops
<1> HIDE DEF terms
<1> QED BY <1>1, <1>3, <1>4

-----------------------------------------------------------------------------
(* How a file can grow.                                                      *)

LEMMA EntryAppended ==
    ASSUME FileTypes, NEW g \in Gen, NEW e \in Entry,
           wal' = [wal EXCEPT ![g].recs = Append(@, e)]
    PROVE  /\ wal' \in [Gen -> [recs : Seq(Entry), synced : Nat]]
           /\ wal'[g].recs = Append(wal[g].recs, e) /\ wal'[g].synced = wal[g].synced
           /\ Len(wal'[g].recs) = Len(wal[g].recs) + 1
           /\ \A h \in Gen : h # g => wal'[h] = wal[h]
           /\ \A h \in Gen : wal'[h].synced <= Len(wal'[h].recs)
<1>1. wal \in [Gen -> [recs : Seq(Entry), synced : Nat]] /\ \A h \in Gen : wal[h].synced <= Len(wal[h].recs)
  BY DEF FileTypes
<1>2. wal[g].recs \in Seq(Entry) /\ wal[g].synced \in Nat
  BY <1>1
<1>3. Append(wal[g].recs, e) \in Seq(Entry) /\ Len(Append(wal[g].recs, e)) = Len(wal[g].recs) + 1
  BY <1>2
<1>4. wal' = [wal EXCEPT ![g] = [recs |-> Append(wal[g].recs, e), synced |-> wal[g].synced]]
  <2> DEFINE f == wal[g]
             longer == Append(wal[g].recs, e)
  <2>1. f \in [recs : Seq(Entry), synced : Nat]
    BY <1>1
  <2>2. [f EXCEPT !.recs = longer] = [recs |-> longer, synced |-> f.synced]
    <3> HIDE DEF f, longer
    <3> QED BY <2>1
  <2>3. wal' = [wal EXCEPT ![g] = [f EXCEPT !.recs = longer]]
    OBVIOUS
  <2> QED BY <2>2, <2>3
<1>5. wal'[g] = [recs |-> Append(wal[g].recs, e), synced |-> wal[g].synced] /\ \A h \in Gen : h # g => wal'[h] = wal[h]
  BY <1>1, <1>4
<1>6. wal'[g].recs = Append(wal[g].recs, e) /\ wal'[g].synced = wal[g].synced
  BY <1>5
<1>7. wal' \in [Gen -> [recs : Seq(Entry), synced : Nat]]
  BY <1>1, <1>2, <1>3, <1>4
<1>8. Len(wal[g].recs) \in Nat /\ wal[g].synced <= Len(wal[g].recs)
  BY <1>1, <1>2
<1>9. wal'[g].synced <= Len(wal'[g].recs)
  BY <1>2, <1>3, <1>6, <1>8
<1>10. \A h \in Gen : wal'[h].synced <= Len(wal'[h].recs)
  BY <1>1, <1>5, <1>9
<1> QED BY <1>3, <1>5, <1>6, <1>7, <1>10

LEMMA FileSynced ==
    ASSUME FileTypes, NEW g \in Gen, wal' = [wal EXCEPT ![g] = Synced(@)]
    PROVE  /\ wal' \in [Gen -> [recs : Seq(Entry), synced : Nat]]
           /\ wal'[g].recs = wal[g].recs /\ wal'[g].synced = Len(wal[g].recs)
           /\ wal'[g] = [recs |-> wal[g].recs, synced |-> Len(wal[g].recs)]
           /\ \A h \in Gen : h # g => wal'[h] = wal[h]
           /\ \A h \in Gen : wal'[h].synced <= Len(wal'[h].recs)
<1>1. wal \in [Gen -> [recs : Seq(Entry), synced : Nat]] /\ \A h \in Gen : wal[h].synced <= Len(wal[h].recs)
  BY DEF FileTypes
<1>2. wal[g].recs \in Seq(Entry) /\ Len(wal[g].recs) \in Nat
  BY <1>1
<1>3. Synced(wal[g]) = [recs |-> wal[g].recs, synced |-> Len(wal[g].recs)]
  BY <1>1 DEF Synced
<1>4. wal' = [wal EXCEPT ![g] = [recs |-> wal[g].recs, synced |-> Len(wal[g].recs)]]
  BY <1>3
<1>5. wal'[g] = [recs |-> wal[g].recs, synced |-> Len(wal[g].recs)] /\ \A h \in Gen : h # g => wal'[h] = wal[h]
  BY <1>1, <1>4
<1>6. wal' \in [Gen -> [recs : Seq(Entry), synced : Nat]]
  BY <1>1, <1>2, <1>4
<1>7. \A h \in Gen : wal'[h].synced <= Len(wal'[h].recs)
  BY <1>1, <1>2, <1>5
<1> QED BY <1>5, <1>6, <1>7

LEMMA FileReplaced ==
    ASSUME FileTypes, NEW g \in Gen, NEW f \in [recs : Seq(Entry), synced : Nat], f.synced <= Len(f.recs),
           wal' = [wal EXCEPT ![g] = f]
    PROVE  /\ wal' \in [Gen -> [recs : Seq(Entry), synced : Nat]]
           /\ wal'[g] = f
           /\ \A h \in Gen : h # g => wal'[h] = wal[h]
           /\ \A h \in Gen : wal'[h].synced <= Len(wal'[h].recs)
BY DEF FileTypes

LEMMA SweptDict ==
    ASSUME DictTypes, NEW rows
    PROVE  LET d == [i \in DOMAIN dict |-> IF i \in rows THEN dict[i] ELSE Free]
           IN  /\ d \in Seq(Slot) /\ Len(d) = Len(dict) /\ OneIndex(d)
               /\ \A i \in 1 .. Len(dict) : d[i] = IF i \in rows THEN dict[i] ELSE Free
<1> DEFINE d == [i \in DOMAIN dict |-> IF i \in rows THEN dict[i] ELSE Free]
<1>1. dict \in Seq(Slot) /\ OneIndex(dict) /\ DOMAIN dict = 1 .. Len(dict) /\ Len(dict) \in Nat
  BY DEF DictTypes
<1>2. \A i \in 1 .. Len(dict) : dict[i] \in Slot /\ Free \in Slot
  BY <1>1 DEF Slot
<1>3. d \in [1 .. Len(dict) -> Slot]
  BY <1>1, <1>2
<1>4. d \in Seq(Slot) /\ Len(d) = Len(dict)
  BY <1>1, <1>3
<1>5. \A i \in 1 .. Len(dict) : d[i] = IF i \in rows THEN dict[i] ELSE Free
  BY <1>1
<1>6. DOMAIN d = 1 .. Len(dict)
  BY <1>1
<1> HIDE DEF d
<1>7. OneIndex(d)
  BY <1>1, <1>5, <1>6 DEF OneIndex
<1> QED BY <1>4, <1>5, <1>7 DEF d

LEMMA DictAppended ==
    ASSUME DictTypes, NEW t \in Term, IdsOf(t) = {}
    PROVE  LET d == Append(dict, t)
           IN  /\ d \in Seq(Slot) /\ Len(d) = Len(dict) + 1 /\ OneIndex(d)
               /\ d[Len(dict) + 1] = t
               /\ \A i \in 1 .. Len(dict) : d[i] = dict[i]
<1> DEFINE d == Append(dict, t)
           n == Len(dict)
<1>1. dict \in Seq(Slot) /\ OneIndex(dict) /\ DOMAIN dict = 1 .. n /\ n \in Nat /\ t \in Slot
  BY DEF DictTypes, Slot
<1>2. d \in Seq(Slot) /\ Len(d) = n + 1 /\ d[n + 1] = t /\ \A i \in 1 .. n : d[i] = dict[i]
  BY <1>1
<1>3. \A i \in 1 .. n : dict[i] # t
  BY <1>1 DEF IdsOf
<1> HIDE DEF d, n
<1>4. DOMAIN d = 1 .. n + 1
  BY <1>1, <1>2
<1>5. OneIndex(d)
  <2> SUFFICES ASSUME NEW i \in 1 .. n + 1, NEW k \in 1 .. n + 1, d[i] = d[k], d[i] # Free PROVE i = k
    BY <1>4 DEF OneIndex
  <2>1. (i \in 1 .. n \/ i = n + 1) /\ (k \in 1 .. n \/ k = n + 1)
    BY <1>1
  <2> QED BY <1>1, <1>2, <1>3, <2>1 DEF OneIndex
<1> QED BY <1>2, <1>5 DEF d, n

-----------------------------------------------------------------------------
(* How long a replay's dictionary gets, and which rows it may have.          *)

Bounded(b, recs) ==
    \A k \in 0 .. Len(recs) : Clean(recs, k) =>
        LET st == Rep(b, Cut(recs, k))
        IN  st.ok => /\ st.mem.version <= MaxVersion
                     /\ st.mem.rows \subseteq 1 .. Len(st.dict)
                     /\ Len(st.dict) <= MaxSlot

OnlyChunks(recs, n) ==
    \A i \in 1 .. Len(recs) :
        /\ recs[i] \in LogRecord /\ Chunk(recs[i])
        /\ recs[i].version <= MaxVersion /\ recs[i].adds \subseteq 1 .. n

\* How much of the dictionary the open file spells out.
Reached == IF Appending THEN lock.slots ELSE log.logged
LoggedReached ==
    LET recs == wal[log.file].recs
        st   == Rep(base[log.file], recs)
    IN  Clean(recs, Len(recs)) /\ st.ok => Reached <= Len(st.dict)

Bounds ==
    /\ \A g \in Gen : Bounded(base[g], wal[g].recs)
    /\ status = "up" => LoggedReached
    /\ status = "up" => \A g \in Gen : g > log.gen => OnlyChunks(wal[g].recs, Len(dict))
    /\ status = "opening" => \A g \in Gen : g # manifest.now => wal[g] = NoWal

\* What a power cut leaves is a file.
LEMMA SurvivorsType ==
    ASSUME FileTypes, NEW g \in Gen, NEW left \in Survivors(wal[g])
    PROVE  /\ left \in [recs : Seq(Entry), synced : Nat] /\ left.synced <= Len(left.recs)
           /\ \E k \in wal[g].synced .. Len(wal[g].recs) :
                 \/ left = [recs |-> Cut(wal[g].recs, k), synced |-> k]
                 \/ /\ k < Len(wal[g].recs)
                    /\ left = [recs |-> Append(Cut(wal[g].recs, k), Torn), synced |-> k + 1]
<1> DEFINE recs == wal[g].recs
           synced == wal[g].synced
<1>1. recs \in Seq(Entry) /\ synced \in Nat /\ Len(recs) \in Nat
  BY DEF FileTypes
<1>2. \E k \in synced .. Len(recs) :
        \/ left = [recs |-> Cut(recs, k), synced |-> k]
        \/ /\ k < Len(recs)
           /\ left = [recs |-> Append(Cut(recs, k), Torn), synced |-> k + 1]
  <2>1. \/ \E k \in synced .. Len(recs) : left = [recs |-> Cut(recs, k), synced |-> k]
        \/ \E k \in synced .. Len(recs) - 1 : left = [recs |-> Append(Cut(recs, k), Torn), synced |-> k + 1]
    BY DEF Survivors, Cut
  <2>2. \A k \in synced .. Len(recs) - 1 : k \in synced .. Len(recs) /\ k < Len(recs)
    BY <1>1
  <2> QED BY <2>1, <2>2
<1>3. ASSUME NEW k \in synced .. Len(recs)
      PROVE  Cut(recs, k) \in Seq(Entry) /\ Len(Cut(recs, k)) = k /\ k \in Nat
  <2>1. k \in 0 .. Len(recs)
    BY <1>1
  <2> HIDE DEF recs
  <2> QED BY <1>1, <2>1, CutType
<1>4. Torn \in Entry
  BY DEF Entry
<1> HIDE DEF recs, synced
<1>5. PICK k \in synced .. Len(recs) :
        \/ left = [recs |-> Cut(recs, k), synced |-> k]
        \/ /\ k < Len(recs)
           /\ left = [recs |-> Append(Cut(recs, k), Torn), synced |-> k + 1]
  BY <1>2
<1>6. left \in [recs : Seq(Entry), synced : Nat] /\ left.synced <= Len(left.recs)
  <2> DEFINE c == Cut(recs, k)
  <2>1. c \in Seq(Entry) /\ Len(c) = k /\ k \in Nat
    BY <1>3
  <2>2. left = [recs |-> c, synced |-> k] \/ left = [recs |-> Append(c, Torn), synced |-> k + 1]
    BY <1>5
  <2> HIDE DEF c
  <2>3. Append(c, Torn) \in Seq(Entry) /\ Len(Append(c, Torn)) = k + 1
    BY <1>4, <2>1
  <2>4. CASE left = [recs |-> c, synced |-> k]
    BY <2>1, <2>4
  <2>5. CASE left = [recs |-> Append(c, Torn), synced |-> k + 1]
    <3> DEFINE e == Append(c, Torn)
    <3> HIDE DEF e
    <3>1. e \in Seq(Entry) /\ Len(e) = k + 1 /\ left = [recs |-> e, synced |-> k + 1]
      BY <2>3, <2>5 DEF e
    <3> QED BY <2>1, <3>1
  <2> QED BY <2>2, <2>4, <2>5
<1> QED BY <1>2, <1>6 DEF recs, synced


LEMMA InternTypes ==
    ASSUME Types, NEW w \in Writer, NEW op \in Ops, NEW t \in Term, Intern(w, op, t)
    PROVE  Types'
<1>0. DictTypes /\ MemTypes /\ WriterTypes /\ LogTypes /\ FileTypes /\ PromiseTypes /\ LockTypes
  BY DEF Types
<1>1. /\ UNCHANGED <<status, mem, log, lock, wal, base, manifest, acked, durable, fault>>
      /\ status = "up" /\ writer[w].pc = "idle" /\ ~Sweeping
  BY DEF Intern, disk, ghosts
<1>2. FileTypes' /\ PromiseTypes'
  BY <1>0, <1>1 DEF FileTypes, PromiseTypes
<1>3. ASSUME NEW i \in 1 .. Len(dict'), dict'[i] # Free,
             writer' = [writer EXCEPT ![w] = [pc |-> "holding", kind |-> op, id |-> i]],
             dict' \in Seq(Slot), Len(dict) <= Len(dict'), Len(dict') <= MaxSlot, OneIndex(dict'),
             \A k \in 1 .. Len(dict) : dict'[k] = dict[k],
             \A k \in 1 .. Len(dict') : k > Len(dict) => dict'[k] # Free
      PROVE  Types'
  <2>1. Len(dict) \in Nat /\ Len(dict') \in Nat /\ i \in Nat
    BY <1>0, <1>3 DEF DictTypes
  <2>2. DictTypes'
    BY <1>3 DEF DictTypes
  <2>3. MemTypes'
    BY <1>0, <1>1, <1>3, <2>1 DEF MemTypes
  <2>4. WriterTypes'
    <3>1. writer' \in [Writer -> [pc : {"idle", "holding"}, kind : Ops \cup {"none"}, id : Nat]]
      BY <1>0, <1>3, <2>1 DEF WriterTypes
    <3>2. ASSUME NEW v \in Writer, writer'[v].pc = "holding"
          PROVE  writer'[v].kind \in Ops /\ writer'[v].id \in 1 .. Len(dict') /\ dict'[writer'[v].id] # Free
      <4>1. CASE v = w
        BY <1>0, <1>3, <4>1 DEF WriterTypes
      <4>2. CASE v # w
        <5>1. writer'[v] = writer[v]
          BY <1>0, <1>3, <4>2 DEF WriterTypes
        <5>2. writer[v].kind \in Ops /\ writer[v].id \in 1 .. Len(dict) /\ dict[writer[v].id] # Free
          BY <1>0, <3>2, <5>1 DEF WriterTypes
        <5> QED BY <1>3, <2>1, <5>1, <5>2
      <4> QED BY <4>1, <4>2
    <3> QED BY <3>1, <3>2 DEF WriterTypes
  <2>5. LogTypes'
    BY <1>0, <1>1, <1>3, <2>1 DEF LogTypes
  <2>6. LockTypes'
    <3>1. lock.slots \in Nat /\ log.logged \in Nat /\ log.logged <= Len(dict)
      BY <1>0 DEF LockTypes, LogTypes
    <3>2. lock.pc # "free" => log.logged <= lock.slots /\ lock.slots <= Len(dict')
      BY <1>0, <1>3, <2>1, <3>1 DEF LockTypes
    <3>3. Appending => /\ mem.version < MaxVersion /\ lock.kind \in Ops \cup {"sweep"}
                       /\ lock.kind # "sweep" => lock.id \in 1 .. lock.slots /\ dict'[lock.id] # Free
      BY <1>0, <1>3, <2>1, <3>1 DEF LockTypes, Appending
    <3>4. \A k \in 1 .. Len(dict') : k > log.logged => dict'[k] # Free
      <4> SUFFICES ASSUME NEW k \in 1 .. Len(dict'), k > log.logged PROVE dict'[k] # Free
        OBVIOUS
      <4>1. k \in 1 .. Len(dict) \/ k > Len(dict)
        BY <2>1
      <4> QED BY <1>0, <1>3, <4>1 DEF LockTypes
    <3> QED BY <1>0, <1>1, <3>2, <3>3, <3>4 DEF LockTypes, Appending, Checkpointing, Sweeping
  <2> QED BY <1>2, <2>2, <2>3, <2>4, <2>5, <2>6 DEF Types
<1>4. CASE /\ \E i \in IdsOf(t) : writer' = [writer EXCEPT ![w] = [pc |-> "holding", kind |-> op, id |-> i]]
           /\ UNCHANGED dict
  <2>1. PICK i \in IdsOf(t) : writer' = [writer EXCEPT ![w] = [pc |-> "holding", kind |-> op, id |-> i]]
    BY <1>4
  <2>2. i \in 1 .. Len(dict) /\ dict[i] # Free
    BY <1>0, <2>1, FreeNotTerm DEF IdsOf, DictTypes
  <2>3. dict \in Seq(Slot) /\ Len(dict) \in Nat /\ Len(dict) <= MaxSlot /\ OneIndex(dict)
    BY <1>0 DEF DictTypes
  <2>4. /\ i \in 1 .. Len(dict') /\ dict'[i] # Free /\ dict' \in Seq(Slot)
        /\ Len(dict) <= Len(dict') /\ Len(dict') <= MaxSlot /\ OneIndex(dict')
        /\ \A k \in 1 .. Len(dict) : dict'[k] = dict[k]
        /\ \A k \in 1 .. Len(dict') : k > Len(dict) => dict'[k] # Free
    <3>1. dict' = dict
      BY <1>4
    <3>2. \A k \in 1 .. Len(dict) : ~(k > Len(dict))
      BY <2>3
    <3>3. Len(dict) <= Len(dict)
      BY <2>3
    <3> QED BY <2>2, <2>3, <3>1, <3>2, <3>3
  <2> QED BY <1>3, <2>1, <2>4
<1>5. CASE /\ op # "delete" /\ IdsOf(t) = {} /\ Len(dict) < MaxSlot
           /\ dict' = Append(dict, t)
           /\ writer' = [writer EXCEPT ![w] = [pc |-> "holding", kind |-> op, id |-> Len(dict) + 1]]
  <2>1. /\ dict' \in Seq(Slot) /\ Len(dict') = Len(dict) + 1 /\ OneIndex(dict')
        /\ dict'[Len(dict) + 1] = t
        /\ \A k \in 1 .. Len(dict) : dict'[k] = dict[k]
    BY <1>0, <1>5, DictAppended
  <2>2. Len(dict) \in Nat /\ t # Free
    BY <1>0, FreeNotTerm DEF DictTypes
  <2>3. Len(dict) + 1 \in 1 .. Len(dict') /\ Len(dict) <= Len(dict') /\ Len(dict') <= MaxSlot
    BY <1>5, <2>1, <2>2, BoundsNat
  <2>4. \A k \in 1 .. Len(dict') : k > Len(dict) => dict'[k] # Free
    BY <2>1, <2>2
  <2> QED BY <1>3, <1>5, <2>1, <2>2, <2>3, <2>4
<1> QED BY <1>4, <1>5 DEF Intern

LEMMA AppendWriteTypes ==
    ASSUME Types, NEW w \in Writer, AppendWrite(w)
    PROVE  Types'
<1>0. DictTypes /\ MemTypes /\ WriterTypes /\ LogTypes /\ FileTypes /\ PromiseTypes /\ LockTypes
  BY DEF Types
<1>1. BatchRecord(writer[w].kind, writer[w].id) \in Entry
  <2>1. writer[w].kind \in Ops /\ writer[w].id \in Nat
    BY <1>0 DEF AppendWrite, WriterTypes
  <2> QED BY <1>0, <2>1, BatchType DEF Entry
<1>2. /\ wal' \in [Gen -> [recs : Seq(Entry), synced : Nat]]
      /\ \A h \in Gen : wal'[h].synced <= Len(wal'[h].recs)
  <2>1. log.file \in Gen
    BY <1>0 DEF LogTypes
  <2>2. wal' = [wal EXCEPT ![log.file].recs = Append(@, BatchRecord(writer[w].kind, writer[w].id))]
    BY DEF AppendWrite, AppendToLog
  <2> QED BY <1>0, <1>1, <2>1, <2>2, EntryAppended
<1>10. DictTypes'
  BY <1>0 DEF AppendWrite, DictTypes, disk, ghosts
<1>11. MemTypes'
  BY <1>0 DEF AppendWrite, MemTypes, DictTypes, disk, ghosts
<1>12. WriterTypes'
  BY <1>0 DEF AppendWrite, WriterTypes, disk, ghosts
<1>13. LogTypes'
  BY <1>0 DEF AppendWrite, LogTypes, disk, ghosts
<1>14. FileTypes'
  BY <1>0, <1>2 DEF AppendWrite, FileTypes
<1>15. PromiseTypes'
  BY <1>0 DEF AppendWrite, PromiseTypes, disk, ghosts
<1>16. LockTypes'
  <2>1. /\ UNCHANGED <<status, dict, mem, writer>> /\ status = "up"
        /\ lock' = [pc |-> "sync", kind |-> writer[w].kind, who |-> {w}, id |-> writer[w].id, slots |-> Len(dict)]
        /\ log'.logged = log.logged /\ log'.gen = log.gen /\ mem.version < MaxVersion
    BY <1>0 DEF AppendWrite, Unlocked, HasRoom, LogTypes
  <2>2. /\ writer[w].kind \in Ops /\ writer[w].id \in 1 .. Len(dict) /\ dict[writer[w].id] # Free
        /\ writer[w].kind # "sweep"
    BY <1>0 DEF AppendWrite, WriterTypes, Ops
  <2>3. Len(dict) \in Nat /\ log.logged \in Nat /\ log.logged <= Len(dict) /\ writer[w].id \in Nat
    BY <1>0, <2>2 DEF DictTypes, LogTypes
  <2>4. lock' \in [pc : {"free", "sync", "install", "wal", "wal_sync", "manifest", "dir_sync", "reopen"},
                   kind : Ops \cup {"none", "sweep"}, who : SUBSET Writer, id : Nat, slots : Nat]
    BY <2>1, <2>2, <2>3
  <2>5. /\ lock'.pc = "sync" /\ lock'.kind = writer[w].kind /\ lock'.id = writer[w].id
        /\ lock'.slots = Len(dict)
    BY <2>1
  <2> QED BY <1>0, <2>1, <2>2, <2>3, <2>4, <2>5 DEF LockTypes, Appending, Checkpointing, Sweeping
<1> QED BY <1>10, <1>11, <1>12, <1>13, <1>14, <1>15, <1>16 DEF Types

LEMMA AppendWriteFailsTypes ==
    ASSUME Types, NEW w \in Writer, AppendWriteFails(w)
    PROVE  Types'
<1>0. DictTypes /\ MemTypes /\ WriterTypes /\ LogTypes /\ FileTypes /\ PromiseTypes /\ LockTypes
  BY DEF Types
<1>1. Torn \in Entry
  BY DEF Entry
<1>2. /\ wal' \in [Gen -> [recs : Seq(Entry), synced : Nat]]
      /\ \A h \in Gen : wal'[h].synced <= Len(wal'[h].recs)
  <2>1. log.file \in Gen
    BY <1>0 DEF LogTypes
  <2>2. wal' = [wal EXCEPT ![log.file].recs = Append(@, Torn)]
    BY DEF AppendWriteFails, AppendToLog
  <2> QED BY <1>0, <1>1, <2>1, <2>2, EntryAppended
<1>10. DictTypes'
  BY <1>0 DEF AppendWriteFails, DictTypes, disk, ghosts
<1>11. MemTypes'
  BY <1>0 DEF AppendWriteFails, MemTypes, DictTypes, disk, ghosts
<1>12. WriterTypes'
  BY <1>0 DEF AppendWriteFails, Abandon, WriterTypes, IdleWriter
<1>13. LogTypes'
  BY <1>0 DEF AppendWriteFails, LogTypes, disk, ghosts
<1>14. FileTypes'
  BY <1>0, <1>2 DEF AppendWriteFails, FileTypes
<1>15. PromiseTypes'
  BY <1>0 DEF AppendWriteFails, PromiseTypes, Marked, ghosts
<1>16. LockTypes'
  <2>1. lock.pc = "free" /\ UNCHANGED <<status, dict, mem, log, lock>>
    BY DEF AppendWriteFails
  <2>2. ~Sweeping
    BY <1>0, <2>1 DEF LockTypes, Appending
  <2> QED BY <1>0, <2>1, <2>2 DEF LockTypes, Appending, Checkpointing, Sweeping
<1> QED BY <1>10, <1>11, <1>12, <1>13, <1>14, <1>15, <1>16 DEF Types

LEMMA SweepWriteTypes ==
    ASSUME Types, SweepWrite
    PROVE  Types'
<1>0. DictTypes /\ MemTypes /\ WriterTypes /\ LogTypes /\ FileTypes /\ PromiseTypes /\ LockTypes
  BY DEF Types
<1>1. BatchRecord("sweep", 0) \in Entry
  BY <1>0, BatchType DEF Entry
<1>2. /\ wal' \in [Gen -> [recs : Seq(Entry), synced : Nat]]
      /\ \A h \in Gen : wal'[h].synced <= Len(wal'[h].recs)
  <2>1. log.file \in Gen
    BY <1>0 DEF LogTypes
  <2>2. wal' = [wal EXCEPT ![log.file].recs = Append(@, BatchRecord("sweep", 0))]
    BY DEF SweepWrite, AppendToLog
  <2> QED BY <1>0, <1>1, <2>1, <2>2, EntryAppended
<1>10. DictTypes'
  BY <1>0 DEF SweepWrite, DictTypes, disk, ghosts
<1>11. MemTypes'
  BY <1>0 DEF SweepWrite, MemTypes, DictTypes, disk, ghosts
<1>12. WriterTypes'
  BY <1>0 DEF SweepWrite, WriterTypes, disk, ghosts
<1>13. LogTypes'
  BY <1>0 DEF SweepWrite, LogTypes, disk, ghosts
<1>14. FileTypes'
  BY <1>0, <1>2 DEF SweepWrite, FileTypes
<1>15. PromiseTypes'
  BY <1>0 DEF SweepWrite, PromiseTypes, disk, ghosts
<1>16. LockTypes'
  <2>1. /\ UNCHANGED <<status, dict, mem, writer>> /\ status = "up"
        /\ lock' = [pc |-> "sync", kind |-> "sweep", who |-> {}, id |-> 0, slots |-> Len(dict)]
        /\ log'.logged = log.logged /\ log'.gen = log.gen /\ mem.version < MaxVersion
        /\ \A w \in Writer : writer[w].pc = "idle"
    BY <1>0 DEF SweepWrite, Unlocked, HasRoom, LogTypes
  <2>2. Len(dict) \in Nat /\ log.logged \in Nat /\ log.logged <= Len(dict)
    BY <1>0 DEF DictTypes, LogTypes
  <2>3. lock' \in [pc : {"free", "sync", "install", "wal", "wal_sync", "manifest", "dir_sync", "reopen"},
                   kind : Ops \cup {"none", "sweep"}, who : SUBSET Writer, id : Nat, slots : Nat]
    BY <2>1, <2>2
  <2>4. lock'.pc = "sync" /\ lock'.kind = "sweep" /\ lock'.slots = Len(dict)
    BY <2>1
  <2> QED BY <1>0, <2>1, <2>2, <2>3, <2>4 DEF LockTypes, Appending, Checkpointing, Sweeping
<1> QED BY <1>10, <1>11, <1>12, <1>13, <1>14, <1>15, <1>16 DEF Types

LEMMA AppendSyncTypes ==
    ASSUME Types, AppendSync
    PROVE  Types'
<1>0. DictTypes /\ MemTypes /\ WriterTypes /\ LogTypes /\ FileTypes /\ PromiseTypes /\ LockTypes
  BY DEF Types
<1>1. ASSUME wal' = [wal EXCEPT ![log.file] = Synced(@)]
      PROVE  /\ wal' \in [Gen -> [recs : Seq(Entry), synced : Nat]]
             /\ \A h \in Gen : wal'[h].synced <= Len(wal'[h].recs)
  <2>1. log.file \in Gen
    BY <1>0 DEF LogTypes
  <2> QED BY <1>0, <1>1, <2>1, FileSynced
<1>10. DictTypes'
  BY <1>0 DEF AppendSync, DictTypes, disk, ghosts
<1>11. MemTypes'
  BY <1>0 DEF AppendSync, MemTypes, DictTypes, disk, ghosts
<1>12. WriterTypes'
  BY <1>0 DEF AppendSync, WriterTypes, disk, ghosts
<1>13. LogTypes'
  BY <1>0 DEF AppendSync, LogTypes, disk, ghosts
<1>14. FileTypes'
  BY <1>0, <1>1 DEF AppendSync, FileTypes
<1>15. PromiseTypes'
  BY <1>0 DEF AppendSync, PromiseTypes, disk, ghosts
<1>16. LockTypes'
  BY <1>0 DEF AppendSync, LockTypes, Appending, Checkpointing, Sweeping, Unlocked, disk, ghosts
<1> QED BY <1>10, <1>11, <1>12, <1>13, <1>14, <1>15, <1>16 DEF Types

LEMMA AppendNoSyncTypes ==
    ASSUME Types, AppendNoSync
    PROVE  Types'
<1>0. DictTypes /\ MemTypes /\ WriterTypes /\ LogTypes /\ FileTypes /\ PromiseTypes /\ LockTypes
  BY DEF Types
<1>1. DictTypes'
  BY <1>0 DEF AppendNoSync, DictTypes, disk, ghosts
<1>2. MemTypes'
  BY <1>0 DEF AppendNoSync, MemTypes, DictTypes, disk, ghosts
<1>3. WriterTypes'
  BY <1>0 DEF AppendNoSync, WriterTypes, disk, ghosts
<1>4. LogTypes'
  BY <1>0 DEF AppendNoSync, LogTypes, disk, ghosts
<1>5. FileTypes'
  BY <1>0 DEF AppendNoSync, FileTypes, disk, ghosts
<1>6. PromiseTypes'
  BY <1>0 DEF AppendNoSync, PromiseTypes, disk, ghosts
<1>7. LockTypes'
  BY <1>0 DEF AppendNoSync, LockTypes, Appending, Checkpointing, Sweeping, Unlocked, disk, ghosts
<1> QED BY <1>1, <1>2, <1>3, <1>4, <1>5, <1>6, <1>7 DEF Types

LEMMA AppendSyncFailsTypes ==
    ASSUME Types, AppendSyncFails
    PROVE  Types'
<1>0. DictTypes /\ MemTypes /\ WriterTypes /\ LogTypes /\ FileTypes /\ PromiseTypes /\ LockTypes
  BY DEF Types
<1>1. DictTypes'
  BY <1>0 DEF AppendSyncFails, DictTypes, disk, ghosts
<1>2. MemTypes'
  BY <1>0 DEF AppendSyncFails, MemTypes, DictTypes, disk, ghosts
<1>3. WriterTypes'
  BY <1>0 DEF AppendSyncFails, Abandon, WriterTypes, IdleWriter
<1>4. LogTypes'
  BY <1>0 DEF AppendSyncFails, LogTypes, disk, ghosts
<1>5. FileTypes'
  BY <1>0 DEF AppendSyncFails, FileTypes, disk, ghosts
<1>6. PromiseTypes'
  BY <1>0 DEF AppendSyncFails, PromiseTypes, Marked, ghosts
<1>7. LockTypes'
  BY <1>0 DEF AppendSyncFails, LockTypes, Appending, Checkpointing, Sweeping, Unlocked, disk, ghosts
<1> QED BY <1>1, <1>2, <1>3, <1>4, <1>5, <1>6, <1>7 DEF Types

LEMMA InstallTypes ==
    ASSUME Types, Install
    PROVE  Types'
<1>0. DictTypes /\ MemTypes /\ WriterTypes /\ LogTypes /\ FileTypes /\ PromiseTypes /\ LockTypes
  BY DEF Types
<1>1. lock.pc = "install" /\ Appending /\ lock.kind \in Ops \cup {"sweep"} /\ lock.id \in Nat
  BY <1>0 DEF Install, Appending, LockTypes
<1>2. mem' = Effect(mem, lock.kind, lock.id) /\ acked' = mem'.version
  BY <1>0, <1>1, EffectIs DEF Install, MemTypes
<1>3. /\ dict' \in Seq(Slot) /\ Len(dict') = Len(dict) /\ OneIndex(dict')
      /\ ~Sweeping => dict' = dict
      /\ Sweeping => \A i \in 1 .. Len(dict) : dict'[i] = IF i \in mem.rows THEN dict[i] ELSE Free
  <2>1. CASE Sweeping
    BY <1>0, <2>1, SweptDict DEF Install
  <2>2. CASE ~Sweeping
    BY <1>0, <2>2 DEF Install, DictTypes
  <2> QED BY <2>1, <2>2
<1>4. Len(dict) \in Nat /\ log.logged \in Nat /\ lock.slots \in Nat /\ lock.slots <= Len(dict)
  BY <1>0, <1>1 DEF DictTypes, LogTypes, LockTypes, Appending
<1>5. mem' \in TierState /\ mem'.version \in Nat /\ mem'.version <= MaxVersion /\ mem'.rows \subseteq 1 .. Len(dict)
  <2>1. mem \in TierState /\ mem.version \in Nat /\ mem.version < MaxVersion /\ mem.rows \subseteq 1 .. Len(dict)
    BY <1>0, <1>1 DEF MemTypes, LockTypes, TierState
  <2>2. /\ mem' \in TierState
        /\ mem' = mem \/ mem'.version = mem.version + 1
        /\ mem'.rows \subseteq mem.rows \cup {lock.id}
        /\ lock.kind = "sweep" => mem' = mem
    BY <1>1, <1>2, <2>1, EffectType
  <2>3. lock.kind # "sweep" => lock.id \in 1 .. Len(dict)
    BY <1>0, <1>1, <1>4 DEF LockTypes
  <2>4. mem'.rows \subseteq 1 .. Len(dict)
    BY <2>1, <2>2, <2>3
  <2> QED BY <2>1, <2>2, <2>4, BoundsNat
<1>10. DictTypes'
  BY <1>0, <1>3 DEF DictTypes
<1>11. MemTypes'
  BY <1>3, <1>5 DEF MemTypes
<1>12. WriterTypes'
  <2>1. writer' = [v \in Writer |-> IF v \in lock.who THEN IdleWriter ELSE writer[v]]
    BY DEF Install
  <2>2. writer' \in [Writer -> [pc : {"idle", "holding"}, kind : Ops \cup {"none"}, id : Nat]]
    BY <1>0, <2>1 DEF WriterTypes, IdleWriter
  <2>3. ASSUME NEW v \in Writer, writer'[v].pc = "holding"
        PROVE  writer'[v].kind \in Ops /\ writer'[v].id \in 1 .. Len(dict') /\ dict'[writer'[v].id] # Free
    <3>1. writer'[v] = writer[v]
      BY <2>1, <2>3 DEF IdleWriter
    <3>2. ~Sweeping
      BY <1>0, <2>3, <3>1 DEF LockTypes
    <3> QED BY <1>0, <1>3, <2>3, <3>1, <3>2 DEF WriterTypes
  <2> QED BY <2>2, <2>3 DEF WriterTypes
<1>13. LogTypes'
  <2>1. log' = [log EXCEPT !.logged = lock.slots]
    BY DEF Install, LoggedLen
  <2> QED BY <1>0, <1>3, <1>4, <2>1 DEF LogTypes
<1>14. FileTypes'
  BY <1>0 DEF Install, FileTypes, disk, ghosts
<1>15. PromiseTypes'
  <2>1. durable' \in {mem'.version, durable} /\ fault' = fault
    BY DEF Install
  <2> QED BY <1>0, <1>2, <1>5, <2>1 DEF PromiseTypes
<1>16. LockTypes'
  <2>1. /\ status' = "up" /\ status = "up" /\ lock' = Unlocked
        /\ log'.logged = lock.slots
    BY <1>0 DEF Install, LoggedLen, LogTypes
  <2>2. ASSUME NEW i \in 1 .. Len(dict'), i > lock.slots PROVE dict'[i] # Free
    <3>1. i \in 1 .. Len(dict) /\ i > log.logged
      BY <1>0, <1>1, <1>3, <1>4, <2>2 DEF LockTypes
    <3>2. ~Sweeping
      BY <1>0, <1>4, <2>2, <3>1 DEF LockTypes
    <3> QED BY <1>0, <1>3, <3>1, <3>2 DEF LockTypes
  <2>3. lock'.pc = "free" /\ lock'.kind = "none"
    BY <2>1 DEF Unlocked
  <2>4. lock' \in [pc : {"free", "sync", "install", "wal", "wal_sync", "manifest", "dir_sync", "reopen"},
                   kind : Ops \cup {"none", "sweep"}, who : SUBSET Writer, id : Nat, slots : Nat]
    BY <2>1 DEF Unlocked
  <2> QED BY <2>1, <2>2, <2>3, <2>4 DEF LockTypes, Appending, Checkpointing, Sweeping
<1> QED BY <1>10, <1>11, <1>12, <1>13, <1>14, <1>15, <1>16 DEF Types

LEMMA SyncWalTypes ==
    ASSUME Types, SyncWal
    PROVE  Types'
<1>0. DictTypes /\ MemTypes /\ WriterTypes /\ LogTypes /\ FileTypes /\ PromiseTypes /\ LockTypes
  BY DEF Types
<1>1. ASSUME wal' = [wal EXCEPT ![log.file] = Synced(@)]
      PROVE  /\ wal' \in [Gen -> [recs : Seq(Entry), synced : Nat]]
             /\ \A h \in Gen : wal'[h].synced <= Len(wal'[h].recs)
  <2>1. log.file \in Gen
    BY <1>0 DEF LogTypes
  <2> QED BY <1>0, <1>1, <2>1, FileSynced
<1>10. DictTypes'
  BY <1>0 DEF SyncWal, DictTypes, disk, ghosts
<1>11. MemTypes'
  BY <1>0 DEF SyncWal, MemTypes, DictTypes, disk, ghosts
<1>12. WriterTypes'
  BY <1>0 DEF SyncWal, WriterTypes, disk, ghosts
<1>13. LogTypes'
  BY <1>0 DEF SyncWal, LogTypes, disk, ghosts
<1>14. FileTypes'
  BY <1>0, <1>1 DEF SyncWal, FileTypes
<1>15. PromiseTypes'
  BY <1>0 DEF SyncWal, PromiseTypes, MemTypes, TierState
<1>16. LockTypes'
  BY <1>0 DEF SyncWal, LockTypes, Appending, Checkpointing, Sweeping, Unlocked, disk, ghosts
<1> QED BY <1>10, <1>11, <1>12, <1>13, <1>14, <1>15, <1>16 DEF Types

LEMMA CkDictTypes ==
    ASSUME Types, CkDict
    PROVE  Types'
<1>0. DictTypes /\ MemTypes /\ WriterTypes /\ LogTypes /\ FileTypes /\ PromiseTypes /\ LockTypes
  BY DEF Types
<1>1. DictTypes'
  BY <1>0 DEF CkDict, DictTypes, disk, ghosts
<1>2. MemTypes'
  BY <1>0 DEF CkDict, MemTypes, DictTypes, disk, ghosts
<1>3. WriterTypes'
  BY <1>0 DEF CkDict, WriterTypes, disk, ghosts
<1>4. LogTypes'
  BY <1>0 DEF CkDict, LogTypes, disk, ghosts
<1>5. FileTypes'
  <2>1. log.gen + 1 \in Gen
    BY <1>0, BoundsNat DEF CkDict, LogTypes, Gen
  <2> QED BY <1>0, <2>1 DEF CkDict, NextGen, FileTypes, DictTypes
<1>6. PromiseTypes'
  BY <1>0 DEF CkDict, PromiseTypes, disk, ghosts
<1>7. LockTypes'
  <2>1. /\ UNCHANGED <<status, dict, mem, writer, log>> /\ status = "up" /\ log.gen < MaxGen
        /\ lock' = [pc |-> "wal", kind |-> "none", who |-> {}, id |-> 0, slots |-> Len(dict)]
    BY DEF CkDict, Unlocked
  <2>2. Len(dict) \in Nat /\ log.logged <= Len(dict) /\ mem.rows \subseteq 1 .. Len(dict)
    BY <1>0 DEF DictTypes, LogTypes, MemTypes
  <2>3. lock' \in [pc : {"free", "sync", "install", "wal", "wal_sync", "manifest", "dir_sync", "reopen"},
                   kind : Ops \cup {"none", "sweep"}, who : SUBSET Writer, id : Nat, slots : Nat]
    BY <2>1, <2>2
  <2>4. lock'.pc = "wal" /\ lock'.kind = "none" /\ lock'.slots = Len(dict)
    BY <2>1
  <2> QED BY <1>0, <2>1, <2>2, <2>3, <2>4 DEF LockTypes, Appending, Checkpointing, Sweeping
<1> QED BY <1>1, <1>2, <1>3, <1>4, <1>5, <1>6, <1>7 DEF Types

LEMMA CkWalTypes ==
    ASSUME Types, CkWal
    PROVE  Types'
<1>0. DictTypes /\ MemTypes /\ WriterTypes /\ LogTypes /\ FileTypes /\ PromiseTypes /\ LockTypes
  BY DEF Types
<1>1. NextGen \in Gen /\ log.gen \in Gen /\ log.gen \in Nat /\ NextGen = log.gen + 1
  BY <1>0, BoundsNat DEF CkWal, LogTypes, LockTypes, Checkpointing, Gen, NextGen
<1>10. DictTypes'
  BY <1>0 DEF CkWal, DictTypes, disk, ghosts
<1>11. MemTypes'
  BY <1>0 DEF CkWal, MemTypes, DictTypes, disk, ghosts
<1>12. WriterTypes'
  BY <1>0 DEF CkWal, WriterTypes, disk, ghosts
<1>13. LogTypes'
  BY <1>0 DEF CkWal, LogTypes, disk, ghosts
<1>14. FileTypes'
  <2>1. mem \in TierState /\ IsFiniteSet(mem.rows)
    <3>1. mem \in TierState /\ mem.rows \subseteq 1 .. Len(dict) /\ Len(dict) \in Nat
      BY <1>0 DEF MemTypes, DictTypes
    <3>2. IsFiniteSet(1 .. Len(dict))
      BY <3>1, FS_Interval
    <3> QED BY <3>1, <3>2, FS_Subset
  <2>2. CkRecords \in Seq(LogRecord)
    BY <2>1, CkRecordsAre
  <2> DEFINE f == [recs |-> CkRecords, synced |-> 0]
  <2>3. f \in [recs : Seq(Entry), synced : Nat] /\ f.synced <= Len(f.recs)
    <3>1. CkRecords \in Seq(Entry) /\ Len(CkRecords) \in Nat
      BY <2>2 DEF Entry
    <3> QED BY <3>1
  <2>4. wal' = [wal EXCEPT ![NextGen] = f]
    BY DEF CkWal
  <2> HIDE DEF f
  <2>5. /\ wal' \in [Gen -> [recs : Seq(Entry), synced : Nat]]
        /\ \A h \in Gen : wal'[h].synced <= Len(wal'[h].recs)
    BY <1>0, <1>1, <2>3, <2>4, FileReplaced
  <2> QED BY <1>0, <2>5 DEF CkWal, FileTypes
<1>15. PromiseTypes'
  BY <1>0 DEF CkWal, PromiseTypes, disk, ghosts
<1>16. LockTypes'
  BY <1>0 DEF CkWal, LockTypes, Appending, Checkpointing, Sweeping, Unlocked, disk, ghosts
<1> QED BY <1>10, <1>11, <1>12, <1>13, <1>14, <1>15, <1>16 DEF Types

LEMMA CkWalSyncTypes ==
    ASSUME Types, CkWalSync
    PROVE  Types'
<1>0. DictTypes /\ MemTypes /\ WriterTypes /\ LogTypes /\ FileTypes /\ PromiseTypes /\ LockTypes
  BY DEF Types
<1>1. NextGen \in Gen /\ log.gen \in Gen /\ log.gen \in Nat /\ NextGen = log.gen + 1
  BY <1>0, BoundsNat DEF CkWalSync, LogTypes, LockTypes, Checkpointing, Gen, NextGen
<1>10. DictTypes'
  BY <1>0 DEF CkWalSync, DictTypes, disk, ghosts
<1>11. MemTypes'
  BY <1>0 DEF CkWalSync, MemTypes, DictTypes, disk, ghosts
<1>12. WriterTypes'
  BY <1>0 DEF CkWalSync, WriterTypes, disk, ghosts
<1>13. LogTypes'
  BY <1>0 DEF CkWalSync, LogTypes, disk, ghosts
<1>14. FileTypes'
  <2>1. /\ wal' \in [Gen -> [recs : Seq(Entry), synced : Nat]]
        /\ \A h \in Gen : wal'[h].synced <= Len(wal'[h].recs)
    BY <1>0, <1>1, FileSynced DEF CkWalSync
  <2> QED BY <1>0, <2>1 DEF CkWalSync, FileTypes
<1>15. PromiseTypes'
  BY <1>0 DEF CkWalSync, PromiseTypes, disk, ghosts
<1>16. LockTypes'
  BY <1>0 DEF CkWalSync, LockTypes, Appending, Checkpointing, Sweeping, Unlocked, disk, ghosts
<1> QED BY <1>10, <1>11, <1>12, <1>13, <1>14, <1>15, <1>16 DEF Types

LEMMA CkManifestTypes ==
    ASSUME Types, CkManifest
    PROVE  Types'
<1>0. DictTypes /\ MemTypes /\ WriterTypes /\ LogTypes /\ FileTypes /\ PromiseTypes /\ LockTypes
  BY DEF Types
<1>1. NextGen \in Gen /\ log.gen \in Gen /\ log.gen \in Nat /\ NextGen = log.gen + 1
  BY <1>0, BoundsNat DEF CkManifest, LogTypes, LockTypes, Checkpointing, Gen, NextGen
<1>10. DictTypes'
  BY <1>0 DEF CkManifest, DictTypes, disk, ghosts
<1>11. MemTypes'
  BY <1>0 DEF CkManifest, MemTypes, DictTypes, disk, ghosts
<1>12. WriterTypes'
  BY <1>0 DEF CkManifest, WriterTypes, disk, ghosts
<1>13. LogTypes'
  BY <1>0 DEF CkManifest, LogTypes, disk, ghosts
<1>14. FileTypes'
  BY <1>0, <1>1 DEF CkManifest, FileTypes
<1>15. PromiseTypes'
  BY <1>0 DEF CkManifest, PromiseTypes, disk, ghosts
<1>16. LockTypes'
  BY <1>0 DEF CkManifest, LockTypes, Appending, Checkpointing, Sweeping, Unlocked, disk, ghosts
<1> QED BY <1>10, <1>11, <1>12, <1>13, <1>14, <1>15, <1>16 DEF Types

LEMMA CkDirSyncTypes ==
    ASSUME Types, CkDirSync
    PROVE  Types'
<1>0. DictTypes /\ MemTypes /\ WriterTypes /\ LogTypes /\ FileTypes /\ PromiseTypes /\ LockTypes
  BY DEF Types
<1>1. DictTypes'
  BY <1>0 DEF CkDirSync, DictTypes, disk, ghosts
<1>2. MemTypes'
  BY <1>0 DEF CkDirSync, MemTypes, DictTypes, disk, ghosts
<1>3. WriterTypes'
  BY <1>0 DEF CkDirSync, WriterTypes, disk, ghosts
<1>4. LogTypes'
  BY <1>0 DEF CkDirSync, LogTypes, disk, ghosts
<1>5. FileTypes'
  BY <1>0 DEF CkDirSync, FileTypes, disk, ghosts
<1>6. PromiseTypes'
  BY <1>0 DEF CkDirSync, PromiseTypes, disk, ghosts
<1>7. LockTypes'
  BY <1>0 DEF CkDirSync, LockTypes, Appending, Checkpointing, Sweeping, Unlocked, disk, ghosts
<1> QED BY <1>1, <1>2, <1>3, <1>4, <1>5, <1>6, <1>7 DEF Types

LEMMA CkReopenTypes ==
    ASSUME Types, CkReopen
    PROVE  Types'
<1>0. DictTypes /\ MemTypes /\ WriterTypes /\ LogTypes /\ FileTypes /\ PromiseTypes /\ LockTypes
  BY DEF Types
<1>1. NextGen \in Gen /\ log.gen \in Gen /\ log.gen \in Nat /\ NextGen = log.gen + 1
  BY <1>0, BoundsNat DEF CkReopen, LogTypes, LockTypes, Checkpointing, Gen, NextGen
<1>10. DictTypes'
  BY <1>0 DEF CkReopen, DictTypes, disk, ghosts
<1>11. MemTypes'
  BY <1>0 DEF CkReopen, MemTypes, DictTypes, disk, ghosts
<1>12. WriterTypes'
  BY <1>0 DEF CkReopen, WriterTypes, disk, ghosts
<1>13. LogTypes'
  <2>1. log' = [gen |-> NextGen, file |-> NextGen, logged |-> lock.slots, dirty |-> FALSE, policy |-> log.policy]
    BY DEF CkReopen, Opened
  <2>2. lock.slots \in Nat /\ lock.slots <= Len(dict) /\ dict' = dict
    BY <1>0 DEF CkReopen, LockTypes
  <2>3. NextGen <= NextGen
    BY <1>1
  <2> QED BY <1>0, <1>1, <2>1, <2>2, <2>3 DEF LogTypes
<1>14. FileTypes'
  <2>1. NoWal \in [recs : Seq(Entry), synced : Nat] /\ NoWal.synced <= Len(NoWal.recs)
    BY DEF NoWal
  <2>2. /\ wal' \in [Gen -> [recs : Seq(Entry), synced : Nat]]
        /\ \A h \in Gen : wal'[h].synced <= Len(wal'[h].recs)
    BY <1>0, <1>1, <2>1, FileReplaced DEF CkReopen
  <2>3. <<>> \in Seq(Slot) /\ Len(<<>>) <= MaxSlot /\ OneIndex(<<>>)
    BY BoundsNat DEF OneIndex
  <2>4. base' \in [Gen -> Seq(Slot)] /\ \A g \in Gen : Len(base'[g]) <= MaxSlot /\ OneIndex(base'[g])
    <3>1. base' = [base EXCEPT ![log.gen] = <<>>]
      BY DEF CkReopen
    <3>2. \A g \in Gen : base'[g] = IF g = log.gen THEN <<>> ELSE base[g]
      BY <1>0, <3>1 DEF FileTypes
    <3> QED BY <1>0, <2>3, <3>1, <3>2 DEF FileTypes
  <2> QED BY <1>0, <2>2, <2>4 DEF CkReopen, FileTypes
<1>15. PromiseTypes'
  BY <1>0 DEF CkReopen, PromiseTypes, MemTypes, TierState
<1>16. LockTypes'
  <2>1. /\ UNCHANGED <<status, dict, mem, writer>> /\ status = "up" /\ lock' = Unlocked /\ lock.pc = "reopen"
        /\ log'.logged = lock.slots
    BY DEF CkReopen, Opened
  <2>2. log.logged <= lock.slots /\ log.logged \in Nat /\ lock.slots \in Nat /\ Len(dict) \in Nat
    BY <1>0, <2>1 DEF LockTypes, LogTypes, DictTypes
  <2>3. \A i \in 1 .. Len(dict) : i > lock.slots => dict[i] # Free
    BY <1>0, <2>2 DEF LockTypes
  <2>4. lock'.pc = "free" /\ lock'.kind = "none"
    BY <2>1 DEF Unlocked
  <2>5. lock' \in [pc : {"free", "sync", "install", "wal", "wal_sync", "manifest", "dir_sync", "reopen"},
                   kind : Ops \cup {"none", "sweep"}, who : SUBSET Writer, id : Nat, slots : Nat]
    BY <2>1 DEF Unlocked
  <2> QED BY <2>1, <2>3, <2>4, <2>5 DEF LockTypes, Appending, Checkpointing, Sweeping
<1> QED BY <1>10, <1>11, <1>12, <1>13, <1>14, <1>15, <1>16 DEF Types

LEMMA CkFailsTypes ==
    ASSUME Types, CkFails
    PROVE  Types'
<1>0. DictTypes /\ MemTypes /\ WriterTypes /\ LogTypes /\ FileTypes /\ PromiseTypes /\ LockTypes
  BY DEF Types
<1>1. DictTypes'
  BY <1>0 DEF CkFails, DictTypes, disk, ghosts
<1>2. MemTypes'
  BY <1>0 DEF CkFails, MemTypes, DictTypes, disk, ghosts
<1>3. WriterTypes'
  BY <1>0 DEF CkFails, WriterTypes, disk, ghosts
<1>4. LogTypes'
  <2>1. CASE lock.pc = "reopen"
    <3>1. log' = [log EXCEPT !.gen = log.gen + 1] /\ dict' = dict
      BY <2>1 DEF CkFails, NextGen
    <3>2. log.gen \in Nat /\ log.file \in Nat /\ log.gen + 1 \in Gen
      BY <1>0, <2>1, BoundsNat DEF LogTypes, LockTypes, Checkpointing, Gen
    <3>3. log'.file <= log'.gen
      BY <1>0, <3>1, <3>2 DEF LogTypes
    <3> QED BY <1>0, <3>1, <3>2, <3>3 DEF LogTypes
  <2>2. CASE lock.pc # "reopen"
    BY <1>0, <2>2 DEF CkFails, LogTypes
  <2> QED BY <2>1, <2>2
<1>5. FileTypes'
  BY <1>0 DEF CkFails, FileTypes, disk, ghosts
<1>6. PromiseTypes'
  BY <1>0 DEF CkFails, PromiseTypes, Marked, ghosts
<1>7. LockTypes'
  <2>1. /\ UNCHANGED <<status, dict, mem, writer>> /\ status = "up" /\ lock' = Unlocked
    BY DEF CkFails
  <2>2. log'.logged = log.logged
    <3>1. log \in [gen : Gen, file : Gen, logged : Nat, dirty : BOOLEAN, policy : Policies]
      BY <1>0 DEF LogTypes
    <3> QED BY <3>1 DEF CkFails
  <2>3. lock'.pc = "free" /\ lock'.kind = "none"
    BY <2>1 DEF Unlocked
  <2>4. lock' \in [pc : {"free", "sync", "install", "wal", "wal_sync", "manifest", "dir_sync", "reopen"},
                   kind : Ops \cup {"none", "sweep"}, who : SUBSET Writer, id : Nat, slots : Nat]
    BY <2>1 DEF Unlocked
  <2>5. \A i \in 1 .. Len(dict) : i > log.logged => dict[i] # Free
    BY <1>0 DEF LockTypes
  <2> QED BY <2>1, <2>2, <2>3, <2>4, <2>5 DEF LockTypes, Appending, Checkpointing, Sweeping
<1> QED BY <1>1, <1>2, <1>3, <1>4, <1>5, <1>6, <1>7 DEF Types

LEMMA KillTypes ==
    ASSUME Types, Kill
    PROVE  Types'
<1>0. DictTypes /\ MemTypes /\ WriterTypes /\ LogTypes /\ FileTypes /\ PromiseTypes /\ LockTypes
  BY DEF Types
<1>1. /\ status' = "down" /\ dict' = <<>> /\ mem' = [version |-> 0, rows |-> {}]
      /\ writer' = [w \in Writer |-> IdleWriter] /\ log' = Opened(0, 0, log.policy) /\ lock' = Unlocked
      /\ fault' \in {"lost", fault}
  BY DEF Kill, Volatile
<1>2. UNCHANGED <<wal, base, manifest, acked, durable>>
  BY DEF Kill, disk, ghosts
<1>10. DictTypes'
  <2>1. <<>> \in Seq(Slot) /\ Len(<<>>) <= MaxSlot /\ OneIndex(<<>>)
    BY BoundsNat DEF OneIndex
  <2> QED BY <1>1, <2>1 DEF DictTypes
<1>11. MemTypes'
  BY <1>1, BoundsNat DEF MemTypes, TierState
<1>12. WriterTypes'
  BY <1>1 DEF WriterTypes, IdleWriter
<1>13. LogTypes'
  <2>1. 0 \in Gen /\ log.policy \in Policies /\ Len(dict') = 0
    BY <1>0, <1>1, BoundsNat DEF LogTypes, Gen
  <2> QED BY <1>1, <2>1 DEF LogTypes, Opened
<1>14. FileTypes'
  BY <1>0, <1>2 DEF FileTypes
<1>15. PromiseTypes'
  BY <1>0, <1>1, <1>2 DEF PromiseTypes
<1>16. LockTypes'
  <2>1. lock'.pc = "free" /\ lock'.kind = "none" /\ Len(dict') = 0
    BY <1>1 DEF Unlocked
  <2>2. lock' \in [pc : {"free", "sync", "install", "wal", "wal_sync", "manifest", "dir_sync", "reopen"},
                   kind : Ops \cup {"none", "sweep"}, who : SUBSET Writer, id : Nat, slots : Nat]
    BY <1>1 DEF Unlocked
  <2> QED BY <1>1, <2>1, <2>2 DEF LockTypes, Appending, Checkpointing, Sweeping
<1> QED BY <1>10, <1>11, <1>12, <1>13, <1>14, <1>15, <1>16 DEF Types

LEMMA PowerLossTypes ==
    ASSUME Types, PowerLoss
    PROVE  Types'
<1>0. DictTypes /\ MemTypes /\ WriterTypes /\ LogTypes /\ FileTypes /\ PromiseTypes /\ LockTypes
  BY DEF Types
<1>1. /\ status' = "down" /\ dict' = <<>> /\ mem' = [version |-> 0, rows |-> {}]
      /\ writer' = [w \in Writer |-> IdleWriter] /\ log' = Opened(0, 0, log.policy) /\ lock' = Unlocked
      /\ fault' \in {"lost", fault}
  BY DEF PowerLoss, Volatile
<1>2. base' = base /\ durable' = durable /\ acked' = durable
  BY DEF PowerLoss
<1>3. PICK m \in {manifest.now, manifest.stable} :
        /\ manifest' = [now |-> m, stable |-> m]
        /\ \E left \in Survivors(wal[m]) : wal' = [wal EXCEPT ![m] = left]
  BY DEF PowerLoss
<1>4. PICK left \in Survivors(wal[m]) : wal' = [wal EXCEPT ![m] = left]
  BY <1>3
<1>5. m \in Gen
  BY <1>0 DEF FileTypes
<1>10. DictTypes'
  <2>1. <<>> \in Seq(Slot) /\ Len(<<>>) <= MaxSlot /\ OneIndex(<<>>)
    BY BoundsNat DEF OneIndex
  <2> QED BY <1>1, <2>1 DEF DictTypes
<1>11. MemTypes'
  BY <1>1, BoundsNat DEF MemTypes, TierState
<1>12. WriterTypes'
  BY <1>1 DEF WriterTypes, IdleWriter
<1>13. LogTypes'
  <2>1. 0 \in Gen /\ log.policy \in Policies /\ Len(dict') = 0
    BY <1>0, <1>1, BoundsNat DEF LogTypes, Gen
  <2> QED BY <1>1, <2>1 DEF LogTypes, Opened
<1>14. FileTypes'
  <2>1. left \in [recs : Seq(Entry), synced : Nat] /\ left.synced <= Len(left.recs)
    BY <1>0, <1>4, <1>5, SurvivorsType
  <2>2. /\ wal' \in [Gen -> [recs : Seq(Entry), synced : Nat]]
        /\ \A h \in Gen : wal'[h].synced <= Len(wal'[h].recs)
    BY <1>0, <1>4, <1>5, <2>1, FileReplaced
  <2> QED BY <1>0, <1>2, <1>3, <1>5, <2>2 DEF FileTypes
<1>15. PromiseTypes'
  BY <1>0, <1>1, <1>2 DEF PromiseTypes
<1>16. LockTypes'
  <2>1. lock'.pc = "free" /\ lock'.kind = "none" /\ Len(dict') = 0
    BY <1>1 DEF Unlocked
  <2>2. lock' \in [pc : {"free", "sync", "install", "wal", "wal_sync", "manifest", "dir_sync", "reopen"},
                   kind : Ops \cup {"none", "sweep"}, who : SUBSET Writer, id : Nat, slots : Nat]
    BY <1>1 DEF Unlocked
  <2> QED BY <1>1, <2>1, <2>2 DEF LockTypes, Appending, Checkpointing, Sweeping
<1> QED BY <1>10, <1>11, <1>12, <1>13, <1>14, <1>15, <1>16 DEF Types

LEMMA OpenSweepTypes ==
    ASSUME Types, OpenSweep
    PROVE  Types'
<1>0. DictTypes /\ MemTypes /\ WriterTypes /\ LogTypes /\ FileTypes /\ PromiseTypes /\ LockTypes
  BY DEF Types
<1>1. DictTypes'
  BY <1>0 DEF OpenSweep, DictTypes, disk, ghosts
<1>2. MemTypes'
  BY <1>0 DEF OpenSweep, MemTypes, DictTypes, disk, ghosts
<1>3. WriterTypes'
  BY <1>0 DEF OpenSweep, WriterTypes, disk, ghosts
<1>4. LogTypes'
  BY <1>0 DEF OpenSweep, LogTypes, disk, ghosts
<1>5. FileTypes'
  <2>1. NoWal \in [recs : Seq(Entry), synced : Nat] /\ NoWal.synced <= Len(NoWal.recs)
    BY DEF NoWal
  <2>2. <<>> \in Seq(Slot) /\ Len(<<>>) <= MaxSlot /\ OneIndex(<<>>)
    BY BoundsNat DEF OneIndex
  <2>3. /\ wal' = [g \in Gen |-> IF g = manifest.now THEN wal[g] ELSE NoWal]
        /\ base' = [g \in Gen |-> IF g = manifest.now THEN base[g] ELSE <<>>]
        /\ manifest' = [manifest EXCEPT !.stable = manifest.now]
    BY DEF OpenSweep
  <2>4. wal' \in [Gen -> [recs : Seq(Entry), synced : Nat]] /\ \A g \in Gen : wal'[g].synced <= Len(wal'[g].recs)
    BY <1>0, <2>1, <2>3 DEF FileTypes
  <2>5. \A g \in Gen : base'[g] = IF g = manifest.now THEN base[g] ELSE <<>>
    BY <2>3
  <2>6. base' \in [Gen -> Seq(Slot)]
    BY <1>0, <2>2, <2>3 DEF FileTypes
  <2>7. \A g \in Gen : Len(base'[g]) <= MaxSlot /\ OneIndex(base'[g])
    BY <1>0, <2>2, <2>5 DEF FileTypes
  <2>8. manifest' \in [now : Gen, stable : Gen]
    BY <1>0, <2>3 DEF FileTypes
  <2> QED BY <2>4, <2>6, <2>7, <2>8 DEF FileTypes
<1>6. PromiseTypes'
  BY <1>0 DEF OpenSweep, PromiseTypes, disk, ghosts
<1>7. LockTypes'
  BY <1>0 DEF OpenSweep, LockTypes, Appending, Checkpointing, Sweeping, Unlocked, disk, ghosts
<1> QED BY <1>1, <1>2, <1>3, <1>4, <1>5, <1>6, <1>7 DEF Types

LEMMA OpenReplayTypes ==
    ASSUME Types, Bounds, OpenReplay
    PROVE  Types'
<1>0. DictTypes /\ MemTypes /\ WriterTypes /\ LogTypes /\ FileTypes /\ PromiseTypes /\ LockTypes
  BY DEF Types
<1> DEFINE g == manifest.now
           recs == Readable(wal[g].recs)
           st == Rep(base[g], recs)
<1>1. /\ status = "opening" /\ st.ok /\ status' = "up" /\ dict' = st.dict /\ mem' = st.mem
      /\ wal' = [wal EXCEPT ![g] = [recs |-> recs,
             synced |-> IF recs = wal[g].recs THEN wal[g].synced ELSE Len(recs)]]
      /\ \E p \in Policies : log' = Opened(g, Len(st.dict), p)
      /\ UNCHANGED <<writer, lock, base, manifest, acked, durable, fault>>
  BY ReplayedIsRep DEF OpenReplay
<1>2. g \in Gen /\ wal[g].recs \in Seq(Entry) /\ wal[g].synced \in Nat /\ wal[g].synced <= Len(wal[g].recs)
      /\ base[g] \in Seq(Slot) /\ OneIndex(base[g])
  BY <1>0 DEF FileTypes
<1>3. PICK k \in 0 .. Len(wal[g].recs) : recs = Cut(wal[g].recs, k) /\ Clean(wal[g].recs, k)
  BY <1>2, ReadableIs
<1>4. recs \in Seq(LogRecord) /\ Len(recs) \in Nat
  BY <1>2, <1>3, CleanRecords
<1> HIDE DEF g, recs
<1>5. st \in ReplayState /\ OneIndex(st.dict)
  BY <1>2, <1>4, RepType, RepOneIndex
<1>6. st.mem.version <= MaxVersion /\ st.mem.rows \subseteq 1 .. Len(st.dict) /\ Len(st.dict) <= MaxSlot
  <2>1. Bounded(base[g], wal[g].recs)
    BY <1>2 DEF Bounds
  <2> QED BY <1>1, <1>3, <2>1 DEF Bounded
<1> HIDE DEF st
<1>7. st.dict \in Seq(Slot) /\ st.mem \in TierState /\ Len(st.dict) \in Nat
  BY <1>5 DEF ReplayState
<1>8. lock = Unlocked /\ dict = <<>>
  BY <1>0, <1>1 DEF LockTypes
<1>10. DictTypes'
  BY <1>1, <1>5, <1>6, <1>7 DEF DictTypes
<1>11. MemTypes'
  BY <1>1, <1>6, <1>7 DEF MemTypes
<1>12. WriterTypes'
  <2>1. Len(dict) = 0
    BY <1>8
  <2>2. \A w \in Writer : writer[w].pc # "holding"
    BY <1>0, <2>1 DEF WriterTypes
  <2> QED BY <1>0, <1>1, <2>2 DEF WriterTypes
<1>13. LogTypes'
  <2>1. PICK p \in Policies : log' = Opened(g, Len(st.dict), p)
    BY <1>1
  <2>2. g \in Nat /\ g <= g
    BY <1>2 DEF Gen
  <2> QED BY <1>1, <1>2, <1>7, <2>1, <2>2 DEF LogTypes, Opened
<1>14. FileTypes'
  <2> DEFINE f == [recs |-> recs, synced |-> IF recs = wal[g].recs THEN wal[g].synced ELSE Len(recs)]
  <2>1. f \in [recs : Seq(Entry), synced : Nat] /\ f.synced <= Len(f.recs)
    <3>1. recs \in Seq(Entry)
      BY <1>4 DEF Entry
    <3> QED BY <1>2, <1>4, <3>1
  <2>2. wal' = [wal EXCEPT ![g] = f]
    BY <1>1
  <2> HIDE DEF f
  <2>3. /\ wal' \in [Gen -> [recs : Seq(Entry), synced : Nat]]
        /\ \A h \in Gen : wal'[h].synced <= Len(wal'[h].recs)
    BY <1>0, <1>2, <2>1, <2>2, FileReplaced
  <2> QED BY <1>0, <1>1, <2>3 DEF FileTypes
<1>15. PromiseTypes'
  BY <1>0, <1>1 DEF PromiseTypes
<1>16. LockTypes'
  <2>1. lock' = Unlocked /\ lock'.pc = "free" /\ lock'.kind = "none"
    BY <1>1, <1>8 DEF Unlocked
  <2>2. lock' \in [pc : {"free", "sync", "install", "wal", "wal_sync", "manifest", "dir_sync", "reopen"},
                   kind : Ops \cup {"none", "sweep"}, who : SUBSET Writer, id : Nat, slots : Nat]
    BY <2>1 DEF Unlocked
  <2>3. log'.logged = Len(dict')
    BY <1>1 DEF Opened
  <2>4. \A i \in 1 .. Len(dict') : ~(i > log'.logged)
    BY <1>1, <1>7, <2>3
  <2> QED BY <1>1, <2>1, <2>2, <2>4 DEF LockTypes, Appending, Checkpointing, Sweeping
<1> QED BY <1>10, <1>11, <1>12, <1>13, <1>14, <1>15, <1>16 DEF Types

LEMMA OpenFailsTypes ==
    ASSUME Types, OpenFails
    PROVE  Types'
<1>0. DictTypes /\ MemTypes /\ WriterTypes /\ LogTypes /\ FileTypes /\ PromiseTypes /\ LockTypes
  BY DEF Types
<1>1. DictTypes'
  BY <1>0 DEF OpenFails, DictTypes, disk, ghosts
<1>2. MemTypes'
  BY <1>0 DEF OpenFails, MemTypes, DictTypes, disk, ghosts
<1>3. WriterTypes'
  BY <1>0 DEF OpenFails, WriterTypes, disk, ghosts
<1>4. LogTypes'
  BY <1>0 DEF OpenFails, LogTypes, disk, ghosts
<1>5. FileTypes'
  BY <1>0 DEF OpenFails, FileTypes, disk, ghosts
<1>6. PromiseTypes'
  BY <1>0 DEF OpenFails, PromiseTypes, disk, ghosts
<1>7. LockTypes'
  BY <1>0 DEF OpenFails, LockTypes, Appending, Checkpointing, Sweeping, Unlocked, disk, ghosts
<1> QED BY <1>1, <1>2, <1>3, <1>4, <1>5, <1>6, <1>7 DEF Types

-----------------------------------------------------------------------------
(* Bounds holds whatever happens.                                            *)

LEMMA BoundedCut ==
    ASSUME NEW b, NEW recs \in Seq(Entry), NEW k \in 0 .. Len(recs), Bounded(b, recs)
    PROVE  Bounded(b, Cut(recs, k)) /\ Bounded(b, Append(Cut(recs, k), Torn))
<1> DEFINE c == Cut(recs, k)
           d == Append(c, Torn)
<1>1. c \in Seq(Entry) /\ Len(c) = k /\ k \in Nat /\ \A i \in 1 .. k : c[i] = recs[i]
  BY CutType
<1>2. \A j \in 0 .. k : Cut(c, j) = Cut(recs, j) /\ j \in 0 .. Len(recs)
  BY CutCut
<1>3. ASSUME NEW j \in 0 .. k, Clean(c, j) PROVE Clean(recs, j)
  BY <1>1, <1>3 DEF Clean
<1>4. Bounded(b, c)
  <2> HIDE DEF c
  <2> QED BY <1>1, <1>2, <1>3 DEF Bounded
<1>5. /\ d \in Seq(Entry) /\ Len(d) = k + 1 /\ d[k + 1] = Torn
      /\ \A i \in 1 .. k : d[i] = c[i]
  <2>1. Torn \in Entry
    BY DEF Entry
  <2> HIDE DEF c
  <2> QED BY <1>1, <2>1
<1>6. \A j \in 0 .. k : Cut(d, j) = Cut(c, j)
  <2>1. Torn \in Entry
    BY DEF Entry
  <2> HIDE DEF c
  <2> QED BY <1>1, <2>1, CutAppend
<1> HIDE DEF c, d
<1>7. ASSUME NEW j \in 0 .. Len(d), Clean(d, j) PROVE j \in 0 .. k /\ Clean(c, j)
  <2>1. j # k + 1
    BY <1>1, <1>5, <1>7 DEF Clean
  <2>2. j \in 0 .. k
    BY <1>1, <1>5, <2>1
  <2> QED BY <1>1, <1>5, <1>7, <2>2 DEF Clean
<1>8. Bounded(b, d)
  <2> SUFFICES ASSUME NEW j \in 0 .. Len(d), Clean(d, j)
               PROVE  LET st == Rep(b, Cut(d, j))
                      IN  st.ok => /\ st.mem.version <= MaxVersion
                                   /\ st.mem.rows \subseteq 1 .. Len(st.dict)
                                   /\ Len(st.dict) <= MaxSlot
    BY DEF Bounded
  <2>1. j \in 0 .. k /\ Clean(c, j) /\ Cut(d, j) = Cut(c, j) /\ j \in 0 .. Len(c)
    BY <1>1, <1>6, <1>7
  <2> QED BY <1>4, <2>1 DEF Bounded
<1> QED BY <1>4, <1>8 DEF c, d

LEMMA ChunksBounded ==
    ASSUME NEW b \in Seq(Slot), Len(b) <= MaxSlot, NEW recs \in Seq(Entry), OnlyChunks(recs, Len(b))
    PROVE  /\ Bounded(b, recs)
           /\ recs \in Seq(LogRecord) /\ Rep(b, recs).dict = b
<1>0. \A i \in 1 .. Len(recs) : /\ recs[i] \in LogRecord /\ Chunk(recs[i])
                                /\ recs[i].version <= MaxVersion /\ recs[i].adds \subseteq 1 .. Len(b)
  BY DEF OnlyChunks
<1>1. recs \in Seq(LogRecord)
  BY <1>0
<1>2. ASSUME NEW k \in 0 .. Len(recs)
      PROVE  LET st == Rep(b, Cut(recs, k))
             IN  st.dict = b /\ st.mem.version <= MaxVersion /\ st.mem.rows \subseteq 1 .. Len(b)
  <2> DEFINE c == Cut(recs, k)
             R == 1 .. Len(b)
  <2>1. c \in Seq(LogRecord) /\ Len(c) = k /\ k \in Nat /\ Len(recs) \in Nat /\ \A i \in 1 .. k : c[i] = recs[i]
    BY <1>1, CutType
  <2>2. \A i \in 1 .. k : Chunk(c[i]) /\ c[i].version <= MaxVersion /\ c[i].adds \subseteq R
    BY <1>0, <2>1
  <2> HIDE DEF c, R
  <2>3. \A i \in 1 .. Len(c) : Chunk(c[i]) /\ c[i].version <= MaxVersion /\ c[i].adds \subseteq R
    BY <2>1, <2>2
  <2>4. LET st == Rep(b, c) IN st.dict = b /\ st.mem.version <= MaxVersion /\ st.mem.rows \subseteq R
    <3> DEFINE v == MaxVersion
    <3>1. v \in Nat
      BY BoundsNat
    <3>2. \A i \in 1 .. Len(c) : Chunk(c[i]) /\ c[i].version <= v /\ c[i].adds \subseteq R
      BY <2>3
    <3> HIDE DEF v
    <3>3. LET st == Rep(b, c) IN st.dict = b /\ st.mem.version <= v /\ st.mem.rows \subseteq R
      BY <2>1, <3>1, <3>2, ChunksBound, Zenon
    <3> QED BY <3>3 DEF v
  <2> QED BY <2>4 DEF c, R
<1>3. Bounded(b, recs)
  BY <1>2 DEF Bounded
<1>4. Cut(recs, Len(recs)) = recs /\ Len(recs) \in 0 .. Len(recs)
  BY CutAll
<1>5. Rep(b, recs).dict = b
  BY <1>2, <1>4
<1> QED BY <1>1, <1>3, <1>5

LEMMA NothingBounded == Bounded(<<>>, <<>>) /\ \A n : OnlyChunks(<<>>, n)
<1>1. <<>> \in Seq(Slot) /\ Len(<<>>) <= MaxSlot /\ <<>> \in Seq(Entry)
  BY BoundsNat
<1>2. \A n : OnlyChunks(<<>>, n)
  BY DEF OnlyChunks
<1> QED BY <1>1, <1>2, ChunksBounded

LEMMA AppendBounded ==
    ASSUME NEW b \in Seq(Slot), NEW recs \in Seq(Entry), NEW rec \in LogRecord, Bounded(b, recs),
           LET st == Rep(b, Append(recs, rec))
           IN  Clean(recs, Len(recs)) /\ st.ok =>
                  /\ st.mem.version <= MaxVersion
                  /\ st.mem.rows \subseteq 1 .. Len(st.dict)
                  /\ Len(st.dict) <= MaxSlot
    PROVE  Bounded(b, Append(recs, rec))
<1> DEFINE n == Len(recs)
           t == Append(recs, rec)
<1>0. rec \in Entry /\ n \in Nat
  BY DEF Entry
<1>1. t \in Seq(Entry) /\ Len(t) = n + 1 /\ \A i \in 1 .. n : t[i] = recs[i]
  BY <1>0
<1>2. \A k \in 0 .. n : Cut(t, k) = Cut(recs, k)
  BY <1>0, CutAppend
<1>3. Cut(t, n + 1) = t
  BY <1>1, CutAll
<1> HIDE DEF t
<1> SUFFICES ASSUME NEW k \in 0 .. Len(t), Clean(t, k)
             PROVE  LET st == Rep(b, Cut(t, k))
                    IN  st.ok => /\ st.mem.version <= MaxVersion
                                 /\ st.mem.rows \subseteq 1 .. Len(st.dict)
                                 /\ Len(st.dict) <= MaxSlot
  BY DEF Bounded, t
<1>4. k \in 0 .. n \/ k = n + 1
  BY <1>0, <1>1
<1>5. CASE k \in 0 .. n
  <2>1. Clean(recs, k)
    BY <1>0, <1>1, <1>5 DEF Clean
  <2> QED BY <1>2, <1>5, <2>1 DEF Bounded
<1>6. CASE k = n + 1
  <2>1. Clean(recs, n)
    BY <1>0, <1>1, <1>6 DEF Clean
  <2> QED BY <1>3, <1>6, <2>1 DEF t
<1> QED BY <1>4, <1>5, <1>6

\* The record of a batch brings a replay up to the dictionary it was cut from.
LEMMA BatchBounded ==
    ASSUME Types, Bounds, status = "up", lock.pc = "free", HasRoom,
           NEW kind \in Ops \cup {"sweep"}, NEW id \in Nat, kind # "sweep" => id \in 1 .. Len(dict)
    PROVE  LET b == base[log.file]
               more == Append(wal[log.file].recs, BatchRecord(kind, id))
           IN  /\ Bounded(b, more)
               /\ Clean(more, Len(more)) /\ Rep(b, more).ok => Len(dict) <= Len(Rep(b, more).dict)
<1> DEFINE g == log.file
           b == base[g]
           recs == wal[g].recs
           rec == BatchRecord(kind, id)
           more == Append(recs, rec)
           st == Rep(b, recs)
           u == Rep(b, more)
<1>1. g \in Gen /\ b \in Seq(Slot) /\ recs \in Seq(Entry) /\ Len(recs) \in Nat
  BY DEF Types, LogTypes, FileTypes
<1>2. rec \in LogRecord /\ Len(rec.terms) = Len(dict) - log.logged
  BY BatchType DEF Types
<1>3. /\ rec.version = mem.version + 1 /\ rec.first = log.logged + 1
      /\ rec.kind # "checkpoint"
      /\ rec.adds \subseteq 1 .. Len(dict)
  <2>1. /\ rec.version = mem.version + 1 /\ rec.first = log.logged + 1
        /\ rec.kind = IF kind = "insert" THEN "insert" ELSE "apply"
        /\ rec.adds = IF kind \in {"insert", "apply"} THEN {id} ELSE {}
    BY BatchFields
  <2> HIDE DEF rec
  <2> QED BY <2>1
<1>4. Bounded(b, recs) /\ (Clean(recs, Len(recs)) /\ st.ok => log.logged <= Len(st.dict))
  BY <1>1 DEF Bounds, LoggedReached, Reached, Appending
<1>5. Len(dict) \in Nat /\ Len(dict) <= MaxSlot /\ log.logged \in Nat /\ log.logged <= Len(dict)
      /\ mem.version \in Nat /\ mem.version < MaxVersion
  BY DEF Types, DictTypes, LogTypes, MemTypes, TierState, HasRoom
<1> HIDE DEF b, recs, rec, g
<1>6. ASSUME Clean(recs, Len(recs)), u.ok
      PROVE  /\ u.mem.version <= MaxVersion
             /\ u.mem.rows \subseteq 1 .. Len(u.dict)
             /\ Len(u.dict) <= MaxSlot
             /\ Len(dict) <= Len(u.dict)
  <2>1. Cut(recs, Len(recs)) = recs /\ Len(recs) \in 0 .. Len(recs)
    BY <1>1, CutAll
  <2>2. recs \in Seq(LogRecord)
    BY <1>1, <1>6, <2>1, CleanRecords
  <2>3. u = ReplayRecord(st, rec) /\ st \in ReplayState
    BY <1>1, <1>2, <2>2, RepOn, RepType
  <2> HIDE DEF u, st
  <2>4. st.ok /\ Accepts(st, rec) /\ u.dict = Spelt(st.dict, rec.terms) /\ u.mem = MemAfter(st.mem, rec)
    BY <1>2, <1>6, <2>3, RecordStep
  <2>5. st.dict \in Seq(Slot) /\ rec.terms \in Seq(Slot) /\ st.mem \in TierState
    BY <1>2, <2>3 DEF ReplayState, LogRecord
  <2>6. Len(u.dict) = Len(st.dict) + Len(rec.terms) /\ Len(st.dict) \in Nat /\ Len(rec.terms) \in Nat
    <3>1. Len(Spelt(st.dict, rec.terms)) = Len(st.dict) + Len(rec.terms)
      BY <2>5, SpeltType
    <3>2. Len(st.dict) \in Nat /\ Len(rec.terms) \in Nat
      BY <2>5
    <3> QED BY <2>4, <3>1, <3>2
  <2>7. st.mem.version <= MaxVersion /\ st.mem.rows \subseteq 1 .. Len(st.dict) /\ Len(st.dict) <= MaxSlot
    BY <1>4, <1>6, <2>1, <2>4 DEF Bounded, st
  <2>8. log.logged <= Len(st.dict)
    BY <1>4, <1>6, <2>4 DEF st
  <2>9. Len(dict) <= Len(u.dict)
    BY <1>2, <1>5, <2>6, <2>8
  <2>10. Len(u.dict) <= MaxSlot
    <3>1. CASE rec.terms = <<>>
      <4>1. Len(rec.terms) = 0
        BY <3>1
      <4> QED BY <2>6, <2>7, <4>1
    <3>2. CASE rec.terms # <<>>
      <4>1. rec.first = Len(st.dict) + 1
        BY <2>4, <3>2 DEF Accepts
      <4>2. log.logged = Len(st.dict)
        BY <1>3, <1>5, <2>6, <4>1
      <4>3. Len(u.dict) = Len(dict)
        <5> DEFINE x == Len(u.dict)
                   y == Len(st.dict)
                   z == Len(rec.terms)
                   n == Len(dict)
        <5>1. x = y + z /\ y \in Nat /\ z = n - log.logged /\ y = log.logged /\ n \in Nat
          BY <1>2, <1>5, <2>6, <4>2
        <5> HIDE DEF x, y, z, n
        <5>2. x = n
          BY <1>5, <5>1
        <5> QED BY <5>2 DEF x, n
      <4> QED BY <1>5, <4>3
    <3> QED BY <3>1, <3>2
  <2>11. u.mem.version \in {rec.version, st.mem.version} /\ u.mem.rows \subseteq st.mem.rows \cup rec.adds
    <3>1. u.mem = Applied(st.mem, rec)
      BY <1>3, <2>4 DEF MemAfter
    <3> QED BY <3>1 DEF Applied
  <2>12. u.mem.version <= MaxVersion
    BY <1>3, <1>5, <2>7, <2>11, BoundsNat
  <2>13. u.mem.rows \subseteq 1 .. Len(u.dict)
    <3> SUFFICES ASSUME NEW i \in u.mem.rows PROVE i \in 1 .. Len(u.dict)
      OBVIOUS
    <3>1. i \in 1 .. Len(st.dict) \/ i \in 1 .. Len(dict)
      BY <1>3, <2>7, <2>11
    <3> DEFINE x == Len(u.dict)
               y == Len(st.dict)
               z == Len(rec.terms)
               n == Len(dict)
    <3>2. x = y + z /\ y \in Nat /\ z \in Nat /\ n \in Nat /\ n <= x /\ (i \in 1 .. y \/ i \in 1 .. n)
      BY <1>5, <2>6, <2>9, <3>1
    <3> HIDE DEF x, y, z, n
    <3>3. i \in 1 .. x
      BY <3>2
    <3> QED BY <3>3 DEF x
  <2> QED BY <2>9, <2>10, <2>12, <2>13
<1>7. Bounded(b, more)
  BY <1>1, <1>2, <1>4, <1>6, AppendBounded
<1>8. Clean(more, Len(more)) => Clean(recs, Len(recs))
  <2>1. Len(more) = Len(recs) + 1 /\ \A i \in 1 .. Len(recs) : more[i] = recs[i]
    <3>1. rec \in Entry
      BY <1>2 DEF Entry
    <3> QED BY <1>1, <3>1
  <2> HIDE DEF more
  <2> QED BY <1>1, <2>1 DEF Clean
<1> QED BY <1>6, <1>7, <1>8 DEF g, b, recs, rec

\* Steps that write no record.
LEMMA BoundsKept ==
    ASSUME Types, Bounds, Types', status = "up", status' = "up",
           \A g \in Gen : wal'[g].recs = wal[g].recs, base' = base,
           log'.file = log.file, log.gen <= log'.gen,
           Reached' <= Reached, Len(dict) <= Len(dict')
    PROVE  Bounds'
<1>1. \A g \in Gen : Bounded(base'[g], wal'[g].recs)
  BY DEF Bounds
<1>2. log.file \in Gen /\ log.gen \in Nat /\ log'.gen \in Nat /\ Gen \subseteq Nat
      /\ Len(dict) \in Nat /\ Len(dict') \in Nat
  BY DEF Types, LogTypes, DictTypes, Gen
<1>3. LoggedReached'
  <2> DEFINE st == Rep(base[log.file], wal[log.file].recs)
             recs == wal[log.file].recs
  <2>1. Reached \in Nat /\ Reached' \in Nat
    BY DEF Reached, Types, LogTypes, LockTypes
  <2>2. recs \in Seq(Entry) /\ Len(recs) \in Nat /\ base[log.file] \in Seq(Slot)
    <3>1. FileTypes
      BY DEF Types
    <3>2. wal[log.file] \in [recs : Seq(Entry), synced : Nat] /\ base[log.file] \in Seq(Slot)
      BY <1>2, <3>1 DEF FileTypes
    <3> QED BY <3>2
  <2> SUFFICES ASSUME Clean(recs, Len(recs)), st.ok PROVE Reached' <= Len(st.dict)
    BY <1>2 DEF LoggedReached
  <2>3. Reached <= Len(st.dict)
    BY DEF Bounds, LoggedReached
  <2>4. Len(st.dict) \in Nat
    <3>1. recs \in Seq(LogRecord)
      <4>1. Cut(recs, Len(recs)) = recs /\ Len(recs) \in 0 .. Len(recs)
        BY <2>2, CutAll
      <4> HIDE DEF recs
      <4> QED BY <2>2, <4>1, CleanRecords
    <3>2. st \in ReplayState
      BY <2>2, <3>1, RepType
    <3> HIDE DEF st
    <3> QED BY <3>2 DEF ReplayState
  <2> HIDE DEF st
  <2> QED BY <2>1, <2>3, <2>4
<1>4. ASSUME NEW g \in Gen, g > log'.gen PROVE OnlyChunks(wal'[g].recs, Len(dict'))
  <2>1. g > log.gen
    BY <1>2, <1>4
  <2>2. OnlyChunks(wal[g].recs, Len(dict))
    BY <2>1 DEF Bounds
  <2>3. 1 .. Len(dict) \subseteq 1 .. Len(dict')
    BY <1>2
  <2>4. wal'[g].recs = wal[g].recs
    OBVIOUS
  <2> QED BY <2>2, <2>3, <2>4 DEF OnlyChunks
<1> QED BY <1>1, <1>3, <1>4 DEF Bounds

-----------------------------------------------------------------------------
(* What a checkpoint has done so far.                                        *)

Progress ==
    /\ Checkpointing => base[NextGen] = Cut(dict, lock.slots)
    /\ lock.pc = "wal_sync" => wal[NextGen] = [recs |-> CkRecords, synced |-> 0]
    /\ lock.pc \in {"manifest", "dir_sync", "reopen"} =>
          wal[NextGen] = [recs |-> CkRecords, synced |-> Len(CkRecords)]
    /\ lock.pc \in {"dir_sync", "reopen"} => manifest.now = NextGen
    /\ lock.pc = "reopen" => manifest.stable = NextGen

LEMMA CkChunks ==
    ASSUME Types, NEW n \in Nat, mem.rows \subseteq 1 .. n
    PROVE  CkRecords \in Seq(LogRecord) /\ CkRecords \in Seq(Entry) /\ OnlyChunks(CkRecords, n)
<1>1. mem \in TierState /\ mem.version <= MaxVersion /\ IsFiniteSet(mem.rows)
  <2>1. IsFiniteSet(1 .. n)
    BY FS_Interval
  <2> QED BY <2>1, FS_Subset DEF Types, MemTypes
<1>2. /\ CkRecords \in Seq(LogRecord)
      /\ \A i \in 1 .. Len(CkRecords) :
            /\ Chunk(CkRecords[i]) /\ CkRecords[i].version = mem.version
            /\ CkRecords[i].adds \subseteq mem.rows
  BY <1>1, CkRecordsAre
<1>3. OnlyChunks(CkRecords, n)
  <2> SUFFICES ASSUME NEW i \in 1 .. Len(CkRecords)
               PROVE  /\ CkRecords[i] \in LogRecord /\ Chunk(CkRecords[i])
                      /\ CkRecords[i].version <= MaxVersion /\ CkRecords[i].adds \subseteq 1 .. n
    BY DEF OnlyChunks
  <2>1. CkRecords[i] \in LogRecord
    BY <1>2
  <2> QED BY <1>1, <1>2, <2>1
<1>4. CkRecords \in Seq(Entry)
  BY <1>2 DEF Entry
<1> QED BY <1>2, <1>3, <1>4

LEMMA NextGenIs ==
    ASSUME Types, log.gen < MaxGen
    PROVE  /\ NextGen \in Gen /\ NextGen = log.gen + 1 /\ log.gen \in Nat /\ log.file \in Nat /\ Gen \subseteq Nat
           /\ log.gen \in Gen /\ log.file \in Gen /\ log.file <= log.gen /\ NextGen # log.gen /\ NextGen # log.file
<1>1. log.gen \in 0 .. MaxGen /\ log.file \in 0 .. MaxGen /\ log.file <= log.gen
  BY DEF Types, LogTypes, Gen
<1> QED BY <1>1, BoundsNat DEF NextGen, Gen

LEMMA ProgressIdle ==
    ASSUME ~Checkpointing'
    PROVE  Progress'
BY DEF Progress, Checkpointing

LEMMA ProgressStep ==
    ASSUME Types, Progress, [Next]_vars
    PROVE  Progress'
<1>0. DictTypes /\ MemTypes /\ LogTypes /\ FileTypes /\ LockTypes
  BY DEF Types
<1>1. ASSUME mem' = mem PROVE CkRecords' = CkRecords
  BY <1>1 DEF CkRecords, CkRecord
<1>2. Checkpointing => log.gen < MaxGen
  BY <1>0 DEF LockTypes
<1>3. CASE \E w \in Writer, op \in Ops, t \in Term : Intern(w, op, t)
  <2>1. PICK w \in Writer, op \in Ops, t \in Term : Intern(w, op, t)
    BY <1>3
  <2>2. UNCHANGED <<lock, log, mem, wal, base, manifest>>
    BY <2>1 DEF Intern, disk
  <2>3. ASSUME Checkpointing PROVE Cut(dict', lock.slots) = Cut(dict, lock.slots)
    <3>1. lock.slots \in 0 .. Len(dict) /\ dict \in Seq(Slot)
      BY <1>0, <2>3 DEF LockTypes, DictTypes, Checkpointing
    <3>2. dict' = dict \/ dict' = Append(dict, t)
      BY <2>1 DEF Intern
    <3>3. t \in Slot
      BY DEF Slot
    <3>4. Cut(Append(dict, t), lock.slots) = Cut(dict, lock.slots)
      BY <3>1, <3>3, CutAppend
    <3> QED BY <3>2, <3>4
  <2> QED BY <1>1, <2>2, <2>3 DEF Progress, Checkpointing, NextGen
<1>4. CASE \E w \in Writer : AppendWrite(w) \/ AppendWriteFails(w)
  <2>1. ~Checkpointing'
    <3>1. PICK w \in Writer : AppendWrite(w) \/ AppendWriteFails(w)
      BY <1>4
    <3>2. CASE AppendWrite(w)
      BY <3>2 DEF AppendWrite, Checkpointing, Unlocked
    <3>3. CASE AppendWriteFails(w)
      BY <3>3 DEF AppendWriteFails, Checkpointing
    <3> QED BY <3>1, <3>2, <3>3
  <2> QED BY <2>1, ProgressIdle
<1>5. CASE SweepWrite \/ AppendSync \/ AppendNoSync \/ AppendSyncFails \/ Install \/ SyncWal
  <2>1. ~Checkpointing'
    <3>0. lock \in [pc : {"free", "sync", "install", "wal", "wal_sync", "manifest", "dir_sync", "reopen"},
                 kind : Ops \cup {"none", "sweep"}, who : SUBSET Writer, id : Nat, slots : Nat]
      BY <1>0 DEF LockTypes
    <3>1. CASE SweepWrite BY <3>1 DEF SweepWrite, Checkpointing, Unlocked
    <3>2. CASE AppendSync BY <3>0, <3>2 DEF AppendSync, Checkpointing
    <3>3. CASE AppendNoSync BY <3>0, <3>3 DEF AppendNoSync, Checkpointing
    <3>4. CASE AppendSyncFails BY <3>4 DEF AppendSyncFails, Checkpointing, Unlocked
    <3>5. CASE Install BY <3>5 DEF Install, Checkpointing, Unlocked
    <3>6. CASE SyncWal BY <3>6 DEF SyncWal, Checkpointing
    <3> QED BY <1>5, <3>1, <3>2, <3>3, <3>4, <3>5, <3>6
  <2> QED BY <2>1, ProgressIdle
<1>6. CASE CkDict
  <2>1. log.gen < MaxGen /\ base' = [base EXCEPT ![NextGen] = dict] /\ lock'.slots = Len(dict) /\ lock'.pc = "wal"
        /\ UNCHANGED <<log, dict>>
    BY <1>6 DEF CkDict, Unlocked
  <2>2. base'[NextGen] = dict
    BY <1>0, <2>1, NextGenIs DEF FileTypes
  <2>3. Cut(dict, Len(dict)) = dict
    BY <1>0, CutAll DEF DictTypes
  <2> QED BY <2>1, <2>2, <2>3 DEF Progress, Checkpointing, NextGen
<1>7. CASE CkWal
  <2>1. /\ lock.pc = "wal" /\ wal' = [wal EXCEPT ![NextGen] = [recs |-> CkRecords, synced |-> 0]]
        /\ UNCHANGED <<dict, mem, log, base>>
    BY <1>7 DEF CkWal
  <2>2. Checkpointing /\ lock'.pc = "wal_sync" /\ lock'.slots = lock.slots
    BY <1>0, <1>7, <2>1 DEF CkWal, LockTypes, Checkpointing
  <2>3. wal'[NextGen] = [recs |-> CkRecords, synced |-> 0]
    BY <1>0, <1>2, <2>1, <2>2, NextGenIs DEF FileTypes
  <2> QED BY <1>1, <2>1, <2>2, <2>3 DEF Progress, Checkpointing, NextGen
<1>8. CASE CkWalSync
  <2>1. /\ lock.pc = "wal_sync" /\ wal' = [wal EXCEPT ![NextGen] = Synced(@)]
        /\ UNCHANGED <<dict, mem, log, base>>
    BY <1>8 DEF CkWalSync
  <2>2. Checkpointing /\ lock'.pc = "manifest" /\ lock'.slots = lock.slots
    BY <1>0, <1>8, <2>1 DEF CkWalSync, LockTypes, Checkpointing
  <2>3. wal'[NextGen] = [recs |-> wal[NextGen].recs, synced |-> Len(wal[NextGen].recs)]
    BY <1>0, <1>2, <2>1, <2>2, NextGenIs, FileSynced
  <2>4. wal'[NextGen] = [recs |-> CkRecords, synced |-> Len(CkRecords)]
    BY <2>1, <2>3 DEF Progress
  <2> QED BY <1>1, <2>1, <2>2, <2>4 DEF Progress, Checkpointing, NextGen
<1>9. CASE CkManifest
  <2>1. /\ lock.pc = "manifest" /\ manifest' = [manifest EXCEPT !.now = NextGen]
        /\ UNCHANGED <<dict, mem, log, base, wal>>
    BY <1>9 DEF CkManifest
  <2>2. Checkpointing /\ lock'.pc = "dir_sync" /\ lock'.slots = lock.slots
    BY <1>0, <1>9, <2>1 DEF CkManifest, LockTypes, Checkpointing
  <2>3. manifest'.now = NextGen
    BY <1>0, <2>1 DEF FileTypes
  <2> QED BY <1>1, <2>1, <2>2, <2>3 DEF Progress, Checkpointing, NextGen
<1>10. CASE CkDirSync
  <2>1. /\ lock.pc = "dir_sync" /\ manifest' = [manifest EXCEPT !.stable = manifest.now]
        /\ UNCHANGED <<dict, mem, log, base, wal>>
    BY <1>10 DEF CkDirSync
  <2>2. Checkpointing /\ lock'.pc = "reopen" /\ lock'.slots = lock.slots
    BY <1>0, <1>10, <2>1 DEF CkDirSync, LockTypes, Checkpointing
  <2>3. manifest'.now = NextGen /\ manifest'.stable = NextGen
    BY <1>0, <2>1 DEF FileTypes, Progress
  <2> QED BY <1>1, <2>1, <2>2, <2>3 DEF Progress, Checkpointing, NextGen
<1>11. CASE CkReopen \/ CkFails \/ Kill \/ PowerLoss
  <2>1. lock' = Unlocked
    BY <1>11 DEF CkReopen, CkFails, Kill, PowerLoss, Volatile
  <2>2. ~Checkpointing'
    BY <2>1 DEF Checkpointing, Unlocked
  <2> QED BY <2>2, ProgressIdle
<1>12. CASE OpenSweep \/ OpenReplay \/ OpenFails
  <2>1. lock' = lock /\ status # "up"
    BY <1>12 DEF OpenSweep, OpenReplay, OpenFails
  <2>2. lock = Unlocked
    BY <1>0, <2>1 DEF LockTypes
  <2>3. ~Checkpointing'
    BY <2>1, <2>2 DEF Checkpointing, Unlocked
  <2> QED BY <2>3, ProgressIdle
<1>13. CASE UNCHANGED vars
  BY <1>1, <1>13 DEF vars, Progress, Checkpointing, NextGen
<1> QED BY <1>3, <1>4, <1>5, <1>6, <1>7, <1>8, <1>9, <1>10, <1>11, <1>12, <1>13 DEF Next, Ops

-----------------------------------------------------------------------------

LEMMA InternBounds ==
    ASSUME Types, Bounds, Types', NEW w \in Writer, NEW op \in Ops, NEW t \in Term, Intern(w, op, t)
    PROVE  Bounds'
<1>1. /\ UNCHANGED <<wal, base, log, lock, status>> /\ status = "up"
      /\ dict' = dict \/ dict' = Append(dict, t)
  BY DEF Intern, disk
<1>2. Len(dict) \in Nat /\ Len(dict) <= Len(dict')
  <2>1. dict \in Seq(Slot) /\ t \in Slot
    BY DEF Types, DictTypes, Slot
  <2>2. Len(dict) \in Nat /\ Len(Append(dict, t)) = Len(dict) + 1
    BY <2>1
  <2> QED BY <1>1, <2>2
<1>3. Reached \in Nat /\ Reached' = Reached /\ log.gen \in Nat
  BY <1>1 DEF Reached, Appending, Types, LogTypes, LockTypes, Gen
<1>4. Reached' <= Reached /\ log.gen <= log'.gen /\ status' = "up"
  BY <1>1, <1>3
<1> QED BY <1>1, <1>2, <1>4, BoundsKept

\* A batch's record goes to the open file.
LEMMA BatchBounds ==
    ASSUME Types, Bounds, Types', status = "up", lock.pc = "free", HasRoom,
           NEW kind \in Ops \cup {"sweep"}, NEW id \in Nat, kind # "sweep" => id \in 1 .. Len(dict),
           AppendToLog(BatchRecord(kind, id)),
           base' = base, dict' = dict, status' = "up",
           log'.file = log.file, log'.gen = log.gen, lock'.pc = "sync", lock'.slots = Len(dict)
    PROVE  Bounds'
<1> DEFINE b == base[log.file]
           rec == BatchRecord(kind, id)
           more == Append(wal[log.file].recs, rec)
<1>1. /\ Bounded(b, more)
      /\ Clean(more, Len(more)) /\ Rep(b, more).ok => Len(dict) <= Len(Rep(b, more).dict)
  BY BatchBounded
<1>2. log.file \in Gen /\ log.file <= log.gen /\ FileTypes /\ Gen \subseteq Nat /\ log.gen \in Nat /\ log.file \in Nat
  BY DEF Types, LogTypes, Gen
<1>3. rec \in Entry
  BY BatchType DEF Types, Entry
<1>4. wal'[log.file].recs = more /\ \A h \in Gen : h # log.file => wal'[h] = wal[h]
  BY <1>2, <1>3, EntryAppended DEF AppendToLog
<1> HIDE DEF more, rec
<1>5. \A g \in Gen : Bounded(base'[g], wal'[g].recs)
  BY <1>1, <1>4 DEF Bounds, b
<1>6. LoggedReached'
  <2>1. Reached' = Len(dict)
    BY DEF Reached, Appending
  <2> QED BY <1>1, <1>4, <2>1 DEF LoggedReached, b
<1>7. \A g \in Gen : g > log.gen => OnlyChunks(wal'[g].recs, Len(dict))
  <2> SUFFICES ASSUME NEW g \in Gen, g > log.gen PROVE OnlyChunks(wal'[g].recs, Len(dict))
    OBVIOUS
  <2>1. g # log.file
    BY <1>2
  <2> QED BY <1>4, <2>1 DEF Bounds
<1> QED BY <1>5, <1>6, <1>7 DEF Bounds

LEMMA AppendWriteBounds ==
    ASSUME Types, Bounds, Types', NEW w \in Writer, AppendWrite(w)
    PROVE  Bounds'
<1> DEFINE kind == writer[w].kind
           id == writer[w].id
<1>1. kind \in Ops \cup {"sweep"} /\ id \in Nat /\ id \in 1 .. Len(dict)
  BY DEF AppendWrite, Types, WriterTypes
<1>2. /\ status = "up" /\ lock.pc = "free" /\ HasRoom /\ AppendToLog(BatchRecord(kind, id))
      /\ base' = base /\ dict' = dict /\ status' = "up" /\ lock'.pc = "sync" /\ lock'.slots = Len(dict)
  BY DEF AppendWrite, Unlocked
<1>3. log'.file = log.file /\ log'.gen = log.gen
  BY DEF AppendWrite, Types, LogTypes
<1> HIDE DEF kind, id
<1> QED BY <1>1, <1>2, <1>3, BatchBounds

LEMMA SweepWriteBounds ==
    ASSUME Types, Bounds, Types', SweepWrite
    PROVE  Bounds'
<1>2. /\ status = "up" /\ lock.pc = "free" /\ HasRoom /\ AppendToLog(BatchRecord("sweep", 0))
      /\ base' = base /\ dict' = dict /\ status' = "up" /\ lock'.pc = "sync" /\ lock'.slots = Len(dict)
  BY DEF SweepWrite, Unlocked
<1>3. log'.file = log.file /\ log'.gen = log.gen
  BY DEF SweepWrite, Types, LogTypes
<1> QED BY <1>2, <1>3, BatchBounds

LEMMA AppendWriteFailsBounds ==
    ASSUME Types, Bounds, Types', NEW w \in Writer, AppendWriteFails(w)
    PROVE  Bounds'
<1> DEFINE recs == wal[log.file].recs
           b == base[log.file]
           more == Append(recs, Torn)
<1>1. /\ UNCHANGED <<status, dict, log, base>> /\ status = "up"
      /\ wal' = [wal EXCEPT ![log.file].recs = Append(@, Torn)]
  BY DEF AppendWriteFails, AppendToLog
<1>2. log.file \in Gen /\ log.file <= log.gen /\ FileTypes /\ Gen \subseteq Nat /\ log.gen \in Nat /\ log.file \in Nat
  BY DEF Types, LogTypes, Gen
<1>3. Torn \in Entry
  BY DEF Entry
<1>4. wal'[log.file].recs = more /\ \A h \in Gen : h # log.file => wal'[h] = wal[h]
  BY <1>1, <1>2, <1>3, EntryAppended
<1>5. recs \in Seq(Entry) /\ Len(recs) \in Nat
  BY <1>2 DEF FileTypes
<1>6. Bounded(b, recs)
  BY <1>2 DEF Bounds
<1>7. more[Len(more)] = Torn /\ Len(more) \in 1 .. Len(more)
  <2> HIDE DEF recs
  <2> QED BY <1>3, <1>5
<1> HIDE DEF recs, b
<1>8. Bounded(b, more)
  <2>1. Cut(recs, Len(recs)) = recs /\ Len(recs) \in 0 .. Len(recs)
    BY <1>5, CutAll
  <2> QED BY <1>5, <1>6, <2>1, BoundedCut
<1>9. ~Clean(more, Len(more))
  BY <1>7 DEF Clean
<1> HIDE DEF more
<1>10. \A g \in Gen : Bounded(base'[g], wal'[g].recs)
  BY <1>1, <1>4, <1>8 DEF Bounds, b
<1>11. LoggedReached'
  BY <1>1, <1>4, <1>9 DEF LoggedReached
<1>12. \A g \in Gen : g > log.gen => OnlyChunks(wal'[g].recs, Len(dict))
  <2> SUFFICES ASSUME NEW g \in Gen, g > log.gen PROVE OnlyChunks(wal'[g].recs, Len(dict))
    OBVIOUS
  <2>1. g # log.file
    BY <1>2
  <2> QED BY <1>1, <1>4, <2>1 DEF Bounds
<1> QED BY <1>1, <1>10, <1>11, <1>12 DEF Bounds

LEMMA SyncBounds ==
    ASSUME Types, Bounds, Types', AppendSync \/ AppendNoSync \/ AppendSyncFails \/ Install \/ SyncWal
    PROVE  Bounds'
<1>0. log.file \in Gen /\ log.gen \in Nat /\ FileTypes /\ Len(dict) \in Nat /\ Reached \in Nat
      /\ log \in [gen : Gen, file : Gen, logged : Nat, dirty : BOOLEAN, policy : Policies]
      /\ lock \in [pc : {"free", "sync", "install", "wal", "wal_sync", "manifest", "dir_sync", "reopen"},
                 kind : Ops \cup {"none", "sweep"}, who : SUBSET Writer, id : Nat, slots : Nat]
      /\ (lock.pc # "free" => log.logged <= lock.slots)
  BY DEF Types, LogTypes, DictTypes, LockTypes, Reached, Gen
<1>1. status = "up" /\ status' = "up" /\ base' = base
  BY DEF AppendSync, AppendNoSync, AppendSyncFails, Install, SyncWal, disk
<1>2. \A g \in Gen : wal'[g].recs = wal[g].recs
  <2>1. wal' = wal \/ wal' = [wal EXCEPT ![log.file] = Synced(@)]
    BY DEF AppendSync, AppendNoSync, AppendSyncFails, Install, SyncWal, disk
  <2> QED BY <1>0, <2>1, FileSynced
<1>3. log'.file = log.file /\ log'.gen = log.gen
  BY <1>0 DEF AppendSync, AppendNoSync, AppendSyncFails, Install, SyncWal
<1>4. Len(dict') = Len(dict)
  <2>1. CASE Install
    <3>1. dict' = dict \/ dict' = [i \in DOMAIN dict |-> IF i \in mem.rows THEN dict[i] ELSE Free]
      BY <2>1 DEF Install
    <3> QED BY <3>1, SweptDict DEF Types
  <2>2. CASE ~Install
    BY <2>2 DEF AppendSync, AppendNoSync, AppendSyncFails, SyncWal
  <2> QED BY <2>1, <2>2
<1>5. Reached' <= Reached
  <2>1. CASE AppendSync \/ AppendNoSync
    <3>1. lock'.pc = "install" /\ lock'.slots = lock.slots /\ lock.pc = "sync"
      BY <1>0, <2>1 DEF AppendSync, AppendNoSync
    <3> QED BY <1>0, <3>1 DEF Reached, Appending
  <2>2. CASE AppendSyncFails
    <3>1. lock'.pc = "free" /\ log' = log /\ lock.pc = "sync"
      BY <2>2 DEF AppendSyncFails, Unlocked
    <3> QED BY <1>0, <3>1 DEF Reached, Appending
  <2>3. CASE Install
    <3>1. lock'.pc = "free" /\ log'.logged = lock.slots /\ lock.pc = "install"
      BY <1>0, <2>3 DEF Install, Unlocked, LoggedLen
    <3> QED BY <1>0, <3>1 DEF Reached, Appending
  <2>4. CASE SyncWal
    <3>1. lock' = lock /\ log'.logged = log.logged
      BY <1>0, <2>4 DEF SyncWal
    <3> QED BY <1>0, <3>1 DEF Reached, Appending
  <2> QED BY <2>1, <2>2, <2>3, <2>4
<1>6. log.gen <= log'.gen /\ Len(dict) <= Len(dict')
  BY <1>0, <1>3, <1>4
<1> QED BY <1>1, <1>2, <1>3, <1>5, <1>6, BoundsKept

LEMMA CkDictBounds ==
    ASSUME Types, Bounds, Types', CkDict
    PROVE  Bounds'
<1>1. /\ status = "up" /\ lock.pc = "free" /\ log.gen < MaxGen /\ base' = [base EXCEPT ![NextGen] = dict]
      /\ lock'.pc = "wal" /\ UNCHANGED <<status, dict, log, wal>>
  BY DEF CkDict, Unlocked
<1>2. /\ NextGen \in Gen /\ NextGen = log.gen + 1 /\ log.gen \in Nat
      /\ log.file \in Gen /\ NextGen # log.file
  BY <1>1, NextGenIs
<1>3. base'[NextGen] = dict /\ \A g \in Gen : g # NextGen => base'[g] = base[g]
  BY <1>1, <1>2 DEF Types, FileTypes
<1>4. Bounded(dict, wal[NextGen].recs)
  <2>1. OnlyChunks(wal[NextGen].recs, Len(dict))
    BY <1>1, <1>2 DEF Bounds
  <2>2. dict \in Seq(Slot) /\ Len(dict) <= MaxSlot /\ wal[NextGen].recs \in Seq(Entry)
    BY <1>2 DEF Types, DictTypes, FileTypes
  <2> QED BY <2>1, <2>2, ChunksBounded
<1>5. \A g \in Gen : Bounded(base'[g], wal'[g].recs)
  BY <1>1, <1>3, <1>4 DEF Bounds
<1>6. LoggedReached'
  BY <1>1, <1>2, <1>3 DEF Bounds, LoggedReached, Reached, Appending
<1> QED BY <1>1, <1>5, <1>6 DEF Bounds

LEMMA CkWalBounds ==
    ASSUME Types, Bounds, Progress, Types', CkWal
    PROVE  Bounds'
<1>1. /\ status = "up" /\ lock.pc = "wal"
      /\ wal' = [wal EXCEPT ![NextGen] = [recs |-> CkRecords, synced |-> 0]]
      /\ UNCHANGED <<status, dict, log, base>>
  BY DEF CkWal
<1>2. Checkpointing /\ log.gen < MaxGen /\ mem.rows \subseteq 1 .. lock.slots
      /\ lock.slots \in Nat /\ lock.slots <= Len(dict) /\ Len(dict) \in Nat
  BY <1>1 DEF Types, LockTypes, DictTypes, Checkpointing
<1>3. lock'.pc = "wal_sync"
  BY DEF CkWal, Types, LockTypes
<1>4. /\ NextGen \in Gen /\ NextGen = log.gen + 1 /\ log.gen \in Nat
      /\ log.file \in Gen /\ NextGen # log.file
  BY <1>2, NextGenIs
<1>5. base[NextGen] = Cut(dict, lock.slots)
  BY <1>2 DEF Progress
<1>6. Len(base[NextGen]) = lock.slots /\ base[NextGen] \in Seq(Slot) /\ Len(base[NextGen]) <= MaxSlot
  <2>1. lock.slots \in 0 .. Len(dict) /\ dict \in Seq(Slot)
    BY <1>2 DEF Types, DictTypes
  <2>2. Len(Cut(dict, lock.slots)) = lock.slots
    BY <2>1, CutType
  <2> QED BY <1>4, <1>5, <2>2 DEF Types, FileTypes
<1>7. CkRecords \in Seq(Entry) /\ OnlyChunks(CkRecords, lock.slots) /\ OnlyChunks(CkRecords, Len(dict))
  <2>1. mem.rows \subseteq 1 .. Len(dict)
    BY DEF Types, MemTypes
  <2> QED BY <1>2, <2>1, CkChunks
<1>8. Bounded(base[NextGen], CkRecords)
  BY <1>6, <1>7, ChunksBounded
<1>9. wal'[NextGen].recs = CkRecords /\ \A g \in Gen : g # NextGen => wal'[g] = wal[g]
  BY <1>1, <1>4 DEF Types, FileTypes
<1>10. \A g \in Gen : Bounded(base'[g], wal'[g].recs)
  BY <1>1, <1>8, <1>9 DEF Bounds
<1>11. LoggedReached'
  BY <1>1, <1>3, <1>4, <1>9 DEF Bounds, LoggedReached, Reached, Appending
<1>12. \A g \in Gen : g > log.gen => OnlyChunks(wal'[g].recs, Len(dict))
  BY <1>1, <1>7, <1>9 DEF Bounds
<1> QED BY <1>1, <1>10, <1>11, <1>12 DEF Bounds

LEMMA CkStepBounds ==
    ASSUME Types, Bounds, Types', CkWalSync \/ CkManifest \/ CkDirSync \/ CkFails
    PROVE  Bounds'
<1>0. log.gen \in Nat /\ FileTypes /\ Len(dict) \in Nat /\ Reached \in Nat
      /\ log \in [gen : Gen, file : Gen, logged : Nat, dirty : BOOLEAN, policy : Policies]
      /\ lock \in [pc : {"free", "sync", "install", "wal", "wal_sync", "manifest", "dir_sync", "reopen"},
                 kind : Ops \cup {"none", "sweep"}, who : SUBSET Writer, id : Nat, slots : Nat]
  BY DEF Types, LogTypes, DictTypes, LockTypes, Reached, Gen
<1>1. status = "up" /\ status' = "up" /\ base' = base /\ dict' = dict
  BY DEF CkWalSync, CkManifest, CkDirSync, CkFails, disk
<1>2. Checkpointing
  <2>1. lock.pc \notin {"sync", "install", "free"}
    BY DurableAssumption DEF CkWalSync, CkManifest, CkDirSync, CkFails
  <2> QED BY <1>0, <2>1 DEF Checkpointing
<1>3. log.gen < MaxGen
  BY <1>2 DEF Types, LockTypes
<1>4. \A g \in Gen : wal'[g].recs = wal[g].recs
  <2>1. wal' = wal \/ wal' = [wal EXCEPT ![NextGen] = Synced(@)]
    BY DEF CkWalSync, CkManifest, CkDirSync, CkFails, disk
  <2> QED BY <1>0, <1>3, <2>1, NextGenIs, FileSynced
<1>5. log'.file = log.file /\ log'.logged = log.logged /\ log.gen <= log'.gen
  <2>1. log' = log \/ log' = [log EXCEPT !.gen = log.gen + 1]
    BY DEF CkWalSync, CkManifest, CkDirSync, CkFails, NextGen
  <2> QED BY <1>0, <2>1
<1>6. Reached' <= Reached
  <2>1. lock'.pc \notin {"sync", "install"}
    BY <1>0 DEF CkWalSync, CkManifest, CkDirSync, CkFails, Unlocked
  <2> QED BY <1>0, <1>2, <1>5, <2>1 DEF Reached, Appending, Checkpointing
<1>7. Len(dict) <= Len(dict')
  BY <1>0, <1>1
<1> QED BY <1>1, <1>4, <1>5, <1>6, <1>7, BoundsKept

LEMMA CkReopenBounds ==
    ASSUME Types, Bounds, Progress, Types', CkReopen
    PROVE  Bounds'
<1>1. /\ status = "up" /\ lock.pc = "reopen"
      /\ wal' = [wal EXCEPT ![log.gen] = NoWal] /\ base' = [base EXCEPT ![log.gen] = <<>>]
      /\ log' = Opened(NextGen, lock.slots, log.policy) /\ lock' = Unlocked
      /\ UNCHANGED <<status, dict>>
  BY DEF CkReopen
<1>2. Checkpointing /\ log.gen < MaxGen /\ mem.rows \subseteq 1 .. lock.slots
      /\ lock.slots \in Nat /\ lock.slots <= Len(dict) /\ Len(dict) \in Nat
  BY <1>1 DEF Types, LockTypes, DictTypes, Checkpointing
<1>3. /\ NextGen \in Gen /\ NextGen = log.gen + 1 /\ log.gen \in Nat /\ log.gen \in Gen /\ Gen \subseteq Nat
  BY <1>2, NextGenIs
<1>4. base[NextGen] = Cut(dict, lock.slots) /\ wal[NextGen].recs = CkRecords
  BY <1>1, <1>2 DEF Progress
<1>5. Len(base[NextGen]) = lock.slots /\ base[NextGen] \in Seq(Slot) /\ Len(base[NextGen]) <= MaxSlot
  <2>1. lock.slots \in 0 .. Len(dict) /\ dict \in Seq(Slot)
    BY <1>2 DEF Types, DictTypes
  <2>2. Len(Cut(dict, lock.slots)) = lock.slots
    BY <2>1, CutType
  <2> QED BY <1>3, <1>4, <2>2 DEF Types, FileTypes
<1>6. CkRecords \in Seq(Entry) /\ OnlyChunks(CkRecords, lock.slots)
  BY <1>2, CkChunks
<1>7. Rep(base[NextGen], CkRecords).dict = base[NextGen]
  BY <1>5, <1>6, ChunksBounded
<1>8. /\ wal'[log.gen].recs = <<>> /\ base'[log.gen] = <<>>
      /\ \A g \in Gen : g # log.gen => wal'[g] = wal[g] /\ base'[g] = base[g]
  BY <1>1, <1>3 DEF Types, FileTypes, NoWal
<1>9. \A g \in Gen : Bounded(base'[g], wal'[g].recs)
  BY <1>8, NothingBounded DEF Bounds
<1>10. LoggedReached'
  <2>1. log'.file = NextGen /\ Reached' = lock.slots
    BY <1>1 DEF Opened, Reached, Appending, Unlocked
  <2>2. wal'[NextGen].recs = CkRecords /\ base'[NextGen] = base[NextGen]
    BY <1>3, <1>4, <1>8
  <2>3. lock.slots <= Len(Rep(base[NextGen], CkRecords).dict)
    BY <1>2, <1>5, <1>7
  <2> QED BY <2>1, <2>2, <2>3 DEF LoggedReached
<1>11. \A g \in Gen : g > log'.gen => OnlyChunks(wal'[g].recs, Len(dict))
  <2> SUFFICES ASSUME NEW g \in Gen, g > log'.gen PROVE OnlyChunks(wal'[g].recs, Len(dict))
    OBVIOUS
  <2>1. log'.gen = NextGen
    BY <1>1 DEF Opened
  <2>2. g > log.gen /\ g # log.gen
    BY <1>3, <2>1
  <2> QED BY <1>1, <1>8, <2>2 DEF Bounds
<1> QED BY <1>1, <1>9, <1>10, <1>11 DEF Bounds

LEMMA KillBounds ==
    ASSUME Types, Bounds, Kill
    PROVE  Bounds'
<1>1. status' = "down" /\ UNCHANGED <<wal, base>>
  BY DEF Kill, Volatile, disk
<1> QED BY <1>1 DEF Bounds

LEMMA PowerLossBounds ==
    ASSUME Types, Bounds, PowerLoss
    PROVE  Bounds'
<1>1. status' = "down" /\ base' = base
  BY DEF PowerLoss, Volatile
<1>2. PICK m \in {manifest.now, manifest.stable} : \E left \in Survivors(wal[m]) : wal' = [wal EXCEPT ![m] = left]
  BY DEF PowerLoss
<1>3. PICK left \in Survivors(wal[m]) : wal' = [wal EXCEPT ![m] = left]
  BY <1>2
<1>4. m \in Gen /\ FileTypes /\ wal[m].recs \in Seq(Entry) /\ wal[m].synced \in Nat /\ Len(wal[m].recs) \in Nat
  BY DEF Types, FileTypes
<1>5. PICK k \in wal[m].synced .. Len(wal[m].recs) :
         \/ left = [recs |-> Cut(wal[m].recs, k), synced |-> k]
         \/ /\ k < Len(wal[m].recs)
            /\ left = [recs |-> Append(Cut(wal[m].recs, k), Torn), synced |-> k + 1]
  BY <1>3, <1>4, SurvivorsType
<1>6. k \in 0 .. Len(wal[m].recs)
  BY <1>4
<1>7. Bounded(base[m], left.recs)
  <2>1. Bounded(base[m], wal[m].recs)
    BY <1>4 DEF Bounds
  <2>2. Bounded(base[m], Cut(wal[m].recs, k)) /\ Bounded(base[m], Append(Cut(wal[m].recs, k), Torn))
    BY <1>4, <1>6, <2>1, BoundedCut
  <2>3. left.recs = Cut(wal[m].recs, k) \/ left.recs = Append(Cut(wal[m].recs, k), Torn)
    BY <1>5
  <2> QED BY <2>2, <2>3
<1>8. wal'[m] = left /\ \A g \in Gen : g # m => wal'[g] = wal[g]
  BY <1>3, <1>4 DEF FileTypes
<1> QED BY <1>1, <1>7, <1>8 DEF Bounds

LEMMA OpenBounds ==
    ASSUME Types, Bounds, Types', OpenSweep \/ OpenReplay \/ OpenFails
    PROVE  Bounds'
<1>1. CASE OpenSweep
  <2>1. /\ status' = "opening" /\ manifest'.now = manifest.now
        /\ wal' = [g \in Gen |-> IF g = manifest.now THEN wal[g] ELSE NoWal]
        /\ base' = [g \in Gen |-> IF g = manifest.now THEN base[g] ELSE <<>>]
    BY <1>1 DEF OpenSweep, Types, FileTypes
  <2>2. NoWal.recs = <<>>
    BY DEF NoWal
  <2>3. \A g \in Gen : Bounded(base'[g], wal'[g].recs)
    BY <2>1, <2>2, NothingBounded DEF Bounds
  <2>4. \A g \in Gen : g # manifest'.now => wal'[g] = NoWal
    BY <2>1
  <2> QED BY <2>1, <2>3, <2>4 DEF Bounds
<1>2. CASE OpenReplay
  <2> DEFINE g == manifest.now
             recs == Readable(wal[g].recs)
             st == Rep(base[g], recs)
  <2>1. /\ status = "opening" /\ st.ok /\ status' = "up" /\ dict' = st.dict /\ base' = base /\ lock' = lock
        /\ wal' = [wal EXCEPT ![g] = [recs |-> recs,
               synced |-> IF recs = wal[g].recs THEN wal[g].synced ELSE Len(recs)]]
        /\ \E p \in Policies : log' = Opened(g, Len(st.dict), p)
    BY <1>2, ReplayedIsRep DEF OpenReplay
  <2>2. g \in Gen /\ wal[g].recs \in Seq(Entry) /\ base[g] \in Seq(Slot) /\ Gen \subseteq Nat
    <3>1. g \in Gen /\ FileTypes
      BY DEF Types, FileTypes
    <3>2. wal[g] \in [recs : Seq(Entry), synced : Nat] /\ base[g] \in Seq(Slot)
      BY <3>1 DEF FileTypes
    <3> QED BY <3>1, <3>2 DEF Gen
  <2>3. PICK k \in 0 .. Len(wal[g].recs) : recs = Cut(wal[g].recs, k) /\ Clean(wal[g].recs, k)
    BY <2>2, ReadableIs
  <2>4. Bounded(base[g], recs)
    <3>1. Bounded(base[g], wal[g].recs)
      BY <2>2 DEF Bounds
    <3> QED BY <2>2, <2>3, <3>1, BoundedCut
  <2> HIDE DEF recs
  <2>5. wal'[g].recs = recs /\ \A h \in Gen : h # g => wal'[h] = wal[h]
    BY <2>1, <2>2 DEF Types, FileTypes
  <2>6. log'.file = g /\ log'.gen = g /\ log'.logged = Len(st.dict)
    BY <2>1 DEF Opened
  <2>7. lock'.pc = "free"
    BY <2>1 DEF Types, LockTypes, Unlocked
  <2>8. \A h \in Gen : Bounded(base'[h], wal'[h].recs)
    BY <2>1, <2>4, <2>5 DEF Bounds
  <2>9. LoggedReached'
    <3>1. Reached' = Len(st.dict)
      BY <2>6, <2>7 DEF Reached, Appending
    <3>2. Len(st.dict) \in Nat
      BY <2>1 DEF Types, DictTypes
    <3>3. Rep(base'[log'.file], wal'[log'.file].recs) = st
      BY <2>1, <2>5, <2>6
    <3>4. Reached' <= Len(st.dict)
      BY <3>1, <3>2
    <3> HIDE DEF st
    <3> QED BY <3>3, <3>4 DEF LoggedReached
  <2>10. \A h \in Gen : h > log'.gen => OnlyChunks(wal'[h].recs, Len(dict'))
    <3> SUFFICES ASSUME NEW h \in Gen, h > log'.gen PROVE OnlyChunks(wal'[h].recs, Len(dict'))
      OBVIOUS
    <3>1. h # g
      BY <2>2, <2>6
    <3>2. wal'[h] = NoWal
      BY <2>1, <2>5, <3>1 DEF Bounds
    <3> QED BY <3>2, NothingBounded DEF NoWal
  <2> QED BY <2>1, <2>8, <2>9, <2>10 DEF Bounds
<1>3. CASE OpenFails
  <2>1. status' = "broken" /\ UNCHANGED <<wal, base>>
    BY <1>3 DEF OpenFails, disk
  <2> QED BY <2>1 DEF Bounds
<1> QED BY <1>1, <1>2, <1>3

-----------------------------------------------------------------------------
Shape == Types /\ Bounds /\ Progress

LEMMA InitShape ==
    ASSUME Init
    PROVE  Shape
<1>1. /\ status = "up" /\ dict = <<>> /\ mem = [version |-> 0, rows |-> {}]
      /\ writer = [w \in Writer |-> IdleWriter] /\ lock = Unlocked
      /\ wal = [g \in Gen |-> NoWal] /\ base = [g \in Gen |-> <<>>]
      /\ manifest = [now |-> 0, stable |-> 0] /\ acked = 0 /\ durable = 0 /\ fault = "none"
  BY DEF Init
<1>2. PICK p \in Policies : log = Opened(0, 0, p)
  BY DEF Init
<1>3. <<>> \in Seq(Slot) /\ Len(<<>>) <= MaxSlot /\ OneIndex(<<>>) /\ Len(<<>>) = 0
  BY BoundsNat DEF OneIndex
<1>4. 0 \in Gen
  BY BoundsNat DEF Gen
<1>5. lock.pc = "free" /\ lock.kind = "none"
  BY <1>1 DEF Unlocked
<1>6. DictTypes
  BY <1>1, <1>3 DEF DictTypes
<1>7. MemTypes
  BY <1>1, BoundsNat DEF MemTypes, TierState
<1>8. WriterTypes
  BY <1>1 DEF WriterTypes, IdleWriter
<1>9. LogTypes
  BY <1>1, <1>2, <1>3, <1>4 DEF LogTypes, Opened
<1>10. FileTypes
  <2>1. NoWal \in [recs : Seq(Entry), synced : Nat] /\ NoWal.synced <= Len(NoWal.recs)
    BY DEF NoWal
  <2>2. wal \in [Gen -> [recs : Seq(Entry), synced : Nat]] /\ \A g \in Gen : wal[g].synced <= Len(wal[g].recs)
    BY <1>1, <2>1
  <2>3. base \in [Gen -> Seq(Slot)] /\ \A g \in Gen : Len(base[g]) <= MaxSlot /\ OneIndex(base[g])
    <3>1. \A g \in Gen : base[g] = <<>>
      BY <1>1
    <3> QED BY <1>1, <1>3, <3>1
  <2> QED BY <1>1, <1>4, <2>2, <2>3 DEF FileTypes
<1>11. PromiseTypes
  BY <1>1 DEF PromiseTypes
<1>12. LockTypes
  <2>1. lock \in [pc : {"free", "sync", "install", "wal", "wal_sync", "manifest", "dir_sync", "reopen"},
                 kind : Ops \cup {"none", "sweep"}, who : SUBSET Writer, id : Nat, slots : Nat]
    BY <1>1 DEF Unlocked
  <2>2. \A i \in 1 .. Len(dict) : FALSE
    BY <1>1, <1>3
  <2> QED BY <1>1, <1>5, <2>1, <2>2 DEF LockTypes, Appending, Checkpointing, Sweeping
<1>13. Bounds
  <2>1. \A g \in Gen : wal[g].recs = <<>> /\ base[g] = <<>>
    BY <1>1 DEF NoWal
  <2>2. LoggedReached
    <3>1. Reached = 0 /\ log.file = 0
      BY <1>2, <1>5 DEF Reached, Appending, Opened
    <3>2. Rep(<<>>, <<>>).dict = <<>>
      BY RepNone DEF Start
    <3>3. 0 <= Len(Rep(<<>>, <<>>).dict)
      BY <1>3, <3>2
    <3> QED BY <1>4, <2>1, <3>1, <3>3 DEF LoggedReached
  <2> QED BY <1>1, <2>1, <2>2, NothingBounded DEF Bounds
<1>14. Progress
  BY <1>5 DEF Progress, Checkpointing
<1> QED BY <1>6, <1>7, <1>8, <1>9, <1>10, <1>11, <1>12, <1>13, <1>14 DEF Shape, Types

LEMMA StutterShape ==
    ASSUME Shape, UNCHANGED vars
    PROVE  Shape'
<1>1. Types'
  BY DEF Shape, vars, Types, DictTypes, MemTypes, WriterTypes, LogTypes, FileTypes, PromiseTypes, LockTypes,
         Appending, Checkpointing, Sweeping
<1>2. Bounds'
  BY DEF Shape, vars, Bounds, LoggedReached, Reached, Appending
<1>3. Progress'
  BY ProgressStep DEF Shape
<1> QED BY <1>1, <1>2, <1>3 DEF Shape

LEMMA ShapeStep ==
    ASSUME Shape, [Next]_vars
    PROVE  Shape'
<1>0. Types /\ Bounds /\ Progress
  BY DEF Shape
<1>1. Progress'
  BY <1>0, ProgressStep
<1>2. ASSUME NEW w \in Writer, NEW op \in Ops, NEW t \in Term, Intern(w, op, t) PROVE Types' /\ Bounds'
  BY <1>0, <1>2, InternTypes, InternBounds
<1>3. ASSUME NEW w \in Writer, AppendWrite(w) PROVE Types' /\ Bounds'
  BY <1>0, <1>3, AppendWriteTypes, AppendWriteBounds
<1>4. ASSUME NEW w \in Writer, AppendWriteFails(w) PROVE Types' /\ Bounds'
  BY <1>0, <1>4, AppendWriteFailsTypes, AppendWriteFailsBounds
<1>5. CASE SweepWrite BY <1>0, <1>1, <1>5, SweepWriteTypes, SweepWriteBounds DEF Shape
<1>6. CASE AppendSync BY <1>0, <1>1, <1>6, AppendSyncTypes, SyncBounds DEF Shape
<1>7. CASE AppendNoSync BY <1>0, <1>1, <1>7, AppendNoSyncTypes, SyncBounds DEF Shape
<1>8. CASE AppendSyncFails BY <1>0, <1>1, <1>8, AppendSyncFailsTypes, SyncBounds DEF Shape
<1>9. CASE Install BY <1>0, <1>1, <1>9, InstallTypes, SyncBounds DEF Shape
<1>10. CASE SyncWal BY <1>0, <1>1, <1>10, SyncWalTypes, SyncBounds DEF Shape
<1>11. CASE CkDict BY <1>0, <1>1, <1>11, CkDictTypes, CkDictBounds DEF Shape
<1>12. CASE CkWal BY <1>0, <1>1, <1>12, CkWalTypes, CkWalBounds DEF Shape
<1>13. CASE CkWalSync BY <1>0, <1>1, <1>13, CkWalSyncTypes, CkStepBounds DEF Shape
<1>14. CASE CkManifest BY <1>0, <1>1, <1>14, CkManifestTypes, CkStepBounds DEF Shape
<1>15. CASE CkDirSync BY <1>0, <1>1, <1>15, CkDirSyncTypes, CkStepBounds DEF Shape
<1>16. CASE CkReopen BY <1>0, <1>1, <1>16, CkReopenTypes, CkReopenBounds DEF Shape
<1>17. CASE CkFails BY <1>0, <1>1, <1>17, CkFailsTypes, CkStepBounds DEF Shape
<1>18. CASE Kill BY <1>0, <1>1, <1>18, KillTypes, KillBounds DEF Shape
<1>19. CASE PowerLoss BY <1>0, <1>1, <1>19, PowerLossTypes, PowerLossBounds DEF Shape
<1>20. CASE OpenSweep BY <1>0, <1>1, <1>20, OpenSweepTypes, OpenBounds DEF Shape
<1>21. CASE OpenReplay BY <1>0, <1>1, <1>21, OpenReplayTypes, OpenBounds DEF Shape
<1>22. CASE OpenFails BY <1>0, <1>1, <1>22, OpenFailsTypes, OpenBounds DEF Shape
<1>23. CASE UNCHANGED vars BY <1>23, StutterShape
<1>24. CASE \E w \in Writer, op \in Ops, t \in Term : Intern(w, op, t) BY <1>1, <1>2, <1>24 DEF Shape
<1>25. CASE \E w \in Writer : AppendWrite(w) \/ AppendWriteFails(w) BY <1>1, <1>3, <1>4, <1>25 DEF Shape
<1> QED
  BY <1>5, <1>6, <1>7, <1>8, <1>9, <1>10, <1>11, <1>12, <1>13, <1>14, <1>15, <1>16, <1>17, <1>18, <1>19,
     <1>20, <1>21, <1>22, <1>23, <1>24, <1>25 DEF Next, Ops

LEMMA AlwaysShape == Spec => []Shape
<1>1. Init => Shape
  BY InitShape
<1>2. Shape /\ [Next]_vars => Shape'
  BY ShapeStep
<1> QED BY <1>1, <1>2, PTL DEF Spec

\* Whatever fails and wherever the process dies, the store's state stays within
\* its types and bounds: no replay brings back more slots, versions or rows than
\* the dictionary and the clock allow, and no row names a slot past its end
\* (Store::replay, replay_append).
THEOREM DurableTypeCorrect == Spec => []TypeOK
<1>1. Shape => TypeOK
  <2> SUFFICES ASSUME Types PROVE TypeOK
    BY DEF Shape
  <2>1. DictTypes /\ MemTypes /\ LogTypes /\ FileTypes /\ LockTypes
    BY DEF Types
  <2>2. dict \in Seq(Term \cup {Free}) /\ Len(dict) <= MaxSlot /\ DOMAIN dict = 1 .. Len(dict) /\ Len(dict) \in Nat
    BY <2>1 DEF DictTypes, Slot
  <2>3. mem \in [version : 0 .. MaxVersion, rows : SUBSET DOMAIN dict]
    <3>1. mem.version \in 0 .. MaxVersion /\ mem.rows \subseteq DOMAIN dict
      BY <2>1, <2>2, BoundsNat DEF MemTypes, TierState
    <3> QED BY <2>1, <3>1 DEF MemTypes, TierState
  <2>4. log \in [gen : Gen, file : Gen, logged : 0 .. Len(dict), dirty : BOOLEAN, policy : Policies]
    <3>1. log \in [gen : Gen, file : Gen, logged : Nat, dirty : BOOLEAN, policy : Policies] /\ log.logged <= Len(dict)
      BY <2>1 DEF LogTypes
    <3>2. log.logged \in 0 .. Len(dict)
      BY <2>2, <3>1
    <3> QED BY <3>1, <3>2
  <2>5. \A g \in Gen : wal[g].synced \in 0 .. Len(wal[g].recs)
    BY <2>1 DEF FileTypes
  <2>6. manifest \in [now : Gen, stable : Gen] /\ status \in {"up", "down", "opening", "broken"}
    BY <2>1 DEF FileTypes, LockTypes
  <2> QED BY <2>2, <2>3, <2>4, <2>5, <2>6 DEF TypeOK
<1> QED BY <1>1, AlwaysShape, PTL

\* Interning, sweeps, checkpoints, crashes and replay never leave a term under
\* two dictionary indices, even in states that failed I/O calls have damaged
\* (Dictionary::replay_append frees the older slot).
THEOREM TermsKeepOneSlot == Spec => []OneIndexPerTerm
<1>1. Shape => OneIndexPerTerm
  BY DEF Shape, Types, DictTypes, OneIndex, OneIndexPerTerm
<1> QED BY <1>1, AlwaysShape, PTL

-----------------------------------------------------------------------------
(* What a crash may find in a file.                                          *)

Resolves(d, rows) == \A i \in rows : i \in 1 .. Len(d) /\ d[i] # Free

\* The dictionary and tier hold what the history h has at their version.
Recorded(h, d, m) ==
    /\ m.version < Len(h)
    /\ Resolves(d, m.rows)
    /\ Meaning(d, m.rows) = h[m.version + 1]

Good(h, n, st) == st.ok /\ Recorded(h, st.dict, st.mem) /\ n <= st.mem.version

\* The k-th record may be the last one that a reopened store can read.
Exposed(f, k) == k >= f.synced \/ k = Len(f.recs) \/ f.recs[k + 1] = Torn

FileGood(h, n, b, f) ==
    /\ Clean(f.recs, Len(f.recs) - 1)
    /\ \A k \in 0 .. Len(f.recs) :
          Clean(f.recs, k) /\ Exposed(f, k) => Good(h, n, Rep(b, Cut(f.recs, k)))

LogFile == {f \in [recs : Seq(Entry), synced : Nat] : f.synced <= Len(f.recs)}

LEMMA FileGoodRead ==
    ASSUME NEW h, NEW n, NEW b, NEW f \in LogFile, FileGood(h, n, b, f)
    PROVE  /\ Good(h, n, Rep(b, Readable(f.recs)))
           /\ ~(Len(Readable(f.recs)) + 1 < Len(f.recs))
<1>1. f.recs \in Seq(Entry) /\ Len(f.recs) \in Nat
  BY DEF LogFile
<1>2. PICK k \in 0 .. Len(f.recs) : /\ Readable(f.recs) = Cut(f.recs, k)
                                    /\ Clean(f.recs, k)
                                    /\ k < Len(f.recs) => f.recs[k + 1] = Torn
  BY <1>1, ReadableIs
<1>3. Exposed(f, k)
  BY <1>1, <1>2 DEF Exposed
<1>4. Good(h, n, Rep(b, Cut(f.recs, k)))
  BY <1>2, <1>3 DEF FileGood
<1>5. Len(Cut(f.recs, k)) = k
  BY <1>1, CutType
<1>6. ~(k + 1 < Len(f.recs))
  <2> SUFFICES ASSUME k + 1 < Len(f.recs) PROVE FALSE
    OBVIOUS
  <2>1. k + 1 \in 1 .. Len(f.recs) - 1 /\ k < Len(f.recs)
    BY <1>1
  <2> QED BY <1>2, <2>1 DEF FileGood, Clean
<1> QED BY <1>2, <1>4, <1>5, <1>6

LEMMA CleanReadable ==
    ASSUME NEW recs \in Seq(Entry), Clean(recs, Len(recs))
    PROVE  Readable(recs) = recs /\ recs \in Seq(LogRecord)
<1>1. Cut(recs, Len(recs)) = recs /\ Len(recs) \in 0 .. Len(recs)
  BY CutAll
<1>2. Readable(recs) = Cut(recs, Len(recs))
  BY <1>1, ReadableCut
<1>3. Cut(recs, Len(recs)) \in Seq(LogRecord)
  BY <1>1, CleanRecords
<1> QED BY <1>1, <1>2, <1>3

LEMMA SyncedGood ==
    ASSUME NEW h, NEW n, NEW b, NEW f \in LogFile, Clean(f.recs, Len(f.recs)), f.synced = Len(f.recs),
           Good(h, n, Rep(b, f.recs))
    PROVE  FileGood(h, n, b, f)
<1>1. f.recs \in Seq(Entry) /\ Len(f.recs) \in Nat
  BY DEF LogFile
<1>2. Cut(f.recs, Len(f.recs)) = f.recs
  BY <1>1, CutAll
<1>3. ASSUME NEW k \in 0 .. Len(f.recs), Exposed(f, k) PROVE k = Len(f.recs)
  <2> SUFFICES ASSUME k # Len(f.recs) PROVE FALSE
    OBVIOUS
  <2>1. k + 1 \in 1 .. Len(f.recs) /\ ~(k >= Len(f.recs))
    BY <1>1
  <2> QED BY <1>3, <2>1 DEF Exposed, Clean
<1>4. Clean(f.recs, Len(f.recs) - 1)
  BY <1>1 DEF Clean
<1> QED BY <1>2, <1>3, <1>4 DEF FileGood

LEMMA SurvivorGood ==
    ASSUME NEW h, NEW n, NEW b, NEW f \in LogFile, FileGood(h, n, b, f),
           NEW k \in f.synced .. Len(f.recs), NEW left \in LogFile,
           \/ left = [recs |-> Cut(f.recs, k), synced |-> k]
           \/ /\ k < Len(f.recs)
              /\ left = [recs |-> Append(Cut(f.recs, k), Torn), synced |-> k + 1]
    PROVE  FileGood(h, n, b, left)
<1> DEFINE recs == f.recs
           c == Cut(recs, k)
<1>1. recs \in Seq(Entry) /\ Len(recs) \in Nat /\ k \in Nat /\ k >= f.synced /\ k \in 0 .. Len(recs) /\ f.synced \in Nat
  BY DEF LogFile
<1>2. c \in Seq(Entry) /\ Len(c) = k /\ \A i \in 1 .. k : c[i] = recs[i]
  <2> HIDE DEF recs
  <2> QED BY <1>1, CutType
<1>3. \A j \in 0 .. k : Cut(c, j) = Cut(recs, j)
  <2> HIDE DEF recs
  <2> QED BY <1>1, CutCut
<1>4. Torn \in Entry
  BY DEF Entry
<1>5. Clean(recs, Len(recs) - 1) /\ \A j \in 0 .. Len(recs) :
          Clean(recs, j) /\ Exposed(f, j) => Good(h, n, Rep(b, Cut(recs, j)))
  BY DEF FileGood
<1> HIDE DEF c
<1>6. CASE left = [recs |-> c, synced |-> k]
  <2>1. left.recs = c /\ left.synced = k
    BY <1>6
  <2>2. Clean(c, k - 1)
    BY <1>1, <1>2, <1>5 DEF Clean
  <2>3. ASSUME NEW j \in 0 .. k, Clean(c, j), Exposed(left, j) PROVE Good(h, n, Rep(b, Cut(c, j)))
    <3>1. j = k \/ (j < k /\ c[j + 1] = Torn)
      BY <1>1, <1>2, <2>1, <2>3 DEF Exposed
    <3>2. Clean(recs, j) /\ j \in 0 .. Len(recs)
      BY <1>1, <1>2, <2>3 DEF Clean
    <3>3. Exposed(f, j)
      <4>1. CASE j = k
        BY <1>1, <4>1 DEF Exposed
      <4>2. CASE j < k /\ c[j + 1] = Torn
        <5>1. j + 1 \in 1 .. k
          BY <1>1, <4>2
        <5> QED BY <1>2, <4>2, <5>1 DEF Exposed
      <4> QED BY <3>1, <4>1, <4>2
    <3> QED BY <1>3, <1>5, <3>2, <3>3
  <2> QED BY <1>2, <2>1, <2>2, <2>3 DEF FileGood
<1>7. CASE k < Len(recs) /\ left = [recs |-> Append(c, Torn), synced |-> k + 1]
  <2> DEFINE d == Append(c, Torn)
  <2>1. /\ d \in Seq(Entry) /\ Len(d) = k + 1 /\ d[k + 1] = Torn
        /\ \A i \in 1 .. k : d[i] = c[i]
    BY <1>1, <1>2, <1>4
  <2>2. \A j \in 0 .. k : Cut(d, j) = Cut(c, j)
    BY <1>2, <1>4, CutAppend
  <2> HIDE DEF d
  <2>3. left.recs = d /\ left.synced = k + 1
    BY <1>7 DEF d
  <2>4. Clean(recs, k)
    BY <1>1, <1>5, <1>7 DEF Clean
  <2>5. Clean(d, Len(d) - 1)
    <3>1. Len(d) - 1 = k
      BY <1>1, <2>1
    <3>2. Clean(d, k)
      BY <1>1, <1>2, <2>1, <2>4 DEF Clean
    <3> QED BY <3>1, <3>2
  <2>6. ASSUME NEW j \in 0 .. Len(d), Clean(d, j), Exposed(left, j) PROVE Good(h, n, Rep(b, Cut(d, j)))
    <3>1. j # k + 1
      <4> SUFFICES ASSUME j = k + 1 PROVE FALSE
        OBVIOUS
      <4>1. k + 1 \in 1 .. j
        BY <1>1
      <4> QED BY <2>1, <2>6, <4>1 DEF Clean
    <3>2. j \in 0 .. k
      BY <1>1, <2>1, <3>1
    <3>3. d[j + 1] = Torn
      <4>1. ~(j >= k + 1)
        BY <1>1, <3>2
      <4> QED BY <2>1, <2>3, <2>6, <3>1, <4>1 DEF Exposed
    <3>4. j = k
      <4> SUFFICES ASSUME j # k PROVE FALSE
        OBVIOUS
      <4>1. j + 1 \in 1 .. k
        BY <1>1, <3>2
      <4> QED BY <1>2, <2>1, <2>4, <3>3, <4>1 DEF Clean
    <3>5. Exposed(f, k)
      BY <1>1 DEF Exposed
    <3>6. Cut(d, j) = Cut(recs, k)
      BY <1>1, <1>3, <2>2, <3>2, <3>4
    <3> QED BY <1>1, <1>5, <2>4, <3>5, <3>6
  <2> QED BY <2>3, <2>5, <2>6 DEF FileGood
<1> QED BY <1>6, <1>7 DEF c

\* Nothing a replay of the file can stop at is later than its end.
LEMMA FileGoodPast ==
    ASSUME NEW h, NEW n, NEW b \in Seq(Slot), NEW f \in LogFile, FileGood(h, n, b, f),
           Clean(f.recs, Len(f.recs)), NEW v \in Nat, Rep(b, f.recs).mem.version <= v,
           NEW later, v < Len(later), Len(later) \in Nat, \A j \in 0 .. v : later[j + 1] = h[j + 1]
    PROVE  FileGood(later, n, b, f)
<1>1. f.recs \in Seq(Entry) /\ Len(f.recs) \in Nat
  BY DEF LogFile
<1>2. f.recs \in Seq(LogRecord) /\ Readable(f.recs) = f.recs
  BY <1>1, CleanReadable
<1>3. Rep(b, f.recs).ok
  BY <1>2, FileGoodRead DEF Good
<1>4. ASSUME NEW k \in 0 .. Len(f.recs), Clean(f.recs, k), Exposed(f, k)
      PROVE  Good(later, n, Rep(b, Cut(f.recs, k)))
  <2> DEFINE st == Rep(b, Cut(f.recs, k))
  <2>1. Good(h, n, st)
    BY <1>4 DEF FileGood
  <2>2. Cut(f.recs, k) \in Seq(LogRecord)
    BY <1>2, CutType
  <2>3. st \in ReplayState /\ Rep(b, f.recs) \in ReplayState
    BY <1>2, <2>2, RepType
  <2>4. st.mem.version \in Nat /\ Rep(b, f.recs).mem.version \in Nat
    BY <2>3 DEF ReplayState, TierState
  <2>5. st.mem.version <= Rep(b, f.recs).mem.version
    BY <1>2, <1>3, RepForward
  <2> HIDE DEF st
  <2>6. st.mem.version \in 0 .. v /\ st.mem.version < Len(later)
    BY <2>4, <2>5
  <2>7. Good(later, n, st)
    BY <2>1, <2>6 DEF Good, Recorded
  <2> QED BY <2>7 DEF st
<1> QED BY <1>4 DEF FileGood

LEMMA AppendGood ==
    ASSUME NEW h, NEW n, NEW b, NEW f \in LogFile, FileGood(h, n, b, f), Clean(f.recs, Len(f.recs)),
           NEW rec \in LogRecord, Good(h, n, Rep(b, Append(f.recs, rec))), NEW more,
           more.recs = Append(f.recs, rec), more.synced = f.synced
    PROVE  FileGood(h, n, b, more) /\ Clean(more.recs, Len(more.recs))
<1> DEFINE m == Len(f.recs)
           t == Append(f.recs, rec)
<1>0. f.recs \in Seq(Entry) /\ m \in Nat /\ rec \in Entry /\ rec # Torn /\ f.synced \in Nat /\ f.synced <= m
  BY TornIsNoRecord DEF LogFile, Entry
<1>1. t \in Seq(Entry) /\ Len(t) = m + 1 /\ t[m + 1] = rec /\ \A i \in 1 .. m : t[i] = f.recs[i]
  BY <1>0
<1>2. \A k \in 0 .. m : Cut(t, k) = Cut(f.recs, k)
  BY <1>0, CutAppend
<1>3. Cut(t, m + 1) = t
  BY <1>1, CutAll
<1> HIDE DEF t
<1>4. Clean(t, m + 1)
  <2> SUFFICES ASSUME NEW i \in 1 .. m + 1 PROVE t[i] # Torn
    BY DEF Clean
  <2>1. i \in 1 .. m \/ i = m + 1
    BY <1>0
  <2> QED BY <1>0, <1>1, <2>1 DEF Clean
<1>5. more.recs = t
  BY DEF t
<1>6. ASSUME NEW k \in 0 .. m + 1, Exposed(more, k) PROVE Good(h, n, Rep(b, Cut(t, k)))
  <2>1. CASE k = m + 1
    BY <1>3, <2>1 DEF t
  <2>2. CASE k \in 0 .. m
    <3>1. k + 1 \in 1 .. m + 1 /\ k # m + 1
      BY <1>0, <2>2
    <3>2. k >= f.synced
      BY <1>1, <1>4, <1>5, <1>6, <3>1 DEF Exposed, Clean
    <3>3. Clean(f.recs, k) /\ Exposed(f, k)
      BY <1>0, <2>2, <3>2 DEF Clean, Exposed
    <3> QED BY <1>2, <2>2, <3>3 DEF FileGood
  <2>3. k = m + 1 \/ k \in 0 .. m
    BY <1>0
  <2> QED BY <2>1, <2>2, <2>3
<1>7. Clean(t, (m + 1) - 1)
  BY <1>0, <1>4 DEF Clean
<1> QED BY <1>1, <1>4, <1>5, <1>6, <1>7 DEF FileGood

-----------------------------------------------------------------------------
(* A replayed dictionary against the live one.                               *)

Agree(d, e, n) == Len(e) = n /\ \A i \in 1 .. n : d[i] # Free => e[i] = d[i]

LEMMA AgreeRecorded ==
    ASSUME NEW h, NEW d, NEW e, NEW n, NEW m, Agree(d, e, n), Recorded(h, d, m), m.rows \subseteq 1 .. n
    PROVE  Recorded(h, e, m)
<1>1. \A i \in m.rows : e[i] = d[i] /\ d[i] # Free /\ i \in 1 .. Len(e)
  BY DEF Agree, Recorded, Resolves
<1>2. Meaning(e, m.rows) = Meaning(d, m.rows)
  BY <1>1 DEF Meaning
<1>3. Resolves(e, m.rows)
  BY <1>1 DEF Resolves
<1> QED BY <1>2, <1>3 DEF Recorded

\* A record's terms take the replayed dictionary to the live one.
LEMMA SpeltAgrees ==
    ASSUME NEW d \in Seq(Slot), OneIndex(d), NEW n \in 0 .. Len(d), NEW e \in Seq(Slot), Agree(d, e, n),
           \A i \in 1 .. Len(d) : i > n => d[i] # Free
    PROVE  Agree(d, Spelt(e, SubSeq(d, n + 1, Len(d))), Len(d))
<1> DEFINE ts == SubSeq(d, n + 1, Len(d))
           u == Spelt(e, ts)
           m == Len(d)
<1>0. m \in Nat /\ n \in Nat /\ n <= m /\ DOMAIN d = 1 .. m /\ Len(e) = n
  BY DEF Agree
<1>1. ts \in Seq(Slot) /\ Len(ts) = m - n /\ \A i \in 1 .. m - n : ts[i] = d[n + i]
  BY <1>0
<1>2. \A i \in 1 .. m - n : n + i \in 1 .. m /\ n + i > n
  BY <1>0
<1>3. \A i \in 1 .. m - n : ts[i] \in Term /\ ts[i] # Free
  <2> SUFFICES ASSUME NEW i \in 1 .. m - n PROVE ts[i] \in Term /\ ts[i] # Free
    OBVIOUS
  <2>1. d[n + i] # Free /\ d[n + i] \in Slot
    BY <1>0, <1>2
  <2> QED BY <1>1, <2>1 DEF Slot
<1> HIDE DEF ts
<1>4. ts \in Seq(Term)
  BY <1>0, <1>1, <1>3
<1>5. \A i, k \in 1 .. Len(ts) : ts[i] = ts[k] => i = k
  <2> SUFFICES ASSUME NEW i \in 1 .. m - n, NEW k \in 1 .. m - n, ts[i] = ts[k] PROVE i = k
    BY <1>1
  <2>1. d[n + i] = d[n + k] /\ d[n + i] # Free /\ n + i \in 1 .. m /\ n + k \in 1 .. m
    BY <1>1, <1>2, <1>3
  <2>2. n + i = n + k
    BY <1>0, <2>1 DEF OneIndex
  <2> QED BY <1>0, <2>2
<1>6. /\ \A i \in 1 .. Len(ts) : u[Len(e) + i] = ts[i]
      /\ \A i \in 1 .. Len(e) : (\A k \in 1 .. Len(ts) : ts[k] # e[i]) => u[i] = e[i]
  BY <1>4, <1>5, SpeltAt
<1>7. Len(u) = m
  <2>1. Len(u) = Len(e) + Len(ts)
    BY <1>1, SpeltType
  <2> QED BY <1>0, <1>1, <2>1
<1> HIDE DEF u
<1>8. ASSUME NEW i \in 1 .. m, d[i] # Free PROVE u[i] = d[i]
  <2>1. CASE i > n
    <3> DEFINE j == i - n
    <3>1. j \in 1 .. m - n /\ n + j = i
      BY <1>0, <2>1
    <3> HIDE DEF j
    <3>2. ts[j] = d[n + j] /\ u[Len(e) + j] = ts[j]
      BY <1>1, <1>6, <3>1
    <3> QED BY <1>0, <3>1, <3>2
  <2>2. CASE ~(i > n)
    <3>1. i \in 1 .. n
      BY <1>0, <2>2
    <3>2. e[i] = d[i]
      BY <1>8, <3>1 DEF Agree
    <3>3. \A k \in 1 .. Len(ts) : ts[k] # e[i]
      <4> SUFFICES ASSUME NEW k \in 1 .. m - n, ts[k] = e[i] PROVE FALSE
        BY <1>1
      <4>1. d[n + k] = d[i] /\ n + k \in 1 .. m /\ n + k # i
        BY <1>0, <1>1, <1>2, <3>1, <3>2
      <4> QED BY <1>0, <1>8, <4>1 DEF OneIndex
    <3> QED BY <1>0, <1>6, <3>1, <3>2, <3>3
  <2> QED BY <2>1, <2>2
<1> QED BY <1>7, <1>8 DEF Agree, u, ts

-----------------------------------------------------------------------------
(* The invariant.  Coming is what the tier will hold once the batch that has *)
(* the lock is installed.                                                    *)

Coming == IF Appending THEN Effect(mem, lock.kind, lock.id) ELSE mem

Live ==
    /\ Recorded(hist, dict, mem) /\ Recorded(hist, dict, Coming)
    /\ acked <= mem.version /\ durable <= mem.version

\* The open file replays to what is coming, under the live dictionary's indices.
LoggedFile ==
    LET f  == wal[log.gen]
        st == Rep(base[log.gen], f.recs)
    IN  /\ log.file = log.gen
        /\ Clean(f.recs, Len(f.recs))
        /\ FileGood(hist, durable, base[log.gen], f)
        /\ st.mem = Coming
        /\ Agree(dict, st.dict, Reached)

LoggedControl ==
    /\ lock.pc \notin {"dir_sync", "reopen"} => manifest.now = log.gen
    /\ lock.pc # "reopen" => manifest.stable = log.gen
    /\ (lock.pc = "install" /\ (log.policy = "EveryBatch" \/ ~log.dirty)) =>
          wal[log.gen].synced = Len(wal[log.gen].recs)
    /\ lock.pc = "sync" => log.dirty

OnDisk(g) ==
    /\ FileGood(hist, durable, base[g], wal[g])
    /\ acked <= Rep(base[g], Readable(wal[g].recs)).mem.version

Safe ==
    /\ fault # "lost" => hist \in Seq(SUBSET Slot)
    /\ status \in {"down", "opening"} => fault # "marked"
    /\ status = "broken" => fault = "lost"
    /\ status = "opening" => manifest.stable = manifest.now
    /\ fault = "none" /\ status \in {"down", "opening"} => OnDisk(manifest.now)
    /\ status = "up" /\ fault # "lost" => Live
    /\ status = "up" /\ fault = "none" => LoggedFile /\ LoggedControl

LEMMA UpSafe ==
    ASSUME status' = "up", fault' # "lost" => hist' \in Seq(SUBSET Slot) /\ Live',
           fault' = "none" => LoggedFile' /\ LoggedControl'
    PROVE  Safe'
BY DEF Safe

LEMMA IsLogFile ==
    ASSUME FileTypes, NEW g \in Gen
    PROVE  wal[g] \in LogFile /\ base[g] \in Seq(Slot) /\ wal[g].recs \in Seq(Entry) /\ Len(wal[g].recs) \in Nat
BY DEF FileTypes, LogFile

LEMMA RecordedOn ==
    ASSUME NEW h, NEW d, NEW e, NEW m, Recorded(h, d, m), Len(d) \in Nat, Len(e) \in Nat, Len(d) <= Len(e),
           \A i \in m.rows : e[i] = d[i]
    PROVE  Recorded(h, e, m)
<1>1. Meaning(e, m.rows) = Meaning(d, m.rows)
  BY DEF Meaning
<1>2. Resolves(e, m.rows)
  BY DEF Recorded, Resolves
<1> QED BY <1>1, <1>2 DEF Recorded

LEMMA ComingType ==
    ASSUME Types
    PROVE  /\ Coming \in TierState /\ mem \in TierState /\ mem.version \in Nat /\ Coming.version \in Nat
           /\ mem.version <= Coming.version
           /\ Coming = mem \/ Coming.version = mem.version + 1
           /\ Sweeping => Coming = mem
<1>1. mem \in TierState /\ lock.id \in Nat /\ mem.version \in Nat
  BY DEF Types, MemTypes, LockTypes, TierState
<1>2. Effect(mem, lock.kind, lock.id) \in TierState
      /\ (Effect(mem, lock.kind, lock.id) = mem \/ Effect(mem, lock.kind, lock.id).version = mem.version + 1)
      /\ (lock.kind = "sweep" => Effect(mem, lock.kind, lock.id) = mem)
  BY <1>1, EffectType
<1>3. Coming \in TierState /\ (Coming = mem \/ Coming.version = mem.version + 1) /\ (Sweeping => Coming = mem)
  BY <1>1, <1>2 DEF Coming, Sweeping
<1>4. Coming.version \in Nat
  BY <1>3 DEF TierState
<1>5. mem.version <= Coming.version
  BY <1>1, <1>3, <1>4
<1> QED BY <1>1, <1>3, <1>4, <1>5

\* What the open file says, read from its end.
LEMMA LoggedGood ==
    ASSUME Types, LoggedFile
    PROVE  LET st == Rep(base[log.gen], wal[log.gen].recs)
           IN  /\ wal[log.gen].recs \in Seq(LogRecord) /\ Readable(wal[log.gen].recs) = wal[log.gen].recs
               /\ st \in ReplayState /\ Good(hist, durable, st)
               /\ Recorded(hist, st.dict, Coming) /\ durable <= Coming.version
               /\ Coming.rows \subseteq 1 .. Reached
<1> DEFINE g == log.gen
           st == Rep(base[g], wal[g].recs)
<1>1. g \in Gen /\ FileTypes
  BY DEF Types, LogTypes
<1>2. wal[g] \in LogFile /\ base[g] \in Seq(Slot) /\ wal[g].recs \in Seq(Entry)
  BY <1>1, IsLogFile
<1>3. Clean(wal[g].recs, Len(wal[g].recs)) /\ FileGood(hist, durable, base[g], wal[g])
      /\ st.mem = Coming /\ Len(st.dict) = Reached
  BY DEF LoggedFile, Agree
<1>4. wal[g].recs \in Seq(LogRecord) /\ Readable(wal[g].recs) = wal[g].recs
  BY <1>2, <1>3, CleanReadable
<1>5. st \in ReplayState
  BY <1>2, <1>4, RepType
<1>6. Good(hist, durable, st)
  BY <1>2, <1>3, <1>4, FileGoodRead
<1> HIDE DEF st
<1>7. Recorded(hist, st.dict, Coming) /\ durable <= Coming.version
  BY <1>3, <1>6 DEF Good
<1>8. Coming.rows \subseteq 1 .. Reached
  BY <1>3, <1>7 DEF Recorded, Resolves
<1> QED BY <1>4, <1>5, <1>6, <1>7, <1>8 DEF st

LEMMA LoggedFileKept ==
    ASSUME LoggedFile, log'.gen = log.gen, log'.file = log.file, wal'[log.gen] = wal[log.gen],
           base'[log.gen] = base[log.gen], hist' = hist, durable' = durable,
           Coming' = Coming, Reached' = Reached,
           \A i \in 1 .. Reached : dict'[i] \in {dict[i], Free}
    PROVE  LoggedFile'
<1> DEFINE f == wal[log.gen]
           b == base[log.gen]
           st == Rep(b, f.recs)
<1>1. /\ log.file = log.gen /\ Clean(f.recs, Len(f.recs)) /\ FileGood(hist, durable, b, f)
      /\ st.mem = Coming /\ Agree(dict, st.dict, Reached)
  BY DEF LoggedFile
<1>2. wal'[log'.gen] = f /\ base'[log'.gen] = b
  OBVIOUS
<1> HIDE DEF f, b
<1>3. Agree(dict', st.dict, Reached)
  BY <1>1 DEF Agree
<1> QED BY <1>1, <1>2, <1>3 DEF LoggedFile

LEMMA LiveKept ==
    ASSUME Types, Live, hist' = hist, acked' = acked, durable' = durable, mem' = mem, dict' = dict,
           Coming' \in {Coming, mem}
    PROVE  Live'
BY DEF Live

-----------------------------------------------------------------------------
LEMMA InternSafe ==
    ASSUME Shape, Safe, Types', NEW w \in Writer, NEW op \in Ops, NEW t \in Term, Intern(w, op, t)
    PROVE  Safe'
<1>0. Types
  BY DEF Shape
<1>1. /\ UNCHANGED <<status, mem, log, lock, wal, base, manifest, hist, acked, durable, fault>> /\ status = "up"
      /\ dict' = dict \/ dict' = Append(dict, t)
  BY DEF Intern, disk, ghosts
<1>2. Len(dict) \in Nat /\ Len(dict') \in Nat /\ Len(dict) <= Len(dict') /\ \A i \in 1 .. Len(dict) : dict'[i] = dict[i]
  <2>1. dict \in Seq(Slot) /\ t \in Slot
    BY <1>0 DEF Types, DictTypes, Slot
  <2>2. Len(dict) \in Nat /\ Len(Append(dict, t)) = Len(dict) + 1 /\ \A i \in 1 .. Len(dict) : Append(dict, t)[i] = dict[i]
    BY <2>1
  <2>3. CASE dict' = dict
    BY <2>2, <2>3
  <2>4. CASE dict' = Append(dict, t)
    BY <2>2, <2>4
  <2> QED BY <1>1, <2>3, <2>4
<1>3. Coming' = Coming /\ Reached' = Reached
  BY <1>1 DEF Coming, Reached, Appending
<1>4. Reached \in Nat /\ Reached <= Len(dict)
  BY <1>0 DEF Reached, Appending, Types, LogTypes, LockTypes
<1>5. ASSUME fault # "lost" PROVE Live'
  <2>1. Live
    BY <1>1, <1>5 DEF Safe
  <2>2. ASSUME NEW m, Recorded(hist, dict, m) PROVE Recorded(hist, dict', m)
    <3>1. \A i \in m.rows : dict'[i] = dict[i]
      BY <1>2, <2>2 DEF Recorded, Resolves
    <3> QED BY <1>2, <2>2, <3>1, RecordedOn
  <2>3. Recorded(hist, dict', mem) /\ Recorded(hist, dict', Coming)
    BY <2>1, <2>2 DEF Live
  <2> QED BY <1>1, <1>3, <2>1, <2>3 DEF Live
<1>6. ASSUME fault = "none" PROVE LoggedFile' /\ LoggedControl'
  <2>1. LoggedFile /\ LoggedControl
    BY <1>1, <1>6 DEF Safe
  <2>2. \A i \in 1 .. Reached : dict'[i] \in {dict[i], Free}
    BY <1>2, <1>4
  <2>3. LoggedFile'
    BY <1>1, <1>3, <2>1, <2>2, LoggedFileKept
  <2>4. LoggedControl'
    BY <1>1, <2>1 DEF LoggedControl
  <2> QED BY <2>3, <2>4
<1>7. fault' = fault /\ (fault # "lost" => hist' \in Seq(SUBSET Slot))
  BY <1>1 DEF Safe
<1> QED BY <1>1, <1>5, <1>6, <1>7, UpSafe

LEMMA BatchHead ==
    ASSUME NEW kind \in Ops \cup {"sweep"}, NEW id
    PROVE  LET rec == BatchRecord(kind, id)
           IN  /\ rec.version = mem.version + 1 /\ rec.first = log.logged + 1 /\ rec.kind # "checkpoint"
               /\ rec.terms = SubSeq(dict, log.logged + 1, Len(dict))
<1>1. CASE kind = "insert" BY <1>1 DEF BatchRecord, Record
<1>2. CASE kind = "apply" BY <1>2 DEF BatchRecord, Record
<1>3. CASE kind = "delete" BY <1>3 DEF BatchRecord, Record
<1>4. CASE kind = "sweep" BY <1>4 DEF BatchRecord, Record
<1> QED BY <1>1, <1>2, <1>3, <1>4 DEF Ops

LEMMA BatchSafe ==
    ASSUME Shape, Safe, status = "up", lock.pc = "free",
           NEW kind \in Ops \cup {"sweep"}, NEW id \in Nat,
           AppendToLog(BatchRecord(kind, id)),
           UNCHANGED <<status, dict, mem, base, manifest, acked, durable, fault>>,
           log'.gen = log.gen, log'.file = log.file, log'.dirty = TRUE,
           lock'.pc = "sync", lock'.kind = kind, lock'.id = id, lock'.slots = Len(dict),
           fault # "lost" =>
              /\ hist' \in Seq(SUBSET Slot) /\ mem.version < Len(hist')
              /\ \A j \in 0 .. mem.version : hist'[j + 1] = hist[j + 1]
              /\ Recorded(hist', dict, Effect(mem, kind, id))
    PROVE  Safe'
<1> DEFINE next == Effect(mem, kind, id)
           rec == BatchRecord(kind, id)
<1>0. Types
  BY DEF Shape
<1>1. Coming = mem /\ Reached = log.logged /\ Coming' = next /\ Reached' = Len(dict)
  BY DEF Coming, Reached, Appending
<1>2. mem \in TierState /\ mem.version \in Nat
  BY <1>0, ComingType
<1>3. next \in TierState /\ next.version \in Nat /\ mem.version <= next.version
  <2>1. next \in TierState /\ (next = mem \/ next.version = mem.version + 1)
    BY <1>2, EffectType
  <2>2. next.version \in Nat
    BY <2>1 DEF TierState
  <2> HIDE DEF next
  <2> QED BY <1>2, <2>1, <2>2
<1>4. ASSUME fault # "lost" PROVE Live'
  <2>1. Live
    BY <1>4 DEF Safe
  <2>2. mem.version \in 0 .. mem.version
    BY <1>2
  <2>3. Recorded(hist', dict, mem)
    BY <1>4, <2>1, <2>2 DEF Live, Recorded
  <2> QED BY <1>1, <1>4, <2>1, <2>3 DEF Live
<1>5. ASSUME fault = "none" PROVE LoggedFile' /\ LoggedControl'
  <2> DEFINE g == log.gen
             b == base[g]
             f == wal[g]
             more == wal'[g]
             st == Rep(b, f.recs)
             u == Rep(b, Append(f.recs, rec))
  <2>1. LoggedFile /\ LoggedControl /\ Live
    BY <1>5 DEF Safe
  <2>2. g \in Gen /\ FileTypes /\ f \in LogFile /\ b \in Seq(Slot) /\ f.recs \in Seq(Entry)
    <3>1. g \in Gen /\ FileTypes
      BY <1>0 DEF Types, LogTypes
    <3> QED BY <3>1, IsLogFile
  <2>3. /\ log.file = g /\ Clean(f.recs, Len(f.recs)) /\ FileGood(hist, durable, b, f)
        /\ st.mem = mem /\ Agree(dict, st.dict, log.logged)
    BY <1>1, <2>1 DEF LoggedFile
  <2>4. f.recs \in Seq(LogRecord) /\ st \in ReplayState /\ st.ok
    BY <1>0, <2>1, LoggedGood DEF Good
  <2>5. rec \in LogRecord
    BY <1>0, BatchType DEF Types
  <2>6. /\ rec.version = mem.version + 1 /\ rec.first = log.logged + 1 /\ rec.kind # "checkpoint"
        /\ rec.terms = SubSeq(dict, log.logged + 1, Len(dict))
    BY BatchHead
  <2>7. MemAfter(mem, rec) = next
    BY <1>2, EffectIs
  <2>8. more.recs = Append(f.recs, rec) /\ more.synced = f.synced
    <3>1. rec \in Entry
      BY <2>5 DEF Entry
    <3> QED BY <2>2, <2>3, <3>1, EntryAppended DEF AppendToLog
  <2>9. u = ReplayRecord(st, rec)
    BY <2>4, <2>5, RepOn
  <2> HIDE DEF rec, next, b, f, g, more
  <2>10. Accepts(st, rec)
    BY <2>3, <2>6 DEF Accepts, Agree
  <2> HIDE DEF st, u
  <2>11. u.ok /\ u.dict = Spelt(st.dict, rec.terms) /\ u.mem = next
    BY <2>3, <2>4, <2>5, <2>7, <2>9, <2>10, RecordStep
  <2>12. Agree(dict, u.dict, Len(dict))
    <3>1. dict \in Seq(Slot) /\ OneIndex(dict) /\ log.logged \in 0 .. Len(dict)
          /\ \A i \in 1 .. Len(dict) : i > log.logged => dict[i] # Free
      BY <1>0 DEF Types, DictTypes, LogTypes, LockTypes
    <3>2. st.dict \in Seq(Slot)
      BY <2>4 DEF ReplayState
    <3>3. Agree(dict, Spelt(st.dict, SubSeq(dict, log.logged + 1, Len(dict))), Len(dict))
      BY <2>3, <3>1, <3>2, SpeltAgrees
    <3> QED BY <2>6, <2>11, <3>3
  <2>13. Good(hist', durable, u)
    <3>1. Recorded(hist', dict, next) /\ next.rows \subseteq 1 .. Len(dict)
      BY <1>5 DEF Recorded, Resolves, next
    <3>2. Recorded(hist', u.dict, next)
      BY <2>12, <3>1, AgreeRecorded
    <3>3. durable <= next.version
      <4>1. durable \in Nat /\ durable <= mem.version
        BY <1>0, <2>1 DEF Live, Types, PromiseTypes
      <4> QED BY <1>2, <1>3, <4>1
    <3> QED BY <2>11, <3>2, <3>3 DEF Good
  <2>14. FileGood(hist', durable, b, f)
    <3>1. Rep(b, f.recs).mem.version <= mem.version
      BY <1>2, <2>3 DEF st
    <3>2. mem.version < Len(hist') /\ Len(hist') \in Nat
      BY <1>5
    <3>3. \A j \in 0 .. mem.version : hist'[j + 1] = hist[j + 1]
      BY <1>5
    <3> QED BY <1>2, <2>2, <2>3, <3>1, <3>2, <3>3, FileGoodPast
  <2>15. FileGood(hist', durable, b, more) /\ Clean(more.recs, Len(more.recs))
    BY <2>2, <2>3, <2>5, <2>8, <2>13, <2>14, AppendGood DEF u
  <2>16. LoggedFile'
    <3>1. wal'[log'.gen] = more /\ base'[log'.gen] = b /\ log'.file = log'.gen /\ durable' = durable /\ dict' = dict
      BY <2>3 DEF more, b, g
    <3>2. Rep(b, more.recs) = u
      BY <2>8 DEF u
    <3> QED BY <1>1, <2>11, <2>12, <2>15, <3>1, <3>2 DEF LoggedFile
  <2>17. LoggedControl'
    BY <2>1 DEF LoggedControl
  <2> QED BY <2>16, <2>17
<1>6. fault' = fault /\ status' = "up"
  OBVIOUS
<1> QED BY <1>4, <1>5, <1>6, UpSafe

LEMMA AppendWriteSafe ==
    ASSUME Shape, Safe, NEW w \in Writer, AppendWrite(w)
    PROVE  Safe'
<1> DEFINE kind == writer[w].kind
           id == writer[w].id
           next == Effect(mem, kind, id)
           past == SubSeq(hist, 1, mem.version + 1)
<1>0. Types
  BY DEF Shape
<1>1. kind \in Ops /\ id \in Nat /\ id \in 1 .. Len(dict) /\ dict[id] # Free
  BY <1>0 DEF AppendWrite, Types, WriterTypes
<1>2. /\ status = "up" /\ lock.pc = "free" /\ AppendToLog(BatchRecord(kind, id))
      /\ UNCHANGED <<status, dict, mem, base, manifest, acked, durable, fault>>
      /\ lock'.pc = "sync" /\ lock'.kind = kind /\ lock'.id = id /\ lock'.slots = Len(dict)
      /\ Attempt(BatchRecord(kind, id))
  BY DEF AppendWrite, Unlocked
<1>3. log'.gen = log.gen /\ log'.file = log.file /\ log'.dirty = TRUE
  BY <1>0 DEF AppendWrite, Types, LogTypes
<1>4. mem \in TierState /\ mem.version \in Nat /\ Coming = mem
  BY <1>0, <1>2, ComingType DEF Coming, Appending
<1>5. Applied(mem, BatchRecord(kind, id)) = next
  BY <1>1, <1>4, EffectIs
<1>6. /\ next \in TierState /\ (next = mem \/ next.version = mem.version + 1)
      /\ next.rows \subseteq mem.rows \cup {id}
  BY <1>1, <1>4, EffectType
<1>7. hist' = IF next.version = mem.version THEN past ELSE Append(past, Meaning(dict, next.rows))
  BY <1>2, <1>5 DEF Attempt
<1> HIDE DEF kind, id
<1>8. ASSUME fault # "lost"
      PROVE  /\ hist' \in Seq(SUBSET Slot) /\ mem.version < Len(hist')
             /\ \A j \in 0 .. mem.version : hist'[j + 1] = hist[j + 1]
             /\ Recorded(hist', dict, next)
  <2>1. hist \in Seq(SUBSET Slot) /\ Recorded(hist, dict, mem)
    BY <1>2, <1>8 DEF Safe, Live
  <2>2. mem.version < Len(hist) /\ Len(hist) \in Nat /\ Resolves(dict, mem.rows) /\ Meaning(dict, mem.rows) = hist[mem.version + 1]
    BY <2>1 DEF Recorded
  <2>3. /\ past \in Seq(SUBSET Slot) /\ Len(past) = mem.version + 1
        /\ \A j \in 0 .. mem.version : past[j + 1] = hist[j + 1]
    <3>1. mem.version + 1 \in 0 .. Len(hist)
      BY <1>4, <2>2
    <3>2. past = Cut(hist, mem.version + 1)
      BY DEF Cut
    <3> DEFINE n == mem.version + 1
    <3>3. Cut(hist, n) \in Seq(SUBSET Slot) /\ Len(Cut(hist, n)) = n /\ \A i \in 1 .. n : Cut(hist, n)[i] = hist[i]
      BY <2>1, <3>1, CutType
    <3>4. \A j \in 0 .. mem.version : j + 1 \in 1 .. n
      BY <1>4
    <3> QED BY <3>2, <3>3, <3>4
  <2>4. Resolves(dict, next.rows)
    BY <1>1, <1>6, <2>2 DEF Resolves
  <2>5. Meaning(dict, next.rows) \in SUBSET Slot
    <3>1. \A i \in next.rows : dict[i] \in Slot
      BY <1>0, <2>4 DEF Resolves, Types, DictTypes
    <3> QED BY <3>1 DEF Meaning
  <2> HIDE DEF past, next
  <2>6. CASE next = mem
    <3>1. hist' = past
      BY <1>7, <2>6
    <3>2. mem.version < Len(past) /\ mem.version \in 0 .. mem.version
      BY <1>4, <2>3
    <3>3. Recorded(past, dict, next)
      BY <2>2, <2>3, <2>6, <3>2 DEF Recorded
    <3> QED BY <2>3, <3>1, <3>2, <3>3
  <2>7. CASE next.version = mem.version + 1
    <3> DEFINE x == Meaning(dict, next.rows)
               longer == Append(past, x)
    <3>1. hist' = longer
      BY <1>4, <1>7, <2>7
    <3>2. x \in SUBSET Slot
      BY <2>5
    <3> HIDE DEF x
    <3>3. /\ longer \in Seq(SUBSET Slot) /\ Len(longer) = mem.version + 2
          /\ longer[mem.version + 2] = x
          /\ \A i \in 1 .. mem.version + 1 : longer[i] = past[i]
      BY <1>4, <2>3, <3>2
    <3> HIDE DEF longer
    <3>4. \A j \in 0 .. mem.version : longer[j + 1] = hist[j + 1]
      <4> SUFFICES ASSUME NEW j \in 0 .. mem.version PROVE longer[j + 1] = hist[j + 1]
        OBVIOUS
      <4>1. j + 1 \in 1 .. mem.version + 1
        BY <1>4
      <4> QED BY <2>3, <3>3, <4>1
    <3>5. mem.version < Len(longer) /\ next.version < Len(longer) /\ next.version + 1 = mem.version + 2
      BY <1>4, <2>7, <3>3
    <3>6. Recorded(longer, dict, next)
      BY <2>4, <3>3, <3>5 DEF Recorded, x
    <3> QED BY <3>1, <3>3, <3>4, <3>5, <3>6
  <2> QED BY <1>6, <2>6, <2>7 DEF next
<1>9. kind \in Ops \cup {"sweep"}
  BY <1>1
<1> QED BY <1>1, <1>2, <1>3, <1>8, <1>9, BatchSafe

LEMMA SweepWriteSafe ==
    ASSUME Shape, Safe, SweepWrite
    PROVE  Safe'
<1>0. Types
  BY DEF Shape
<1>1. /\ status = "up" /\ lock.pc = "free" /\ AppendToLog(BatchRecord("sweep", 0))
      /\ UNCHANGED <<status, dict, mem, base, manifest, acked, durable, fault, hist>>
      /\ lock'.pc = "sync" /\ lock'.kind = "sweep" /\ lock'.id = 0 /\ lock'.slots = Len(dict)
  BY DEF SweepWrite, Unlocked, ghosts
<1>2. log'.gen = log.gen /\ log'.file = log.file /\ log'.dirty = TRUE
  BY <1>0 DEF SweepWrite, Types, LogTypes
<1>3. Effect(mem, "sweep", 0) = mem
  BY DEF Effect
<1>4. ASSUME fault # "lost"
      PROVE  /\ hist' \in Seq(SUBSET Slot) /\ mem.version < Len(hist')
             /\ \A j \in 0 .. mem.version : hist'[j + 1] = hist[j + 1]
             /\ Recorded(hist', dict, Effect(mem, "sweep", 0))
  BY <1>1, <1>3, <1>4 DEF Safe, Live, Recorded
<1>5. "sweep" \in Ops \cup {"sweep"} /\ 0 \in Nat
  OBVIOUS
<1> QED BY <1>1, <1>2, <1>4, <1>5, BatchSafe

\* Once a file is all on disk, only its end is exposed.
LEMMA SyncedFile ==
    ASSUME Types, LoggedFile, NEW n, n <= Coming.version,
           wal' = [wal EXCEPT ![log.file] = Synced(@)]
    PROVE  /\ FileGood(hist, n, base[log.gen], wal'[log.gen])
           /\ wal'[log.gen].recs = wal[log.gen].recs /\ wal'[log.gen].synced = Len(wal[log.gen].recs)
<1> DEFINE g == log.gen
<1>1. g \in Gen /\ FileTypes /\ log.file = g
  BY DEF Types, LogTypes, LoggedFile
<1>2. /\ wal'[g].recs = wal[g].recs /\ wal'[g].synced = Len(wal[g].recs)
      /\ wal'[g] = [recs |-> wal[g].recs, synced |-> Len(wal[g].recs)]
  BY <1>1, FileSynced
<1>3. wal[g].recs \in Seq(Entry) /\ Len(wal[g].recs) \in Nat
  BY <1>1, IsLogFile
<1>4. wal'[g] \in LogFile
  BY <1>2, <1>3 DEF LogFile
<1>5. Good(hist, n, Rep(base[g], wal[g].recs))
  BY LoggedGood DEF Good, LoggedFile
<1>6. Clean(wal[g].recs, Len(wal[g].recs))
  BY DEF LoggedFile
<1> HIDE DEF g
<1>7. FileGood(hist, n, base[g], wal'[g])
  BY <1>2, <1>4, <1>5, <1>6, SyncedGood
<1> QED BY <1>2, <1>7 DEF g

LEMMA AppendSyncSafe ==
    ASSUME Shape, Safe, AppendSync
    PROVE  Safe'
<1>0. Types
  BY DEF Shape
<1>1. /\ status = "up" /\ lock.pc = "sync" /\ wal' = [wal EXCEPT ![log.file] = Synced(@)]
      /\ UNCHANGED <<status, dict, mem, base, manifest, hist, acked, durable, fault>>
  BY DEF AppendSync, ghosts
<1>2. lock'.pc = "install" /\ lock'.kind = lock.kind /\ lock'.id = lock.id /\ lock'.slots = lock.slots
  BY <1>0 DEF AppendSync, Types, LockTypes
<1>3. log'.gen = log.gen /\ log'.file = log.file /\ log'.logged = log.logged
  BY <1>0 DEF AppendSync, Types, LogTypes
<1>4. Coming' = Coming /\ Reached' = Reached
  BY <1>1, <1>2 DEF Coming, Reached, Appending
<1>5. ASSUME fault # "lost" PROVE hist' \in Seq(SUBSET Slot) /\ Live'
  BY <1>0, <1>1, <1>4, <1>5, LiveKept DEF Safe
<1>6. ASSUME fault = "none" PROVE LoggedFile' /\ LoggedControl'
  <2>1. LoggedFile /\ LoggedControl
    BY <1>1, <1>6 DEF Safe
  <2>2. durable <= Coming.version
    BY <1>0, <2>1, LoggedGood
  <2>3. /\ FileGood(hist, durable, base[log.gen], wal'[log.gen])
        /\ wal'[log.gen].recs = wal[log.gen].recs /\ wal'[log.gen].synced = Len(wal[log.gen].recs)
    BY <1>0, <1>1, <2>1, <2>2, SyncedFile
  <2>4. LoggedFile'
    BY <1>1, <1>3, <1>4, <2>1, <2>3 DEF LoggedFile
  <2>5. LoggedControl'
    BY <1>1, <1>2, <1>3, <2>1, <2>3 DEF LoggedControl
  <2> QED BY <2>4, <2>5
<1> QED BY <1>1, <1>5, <1>6, UpSafe

LEMMA AppendNoSyncSafe ==
    ASSUME Shape, Safe, AppendNoSync
    PROVE  Safe'
<1>0. Types
  BY DEF Shape
<1>1. /\ status = "up" /\ lock.pc = "sync" /\ log.policy = "Every"
      /\ UNCHANGED <<status, dict, mem, log, wal, base, manifest, hist, acked, durable, fault>>
  BY DEF AppendNoSync, disk, ghosts
<1>2. lock'.pc = "install" /\ lock'.kind = lock.kind /\ lock'.id = lock.id /\ lock'.slots = lock.slots
  BY <1>0 DEF AppendNoSync, Types, LockTypes
<1>4. Coming' = Coming /\ Reached' = Reached
  BY <1>1, <1>2 DEF Coming, Reached, Appending
<1>5. ASSUME fault # "lost" PROVE hist' \in Seq(SUBSET Slot) /\ Live'
  BY <1>0, <1>1, <1>4, <1>5, LiveKept DEF Safe
<1>6. ASSUME fault = "none" PROVE LoggedFile' /\ LoggedControl'
  <2>1. LoggedFile /\ LoggedControl
    BY <1>1, <1>6 DEF Safe
  <2>4. LoggedFile'
    <3>1. \A i \in 1 .. Reached : dict'[i] \in {dict[i], Free}
      BY <1>1
    <3>2. log'.gen = log.gen /\ log'.file = log.file /\ wal'[log.gen] = wal[log.gen] /\ base'[log.gen] = base[log.gen]
      BY <1>1
    <3> QED BY <1>1, <1>4, <2>1, <3>1, <3>2, LoggedFileKept
  <2>5. LoggedControl'
    BY <1>1, <1>2, <2>1 DEF LoggedControl
  <2> QED BY <2>4, <2>5
<1> QED BY <1>1, <1>5, <1>6, UpSafe

\* A step that leaves its mark on the files has only the live state to answer for.
LEMMA MarkedSafe ==
    ASSUME Shape, Safe, status = "up", status' = "up", fault' = Marked, ~Appending',
           UNCHANGED <<dict, mem, hist, acked, durable>>
    PROVE  Safe'
<1>1. fault' # "none" /\ (fault' # "lost" => fault # "lost")
  BY DEF Marked
<1>2. Coming' = mem
  BY DEF Coming
<1>3. ASSUME fault # "lost" PROVE hist' \in Seq(SUBSET Slot) /\ Live'
  BY <1>2, <1>3, LiveKept DEF Safe, Shape
<1> QED BY <1>1, <1>3, UpSafe

LEMMA AppendFailsSafe ==
    ASSUME Shape, Safe, AppendSyncFails \/ \E w \in Writer : AppendWriteFails(w)
    PROVE  Safe'
<1>1. CASE AppendSyncFails
  <2>1. /\ status = "up" /\ status' = "up" /\ fault' = Marked /\ lock' = Unlocked
        /\ UNCHANGED <<dict, mem, hist, acked, durable>>
    BY <1>1 DEF AppendSyncFails, ghosts
  <2>2. ~Appending'
    BY <2>1 DEF Appending, Unlocked
  <2> QED BY <2>1, <2>2, MarkedSafe
<1>2. CASE \E w \in Writer : AppendWriteFails(w)
  <2>1. /\ status = "up" /\ status' = "up" /\ fault' = Marked /\ lock' = lock /\ lock.pc = "free"
        /\ UNCHANGED <<dict, mem, hist, acked, durable>>
    BY <1>2 DEF AppendWriteFails, ghosts
  <2>2. ~Appending'
    BY <2>1 DEF Appending
  <2> QED BY <2>1, <2>2, MarkedSafe
<1> QED BY <1>1, <1>2

LEMMA InstallSafe ==
    ASSUME Shape, Safe, Install
    PROVE  Safe'
<1>0. Types
  BY DEF Shape
<1>1. /\ status = "up" /\ lock.pc = "install"
      /\ UNCHANGED <<status, wal, base, manifest, hist, fault>> /\ lock' = Unlocked
      /\ dict' = IF Sweeping
                 THEN [i \in DOMAIN dict |-> IF i \in mem.rows THEN dict[i] ELSE Free]
                 ELSE dict
      /\ mem' = Applied(mem, BatchRecord(lock.kind, lock.id))
      /\ acked' = mem'.version
      /\ durable' = IF log.policy = "EveryBatch" \/ ~log.dirty THEN mem'.version ELSE durable
  BY DEF Install, disk
<1>2. /\ log'.gen = log.gen /\ log'.file = log.file /\ log'.logged = lock.slots
  BY <1>0 DEF Install, LoggedLen, Types, LogTypes
<1>3. /\ Coming = Effect(mem, lock.kind, lock.id) /\ Reached = lock.slots /\ Appending
      /\ lock.kind \in Ops \cup {"sweep"}
  BY <1>0, <1>1 DEF Coming, Reached, Appending, Types, LockTypes
<1>4. /\ mem \in TierState /\ mem.version \in Nat /\ Coming.version \in Nat /\ mem.version <= Coming.version
      /\ Sweeping => Coming = mem
  BY <1>0, ComingType
<1>5. mem' = Coming
  BY <1>1, <1>3, <1>4, EffectIs
<1>6. Coming' = Coming /\ Reached' = Reached /\ lock'.pc = "free"
  BY <1>1, <1>2, <1>3, <1>5 DEF Coming, Reached, Appending, Unlocked
<1>7. /\ Len(dict') = Len(dict) /\ Len(dict) \in Nat
      /\ \A i \in 1 .. Len(dict) : dict'[i] \in {dict[i], Free}
      /\ \A i \in Coming.rows \cap 1 .. Len(dict) : dict'[i] = dict[i]
  <2>1. Len(dict) \in Nat
    BY <1>0 DEF Types, DictTypes
  <2>2. CASE Sweeping
    <3> DEFINE d == [i \in DOMAIN dict |-> IF i \in mem.rows THEN dict[i] ELSE Free]
    <3>1. Len(d) = Len(dict) /\ \A i \in 1 .. Len(dict) : d[i] = IF i \in mem.rows THEN dict[i] ELSE Free
      BY <1>0, SweptDict DEF Types
    <3>2. dict' = d /\ Coming = mem
      BY <1>1, <1>4, <2>2
    <3> HIDE DEF d
    <3> QED BY <2>1, <3>1, <3>2
  <2>3. CASE ~Sweeping
    BY <1>1, <2>1, <2>3
  <2> QED BY <2>2, <2>3
<1>8. ASSUME fault # "lost" PROVE hist' \in Seq(SUBSET Slot) /\ Live'
  <2>1. Live /\ hist \in Seq(SUBSET Slot)
    BY <1>1, <1>8 DEF Safe
  <2>2. Recorded(hist, dict, Coming) /\ durable <= mem.version /\ durable \in Nat
    BY <1>0, <2>1 DEF Live, Types, PromiseTypes
  <2>3. Recorded(hist, dict', Coming)
    <3>1. \A i \in Coming.rows : dict'[i] = dict[i]
      BY <1>7, <2>2 DEF Recorded, Resolves
    <3>2. Len(dict) \in Nat /\ Len(dict') \in Nat /\ Len(dict) <= Len(dict')
      BY <1>7
    <3> QED BY <2>2, <3>1, <3>2, RecordedOn
  <2>4. durable' <= mem'.version
    BY <1>1, <1>4, <1>5, <2>2
  <2>5. acked' <= mem'.version
    BY <1>1, <1>4, <1>5
  <2> QED BY <1>1, <1>5, <1>6, <2>1, <2>3, <2>4, <2>5 DEF Live
<1>9. ASSUME fault = "none" PROVE LoggedFile' /\ LoggedControl'
  <2> DEFINE g == log.gen
             f == wal[g]
             b == base[g]
             st == Rep(b, f.recs)
  <2>1. LoggedFile /\ LoggedControl
    BY <1>1, <1>9 DEF Safe
  <2>2. /\ log.file = g /\ Clean(f.recs, Len(f.recs)) /\ FileGood(hist, durable, b, f)
        /\ st.mem = Coming /\ Agree(dict, st.dict, Reached)
    BY <2>1 DEF LoggedFile
  <2>3. f \in LogFile
    BY <1>0, IsLogFile DEF Types, LogTypes
  <2>4. FileGood(hist, durable', b, f)
    <3>1. CASE log.policy = "EveryBatch" \/ ~log.dirty
      <4>1. f.synced = Len(f.recs) /\ durable' = Coming.version
        BY <1>1, <1>5, <2>1, <3>1 DEF LoggedControl
      <4>2. Recorded(hist, st.dict, Coming) /\ st.ok
        BY <1>0, <2>1, LoggedGood DEF Good
      <4>3. durable' <= Coming.version
        BY <1>4, <4>1
      <4>4. Good(hist, durable', st)
        BY <2>2, <4>2, <4>3 DEF Good
      <4> QED BY <2>2, <2>3, <4>1, <4>4, SyncedGood
    <3>2. CASE ~(log.policy = "EveryBatch" \/ ~log.dirty)
      BY <1>1, <2>2, <3>2
    <3> QED BY <3>1, <3>2
  <2>5. Agree(dict', st.dict, Reached)
    <3>1. \A i \in 1 .. Reached : i \in 1 .. Len(dict)
      BY <1>0, <1>1, <1>3 DEF Types, LockTypes, DictTypes
    <3> HIDE DEF st
    <3> QED BY <1>7, <2>2, <3>1 DEF Agree
  <2>6. LoggedFile'
    <3>1. wal'[log'.gen] = f /\ base'[log'.gen] = b /\ log'.file = log'.gen
      BY <1>1, <1>2, <2>2
    <3> HIDE DEF f, b
    <3> QED BY <1>1, <1>6, <2>2, <2>4, <2>5, <3>1 DEF LoggedFile
  <2>7. LoggedControl'
    BY <1>1, <1>2, <1>6, <2>1 DEF LoggedControl
  <2> QED BY <2>6, <2>7
<1> QED BY <1>1, <1>8, <1>9, UpSafe

LEMMA SyncWalSafe ==
    ASSUME Shape, Safe, SyncWal
    PROVE  Safe'
<1>0. Types
  BY DEF Shape
<1>1. /\ status = "up" /\ lock.pc = "free" /\ UNCHANGED <<status, dict, mem, lock, base, manifest, hist, acked, fault>>
      /\ \/ wal' = [wal EXCEPT ![log.file] = Synced(@)] /\ durable' = mem.version
         \/ wal' = wal /\ durable' = durable
  BY DEF SyncWal
<1>2. log'.gen = log.gen /\ log'.file = log.file /\ log'.logged = log.logged
  BY <1>0 DEF SyncWal, Types, LogTypes
<1>3. Coming' = Coming /\ Reached' = Reached /\ Coming = mem
  BY <1>1, <1>2 DEF Coming, Reached, Appending
<1>4. mem.version \in Nat
  BY <1>0, ComingType
<1>5. ASSUME fault # "lost" PROVE hist' \in Seq(SUBSET Slot) /\ Live'
  <2>1. Live /\ hist \in Seq(SUBSET Slot)
    BY <1>1, <1>5 DEF Safe
  <2>2. durable' <= mem.version
    BY <1>1, <1>4, <2>1 DEF Live
  <2> QED BY <1>1, <1>3, <2>1, <2>2 DEF Live
<1>6. ASSUME fault = "none" PROVE LoggedFile' /\ LoggedControl'
  <2>1. LoggedFile /\ LoggedControl
    BY <1>1, <1>6 DEF Safe
  <2>2. LoggedFile'
    <3>1. CASE wal' = [wal EXCEPT ![log.file] = Synced(@)] /\ durable' = mem.version
      <4>1. durable' <= Coming.version
        BY <1>3, <1>4, <3>1
      <4>2. /\ FileGood(hist, durable', base[log.gen], wal'[log.gen])
            /\ wal'[log.gen].recs = wal[log.gen].recs
        BY <1>0, <2>1, <3>1, <4>1, SyncedFile
      <4> QED BY <1>1, <1>2, <1>3, <2>1, <4>2 DEF LoggedFile
    <3>2. CASE wal' = wal /\ durable' = durable
      <4>1. \A i \in 1 .. Reached : dict'[i] \in {dict[i], Free}
        BY <1>1
      <4>2. wal'[log.gen] = wal[log.gen] /\ base'[log.gen] = base[log.gen]
        BY <1>1, <3>2
      <4> QED BY <1>1, <1>2, <1>3, <2>1, <3>2, <4>1, <4>2, LoggedFileKept
    <3> QED BY <1>1, <3>1, <3>2
  <2>3. LoggedControl'
    BY <1>1, <1>2, <2>1 DEF LoggedControl
  <2> QED BY <2>2, <2>3
<1> QED BY <1>1, <1>5, <1>6, UpSafe

-----------------------------------------------------------------------------
\* The file a checkpoint wrote and synced replays to the tier it was taken of.
LEMMA CheckpointGood ==
    ASSUME Shape, Recorded(hist, dict, mem), lock.pc \in {"manifest", "dir_sync", "reopen"},
           NEW n, n <= mem.version
    PROVE  LET f == wal[NextGen]
               st == Rep(base[NextGen], f.recs)
           IN  /\ f \in LogFile /\ Clean(f.recs, Len(f.recs)) /\ Readable(f.recs) = f.recs
               /\ FileGood(hist, n, base[NextGen], f)
               /\ st.mem = mem /\ Agree(dict, st.dict, lock.slots)
<1> DEFINE f == wal[NextGen]
           b == base[NextGen]
           st == Rep(b, f.recs)
<1>0. Types /\ Progress
  BY DEF Shape
<1>1. Checkpointing /\ log.gen < MaxGen /\ mem.rows \subseteq 1 .. lock.slots /\ lock.slots \in Nat
      /\ lock.slots <= Len(dict) /\ Len(dict) \in Nat
  BY <1>0 DEF Types, LockTypes, DictTypes, Checkpointing
<1>2. NextGen \in Gen /\ FileTypes
  BY <1>0, <1>1, NextGenIs DEF Types
<1>3. f \in LogFile /\ b \in Seq(Slot)
  BY <1>2, IsLogFile
<1>4. b = Cut(dict, lock.slots) /\ f.recs = CkRecords /\ f.synced = Len(f.recs)
  BY <1>0, <1>1 DEF Progress
<1>5. mem \in TierState /\ IsFiniteSet(mem.rows) /\ mem.version \in Nat
  <2>1. IsFiniteSet(1 .. lock.slots)
    BY <1>1, FS_Interval
  <2>2. mem \in TierState /\ mem.version \in Nat
    BY <1>0, ComingType
  <2> QED BY <1>1, <2>1, <2>2, FS_Subset
<1>6. /\ f.recs \in Seq(LogRecord) /\ f.recs # <<>>
      /\ \A i \in 1 .. Len(f.recs) : Chunk(f.recs[i]) /\ f.recs[i].version = mem.version
      /\ UNION {f.recs[i].adds : i \in 1 .. Len(f.recs)} = mem.rows
  <2>1. /\ CkRecords \in Seq(LogRecord) /\ CkRecords # <<>>
        /\ \A i \in 1 .. Len(CkRecords) : Chunk(CkRecords[i]) /\ CkRecords[i].version = mem.version
        /\ UNION {CkRecords[i].adds : i \in 1 .. Len(CkRecords)} = mem.rows
    BY <1>5, CkRecordsAre
  <2> QED BY <1>4, <2>1
<1>7. /\ st.ok /\ st.dict = b
      /\ st.mem = [version |-> mem.version, rows |-> UNION {f.recs[i].adds : i \in 1 .. Len(f.recs)}]
  <2> DEFINE r == f.recs
             v == mem.version
  <2>1. r \in Seq(LogRecord) /\ r # <<>> /\ v \in Nat /\ \A i \in 1 .. Len(r) : Chunk(r[i]) /\ r[i].version = v
    BY <1>5, <1>6
  <2> HIDE DEF r, v, b, f
  <2>2. LET s == Rep(b, r)
        IN  /\ s.ok /\ s.dict = b
            /\ s.mem = [version |-> v, rows |-> UNION {r[i].adds : i \in 1 .. Len(r)}]
    BY <1>3, <2>1, ChunksReplay
  <2> QED BY <2>2 DEF r, v
<1> HIDE DEF f, b
<1>8. st.mem = mem
  <2>1. mem = [version |-> mem.version, rows |-> mem.rows]
    BY <1>5 DEF TierState
  <2> QED BY <1>6, <1>7, <2>1
<1>9. Agree(dict, b, lock.slots)
  <2>1. lock.slots \in 0 .. Len(dict) /\ dict \in Seq(Slot)
    BY <1>0, <1>1 DEF Types, DictTypes
  <2>2. Len(b) = lock.slots /\ \A i \in 1 .. lock.slots : b[i] = dict[i]
    BY <1>4, <2>1, CutType
  <2> QED BY <2>2 DEF Agree
<1>10. Clean(f.recs, Len(f.recs))
  <2>1. \A i \in 1 .. Len(f.recs) : f.recs[i] \in LogRecord
    BY <1>6
  <2> QED BY <2>1, TornIsNoRecord DEF Clean
<1>11. Readable(f.recs) = f.recs
  BY <1>3, <1>10, CleanReadable DEF LogFile
<1>12. Good(hist, n, st)
  <2>1. Recorded(hist, b, mem)
    BY <1>1, <1>9, AgreeRecorded
  <2> HIDE DEF st
  <2> QED BY <1>7, <1>8, <2>1 DEF Good
<1>13. FileGood(hist, n, b, f)
  BY <1>3, <1>4, <1>10, <1>12, SyncedGood
<1>14. st.dict = b
  BY <1>7
<1> QED BY <1>3, <1>8, <1>9, <1>10, <1>11, <1>13, <1>14 DEF f, b

\* Checkpoint steps under the lock: the open file is not touched.
LEMMA CheckpointingSafe ==
    ASSUME Shape, Safe, status = "up", ~Appending, ~Appending',
           UNCHANGED <<status, dict, mem, log, hist, acked, durable, fault>>,
           wal'[log.gen] = wal[log.gen], base'[log.gen] = base[log.gen],
           (fault = "none" /\ LoggedControl) => LoggedControl'
    PROVE  Safe'
<1>0. Types
  BY DEF Shape
<1>1. Coming' = Coming /\ Reached' = Reached /\ Coming = mem
  BY DEF Coming, Reached
<1>2. ASSUME fault # "lost" PROVE hist' \in Seq(SUBSET Slot) /\ Live'
  BY <1>0, <1>1, <1>2, LiveKept DEF Safe
<1>3. ASSUME fault = "none" PROVE LoggedFile' /\ LoggedControl'
  <2>1. LoggedFile /\ LoggedControl
    BY <1>3 DEF Safe
  <2>2. \A i \in 1 .. Reached : dict'[i] \in {dict[i], Free}
    OBVIOUS
  <2>3. log'.gen = log.gen /\ log'.file = log.file
    OBVIOUS
  <2>4. LoggedFile'
    BY <1>1, <2>1, <2>2, <2>3, LoggedFileKept
  <2> QED BY <1>3, <2>1, <2>4
<1>4. fault' = fault /\ status' = "up"
  OBVIOUS
<1> QED BY <1>2, <1>3, <1>4, UpSafe

LEMMA CkStepSafe ==
    ASSUME Shape, Safe, CkDict \/ CkWal \/ CkWalSync \/ CkManifest \/ CkDirSync
    PROVE  Safe'
<1>0. Types /\ FileTypes /\ LockTypes /\ Progress
  BY DEF Shape, Types
<1>1. status = "up" /\ UNCHANGED <<status, dict, mem, log, hist, acked, durable, fault>>
  BY DEF CkDict, CkWal, CkWalSync, CkManifest, CkDirSync, ghosts
<1>2. lock.pc \in {"free", "wal", "wal_sync", "manifest", "dir_sync"} /\ log.gen < MaxGen
  <2>1. lock.pc \in {"wal", "wal_sync", "manifest", "dir_sync"} => log.gen < MaxGen
    BY <1>0 DEF LockTypes, Checkpointing
  <2> QED BY <2>1 DEF CkDict, CkWal, CkWalSync, CkManifest, CkDirSync
<1>3. NextGen \in Gen /\ log.gen \in Gen /\ NextGen # log.gen
  BY <1>0, <1>2, NextGenIs
<1>4. wal'[log.gen] = wal[log.gen] /\ base'[log.gen] = base[log.gen]
  <2>1. CASE CkDict
    BY <1>0, <1>3, <2>1 DEF CkDict, FileTypes
  <2>2. CASE CkWal
    BY <1>0, <1>3, <2>2 DEF CkWal, FileTypes
  <2>3. CASE CkWalSync
    BY <1>0, <1>3, <2>3, FileSynced DEF CkWalSync
  <2>4. CASE CkManifest \/ CkDirSync
    BY <2>4 DEF CkManifest, CkDirSync
  <2> QED BY <2>1, <2>2, <2>3, <2>4
<1>5. ~Appending
  BY <1>2 DEF Appending
<1>6. /\ CkDict => lock.pc = "free" /\ lock'.pc = "wal" /\ manifest' = manifest
      /\ CkWal => lock.pc = "wal" /\ lock'.pc = "wal_sync" /\ manifest' = manifest
      /\ CkWalSync => lock.pc = "wal_sync" /\ lock'.pc = "manifest" /\ manifest' = manifest
      /\ CkManifest => lock.pc = "manifest" /\ lock'.pc = "dir_sync" /\ manifest'.stable = manifest.stable
      /\ CkDirSync => lock.pc = "dir_sync" /\ lock'.pc = "reopen"
  BY <1>0 DEF CkDict, CkWal, CkWalSync, CkManifest, CkDirSync, LockTypes, FileTypes, Unlocked
<1>7. ~Appending'
  BY <1>6 DEF Appending
<1>8. LoggedControl => LoggedControl'
  BY <1>1, <1>4, <1>6 DEF LoggedControl
<1> QED BY <1>1, <1>4, <1>5, <1>7, <1>8, CheckpointingSafe

LEMMA CkFailsSafe ==
    ASSUME Shape, Safe, CkFails
    PROVE  Safe'
<1>0. Types /\ FileTypes /\ LockTypes
  BY DEF Shape, Types
<1>1. /\ status = "up" /\ UNCHANGED <<status, dict, mem, hist, acked, durable, wal, base, manifest>> /\ lock' = Unlocked
      /\ fault' = IF lock.pc \in {"dir_sync", "reopen"} THEN Marked ELSE fault
      /\ lock.pc # "reopen" => log' = log
  BY DEF CkFails, disk, ghosts
<1>2. Checkpointing
  <2>1. lock.pc \in {"wal", "wal_sync", "manifest", "dir_sync", "reopen"}
    BY DurableAssumption DEF CkFails
  <2> QED BY <2>1 DEF Checkpointing
<1>3. ~Appending /\ ~Appending' /\ lock'.pc = "free"
  BY <1>1, <1>2 DEF Appending, Checkpointing, Unlocked
<1>4. CASE lock.pc \in {"dir_sync", "reopen"}
  BY <1>1, <1>3, <1>4, MarkedSafe
<1>5. CASE lock.pc \notin {"dir_sync", "reopen"}
  <2>1. log' = log /\ fault' = fault
    BY <1>1, <1>5
  <2>2. LoggedControl => LoggedControl'
    BY <1>1, <1>3, <1>5, <2>1 DEF LoggedControl
  <2>3. wal'[log.gen] = wal[log.gen] /\ base'[log.gen] = base[log.gen]
    BY <1>1
  <2> QED BY <1>1, <1>3, <2>1, <2>2, <2>3, CheckpointingSafe
<1> QED BY <1>4, <1>5

\* The new generation's file owes nothing to what I/O errors left in the old one.
LEMMA CkReopenSafe ==
    ASSUME Shape, Safe, CkReopen
    PROVE  Safe'
<1>0. Types /\ FileTypes /\ LockTypes /\ Progress
  BY DEF Shape, Types
<1>1. /\ status = "up" /\ lock.pc = "reopen" /\ UNCHANGED <<status, dict, mem, hist, acked, manifest>>
      /\ wal' = [wal EXCEPT ![log.gen] = NoWal] /\ base' = [base EXCEPT ![log.gen] = <<>>]
      /\ log' = Opened(NextGen, lock.slots, log.policy) /\ lock' = Unlocked /\ durable' = mem.version
      /\ fault' = IF fault = "marked" THEN "none" ELSE fault
  BY DEF CkReopen
<1>2. log.gen < MaxGen
  BY <1>0, <1>1 DEF LockTypes, Checkpointing
<1>3. NextGen \in Gen /\ log.gen \in Gen /\ NextGen # log.gen
  BY <1>0, <1>2, NextGenIs
<1>4. wal'[NextGen] = wal[NextGen] /\ base'[NextGen] = base[NextGen]
  BY <1>0, <1>1, <1>3 DEF FileTypes
<1>5. log'.gen = NextGen /\ log'.file = NextGen /\ log'.logged = lock.slots /\ lock'.pc = "free"
  BY <1>1 DEF Opened, Unlocked
<1>6. Coming' = mem /\ Reached' = lock.slots
  BY <1>1, <1>5 DEF Coming, Reached, Appending
<1>7. mem.version \in Nat
  BY <1>0, ComingType
<1>8. ASSUME fault # "lost" PROVE hist' \in Seq(SUBSET Slot) /\ Live' /\ LoggedFile' /\ LoggedControl'
  <2>1. Live /\ hist \in Seq(SUBSET Slot)
    BY <1>1, <1>8 DEF Safe
  <2>2. Live'
    BY <1>1, <1>6, <1>7, <2>1 DEF Live
  <2> DEFINE f == wal[NextGen]
             st == Rep(base[NextGen], f.recs)
  <2>3. /\ Clean(f.recs, Len(f.recs))
        /\ FileGood(hist, durable', base[NextGen], f)
        /\ st.mem = mem /\ Agree(dict, st.dict, lock.slots)
    <3>1. Recorded(hist, dict, mem) /\ durable' <= mem.version
      BY <1>1, <1>7, <2>1 DEF Live
    <3> QED BY <1>1, <3>1, CheckpointGood
  <2>4. LoggedFile'
    <3>1. wal'[log'.gen] = f /\ base'[log'.gen] = base[NextGen]
      BY <1>4, <1>5
    <3> HIDE DEF f
    <3> QED BY <1>1, <1>5, <1>6, <2>3, <3>1 DEF LoggedFile
  <2>5. LoggedControl'
    BY <1>0, <1>1, <1>5 DEF LoggedControl, Progress
  <2> QED BY <1>1, <2>1, <2>2, <2>4, <2>5
<1>9. fault' # "lost" => fault # "lost"
  BY <1>1
<1> QED BY <1>1, <1>8, <1>9, UpSafe

-----------------------------------------------------------------------------
(* Crashes and reopening.                                                    *)

\* Every file that MANIFEST may name after a crash is one that can be opened.
LEMMA NamedFilesGood ==
    ASSUME Shape, Safe, fault = "none", status \in {"up", "opening"},
           NEW m \in {manifest.now, manifest.stable}
    PROVE  OnDisk(m)
<1>0. Types /\ FileTypes /\ Progress
  BY DEF Shape, Types
<1>1. CASE status = "opening"
  <2>1. m = manifest.now
    BY <1>1 DEF Safe
  <2> QED BY <1>1, <2>1 DEF Safe
<1>2. CASE status = "up"
  <2>1. Live /\ LoggedFile /\ LoggedControl
    BY <1>2 DEF Safe
  <2>2. mem.version \in Nat /\ Coming.version \in Nat /\ mem.version <= Coming.version /\ acked \in Nat /\ acked <= mem.version
    BY <1>0, <2>1, ComingType DEF Live, Types, PromiseTypes
  <2>3. CASE m = log.gen
    <3>1. FileGood(hist, durable, base[log.gen], wal[log.gen])
          /\ Rep(base[log.gen], wal[log.gen].recs).mem = Coming
      BY <2>1 DEF LoggedFile
    <3>2. Readable(wal[log.gen].recs) = wal[log.gen].recs
      BY <1>0, <2>1, LoggedGood
    <3>3. acked <= Coming.version
      BY <2>2
    <3> QED BY <2>3, <3>1, <3>2, <3>3 DEF OnDisk
  <2>4. CASE m # log.gen
    <3>1. lock.pc \in {"dir_sync", "reopen"} /\ m = NextGen
      BY <1>0, <2>1, <2>4 DEF LoggedControl, Progress
    <3> DEFINE f == wal[NextGen]
               st == Rep(base[NextGen], f.recs)
    <3>2. Readable(f.recs) = f.recs /\ FileGood(hist, durable, base[NextGen], f) /\ st.mem = mem
      <4>1. Recorded(hist, dict, mem) /\ durable <= mem.version
        BY <2>1 DEF Live
      <4> QED BY <3>1, <4>1, CheckpointGood
    <3> QED BY <2>2, <3>1, <3>2 DEF OnDisk
  <2> QED BY <2>3, <2>4
<1> QED BY <1>1, <1>2

LEMMA KillSafe ==
    ASSUME Shape, Safe, Kill
    PROVE  Safe'
<1>1. /\ status \in {"up", "opening"} /\ status' = "down" /\ UNCHANGED <<wal, base, manifest, hist, acked, durable>>
      /\ fault' = IF fault = "marked" THEN "lost" ELSE fault
  BY DEF Kill, MayCrash, Volatile, disk, ghosts
<1>2. ASSUME fault = "none" PROVE OnDisk(manifest.now)
  BY <1>1, <1>2, NamedFilesGood
<1>3. fault \in {"none", "marked", "lost"}
  BY DEF Shape, Types, PromiseTypes
<1>4. (fault' = "none" => OnDisk(manifest.now)') /\ fault' # "marked"
  BY <1>1, <1>2, <1>3 DEF OnDisk
<1> QED BY <1>1, <1>4 DEF Safe

LEMMA PowerLossSafe ==
    ASSUME Shape, Safe, Types', PowerLoss
    PROVE  Safe'
<1>0. Types /\ FileTypes /\ FileTypes'
  BY DEF Shape, Types
<1>1. /\ status \in {"up", "opening"} /\ status' = "down" /\ UNCHANGED <<base, hist, durable>> /\ acked' = durable
      /\ fault' = IF fault = "marked" THEN "lost" ELSE fault
  BY DEF PowerLoss, MayCrash, Volatile
<1>2. PICK m \in {manifest.now, manifest.stable} :
        /\ manifest' = [now |-> m, stable |-> m]
        /\ \E left \in Survivors(wal[m]) : wal' = [wal EXCEPT ![m] = left]
  BY DEF PowerLoss
<1>3. PICK left \in Survivors(wal[m]) : wal' = [wal EXCEPT ![m] = left]
  BY <1>2
<1>4. m \in Gen /\ manifest'.now = m
  BY <1>0, <1>2 DEF FileTypes
<1>5. wal'[m] = left
  BY <1>0, <1>3, <1>4 DEF FileTypes
<1>6. ASSUME fault = "none" PROVE OnDisk(manifest.now)'
  <2> DEFINE f == wal[m]
             b == base[m]
  <2>1. FileGood(hist, durable, b, f)
    BY <1>1, <1>6, NamedFilesGood DEF OnDisk
  <2>2. f \in LogFile
    BY <1>0, <1>4, IsLogFile
  <2>3. left \in LogFile
    <3>1. left \in [recs : Seq(Entry), synced : Nat] /\ left.synced <= Len(left.recs)
      BY <1>0, <1>3, <1>4, SurvivorsType
    <3> QED BY <3>1 DEF LogFile
  <2>4. PICK k \in f.synced .. Len(f.recs) :
           \/ left = [recs |-> Cut(f.recs, k), synced |-> k]
           \/ /\ k < Len(f.recs)
              /\ left = [recs |-> Append(Cut(f.recs, k), Torn), synced |-> k + 1]
    BY <1>0, <1>3, <1>4, SurvivorsType
  <2> HIDE DEF f, b
  <2>5. FileGood(hist, durable, b, left)
    BY <2>1, <2>2, <2>3, <2>4, SurvivorGood
  <2>6. durable <= Rep(b, Readable(left.recs)).mem.version
    BY <2>3, <2>5, FileGoodRead DEF Good
  <2> QED BY <1>1, <1>4, <1>5, <2>5, <2>6 DEF OnDisk, b
<1>7. fault \in {"none", "marked", "lost"}
  BY <1>0 DEF Types, PromiseTypes
<1>8. (fault' = "none" => OnDisk(manifest.now)') /\ fault' # "marked"
  BY <1>1, <1>6, <1>7
<1> QED BY <1>1, <1>8 DEF Safe

LEMMA OpenSweepSafe ==
    ASSUME Shape, Safe, OpenSweep
    PROVE  Safe'
<1>0. FileTypes
  BY DEF Shape, Types
<1>1. /\ status = "down" /\ status' = "opening" /\ UNCHANGED <<hist, acked, durable, fault>>
      /\ wal' = [g \in Gen |-> IF g = manifest.now THEN wal[g] ELSE NoWal]
      /\ base' = [g \in Gen |-> IF g = manifest.now THEN base[g] ELSE <<>>]
      /\ manifest' = [manifest EXCEPT !.stable = manifest.now]
  BY DEF OpenSweep, ghosts
<1>2. manifest'.now = manifest.now /\ manifest'.stable = manifest.now /\ manifest.now \in Gen
  BY <1>0, <1>1 DEF FileTypes
<1>3. wal'[manifest.now] = wal[manifest.now] /\ base'[manifest.now] = base[manifest.now]
  BY <1>1, <1>2
<1>4. ASSUME fault = "none" PROVE OnDisk(manifest.now)'
  BY <1>1, <1>2, <1>3, <1>4 DEF Safe, OnDisk
<1> QED BY <1>1, <1>2, <1>4 DEF Safe

LEMMA OpenReplaySafe ==
    ASSUME Shape, Safe, OpenReplay
    PROVE  Safe'
<1> DEFINE g == manifest.now
           f == wal[g]
           b == base[g]
           recs == Readable(f.recs)
           st == Rep(b, recs)
           kept == [recs |-> recs, synced |-> IF recs = f.recs THEN f.synced ELSE Len(recs)]
           past == SubSeq(hist, 1, st.mem.version + 1)
<1>0. Types /\ FileTypes
  BY DEF Shape, Types
<1>1. /\ status = "opening" /\ status' = "up" /\ dict' = st.dict /\ mem' = st.mem
      /\ wal' = [wal EXCEPT ![g] = kept]
      /\ \E p \in Policies : log' = Opened(g, Len(st.dict), p)
      /\ hist' = IF Len(hist) > st.mem.version THEN past ELSE hist
      /\ UNCHANGED <<lock, base, manifest, acked, durable, fault>>
  BY ReplayedIsRep DEF OpenReplay
<1>2. g \in Gen
  BY <1>0 DEF FileTypes
<1>3. f \in LogFile /\ b \in Seq(Slot) /\ f.recs \in Seq(Entry) /\ Len(f.recs) \in Nat /\ f.synced \in Nat
  <2>1. f \in LogFile /\ b \in Seq(Slot)
    BY <1>0, <1>2, IsLogFile
  <2> HIDE DEF f, b
  <2> QED BY <2>1 DEF LogFile
<1>4. wal'[g] = kept
  BY <1>0, <1>1, <1>2 DEF FileTypes
<1>5. log'.gen = g /\ log'.file = g /\ log'.logged = Len(st.dict) /\ lock'.pc = "free"
  <2>1. lock = Unlocked
    BY <1>0, <1>1 DEF Types, LockTypes
  <2> QED BY <1>1, <2>1 DEF Opened, Unlocked
<1>6. Coming' = st.mem /\ Reached' = Len(st.dict)
  BY <1>1, <1>5 DEF Coming, Reached, Appending
<1>7. manifest.stable = g
  BY <1>1 DEF Safe
<1>8. ASSUME fault = "none" PROVE hist' \in Seq(SUBSET Slot) /\ Live' /\ LoggedFile' /\ LoggedControl'
  <2>1. OnDisk(g) /\ hist \in Seq(SUBSET Slot)
    BY <1>1, <1>8 DEF Safe
  <2>2. FileGood(hist, durable, b, f) /\ acked <= st.mem.version
    BY <2>1 DEF OnDisk
  <2>3. PICK k \in 0 .. Len(f.recs) : recs = Cut(f.recs, k) /\ Clean(f.recs, k)
    BY <1>3, ReadableIs
  <2>4. recs \in Seq(LogRecord) /\ Len(recs) \in Nat /\ recs \in Seq(Entry)
    <3>1. Cut(f.recs, k) \in Seq(LogRecord)
      BY <1>3, <2>3, CleanRecords
    <3>2. recs \in Seq(LogRecord)
      BY <2>3, <3>1
    <3> HIDE DEF recs
    <3> QED BY <3>2 DEF Entry
  <2>5. Good(hist, durable, st)
    BY <1>3, <2>2, FileGoodRead
  <2>6. st \in ReplayState
    BY <1>3, <2>4, RepType
  <2>7. kept.recs = recs /\ (recs = f.recs => kept = f) /\ (recs # f.recs => kept.synced = Len(recs))
    <3>1. f = [recs |-> f.recs, synced |-> f.synced]
      BY <1>3 DEF LogFile
    <3> HIDE DEF f, recs
    <3> QED BY <3>1
  <2>8. kept \in LogFile
    <3>1. kept.synced \in Nat /\ kept.synced <= Len(recs)
      <4>1. CASE recs = f.recs
        BY <1>3, <2>7, <4>1 DEF LogFile
      <4>2. CASE recs # f.recs
        BY <2>4, <2>7, <4>2
      <4> QED BY <4>1, <4>2
    <3>2. kept \in [recs : Seq(Entry), synced : Nat]
      <4> DEFINE n == IF recs = f.recs THEN f.synced ELSE Len(recs)
      <4>1. n \in Nat
        BY <1>3, <2>4
      <4>2. kept = [recs |-> recs, synced |-> n]
        OBVIOUS
      <4> HIDE DEF n, recs, kept
      <4> QED BY <2>4, <4>1, <4>2
    <3> HIDE DEF kept, recs
    <3> QED BY <2>7, <3>1, <3>2 DEF LogFile
  <2> HIDE DEF kept, recs, f, b, g
  <2>9. Clean(recs, Len(recs))
    <3>1. \A i \in 1 .. Len(recs) : recs[i] \in LogRecord
      BY <2>4
    <3> QED BY <3>1, TornIsNoRecord DEF Clean
  <2>10. st.dict \in Seq(Slot) /\ st.mem \in TierState /\ st.mem.version \in Nat
    BY <2>6 DEF ReplayState, TierState
  <2>11. st.ok /\ Recorded(hist, st.dict, st.mem) /\ durable <= st.mem.version
    BY <2>5 DEF Good
  <2> DEFINE v == st.mem.version
  <2>12. v \in Nat /\ v < Len(hist) /\ Len(hist) \in Nat
    BY <2>1, <2>10, <2>11 DEF Recorded
  <2>13. hist' = past
    BY <1>1, <2>12
  <2>14. /\ past \in Seq(SUBSET Slot) /\ Len(past) = v + 1
         /\ \A j \in 0 .. v : past[j + 1] = hist[j + 1]
    <3> DEFINE n == v + 1
    <3>1. n \in 0 .. Len(hist) /\ past = Cut(hist, n)
      BY <2>12 DEF Cut
    <3>2. Cut(hist, n) \in Seq(SUBSET Slot) /\ Len(Cut(hist, n)) = n /\ \A i \in 1 .. n : Cut(hist, n)[i] = hist[i]
      BY <2>1, <3>1, CutType
    <3>3. \A j \in 0 .. v : j + 1 \in 1 .. n
      BY <2>12
    <3> QED BY <3>1, <3>2, <3>3
  <2> HIDE DEF past
  <2>15. v < Len(past) /\ Len(past) \in Nat /\ v \in 0 .. v
    BY <2>12, <2>14
  <2>16. Recorded(past, st.dict, st.mem)
    BY <2>11, <2>14, <2>15 DEF Recorded
  <2>17. Live'
    BY <1>1, <1>6, <2>2, <2>11, <2>13, <2>16 DEF Live
  <2>18. FileGood(past, durable, b, kept)
    <3>1. CASE recs = f.recs
      <4>1. kept = f /\ Clean(f.recs, Len(f.recs)) /\ st = Rep(b, f.recs)
        BY <2>7, <2>9, <3>1
      <4>2. Rep(b, f.recs).mem.version <= v
        BY <2>12, <4>1
      <4> HIDE DEF v, st
      <4>3. FileGood(past, durable, b, f)
        BY <1>3, <2>2, <2>12, <2>14, <2>15, <4>1, <4>2, FileGoodPast
      <4> QED BY <4>1, <4>3
    <3>2. CASE recs # f.recs
      <4>1. Good(past, durable, st)
        BY <2>11, <2>16 DEF Good
      <4>2. kept.recs = recs /\ kept.synced = Len(kept.recs)
        BY <2>7, <3>2
      <4> QED BY <2>8, <2>9, <4>1, <4>2, SyncedGood
    <3> QED BY <3>1, <3>2
  <2>19. LoggedFile'
    <3>1. wal'[log'.gen] = kept /\ base'[log'.gen] = b /\ log'.file = log'.gen
      BY <1>1, <1>4, <1>5 DEF b
    <3>2. Rep(b, kept.recs) = st
      BY <2>7
    <3>3. Agree(dict', st.dict, Len(st.dict))
      BY <1>1 DEF Agree
    <3> HIDE DEF st
    <3> QED BY <1>1, <1>6, <2>7, <2>9, <2>13, <2>18, <3>1, <3>2, <3>3 DEF LoggedFile
  <2>20. LoggedControl'
    BY <1>1, <1>5, <1>7 DEF LoggedControl, g
  <2> QED BY <2>13, <2>14, <2>17, <2>19, <2>20
<1>9. fault' = fault /\ (fault # "lost" => fault = "none")
  BY <1>0, <1>1 DEF Safe, Types, PromiseTypes
<1> QED BY <1>1, <1>8, <1>9, UpSafe

LEMMA OpenFailsSafe ==
    ASSUME Shape, Safe, OpenFails
    PROVE  Safe'
<1> DEFINE g == manifest.now
           read == Readable(wal[g].recs)
<1>0. Types /\ FileTypes
  BY DEF Shape, Types
<1>1. /\ status = "opening" /\ status' = "broken" /\ UNCHANGED <<hist, fault>>
      /\ ~Rep(base[g], read).ok \/ Len(read) + 1 < Len(wal[g].recs)
  BY ReplayedIsRep DEF OpenFails, ghosts
<1>2. fault # "none"
  <2> SUFFICES ASSUME fault = "none" PROVE FALSE
    OBVIOUS
  <2>1. FileGood(hist, durable, base[g], wal[g])
    BY <1>1 DEF Safe, OnDisk
  <2>2. wal[g] \in LogFile
    BY <1>0, IsLogFile DEF FileTypes
  <2>3. Good(hist, durable, Rep(base[g], read)) /\ ~(Len(read) + 1 < Len(wal[g].recs))
    BY <2>1, <2>2, FileGoodRead
  <2> QED BY <1>1, <2>3 DEF Good
<1>3. fault = "lost"
  BY <1>0, <1>1, <1>2 DEF Safe, Types, PromiseTypes
<1> QED BY <1>1, <1>3 DEF Safe

-----------------------------------------------------------------------------
LEMMA InitSafe ==
    ASSUME Init
    PROVE  Safe
<1>0. Shape /\ Types /\ FileTypes
  BY InitShape DEF Shape, Types
<1>1. /\ status = "up" /\ dict = <<>> /\ mem = [version |-> 0, rows |-> {}] /\ lock = Unlocked
      /\ wal = [g \in Gen |-> NoWal] /\ base = [g \in Gen |-> <<>>] /\ manifest = [now |-> 0, stable |-> 0]
      /\ hist = <<{}>> /\ acked = 0 /\ durable = 0 /\ fault = "none"
  BY DEF Init
<1>2. log.gen = 0 /\ log.file = 0 /\ log.logged = 0
  BY DEF Init, Opened
<1>3. 0 \in Gen /\ lock.pc = "free"
  BY <1>1, BoundsNat DEF Gen, Unlocked
<1>4. Coming = mem /\ Reached = 0
  BY <1>2, <1>3 DEF Coming, Reached, Appending
<1>5. hist \in Seq(SUBSET Slot) /\ Len(hist) = 1 /\ hist[1] = {}
  BY <1>1
<1>6. Recorded(hist, <<>>, mem)
  BY <1>1, <1>5 DEF Recorded, Resolves, Meaning
<1>7. wal[0] = NoWal /\ base[0] = <<>> /\ NoWal.recs = <<>> /\ NoWal.synced = 0
  BY <1>1, <1>3 DEF NoWal
<1>8. /\ Rep(<<>>, <<>>).ok /\ Rep(<<>>, <<>>).dict = <<>> /\ Rep(<<>>, <<>>).mem = mem
  <2>1. Rep(<<>>, <<>>) = Start(<<>>)
    BY RepNone
  <2>2. Start(<<>>).ok /\ Start(<<>>).dict = <<>> /\ Start(<<>>).mem = [version |-> 0, rows |-> {}]
    BY DEF Start
  <2> QED BY <1>1, <2>1, <2>2
<1>9. Clean(<<>>, Len(<<>>)) /\ Len(<<>>) = 0
  BY DEF Clean
<1>10. Good(hist, 0, Rep(<<>>, <<>>))
  BY <1>1, <1>6, <1>8 DEF Good
<1>11. FileGood(hist, 0, <<>>, NoWal)
  <2>1. NoWal \in LogFile
    BY <1>0, <1>3, <1>7, IsLogFile
  <2> QED BY <1>7, <1>9, <1>10, <2>1, SyncedGood
<1>12. Live
  BY <1>1, <1>4, <1>6 DEF Live
<1>13. Agree(dict, <<>>, 0)
  BY <1>9 DEF Agree
<1>14. LoggedFile
  BY <1>1, <1>2, <1>4, <1>7, <1>8, <1>9, <1>11, <1>13 DEF LoggedFile
<1>15. LoggedControl
  BY <1>1, <1>2, <1>3 DEF LoggedControl
<1> QED BY <1>1, <1>5, <1>12, <1>14, <1>15 DEF Safe

LEMMA StutterSafe ==
    ASSUME Safe, UNCHANGED vars
    PROVE  Safe'
<1>1. UNCHANGED <<status, dict, mem, log, lock, wal, base, manifest, hist, acked, durable, fault>>
  BY DEF vars
<1>2. Coming' = Coming /\ Reached' = Reached
  BY <1>1 DEF Coming, Reached, Appending
<1>3. (Live => Live') /\ (LoggedFile => LoggedFile') /\ (LoggedControl => LoggedControl')
  BY <1>1, <1>2 DEF Live, LoggedFile, LoggedControl
<1>4. OnDisk(manifest.now) => OnDisk(manifest.now)'
  BY <1>1 DEF OnDisk
<1> QED BY <1>1, <1>3, <1>4 DEF Safe

LEMMA SafeStep ==
    ASSUME Shape, Safe, Shape', [Next]_vars
    PROVE  Safe'
<1>0. Types'
  BY DEF Shape
<1>1. CASE \E w \in Writer, op \in Ops, t \in Term : Intern(w, op, t) BY <1>0, <1>1, InternSafe
<1>2. CASE \E w \in Writer : AppendWrite(w) BY <1>2, AppendWriteSafe
<1>3. CASE AppendSyncFails \/ \E w \in Writer : AppendWriteFails(w) BY <1>3, AppendFailsSafe
<1>4. CASE SweepWrite BY <1>4, SweepWriteSafe
<1>5. CASE AppendSync BY <1>5, AppendSyncSafe
<1>6. CASE AppendNoSync BY <1>6, AppendNoSyncSafe
<1>7. CASE Install BY <1>7, InstallSafe
<1>8. CASE SyncWal BY <1>8, SyncWalSafe
<1>9. CASE CkDict \/ CkWal \/ CkWalSync \/ CkManifest \/ CkDirSync BY <1>9, CkStepSafe
<1>10. CASE CkReopen BY <1>10, CkReopenSafe
<1>11. CASE CkFails BY <1>11, CkFailsSafe
<1>12. CASE Kill BY <1>12, KillSafe
<1>13. CASE PowerLoss BY <1>0, <1>13, PowerLossSafe
<1>14. CASE OpenSweep BY <1>14, OpenSweepSafe
<1>15. CASE OpenReplay BY <1>15, OpenReplaySafe
<1>16. CASE OpenFails BY <1>16, OpenFailsSafe
<1>17. CASE UNCHANGED vars BY <1>17, StutterSafe
<1> QED
  BY <1>1, <1>2, <1>3, <1>4, <1>5, <1>6, <1>7, <1>8, <1>9, <1>10, <1>11, <1>12, <1>13, <1>14, <1>15,
     <1>16, <1>17 DEF Next, Ops

\* The inductive invariant: at every step of a batch, a checkpoint or a recovery,
\* each prefix of the log that a crash may leave replays to contents that were
\* committed, under the live dictionary's indices, and not before what the sync
\* policy has promised (Wal::append, Store::checkpoint, Store::replay).
THEOREM DurableInvHolds == Spec => [](Shape /\ Safe)
<1>1. Init => Shape /\ Safe
  BY InitShape, InitSafe
<1>2. Shape /\ Safe /\ [Next]_vars => (Shape /\ Safe)'
  BY ShapeStep, SafeStep
<1> QED BY <1>1, <1>2, PTL DEF Spec

\* Wherever a batch, a checkpoint or a recovery is cut off, by a kill or a power
\* loss, and however often, the next Store::open succeeds, unless the crash met
\* the traces of a failed I/O call that no checkpoint had cleared.
THEOREM StoreAlwaysOpens == Spec => []OpenNeverFails
<1>1. Shape /\ Safe => OpenNeverFails
  BY DEF Safe, OpenNeverFails
<1> QED BY <1>1, DurableInvHolds, PTL

\* A store that is up is never behind the last version whose write returned Ok
\* (after a power loss, the last one the SyncPolicy promises to keep).
THEOREM AcknowledgedSurvives == Spec => []AckedSurvives
<1>1. Shape /\ Safe => AckedSurvives
  BY DEF Safe, Live, AckedSurvives
<1> QED BY <1>1, DurableInvHolds, PTL

\* A store holds, term by term, exactly what was committed at its version: a
\* recovered one gives every index its rows use the term it stood for before the
\* crash, whatever was swept, interned or checkpointed meanwhile (Store::replay,
\* Dictionary::replay_append).
THEOREM RecoveredContentsExact == Spec => []ContentsMatchHistory
<1>1. Shape /\ Safe => ContentsMatchHistory
  BY DEF Safe, Live, Recorded, ContentsMatchHistory
<1> QED BY <1>1, DurableInvHolds, PTL
=============================================================================

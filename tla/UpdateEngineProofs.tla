------------------------- MODULE UpdateEngineProofs -------------------------
(***************************************************************************)
(* Proofs about UpdateEngine: what a failed request leaves behind, that    *)
(* the circuit is told of every change of the default graph, that the      *)
(* derived graph follows the circuit, that the circuit's counts are exact, *)
(* and what a query sees therefore.                                        *)
(***************************************************************************)
EXTENDS UpdateEngine, CircuitExactness

RowTypes == rows \in [Graph -> SUBSET Triple]

\* What a batch does to a quad.
LEMMA AfterAt ==
    ASSUME RowTypes, NEW dels \in SUBSET Quad, NEW adds \in SUBSET Quad
    PROVE  /\ After(dels, adds) \in [Graph -> SUBSET Triple]
           /\ \A g \in Graph, t \in Triple :
                 t \in After(dels, adds)[g] <=>
                     <<g, t>> \in adds \/ (t \in rows[g] /\ <<g, t>> \notin dels)
<1>1. \A q \in Quad : q[1] \in Graph /\ q[2] \in Triple /\ q = <<q[1], q[2]>>
  BY DEF Quad
<1>2. ASSUME NEW g \in Graph, NEW qs \in SUBSET Quad
      PROVE  /\ {q[2] : q \in {d \in qs : d[1] = g}} \subseteq Triple
             /\ \A t \in Triple : t \in {q[2] : q \in {d \in qs : d[1] = g}} <=> <<g, t>> \in qs
  BY <1>1
<1>3. ASSUME NEW g \in Graph
      PROVE  /\ After(dels, adds)[g] \in SUBSET Triple
             /\ \A t \in Triple :
                   t \in After(dels, adds)[g] <=>
                       <<g, t>> \in adds \/ (t \in rows[g] /\ <<g, t>> \notin dels)
  <2> DEFINE D == {q[2] : q \in {d \in dels : d[1] = g}}
             A == {q[2] : q \in {a \in adds : a[1] = g}}
  <2>1. After(dels, adds)[g] = (rows[g] \ D) \cup A
    BY DEF After
  <2>2. /\ D \subseteq Triple /\ A \subseteq Triple
        /\ \A t \in Triple : (t \in D <=> <<g, t>> \in dels) /\ (t \in A <=> <<g, t>> \in adds)
    BY <1>2
  <2> HIDE DEF D, A
  <2> QED BY <2>1, <2>2 DEF RowTypes
<1>4. DOMAIN After(dels, adds) = Graph /\ After(dels, adds) = [g \in Graph |-> After(dels, adds)[g]]
  BY DEF After
<1> HIDE DEF After
<1> QED BY <1>3, <1>4

LEMMA OperationQuads ==
    ASSUME RowTypes, NEW op \in Operation \cup {NamedSweep}
    PROVE  Dels(op) \subseteq Quad /\ Adds(op) \subseteq Quad
<1>1. \A g \in Graph : SweptQuads(g) \subseteq Quad
  BY DEF SweptQuads, Quad, RowTypes
<1>2. Default \in Graph /\ Named \in Graph /\ NamedSweep.kind = "clear"
  BY DEF Graph, NamedSweep
<1>3. CASE op.kind = "data"
  <2>1. op \in Operation
    BY <1>2, <1>3
  <2>2. Dels(op) = op.dels /\ Adds(op) = op.adds
    BY <1>3 DEF Dels, Adds
  <2> QED BY <1>3, <2>1, <2>2, OperationAssumption
<1>4. CASE op.kind = "clear"
  <2>1. Dels(op) \in {SweptQuads(Named), SweptQuads(Default)} /\ Adds(op) = {}
    BY <1>4 DEF Dels, Adds
  <2> QED BY <1>1, <1>2, <2>1
<1>5. CASE op.kind # "data" /\ op.kind # "clear"
  BY <1>5 DEF Dels, Adds
<1> QED BY <1>3, <1>4, <1>5

-----------------------------------------------------------------------------
(* The journal.                                                              *)

Journalled(q) == \E e \in request.journal : e[1] = q

\* While a journalled request is in progress, the journal has what every quad
\* in it was at the start, and every other quad is as it was.
JournalInv ==
    /\ RowTypes
    /\ request.phase \in {"idle", "first", "apply", "undo"}
    /\ request.journal \subseteq Quad \X BOOLEAN
    /\ request.start \in [Graph -> SUBSET Triple]
    /\ {"phase", "todo", "sweeping", "journalled", "journal", "start"} \subseteq DOMAIN request
    /\ request.journalled =>
          /\ \A e \in request.journal : e[2] <=> e[1][2] \in request.start[e[1][1]]
          /\ \A q \in Quad : ~Journalled(q) =>
                (q[2] \in rows[q[1]] <=> q[2] \in request.start[q[1]])
    /\ ~request.journalled => request.journal = {}
    /\ request.phase = "idle" => ~request.journalled

LEMMA EmptyRowsType == EmptyRows \in [Graph -> SUBSET Triple]
BY DEF EmptyRows

LEMMA NoRequestJournal ==
    ASSUME RowTypes', request' = NoRequest
    PROVE  JournalInv'
BY EmptyRowsType DEF JournalInv, NoRequest

\* What is recorded before a batch.
LEMMA RecordedJournal ==
    ASSUME JournalInv, NEW quads \in SUBSET Quad
    PROVE  /\ Recorded(quads) \subseteq Quad \X BOOLEAN
           /\ ~request.journalled => Recorded(quads) = {}
           /\ request.journalled =>
                 /\ \A e \in Recorded(quads) : e[2] <=> e[1][2] \in request.start[e[1][1]]
                 /\ \A q \in Quad : (\E e \in Recorded(quads) : e[1] = q) <=> Journalled(q) \/ q \in quads
<1> DEFINE fresh == {p \in quads : \A e \in request.journal : e[1] # p}
           more == {<<q, q[2] \in rows[q[1]]>> : q \in fresh}
<1>1. CASE ~request.journalled
  BY <1>1 DEF Recorded
<1>2. CASE request.journalled
  <2>1. Recorded(quads) = request.journal \cup more
    BY <1>2 DEF Recorded
  <2>2. \A q \in fresh : q \in Quad /\ ~Journalled(q) /\ (q[2] \in rows[q[1]] <=> q[2] \in request.start[q[1]])
    BY <1>2 DEF JournalInv, Journalled
  <2>3. \A e \in more : \E q \in fresh : e = <<q, q[2] \in rows[q[1]]>> /\ e[1] = q /\ e[2] = (q[2] \in rows[q[1]])
    OBVIOUS
  <2>4. \A e \in more : e \in Quad \X BOOLEAN /\ (e[2] <=> e[1][2] \in request.start[e[1][1]])
    <3> SUFFICES ASSUME NEW e \in more
                 PROVE  e \in Quad \X BOOLEAN /\ (e[2] <=> e[1][2] \in request.start[e[1][1]])
      OBVIOUS
    <3>1. PICK q \in fresh : e = <<q, q[2] \in rows[q[1]]>>
      OBVIOUS
    <3>2. q \in Quad
      OBVIOUS
    <3>3. q[2] \in rows[q[1]] <=> q[2] \in request.start[q[1]]
      BY <2>2
    <3> HIDE DEF fresh, more
    <3> DEFINE b == q[2] \in rows[q[1]]
    <3>4. e = <<q, b>> /\ b \in BOOLEAN /\ (b <=> q[2] \in request.start[q[1]])
      BY <3>1, <3>3
    <3> HIDE DEF b
    <3>5. e[1] = q /\ e[2] = b
      BY <3>4
    <3>6. e \in Quad \X BOOLEAN
      BY <3>2, <3>4
    <3> QED BY <3>4, <3>5, <3>6
  <2>5. \A q \in Quad : (\E e \in more : e[1] = q) <=> q \in fresh
    <3> SUFFICES ASSUME NEW q \in Quad PROVE (\E e \in more : e[1] = q) <=> q \in fresh
      OBVIOUS
    <3>1. ASSUME NEW e \in more, e[1] = q PROVE q \in fresh
      BY <2>3, <3>1
    <3>2. ASSUME q \in fresh PROVE \E e \in more : e[1] = q
      <4> DEFINE e == <<q, q[2] \in rows[q[1]]>>
      <4>1. e \in more
        BY <3>2
      <4>2. e[1] = q
        OBVIOUS
      <4> QED BY <4>1, <4>2
    <3> QED BY <3>1, <3>2
  <2>6. \A q \in Quad : q \in quads => q \in fresh \/ Journalled(q)
    BY DEF Journalled
  <2>7. fresh \subseteq quads
    OBVIOUS
  <2> HIDE DEF fresh, more
  <2>8. \A q \in Quad : (\E e \in Recorded(quads) : e[1] = q) <=> Journalled(q) \/ q \in quads
    BY <2>1, <2>5, <2>6, <2>7 DEF Journalled
  <2>9. \A e \in Recorded(quads) : e[2] <=> e[1][2] \in request.start[e[1][1]]
    BY <1>2, <2>1, <2>4 DEF JournalInv
  <2>10. Recorded(quads) \subseteq Quad \X BOOLEAN
    BY <2>1, <2>4 DEF JournalInv
  <2> QED BY <1>2, <2>8, <2>9, <2>10
<1> QED BY <1>1, <1>2

\* A batch's rows, whichever branch committed it.
LEMMA CommitRows ==
    ASSUME NEW dels, NEW adds, CommitQuads(dels, adds)
    PROVE  rows' = After(dels, adds)
BY DEF CommitQuads, CommitTicked

LEMMA RollbackRows ==
    ASSUME NEW dels, NEW adds, Rollback(dels, adds)
    PROVE  rows' = rows
BY DEF Rollback, RollbackTicked

LEMMA ApplyOpRows ==
    ASSUME RowTypes, NEW op \in Operation \cup {NamedSweep}, ApplyOp(op)
    PROVE  /\ RowTypes'
           /\ \A q \in Quad : q \notin Dels(op) \cup Adds(op) => (q[2] \in rows'[q[1]] <=> q[2] \in rows[q[1]])
<1>1. \A q \in Quad : q[1] \in Graph /\ q[2] \in Triple /\ q = <<q[1], q[2]>>
  BY DEF Quad
<1>2. CASE Commits(op)
  <2>1. rows' = After(Dels(op), Adds(op))
    BY <1>2, CommitRows DEF ApplyOp
  <2>2. /\ rows' \in [Graph -> SUBSET Triple]
        /\ \A g \in Graph, t \in Triple :
              t \in rows'[g] <=> <<g, t>> \in Adds(op) \/ (t \in rows[g] /\ <<g, t>> \notin Dels(op))
    BY <2>1, OperationQuads, AfterAt
  <2> QED BY <1>1, <2>2 DEF RowTypes
<1>3. CASE ~Commits(op)
  BY <1>3 DEF ApplyOp, store, RowTypes
<1> QED BY <1>2, <1>3

\* The fields of a request that an operation leaves alone.
RequestOn(phase, journal) ==
    /\ request'.phase = phase /\ request'.journal = journal
    /\ request'.journalled = request.journalled /\ request'.start = request.start
    /\ DOMAIN request' = DOMAIN request

\* Recording the quads a step may change keeps the journal.
LEMMA JournalOn ==
    ASSUME JournalInv, RowTypes', NEW quads \in SUBSET Quad, NEW phase \in {"apply", "undo"},
           RequestOn(phase, Recorded(quads)),
           \A q \in Quad : q \notin quads => (q[2] \in rows'[q[1]] <=> q[2] \in rows[q[1]])
    PROVE  JournalInv'
<1>1. /\ Recorded(quads) \subseteq Quad \X BOOLEAN
      /\ ~request.journalled => Recorded(quads) = {}
      /\ request.journalled =>
            /\ \A e \in Recorded(quads) : e[2] <=> e[1][2] \in request.start[e[1][1]]
            /\ \A q \in Quad : (\E e \in Recorded(quads) : e[1] = q) <=> Journalled(q) \/ q \in quads
  BY RecordedJournal
<1>2. request.journalled =>
        \A q \in Quad : ~(\E e \in Recorded(quads) : e[1] = q) =>
            (q[2] \in rows'[q[1]] <=> q[2] \in request.start[q[1]])
  BY <1>1 DEF JournalInv
<1> HIDE DEF Recorded
<1> QED BY <1>1, <1>2 DEF JournalInv, RequestOn, Journalled

LEMMA JournalStep ==
    ASSUME JournalInv, [Next]_vars
    PROVE  JournalInv'
<1>0. RowTypes /\ {"phase", "todo", "sweeping", "journalled", "journal", "start"} \subseteq DOMAIN request
  BY DEF JournalInv
<1>1. CASE UNCHANGED vars
  BY <1>1 DEF vars, store, JournalInv, RowTypes, Journalled
<1>2. ASSUME NEW n \in 1 .. MaxOps, BeginRequest(n) PROVE JournalInv'
  <2>1. rows' = rows /\ request' = [phase |-> "first", todo |-> n, sweeping |-> FALSE,
                   journalled |-> n > 1, journal |-> {},
                   start |-> IF n > 1 THEN rows ELSE EmptyRows]
    BY <1>2 DEF BeginRequest, store
  <2>2. RowTypes'
    BY <1>0, <2>1 DEF RowTypes
  <2>3. request'.start \in [Graph -> SUBSET Triple] /\ (request'.journalled => request'.start = rows)
    BY <1>0, <2>1, EmptyRowsType DEF RowTypes
  <2>4. request'.phase = "first" /\ request'.journal = {}
        /\ {"phase", "todo", "sweeping", "journalled", "journal", "start"} \subseteq DOMAIN request'
    BY <2>1
  <2> QED BY <2>1, <2>2, <2>3, <2>4 DEF JournalInv
<1>3. ASSUME NEW op \in Operation \cup {NamedSweep}, ApplyOp(op) PROVE JournalInv'
  <2> DEFINE quads == Dels(op) \cup Adds(op)
             more == [request EXCEPT !.phase = "apply",
                                     !.todo = IF SweepsAll(op) THEN @ ELSE @ - 1,
                                     !.sweeping = SweepsAll(op),
                                     !.journal = Recorded(quads)]
  <2>1. RowTypes' /\ quads \in SUBSET Quad
    BY <1>0, <1>3, ApplyOpRows, OperationQuads
  <2>2. \A q \in Quad : q \notin quads => (q[2] \in rows'[q[1]] <=> q[2] \in rows[q[1]])
    BY <1>0, <1>3, ApplyOpRows
  <2>3. request' = NoRequest \/ request' = more
    BY <1>3 DEF ApplyOp
  <2>4. CASE request' = NoRequest
    BY <2>1, <2>4, NoRequestJournal
  <2>5. CASE request' = more
    <3>1. RequestOn("apply", Recorded(quads))
      <4> HIDE DEF quads
      <4> QED BY <1>0, <2>5 DEF RequestOn
    <3> HIDE DEF quads
    <3> QED BY <2>1, <2>2, <3>1, JournalOn
  <2> QED BY <2>3, <2>4, <2>5
<1>4. ASSUME NEW op, RejectOp(op) PROVE JournalInv'
  <2>1. /\ rows' = rows /\ request'.phase = "undo" /\ request'.journal = request.journal
        /\ request'.journalled = request.journalled /\ request'.start = request.start
        /\ DOMAIN request' = DOMAIN request
    BY <1>0, <1>4 DEF RejectOp, store
  <2> QED BY <2>1 DEF JournalInv, RowTypes, Journalled
<1>5. ASSUME NEW op \in Operation \cup {NamedSweep}, FailOp(op) PROVE JournalInv'
  <2> DEFINE quads == Dels(op) \cup Adds(op)
  <2>1. rows' = rows
    BY <1>5, RollbackRows DEF FailOp
  <2>2. RowTypes' /\ quads \in SUBSET Quad
    BY <1>0, <2>1, OperationQuads DEF RowTypes
  <2>3. RequestOn("undo", Recorded(quads))
    BY <1>0, <1>5 DEF FailOp, RequestOn
  <2> HIDE DEF quads
  <2> QED BY <2>1, <2>2, <2>3, JournalOn
<1>6. Restored(FALSE) \in SUBSET Quad /\ Restored(TRUE) \in SUBSET Quad
  BY DEF Restored, JournalInv
<1>7. CASE UndoRequest
  <2>1. RowTypes'
    <3>1. CASE request.journal # {}
      <4>1. rows' = After(Restored(FALSE), Restored(TRUE))
        BY <1>7, <3>1, CommitRows DEF UndoRequest
      <4>2. After(Restored(FALSE), Restored(TRUE)) \in [Graph -> SUBSET Triple]
        BY <1>0, <1>6, AfterAt
      <4> QED BY <4>1, <4>2 DEF RowTypes
    <3>2. CASE request.journal = {}
      BY <1>0, <1>7, <3>2 DEF UndoRequest, store, RowTypes
    <3> QED BY <3>1, <3>2
  <2> QED BY <1>7, <2>1, NoRequestJournal DEF UndoRequest
<1>8. CASE FailUndo
  <2>1. rows' = rows /\ request' = NoRequest
    BY <1>8, RollbackRows DEF FailUndo
  <2> QED BY <1>0, <2>1, NoRequestJournal DEF RowTypes
<1>9. ASSUME NEW t \in Bulk, BulkLoad(t) PROVE JournalInv'
  <2>1. request' = request /\ rows' = [rows EXCEPT ![Default] = @ \cup {t}] /\ request.phase = "idle"
    BY <1>9 DEF BulkLoad
  <2>2. RowTypes'
    BY <1>0, <2>1, LoadAssumption DEF RowTypes
  <2> QED BY <2>1, <2>2 DEF JournalInv
<1>10. CASE Reopen
  BY <1>0, <1>10, NoRequestJournal DEF Reopen, RowTypes
<1> QED BY <1>1, <1>2, <1>3, <1>4, <1>5, <1>7, <1>8, <1>9, <1>10 DEF Next

LEMMA JournalStarts == Init => JournalInv
<1> SUFFICES ASSUME Init PROVE JournalInv
  OBVIOUS
<1>1. rows = [EmptyRows EXCEPT ![Default] = Seed] /\ request = NoRequest
  BY DEF Init
<1>2. RowTypes
  BY <1>1, LoadAssumption, EmptyRowsType DEF RowTypes
<1> QED BY <1>1, <1>2, EmptyRowsType DEF JournalInv, NoRequest

\* Undoing restores every quad in the journal, and the others need it not.
LEMMA UndoRestores ==
    ASSUME JournalInv, UndoRequest, request.journalled
    PROVE  rows' = request.start
<1>1. RowTypes /\ request.start \in [Graph -> SUBSET Triple]
  BY DEF JournalInv
<1>2. Restored(FALSE) \in SUBSET Quad /\ Restored(TRUE) \in SUBSET Quad
  BY DEF Restored, JournalInv
<1>3. ASSUME NEW g \in Graph, NEW t \in Triple
      PROVE  /\ <<g, t>> \in Quad
             /\ <<g, t>> \in Restored(TRUE) => t \in request.start[g]
             /\ <<g, t>> \in Restored(FALSE) => t \notin request.start[g]
             /\ Journalled(<<g, t>>) => <<g, t>> \in Restored(TRUE) \/ <<g, t>> \in Restored(FALSE)
             /\ ~Journalled(<<g, t>>) => (t \in rows[g] <=> t \in request.start[g])
  <2> DEFINE q == <<g, t>>
  <2>1. q \in Quad /\ q[1] = g /\ q[2] = t
    BY DEF Quad
  <2> HIDE DEF q
  <2>2. \A e \in request.journal : e[2] \in BOOLEAN /\ (e[2] <=> e[1][2] \in request.start[e[1][1]])
    BY DEF JournalInv
  <2>3. \A live : q \in Restored(live) <=> \E e \in request.journal : e[2] = live /\ e[1] = q
    BY DEF Restored
  <2>4. q \in Restored(TRUE) => t \in request.start[g]
    BY <2>1, <2>2, <2>3
  <2>5. q \in Restored(FALSE) => t \notin request.start[g]
    BY <2>1, <2>2, <2>3
  <2>6. Journalled(q) => q \in Restored(TRUE) \/ q \in Restored(FALSE)
    BY <2>2, <2>3 DEF Journalled
  <2>7. ~Journalled(q) => (t \in rows[g] <=> t \in request.start[g])
    BY <2>1 DEF JournalInv
  <2> QED BY <2>1, <2>4, <2>5, <2>6, <2>7 DEF q
<1>4. CASE request.journal # {}
  <2>1. rows' = After(Restored(FALSE), Restored(TRUE))
    BY <1>4, CommitRows DEF UndoRequest
  <2>2. /\ rows' \in [Graph -> SUBSET Triple]
        /\ \A g \in Graph, t \in Triple :
              t \in rows'[g] <=> <<g, t>> \in Restored(TRUE)
                                 \/ (t \in rows[g] /\ <<g, t>> \notin Restored(FALSE))
    BY <1>1, <1>2, <2>1, AfterAt
  <2>3. ASSUME NEW g \in Graph, NEW t \in Triple
        PROVE  t \in rows'[g] <=> t \in request.start[g]
    <3>1. t \in rows'[g] <=> <<g, t>> \in Restored(TRUE)
                             \/ (t \in rows[g] /\ <<g, t>> \notin Restored(FALSE))
      BY <2>2
    <3> QED BY <1>3, <3>1
  <2>4. \A g \in Graph : rows'[g] = request.start[g]
    BY <1>1, <2>2, <2>3
  <2> QED BY <1>1, <2>2, <2>4
<1>5. CASE request.journal = {}
  <2>1. rows' = rows
    BY <1>5 DEF UndoRequest, store
  <2>2. \A g \in Graph, t \in Triple : t \in rows[g] <=> t \in request.start[g]
    BY <1>3, <1>5 DEF Journalled
  <2>3. \A g \in Graph : rows[g] = request.start[g]
    BY <1>1, <2>2 DEF RowTypes
  <2> QED BY <1>1, <2>1, <2>3 DEF RowTypes
<1> QED BY <1>4, <1>5

\* Journal::rollback, for every set of operations and any number of them: a
\* multi-operation request that fails part-way leaves both graphs as they were
\* before it, however often its operations touched a quad and whether an
\* operation was rejected or its commit failed.
THEOREM FailedRequestsUndone == Spec => FailedRequestUndone
<1>1. JournalInv /\ [Next]_vars => JournalInv'
  BY JournalStep
<1>2. JournalInv /\ [Next]_vars => [UndoRequest /\ request.journalled => rows' = request.start]_vars
  BY UndoRestores
<1> QED BY <1>1, <1>2, JournalStarts, PTL DEF Spec, FailedRequestUndone

-----------------------------------------------------------------------------
(* The circuit's asserted base.                                              *)

LEMMA RecordsOfSum ==
    ASSUME NEW ts \in SUBSET Triple, NEW m \in Int
    PROVE  RecordsOf(ts, m) \in Seq(Delta) /\ NetDelta(RecordsOf(ts, m)) = OneFor(ts, m)
<1> DEFINE z == OneFor(ts, m)
<1>1. z \in Zset
  BY OneForType
<1>2. [t \in Triple |-> IF t \in ts THEN z[t] ELSE 0] = OneFor(ts, m)
  BY DEF OneFor
<1> HIDE DEF z
<1>3. Records(ts, z) \in Seq(Delta)
      /\ NetDelta(Records(ts, z)) = [t \in Triple |-> IF t \in ts THEN z[t] ELSE 0]
  BY <1>1, RecordsSum
<1> QED BY <1>2, <1>3 DEF RecordsOf, z

\* The base after a tick of flips.
Flipped(z, asserts, retracts) == Plus(z, Plus(OneFor(retracts, -1), OneFor(asserts, 1)))

LEMMA FlippedAt ==
    ASSUME NEW z \in Zset, NEW asserts, NEW retracts
    PROVE  /\ Flipped(z, asserts, retracts) \in Zset
           /\ \A t \in Triple : Flipped(z, asserts, retracts)[t] =
                 z[t] + ((IF t \in retracts THEN -1 ELSE 0) + (IF t \in asserts THEN 1 ELSE 0))
<1> DEFINE a == OneFor(asserts, 1)
           r == OneFor(retracts, -1)
<1>1. a \in Zset /\ r \in Zset
  BY OneForType
<1>2. \A t \in Triple : a[t] = (IF t \in asserts THEN 1 ELSE 0) /\ r[t] = (IF t \in retracts THEN -1 ELSE 0)
  BY DEF OneFor
<1> HIDE DEF a, r
<1>3. Plus(r, a) \in Zset /\ \A t \in Triple : Plus(r, a)[t] = r[t] + a[t]
  BY <1>1, PlusAt
<1>4. Plus(z, Plus(r, a)) \in Zset /\ \A t \in Triple : Plus(z, Plus(r, a))[t] = z[t] + Plus(r, a)[t]
  BY <1>3, PlusAt
<1>5. \A t \in Triple : Plus(z, Plus(r, a))[t] =
          z[t] + ((IF t \in retracts THEN -1 ELSE 0) + (IF t \in asserts THEN 1 ELSE 0))
  BY <1>2, <1>3, <1>4
<1> QED BY <1>4, <1>5 DEF Flipped, a, r

LEMMA TickedBase ==
    ASSUME NEW c, HasBase(c), NEW asserts \in SUBSET Triple, NEW retracts \in SUBSET Triple
    PROVE  /\ HasBase(Ticked(c, asserts, retracts))
           /\ Ticked(c, asserts, retracts).asserted = Flipped(c.asserted, asserts, retracts)
<1> DEFINE r == RecordsOf(retracts, -1)
           a == RecordsOf(asserts, 1)
<1>1. r \in Seq(Delta) /\ NetDelta(r) = OneFor(retracts, -1)
  BY RecordsOfSum
<1>2. a \in Seq(Delta) /\ NetDelta(a) = OneFor(asserts, 1)
  BY RecordsOfSum
<1>3. Ticked(c, asserts, retracts) = Tick(c, r \o a)
  BY DEF Ticked
<1> HIDE DEF r, a
<1>4. NetDelta(r \o a) = Plus(NetDelta(r), NetDelta(a))
  BY <1>1, <1>2, NetConcat, DeltasSummable
<1>5. HasBase(Tick(c, r \o a)) /\ Tick(c, r \o a).asserted = Plus(c.asserted, NetDelta(r \o a))
  BY TickAsserts
<1> QED BY <1>1, <1>2, <1>3, <1>4, <1>5 DEF Flipped

LEMMA FlushedBase ==
    ASSUME NEW c, HasBase(c)
    PROVE  HasBase(Flushed(c)) /\ Flushed(c).asserted = c.asserted
BY DEF HasBase, Flushed

LEMMA AttachedBase ==
    ASSUME NEW ts \in SUBSET Triple
    PROVE  HasBase(Attached(ts)) /\ Attached(ts).asserted = OneFor(ts, 1)
<1> DEFINE c == NewCircuit(FALSE)
           d == Tick(c, RecordsOf(ts, 1))
<1>1. HasBase(c) /\ c.asserted = EmptyZset
  BY DEF HasBase, NewCircuit
<1>2. NetDelta(RecordsOf(ts, 1)) = OneFor(ts, 1) /\ OneFor(ts, 1) \in Zset
  BY RecordsOfSum, OneForType
<1> HIDE DEF c
<1>3. HasBase(d) /\ d.asserted = Plus(EmptyZset, OneFor(ts, 1))
  BY <1>1, <1>2, TickAsserts
<1> HIDE DEF d
<1>4. d.asserted = OneFor(ts, 1)
  BY <1>2, <1>3, EmptySum
<1>5. Attached(ts) = Flushed(d)
  BY DEF Attached, d, c
<1> QED BY <1>3, <1>4, <1>5, FlushedBase

\* The base counts every row of the default graph once, but for the bulk loads.
Told == rows[Default] \ bulk
BaseInv ==
    /\ HasBase(circuit)
    /\ circuit.asserted = OneFor(Told, 1)
    /\ bulk \subseteq rows[Default]

LEMMA ToldType ==
    ASSUME RowTypes, BaseInv
    PROVE  /\ circuit.asserted \in Zset
           /\ \A t \in Triple : circuit.asserted[t] = IF t \in Told THEN 1 ELSE 0
BY OneForType DEF BaseInv, OneFor

LEMMA FedFlips ==
    ASSUME RowTypes, BaseInv, NEW dels \in SUBSET Quad, NEW adds \in SUBSET Quad
    PROVE  LET a == Asserts(dels, adds)
               r == FedRetracts(Retracts(dels, adds))
               new == After(dels, adds)[Default]
           IN  /\ a \in SUBSET Triple /\ r \in SUBSET Triple
               /\ new \in SUBSET Triple
               /\ a = new \ rows[Default]
               /\ r = Told \ new
<1> DEFINE a == Asserts(dels, adds)
           r == FedRetracts(Retracts(dels, adds))
           new == After(dels, adds)[Default]
<1>1. Default \in Graph
  BY DEF Graph
<1>2. new \in SUBSET Triple /\ rows[Default] \in SUBSET Triple
  <2>1. After(dels, adds) \in [Graph -> SUBSET Triple]
    BY AfterAt
  <2>2. rows \in [Graph -> SUBSET Triple]
    BY DEF RowTypes
  <2> QED BY <1>1, <2>1, <2>2
<1>3. a = new \ rows[Default]
  BY DEF Asserts
<1>4. r = {t \in rows[Default] \ new : circuit.asserted[t] > 0}
  BY DEF FedRetracts, Retracts
<1> HIDE DEF a, r, new
<1>5. \A t \in rows[Default] : circuit.asserted[t] > 0 <=> t \in Told
  BY <1>2, ToldType
<1>6. r = Told \ new
  BY <1>4, <1>5 DEF Told
<1>7. a \in SUBSET Triple /\ r \in SUBSET Triple
  BY <1>2, <1>3, <1>4
<1> QED BY <1>2, <1>3, <1>6, <1>7 DEF a, r, new

LEMMA CommitBase ==
    ASSUME RowTypes, BaseInv, NEW dels \in SUBSET Quad, NEW adds \in SUBSET Quad,
           CommitQuads(dels, adds)
    PROVE  BaseInv'
<1> DEFINE a == Asserts(dels, adds)
           r == FedRetracts(Retracts(dels, adds))
           done == Ticked(circuit, a, r)
           new == After(dels, adds)[Default]
<1>1. /\ a \in SUBSET Triple /\ r \in SUBSET Triple /\ new \in SUBSET Triple
      /\ a = new \ rows[Default] /\ r = Told \ new
  BY FedFlips
<1>2. circuit' = Flushed(done) /\ rows'[Default] = new /\ bulk' = bulk \cap new
  BY DEF CommitQuads, CommitTicked
<1> HIDE DEF a, r, new
<1>3. HasBase(done) /\ done.asserted = Flipped(circuit.asserted, a, r)
  BY <1>1, TickedBase DEF BaseInv
<1> HIDE DEF done
<1>4. HasBase(circuit') /\ circuit'.asserted = Flipped(circuit.asserted, a, r)
  BY <1>2, <1>3, FlushedBase
<1> DEFINE z == circuit.asserted
<1>5. z \in Zset /\ \A t \in Triple : z[t] = IF t \in Told THEN 1 ELSE 0
  BY ToldType
<1> HIDE DEF z
<1>6. /\ Flipped(z, a, r) \in Zset
      /\ \A t \in Triple : Flipped(z, a, r)[t] =
            z[t] + ((IF t \in r THEN -1 ELSE 0) + (IF t \in a THEN 1 ELSE 0))
  BY <1>5, FlippedAt
<1>7. \A t \in Triple : Flipped(z, a, r)[t] = IF t \in new \ (bulk \cap new) THEN 1 ELSE 0
  <2> SUFFICES ASSUME NEW t \in Triple
               PROVE  Flipped(z, a, r)[t] = IF t \in new \ (bulk \cap new) THEN 1 ELSE 0
    OBVIOUS
  <2>1. bulk \subseteq rows[Default] /\ Told = rows[Default] \ bulk
    BY DEF BaseInv, Told
  <2>2. Flipped(z, a, r)[t] = (IF t \in Told THEN 1 ELSE 0)
            + ((IF t \in r THEN -1 ELSE 0) + (IF t \in a THEN 1 ELSE 0))
    BY <1>5, <1>6
  <2>3. CASE t \in new
    BY <1>1, <2>1, <2>2, <2>3
  <2>4. CASE t \notin new
    BY <1>1, <2>1, <2>2, <2>4
  <2> QED BY <2>3, <2>4
<1>8. Flipped(z, a, r) = OneFor(new \ (bulk \cap new), 1)
  BY <1>6, <1>7 DEF OneFor, Zset
<1>9. Told' = new \ (bulk \cap new)
  BY <1>2 DEF Told
<1> QED BY <1>2, <1>4, <1>8, <1>9 DEF BaseInv, z

\* The inverse tick takes the flips back.
LEMMA RollbackBase ==
    ASSUME RowTypes, BaseInv, NEW dels \in SUBSET Quad, NEW adds \in SUBSET Quad,
           Rollback(dels, adds)
    PROVE  BaseInv'
<1> DEFINE a == Asserts(dels, adds)
           r == FedRetracts(Retracts(dels, adds))
           tick == Ticked(circuit, a, r)
           done == Flushed(tick)
           back == InverseTick(done, a, r)
<1>1. /\ a \in SUBSET Triple /\ r \in SUBSET Triple
  BY FedFlips
<1>2. circuit' = Flushed(back) /\ rows' = rows /\ bulk' = bulk
  BY DEF Rollback, RollbackTicked
<1> HIDE DEF a, r
<1>3. HasBase(tick) /\ tick.asserted = Flipped(circuit.asserted, a, r)
  BY <1>1, TickedBase DEF BaseInv
<1> HIDE DEF tick
<1>4. HasBase(done) /\ done.asserted = Flipped(circuit.asserted, a, r)
  BY <1>3, FlushedBase
<1> HIDE DEF done
<1>5. HasBase(back) /\ back.asserted = Flipped(done.asserted, r, a)
  BY <1>1, <1>4, TickedBase DEF InverseTick
<1> HIDE DEF back
<1>6. HasBase(circuit') /\ circuit'.asserted = Flipped(Flipped(circuit.asserted, a, r), r, a)
  BY <1>2, <1>4, <1>5, FlushedBase
<1> DEFINE z == circuit.asserted
           y == Flipped(z, a, r)
<1>7. z \in Zset
  BY ToldType
<1> HIDE DEF z
<1>8. /\ y \in Zset
      /\ \A t \in Triple : y[t] = z[t] + ((IF t \in r THEN -1 ELSE 0) + (IF t \in a THEN 1 ELSE 0))
  BY <1>7, FlippedAt
<1> HIDE DEF y
<1>9. /\ Flipped(y, r, a) \in Zset
      /\ \A t \in Triple : Flipped(y, r, a)[t] =
            y[t] + ((IF t \in a THEN -1 ELSE 0) + (IF t \in r THEN 1 ELSE 0))
  BY <1>8, FlippedAt
<1>10. \A t \in Triple : Flipped(y, r, a)[t] = z[t]
  <2>1. \A t \in Triple : z[t] \in Int
    BY <1>7 DEF Zset
  <2> QED BY <1>8, <1>9, <2>1
<1>11. Flipped(y, r, a) = z
  BY <1>7, <1>9, <1>10 DEF Zset
<1> QED BY <1>2, <1>6, <1>11 DEF BaseInv, Told, y, z

LEMMA BaseStep ==
    ASSUME JournalInv, BaseInv, [Next]_vars
    PROVE  BaseInv'
<1>0. RowTypes /\ Default \in Graph
  BY DEF JournalInv, Graph
<1>1. ASSUME UNCHANGED <<circuit, store, faults, history>> PROVE BaseInv'
  BY <1>1 DEF store, history, BaseInv, Told
<1>2. CASE UNCHANGED vars
  BY <1>1, <1>2 DEF vars
<1>3. ASSUME NEW n \in 1 .. MaxOps, BeginRequest(n) PROVE BaseInv'
  BY <1>1, <1>3 DEF BeginRequest
<1>4. ASSUME NEW op \in Operation \cup {NamedSweep}, ApplyOp(op) PROVE BaseInv'
  <2>1. CASE Commits(op)
    BY <1>0, <1>4, <2>1, OperationQuads, CommitBase DEF ApplyOp
  <2>2. CASE ~Commits(op)
    BY <1>1, <1>4, <2>2 DEF ApplyOp
  <2> QED BY <2>1, <2>2
<1>5. ASSUME NEW op, RejectOp(op) PROVE BaseInv'
  BY <1>1, <1>5 DEF RejectOp
<1>6. ASSUME NEW op \in Operation \cup {NamedSweep}, FailOp(op) PROVE BaseInv'
  BY <1>0, <1>6, OperationQuads, RollbackBase DEF FailOp
<1>7. Restored(FALSE) \in SUBSET Quad /\ Restored(TRUE) \in SUBSET Quad
  BY DEF Restored, JournalInv
<1>8. CASE UndoRequest
  <2>1. CASE request.journal # {}
    BY <1>0, <1>7, <1>8, <2>1, CommitBase DEF UndoRequest
  <2>2. CASE request.journal = {}
    BY <1>1, <1>8, <2>2 DEF UndoRequest
  <2> QED BY <2>1, <2>2
<1>9. CASE FailUndo
  BY <1>0, <1>7, <1>9, RollbackBase DEF FailUndo
<1>10. ASSUME NEW t \in Bulk, BulkLoad(t) PROVE BaseInv'
  <2>1. /\ circuit' = circuit /\ t \notin rows[Default] /\ bulk' = bulk \cup {t}
        /\ rows'[Default] = rows[Default] \cup {t}
    BY <1>0, <1>10 DEF BulkLoad, RowTypes
  <2>2. Told' = Told
    BY <2>1 DEF Told
  <2> QED BY <2>1, <2>2 DEF BaseInv
<1>11. CASE Reopen
  <2>1. circuit' = Attached(rows[Default]) /\ bulk' = {} /\ rows' = rows
    BY <1>11 DEF Reopen
  <2>2. rows[Default] \in SUBSET Triple
    BY <1>0 DEF RowTypes
  <2>3. Told' = rows[Default]
    BY <2>1 DEF Told
  <2> QED BY <2>1, <2>2, <2>3, AttachedBase DEF BaseInv
<1> QED BY <1>2, <1>3, <1>4, <1>5, <1>6, <1>8, <1>9, <1>10, <1>11 DEF Next

LEMMA BaseStarts == Init => BaseInv
<1> SUFFICES ASSUME Init PROVE BaseInv
  OBVIOUS
<1>1. circuit = Attached(Seed) /\ rows[Default] = Seed /\ bulk = {}
  BY DEF Init, EmptyRows, Graph
<1>2. Told = Seed
  BY <1>1 DEF Told
<1> QED BY <1>1, <1>2, AttachedBase, LoadAssumption DEF BaseInv

\* The write funnel and the circuit: for every store, rule set and request, the
\* circuit's asserted base is the default graph minus the bulk loads it was not
\* told of, through updates, undone requests, failed commits and restarts.
THEOREM AssertedFollowsDefaultGraph == Spec => []AssertedIsDefaultGraph
<1>1. Init => BaseInv
  BY BaseStarts
<1>2. (JournalInv /\ BaseInv) /\ [Next]_vars => (JournalInv /\ BaseInv)'
  BY JournalStep, BaseStep
<1>3. JournalInv /\ BaseInv => AssertedIsDefaultGraph
  <2> SUFFICES ASSUME JournalInv, BaseInv PROVE AssertedIsDefaultGraph
    OBVIOUS
  <2>1. Told \subseteq Triple
    BY DEF JournalInv, RowTypes, Told, Graph
  <2>2. \A t \in Triple : circuit.asserted[t] = IF t \in Told THEN 1 ELSE 0
    BY ToldType DEF JournalInv
  <2>3. \A t \in Triple : circuit.asserted[t] > 0 <=> t \in Told
    BY <2>2
  <2> HIDE DEF Told
  <2>4. AssertedSet(circuit) = Told
    BY <2>1, <2>3 DEF AssertedSet
  <2> QED BY <2>4 DEF AssertedIsDefaultGraph, Told
<1> QED BY <1>1, <1>2, <1>3, JournalStarts, PTL DEF Spec

-----------------------------------------------------------------------------
(* The derived graph.                                                        *)

LEMMA FlushedForm ==
    ASSUME NEW c, WellFormed(c)
    PROVE  /\ WellFormed(Flushed(c)) /\ Flushed(c).derived = c.derived
           /\ DerivedSet(Flushed(c)) = DerivedSet(c)
<1> DEFINE d == Flushed(c)
<1>1. NoEmission \in Emission
  BY DEF NoEmission, Emission
<1>2. /\ d \in CircuitState /\ d.derived = c.derived /\ d.attr = c.attr
      /\ d.support = c.support
  BY <1>1, StateShape DEF Flushed, WellFormed
<1> HIDE DEF d
<1>3. WellFormed(d) /\ DerivedSet(d) = DerivedSet(c)
  BY <1>2 DEF WellFormed, Owners, Owned, DerivedSet
<1> QED BY <1>2, <1>3 DEF d

LEMMA TickedMoves ==
    ASSUME NEW c, WellFormed(c), NEW asserts \in SUBSET Triple, NEW retracts \in SUBSET Triple
    PROVE  LET d == Ticked(c, asserts, retracts)
           IN  /\ WellFormed(d)
               /\ \A t \in Triple : Reported(d, t) = d.derived[t] - c.derived[t]
<1> DEFINE r == RecordsOf(retracts, -1)
           a == RecordsOf(asserts, 1)
<1>1. r \in Seq(Delta) /\ a \in Seq(Delta)
  BY RecordsOfSum
<1>2. r \o a \in Seq(Delta)
  BY <1>1
<1>3. NetDelta(r \o a) \in Zset
  BY <1>2, NetType, DeltasSummable
<1>4. Ticked(c, asserts, retracts) = Tick(c, r \o a)
  BY DEF Ticked
<1> HIDE DEF r, a
<1> QED BY <1>3, <1>4, TickMoves

LEMMA AttachedForm ==
    ASSUME NEW ts \in SUBSET Triple
    PROVE  WellFormed(Attached(ts)) /\ DerivedSet(Attached(ts)) \subseteq Triple
<1> DEFINE c == NewCircuit(FALSE)
           d == Tick(c, RecordsOf(ts, 1))
<1>1. WellFormed(c)
  BY NewCircuitFormed
<1>2. NetDelta(RecordsOf(ts, 1)) \in Zset
  BY RecordsOfSum, OneForType
<1> HIDE DEF c
<1>3. WellFormed(d)
  BY <1>1, <1>2, TickMoves
<1> HIDE DEF d
<1>4. Attached(ts) = Flushed(d)
  BY DEF Attached, d, c
<1> QED BY <1>3, <1>4, FlushedForm DEF DerivedSet

\* Between two steps the derived rows have their owners, and until a commit
\* fails the derived graph has exactly those rows.
MirrorInv ==
    /\ WellFormed(circuit)
    /\ mirror \subseteq Triple
    /\ ~rolledBack => mirror = DerivedSet(circuit)
    /\ faults \in 0 .. MaxFaults

\* What a tick flips in the derived graph, whether its records fitted the
\* subscription or not, takes the graph from the derived rows before it to
\* those after it: an owned row is there once, so a net sum of records is an
\* appearance or a disappearance.
LEMMA FlipsFollow ==
    ASSUME WellFormed(circuit), mirror \subseteq Triple, NEW done, WellFormed(done), NEW asserts, NEW retracts,
           \A t \in Triple : Reported(done, t) = done.derived[t] - circuit.derived[t],
           mirror = DerivedSet(circuit) \/ Overflows(done, asserts, retracts)
    PROVE  LET flips == MirrorFlips(done, asserts, retracts)
           IN  (mirror \ flips.dels) \cup flips.adds = DerivedSet(done)
<1> DEFINE flips == MirrorFlips(done, asserts, retracts)
<1>1. DerivedSet(done) \subseteq Triple
  BY DEF DerivedSet
<1>2. CASE Overflows(done, asserts, retracts)
  <2>1. /\ flips.dels = (mirror \ DerivedSet(done)) \cap mirror
        /\ flips.adds = (DerivedSet(done) \ mirror) \ mirror
    BY <1>2 DEF MirrorFlips, Resync
  <2> HIDE DEF flips
  <2> QED BY <2>1 DEF flips
<1>3. CASE ~Overflows(done, asserts, retracts)
  <2>1. mirror = DerivedSet(circuit)
    BY <1>3
  <2> DEFINE down == {t \in Triple : Reported(done, t) < 0}
             up   == {t \in Triple : Reported(done, t) > 0}
  <2>2. NetDerived(done) = [dels |-> down, adds |-> up]
    BY DEF NetDerived, Reported, SumOf
  <2>3. flips.dels = down \cap mirror /\ flips.adds = up \ mirror
    BY <1>3, <2>2 DEF MirrorFlips
  <2>4. ASSUME NEW t \in Triple
        PROVE  t \in (mirror \ flips.dels) \cup flips.adds <=> t \in DerivedSet(done)
    <3>1. done.derived[t] \in {0, 1} /\ circuit.derived[t] \in {0, 1}
      BY DEF WellFormed, Owners
    <3>2. t \in down <=> Reported(done, t) < 0
      OBVIOUS
    <3>3. t \in up <=> Reported(done, t) > 0
      OBVIOUS
    <3>4. Reported(done, t) = done.derived[t] - circuit.derived[t]
      OBVIOUS
    <3>5. (t \in mirror <=> circuit.derived[t] > 0) /\ (t \in DerivedSet(done) <=> done.derived[t] > 0)
      BY <2>1 DEF DerivedSet
    <3>6. t \in flips.dels <=> t \in down /\ t \in mirror
      BY <2>3
    <3>7. t \in flips.adds <=> t \in up /\ t \notin mirror
      BY <2>3
    <3> DEFINE was == circuit.derived[t]
               is  == done.derived[t]
               net == Reported(done, t)
    <3>8. was \in {0, 1} /\ is \in {0, 1} /\ net = is - was
      BY <3>1, <3>4
    <3>9. (net < 0 <=> was = 1 /\ is = 0) /\ (net > 0 <=> was = 0 /\ is = 1)
      <4> HIDE DEF was, is, net
      <4> QED BY <3>8
    <3>10. (was > 0 <=> was = 1) /\ (is > 0 <=> is = 1)
      <4> HIDE DEF was, is, net
      <4> QED BY <3>8
    <3> HIDE DEF down, up, flips
    <3>11. CASE was = 1
      BY <3>2, <3>3, <3>5, <3>6, <3>7, <3>8, <3>9, <3>10, <3>11
    <3>12. CASE was = 0
      BY <3>2, <3>3, <3>5, <3>6, <3>7, <3>8, <3>9, <3>10, <3>12
    <3> QED BY <3>8, <3>11, <3>12
  <2>5. (mirror \ flips.dels) \cup flips.adds \subseteq Triple
    BY <2>3
  <2> HIDE DEF flips
  <2> QED BY <1>1, <2>4, <2>5 DEF flips
<1> QED BY <1>2, <1>3

LEMMA CommitMirror ==
    ASSUME RowTypes, BaseInv, MirrorInv, NEW dels \in SUBSET Quad, NEW adds \in SUBSET Quad,
           CommitQuads(dels, adds)
    PROVE  MirrorInv'
<1> DEFINE a == Asserts(dels, adds)
           r == FedRetracts(Retracts(dels, adds))
           done == Ticked(circuit, a, r)
           flips == MirrorFlips(done, a, r)
<1>1. a \in SUBSET Triple /\ r \in SUBSET Triple
  BY FedFlips
<1>2. /\ circuit' = Flushed(done) /\ faults' = faults
      /\ mirror' = (mirror \ flips.dels) \cup flips.adds
      /\ rolledBack' = (rolledBack /\ ~Overflows(done, a, r))
  BY DEF CommitQuads, CommitTicked
<1> HIDE DEF a, r
<1>3. WellFormed(circuit) /\ mirror \subseteq Triple /\ faults \in 0 .. MaxFaults
  BY DEF MirrorInv
<1>4. WellFormed(done) /\ \A t \in Triple : Reported(done, t) = done.derived[t] - circuit.derived[t]
  BY <1>1, <1>3, TickedMoves
<1> HIDE DEF done
<1>5. WellFormed(circuit') /\ DerivedSet(circuit') = DerivedSet(done)
  BY <1>2, <1>4, FlushedForm
<1>6. flips.adds \subseteq Triple
  BY <1>3 DEF MirrorFlips, Resync, NetDerived, DerivedSet
<1>7. ~rolledBack' => mirror' = DerivedSet(done)
  <2> SUFFICES ASSUME ~rolledBack' PROVE mirror' = DerivedSet(done)
    OBVIOUS
  <2>1. mirror = DerivedSet(circuit) \/ Overflows(done, a, r)
    BY <1>2 DEF MirrorInv
  <2> QED BY <1>2, <1>3, <1>4, <2>1, FlipsFollow
<1> HIDE DEF flips
<1> QED BY <1>2, <1>3, <1>5, <1>6, <1>7 DEF MirrorInv

LEMMA RollbackMirror ==
    ASSUME RowTypes, BaseInv, MirrorInv, NEW dels \in SUBSET Quad, NEW adds \in SUBSET Quad,
           Rollback(dels, adds)
    PROVE  MirrorInv'
<1> DEFINE a == Asserts(dels, adds)
           r == FedRetracts(Retracts(dels, adds))
           tick == Ticked(circuit, a, r)
           done == Flushed(tick)
           back == InverseTick(done, a, r)
<1>1. a \in SUBSET Triple /\ r \in SUBSET Triple
  BY FedFlips
<1>2. /\ circuit' = Flushed(back) /\ mirror' = mirror /\ rolledBack' = TRUE
      /\ faults < MaxFaults /\ faults' = faults + 1
  BY DEF Rollback, RollbackTicked, store
<1> HIDE DEF a, r
<1>3. WellFormed(circuit) /\ mirror \subseteq Triple /\ faults \in 0 .. MaxFaults
  BY DEF MirrorInv
<1>4. WellFormed(tick)
  BY <1>1, <1>3, TickedMoves
<1> HIDE DEF tick
<1>5. WellFormed(done)
  BY <1>4, FlushedForm
<1> HIDE DEF done
<1>6. WellFormed(back)
  BY <1>1, <1>5, TickedMoves DEF InverseTick
<1> HIDE DEF back
<1>7. WellFormed(circuit')
  BY <1>2, <1>6, FlushedForm
<1>8. faults' \in 0 .. MaxFaults
  BY <1>2, <1>3, FaultsAssumption
<1> QED BY <1>2, <1>3, <1>7, <1>8 DEF MirrorInv

LEMMA MirrorStep ==
    ASSUME JournalInv, BaseInv, MirrorInv, [Next]_vars
    PROVE  MirrorInv'
<1>0. RowTypes /\ Default \in Graph
  BY DEF JournalInv, Graph
<1>1. ASSUME UNCHANGED <<circuit, mirror, faults, rolledBack>> PROVE MirrorInv'
  BY <1>1 DEF MirrorInv
<1>2. CASE UNCHANGED <<circuit, store, faults, history>>
  BY <1>1, <1>2 DEF store, history
<1>3. CASE UNCHANGED vars
  BY <1>2, <1>3 DEF vars
<1>4. ASSUME NEW n \in 1 .. MaxOps, BeginRequest(n) PROVE MirrorInv'
  BY <1>2, <1>4 DEF BeginRequest
<1>5. ASSUME NEW op \in Operation \cup {NamedSweep}, ApplyOp(op) PROVE MirrorInv'
  <2>1. CASE Commits(op)
    BY <1>0, <1>5, <2>1, OperationQuads, CommitMirror DEF ApplyOp
  <2>2. CASE ~Commits(op)
    BY <1>2, <1>5, <2>2 DEF ApplyOp
  <2> QED BY <2>1, <2>2
<1>6. ASSUME NEW op, RejectOp(op) PROVE MirrorInv'
  BY <1>2, <1>6 DEF RejectOp
<1>7. ASSUME NEW op \in Operation \cup {NamedSweep}, FailOp(op) PROVE MirrorInv'
  BY <1>0, <1>7, OperationQuads, RollbackMirror DEF FailOp
<1>8. Restored(FALSE) \in SUBSET Quad /\ Restored(TRUE) \in SUBSET Quad
  BY DEF Restored, JournalInv
<1>9. CASE UndoRequest
  <2>1. CASE request.journal # {}
    BY <1>0, <1>8, <1>9, <2>1, CommitMirror DEF UndoRequest
  <2>2. CASE request.journal = {}
    BY <1>2, <1>9, <2>2 DEF UndoRequest
  <2> QED BY <2>1, <2>2
<1>10. CASE FailUndo
  BY <1>0, <1>8, <1>10, RollbackMirror DEF FailUndo
<1>11. ASSUME NEW t \in Bulk, BulkLoad(t) PROVE MirrorInv'
  BY <1>1, <1>11 DEF BulkLoad
<1>12. CASE Reopen
  <2>1. /\ circuit' = Attached(rows[Default]) /\ mirror' = DerivedSet(circuit')
        /\ faults < MaxFaults /\ faults' = faults + 1
    BY <1>12 DEF Reopen
  <2>2. rows[Default] \in SUBSET Triple
    BY <1>0 DEF RowTypes
  <2>3. WellFormed(circuit') /\ mirror' \subseteq Triple
    BY <2>1, <2>2, AttachedForm
  <2>4. faults' \in 0 .. MaxFaults
    BY <2>1, FaultsAssumption DEF MirrorInv
  <2> QED BY <2>1, <2>3, <2>4 DEF MirrorInv
<1> QED BY <1>3, <1>4, <1>5, <1>6, <1>7, <1>9, <1>10, <1>11, <1>12 DEF Next

LEMMA MirrorStarts == Init => MirrorInv
<1> SUFFICES ASSUME Init PROVE MirrorInv
  OBVIOUS
<1>1. /\ circuit = Attached(Seed) /\ mirror = DerivedSet(circuit) /\ faults = 0
  BY DEF Init
<1>2. WellFormed(circuit) /\ mirror \subseteq Triple
  BY <1>1, AttachedForm, LoadAssumption
<1> QED BY <1>1, <1>2, FaultsAssumption DEF MirrorInv

\* The wiring, for every store, rule set and request: until a commit fails, the
\* derived graph holds the circuit's derived rows, whichever commits netted
\* their records and whichever resynchronised after an overflow.
THEOREM DerivedGraphFollowsCircuit == Spec => []MirrorIsDerivedBase
<1>1. (JournalInv /\ BaseInv /\ MirrorInv) /\ [Next]_vars => (JournalInv /\ BaseInv /\ MirrorInv)'
  BY JournalStep, BaseStep, MirrorStep
<1>2. MirrorInv => MirrorIsDerivedBase
  BY DEF MirrorInv, MirrorIsDerivedBase
<1> QED BY <1>1, <1>2, JournalStarts, BaseStarts, MirrorStarts, PTL DEF Spec

\* The types: a row is asserted to the circuit once at most, though the circuit
\* would count copies.
THEOREM UpdateTypeCorrect == Spec => []TypeOK
<1>1. (JournalInv /\ BaseInv /\ MirrorInv) /\ [Next]_vars => (JournalInv /\ BaseInv /\ MirrorInv)'
  BY JournalStep, BaseStep, MirrorStep
<1>2. JournalInv /\ BaseInv /\ MirrorInv => TypeOK
  <2> SUFFICES ASSUME JournalInv, BaseInv, MirrorInv PROVE TypeOK
    OBVIOUS
  <2>1. circuit \in CircuitState
    BY DEF MirrorInv, WellFormed
  <2>2. /\ circuit.attr \in [Triple -> Rule \cup {NoRule}] /\ circuit.support \subseteq EdgeTriple
        /\ circuit.closure \in Closure
    BY <2>1, StateShape DEF AttrMap
  <2>3. circuit.asserted \in [Triple -> {0, 1}]
    <3>1. circuit.asserted = [t \in Triple |-> IF t \in Told THEN 1 ELSE 0]
      BY DEF BaseInv, OneFor
    <3> QED BY <3>1
  <2>4. rows \in [Graph -> SUBSET Triple]
    BY DEF JournalInv, RowTypes
  <2>5. mirror \subseteq Triple /\ faults \in 0 .. MaxFaults
    BY DEF MirrorInv
  <2>6. request.phase \in {"idle", "first", "apply", "undo"} /\ request.journal \subseteq Quad \X BOOLEAN
    BY DEF JournalInv
  <2> QED BY <2>2, <2>3, <2>4, <2>5, <2>6 DEF TypeOK
<1> QED BY <1>1, <1>2, JournalStarts, BaseStarts, MirrorStarts, PTL DEF Spec

-----------------------------------------------------------------------------
(* The circuit's counts, and what a query sees.                              *)

\* Every row is entailed by what is asserted.
AllEntailed(c) == PresentSet(c) \subseteq Entailed(AssertedSet(c))
EnoughRounds == MaxRounds >= Cardinality(Triple)

\* What every circuit of the engine is, and what it is while no tick took an
\* asserted copy from under a rule's row.
EngineHolds(c) == Held(c) /\ (EnoughRounds => c.sound)
Rooting(c, unshadows) == c.sound /\ ~unshadows => AllEntailed(c)

LEMMA FlushedEngine ==
    ASSUME NEW c, EngineHolds(c)
    PROVE  /\ EngineHolds(Flushed(c)) /\ Flushed(c).sound = c.sound
           /\ AllEntailed(Flushed(c)) <=> AllEntailed(c)
           /\ \A b : Unshadows(b, Flushed(c)) <=> Unshadows(b, c)
<1> DEFINE d == Flushed(c)
<1>1. c \in CircuitState
  BY DEF EngineHolds, Held, WellFormed
<1>2. /\ d.asserted = c.asserted /\ d.derived = c.derived /\ d.attr = c.attr
      /\ d.fallback = c.fallback /\ d.sound = c.sound
  BY <1>1, StateShape DEF Flushed
<1>3. Held(d)
  BY PublishedHeld DEF EngineHolds, Flushed
<1> HIDE DEF d
<1>4. EngineHolds(d)
  BY <1>2, <1>3 DEF EngineHolds
<1>5. AllEntailed(d) <=> AllEntailed(c)
  BY <1>2 DEF AllEntailed, PresentSet, AssertedSet, DerivedSet
<1>6. \A b : Unshadows(b, d) <=> Unshadows(b, c)
  BY <1>2 DEF Unshadows, Owned
<1> QED BY <1>2, <1>4, <1>5, <1>6 DEF d

\* A tick of the engine's circuit, of any records.
LEMMA TickEngine ==
    ASSUME NEW c, EngineHolds(c), NEW records \in Seq(Delta)
    PROVE  LET d == Tick(c, records)
           IN  /\ EngineHolds(d)
               /\ d.sound => c.sound
               /\ d.sound /\ AllEntailed(c) /\ ~Unshadows(c, d) => AllEntailed(d)
<1> DEFINE d == Tick(c, records)
<1>1. Held(c) /\ (EnoughRounds => c.sound)
  BY DEF EngineHolds
<1>2. HasBase(c)
  BY <1>1, StateShape DEF Held, WellFormed, HasBase
<1>3. d.sound => c.sound
  BY <1>2, TickAsserts
<1>4. Held(d)
  BY <1>1, DeltasSummable, TickHeld
<1>5. EnoughRounds => d.sound
  BY <1>1, DeltasSummable, TickSound DEF EnoughRounds
<1>6. d.sound /\ AllEntailed(c) /\ ~Unshadows(c, d) => AllEntailed(d)
  BY <1>1, <1>3, DeltasSummable, TickSupported DEF AllEntailed
<1> HIDE DEF d
<1>7. EngineHolds(d)
  BY <1>1, <1>3, <1>4, <1>5 DEF EngineHolds
<1> QED BY <1>3, <1>6, <1>7 DEF d

LEMMA TickedEngine ==
    ASSUME NEW c, EngineHolds(c), NEW asserts \in SUBSET Triple, NEW retracts \in SUBSET Triple
    PROVE  LET d == Ticked(c, asserts, retracts)
           IN  /\ EngineHolds(d)
               /\ d.sound => c.sound
               /\ d.sound /\ AllEntailed(c) /\ ~Unshadows(c, d) => AllEntailed(d)
<1> DEFINE r == RecordsOf(retracts, -1)
           a == RecordsOf(asserts, 1)
<1>1. r \in Seq(Delta) /\ a \in Seq(Delta)
  BY RecordsOfSum
<1>2. r \o a \in Seq(Delta)
  BY <1>1
<1>3. Ticked(c, asserts, retracts) = Tick(c, r \o a)
  BY DEF Ticked
<1> HIDE DEF r, a
<1> QED BY <1>2, <1>3, TickEngine

LEMMA AttachedEngine ==
    ASSUME NEW ts \in SUBSET Triple
    PROVE  EngineHolds(Attached(ts)) /\ Rooting(Attached(ts), FALSE)
<1> DEFINE c == NewCircuit(FALSE)
           d == Tick(c, RecordsOf(ts, 1))
<1>1. Held(c)
  BY NewCircuitHeld
<1>2. c.sound /\ c.asserted = EmptyZset /\ c.derived = EmptyZset
  BY DEF NewCircuit
<1> HIDE DEF c
<1>3. EngineHolds(c) /\ AllEntailed(c) /\ ~Unshadows(c, d)
  BY <1>1, <1>2 DEF EngineHolds, AllEntailed, PresentSet, AssertedSet, DerivedSet, Unshadows, EmptyZset
<1>4. EngineHolds(d) /\ (d.sound => AllEntailed(d))
  BY <1>3, RecordsOfSum, TickEngine
<1> HIDE DEF d
<1>5. Attached(ts) = Flushed(d)
  BY DEF Attached, d, c
<1> QED BY <1>4, <1>5, FlushedEngine DEF Rooting

\* Between two steps: a commit, an undo or the inverse tick of a failed commit
\* leaves nothing in the circuit half-done.
EngineInv == EngineHolds(circuit) /\ Rooting(circuit, unshadowed)

LEMMA CommitEngine ==
    ASSUME RowTypes, BaseInv, EngineInv, NEW dels \in SUBSET Quad, NEW adds \in SUBSET Quad,
           CommitQuads(dels, adds)
    PROVE  EngineInv'
<1> DEFINE a == Asserts(dels, adds)
           r == FedRetracts(Retracts(dels, adds))
           done == Ticked(circuit, a, r)
<1>1. a \in SUBSET Triple /\ r \in SUBSET Triple
  BY FedFlips
<1>2. circuit' = Flushed(done) /\ unshadowed' = (unshadowed \/ Unshadows(circuit, done))
  BY DEF CommitQuads, CommitTicked
<1> HIDE DEF a, r
<1>3. EngineHolds(circuit) /\ Rooting(circuit, unshadowed)
  BY DEF EngineInv
<1>4. /\ EngineHolds(done) /\ (done.sound => circuit.sound)
      /\ done.sound /\ AllEntailed(circuit) /\ ~Unshadows(circuit, done) => AllEntailed(done)
  BY <1>1, <1>3, TickedEngine
<1> HIDE DEF done
<1>5. /\ EngineHolds(circuit') /\ circuit'.sound = done.sound
      /\ AllEntailed(circuit') <=> AllEntailed(done)
  BY <1>2, <1>4, FlushedEngine
<1>6. Rooting(circuit', unshadowed')
  BY <1>2, <1>3, <1>4, <1>5 DEF Rooting
<1> QED BY <1>5, <1>6 DEF EngineInv

LEMMA RollbackEngine ==
    ASSUME RowTypes, BaseInv, EngineInv, NEW dels \in SUBSET Quad, NEW adds \in SUBSET Quad,
           Rollback(dels, adds)
    PROVE  EngineInv'
<1> DEFINE a == Asserts(dels, adds)
           r == FedRetracts(Retracts(dels, adds))
           tick == Ticked(circuit, a, r)
           done == Flushed(tick)
           back == InverseTick(done, a, r)
<1>1. a \in SUBSET Triple /\ r \in SUBSET Triple
  BY FedFlips
<1>2. /\ circuit' = Flushed(back)
      /\ unshadowed' = (unshadowed \/ Unshadows(circuit, done) \/ Unshadows(done, back))
  BY DEF Rollback, RollbackTicked
<1> HIDE DEF a, r
<1>3. EngineHolds(circuit) /\ Rooting(circuit, unshadowed)
  BY DEF EngineInv
<1>4. /\ EngineHolds(tick) /\ (tick.sound => circuit.sound)
      /\ tick.sound /\ AllEntailed(circuit) /\ ~Unshadows(circuit, tick) => AllEntailed(tick)
  BY <1>1, <1>3, TickedEngine
<1> HIDE DEF tick
<1>5. /\ EngineHolds(done) /\ done.sound = tick.sound /\ (AllEntailed(done) <=> AllEntailed(tick))
      /\ Unshadows(circuit, done) <=> Unshadows(circuit, tick)
  BY <1>4, FlushedEngine
<1> HIDE DEF done
<1>6. /\ EngineHolds(back) /\ (back.sound => done.sound)
      /\ back.sound /\ AllEntailed(done) /\ ~Unshadows(done, back) => AllEntailed(back)
  BY <1>1, <1>5, TickedEngine DEF InverseTick
<1> HIDE DEF back
<1>7. /\ EngineHolds(circuit') /\ circuit'.sound = back.sound
      /\ AllEntailed(circuit') <=> AllEntailed(back)
  BY <1>2, <1>6, FlushedEngine
<1>8. Rooting(circuit', unshadowed')
  BY <1>2, <1>3, <1>4, <1>5, <1>6, <1>7 DEF Rooting
<1> QED BY <1>7, <1>8 DEF EngineInv

LEMMA EngineStep ==
    ASSUME JournalInv, BaseInv, EngineInv, [Next]_vars
    PROVE  EngineInv'
<1>0. RowTypes /\ Default \in Graph
  BY DEF JournalInv, Graph
<1>1. ASSUME UNCHANGED <<circuit, unshadowed>> PROVE EngineInv'
  BY <1>1 DEF EngineInv
<1>2. CASE UNCHANGED <<circuit, store, faults, history>>
  BY <1>1, <1>2 DEF store, history
<1>3. CASE UNCHANGED vars
  BY <1>2, <1>3 DEF vars
<1>4. ASSUME NEW n \in 1 .. MaxOps, BeginRequest(n) PROVE EngineInv'
  BY <1>2, <1>4 DEF BeginRequest
<1>5. ASSUME NEW op \in Operation \cup {NamedSweep}, ApplyOp(op) PROVE EngineInv'
  <2>1. CASE Commits(op)
    BY <1>0, <1>5, <2>1, OperationQuads, CommitEngine DEF ApplyOp
  <2>2. CASE ~Commits(op)
    BY <1>2, <1>5, <2>2 DEF ApplyOp
  <2> QED BY <2>1, <2>2
<1>6. ASSUME NEW op, RejectOp(op) PROVE EngineInv'
  BY <1>2, <1>6 DEF RejectOp
<1>7. ASSUME NEW op \in Operation \cup {NamedSweep}, FailOp(op) PROVE EngineInv'
  BY <1>0, <1>7, OperationQuads, RollbackEngine DEF FailOp
<1>8. Restored(FALSE) \in SUBSET Quad /\ Restored(TRUE) \in SUBSET Quad
  BY DEF Restored, JournalInv
<1>9. CASE UndoRequest
  <2>1. CASE request.journal # {}
    BY <1>0, <1>8, <1>9, <2>1, CommitEngine DEF UndoRequest
  <2>2. CASE request.journal = {}
    BY <1>2, <1>9, <2>2 DEF UndoRequest
  <2> QED BY <2>1, <2>2
<1>10. CASE FailUndo
  BY <1>0, <1>8, <1>10, RollbackEngine DEF FailUndo
<1>11. ASSUME NEW t \in Bulk, BulkLoad(t) PROVE EngineInv'
  BY <1>1, <1>11 DEF BulkLoad
<1>12. CASE Reopen
  <2>1. circuit' = Attached(rows[Default]) /\ unshadowed' = FALSE
    BY <1>12 DEF Reopen
  <2>2. rows[Default] \in SUBSET Triple
    BY <1>0 DEF RowTypes
  <2> QED BY <2>1, <2>2, AttachedEngine DEF EngineInv
<1> QED BY <1>3, <1>4, <1>5, <1>6, <1>7, <1>9, <1>10, <1>11, <1>12 DEF Next

LEMMA EngineStarts == Init => EngineInv
<1> SUFFICES ASSUME Init PROVE EngineInv
  OBVIOUS
<1>1. circuit = Attached(Seed) /\ unshadowed = FALSE
  BY DEF Init
<1> QED BY <1>1, AttachedEngine, LoadAssumption DEF EngineInv

LEMMA EngineAlways == Spec => [](JournalInv /\ BaseInv /\ MirrorInv /\ EngineInv)
<1>1. (JournalInv /\ BaseInv /\ MirrorInv /\ EngineInv) /\ [Next]_vars
          => (JournalInv /\ BaseInv /\ MirrorInv /\ EngineInv)'
  BY JournalStep, BaseStep, MirrorStep, EngineStep
<1> QED BY <1>1, JournalStarts, BaseStarts, MirrorStarts, EngineStarts, PTL DEF Spec


\* What the engine's invariant says of the state, whichever bound the fixpoints
\* have.
EngineReads ==
    /\ ClosureExact
    /\ TickAssertionsHold => IncrementalStateExact /\ DerivedRowsOwned /\ QueriesSeeEntailed
    /\ EnoughRounds => TickAssertionsHold

\* The rows a query sees are those the circuit calls present and those it was
\* not told of, while the derived graph follows it.
LEMMA QueriesRead ==
    ASSUME JournalInv, BaseInv, MirrorInv, EngineInv, circuit.sound
    PROVE  QueriesSeeEntailed
<1> SUFFICES ASSUME ~rolledBack PROVE
        /\ Entailed(AssertedSet(circuit)) \subseteq Visible
        /\ ~unshadowed => Visible = Entailed(AssertedSet(circuit)) \cup bulk
  BY DEF QueriesSeeEntailed
<1>1. Told \subseteq Triple
  BY DEF JournalInv, RowTypes, Told, Graph
<1>2. \A t \in Triple : circuit.asserted[t] > 0 <=> t \in Told
  <2>1. \A t \in Triple : circuit.asserted[t] = IF t \in Told THEN 1 ELSE 0
    BY ToldType DEF JournalInv
  <2> QED BY <2>1
<1> DEFINE base == AssertedSet(circuit)
<1>3. base = rows[Default] \ bulk
  <2> HIDE DEF Told
  <2>1. base = Told
    BY <1>1, <1>2 DEF AssertedSet
  <2> QED BY <2>1 DEF Told
<1>4. bulk \subseteq rows[Default] /\ mirror = DerivedSet(circuit)
  BY DEF BaseInv, MirrorInv
<1>5. PresentSet(circuit) = base \cup mirror
  BY <1>4 DEF PresentSet
<1>6. Entailed(base) \subseteq PresentSet(circuit)
  BY EntailedPresent DEF EngineInv, EngineHolds
<1>7. ~unshadowed => PresentSet(circuit) \subseteq Entailed(base)
  BY DEF EngineInv, Rooting, AllEntailed
<1> HIDE DEF base
<1>8. Visible = PresentSet(circuit) \cup bulk
  BY <1>3, <1>4, <1>5 DEF Visible
<1>9. /\ Entailed(base) \subseteq Visible
      /\ ~unshadowed => Visible = Entailed(base) \cup bulk
  BY <1>6, <1>7, <1>8
<1> QED BY <1>9 DEF base

LEMMA EngineReadsAlways == Spec => []EngineReads
<1>1. JournalInv /\ BaseInv /\ MirrorInv /\ EngineInv => EngineReads
  <2> SUFFICES ASSUME JournalInv, BaseInv, MirrorInv, EngineInv PROVE EngineReads
    OBVIOUS
  <2>1. Held(circuit) /\ (EnoughRounds => circuit.sound)
    BY DEF EngineInv, EngineHolds
  <2>2. ClosurePlanExact(circuit)
    BY <2>1, HeldMeans
  <2>3. circuit.sound => IncrementalExact(circuit) /\ RowsOwned(circuit)
    BY <2>1, HeldMeans
  <2>4. circuit.sound => QueriesSeeEntailed
    BY QueriesRead
  <2> QED BY <2>1, <2>2, <2>3, <2>4
          DEF EngineReads, ClosureExact, TickAssertionsHold, IncrementalStateExact, DerivedRowsOwned
<1> QED BY <1>1, EngineAlways, PTL

-----------------------------------------------------------------------------
(* The theorems about the engine's circuit.                                  *)

\* insert_edges and delete_edges, called by an engine's ticks: for every store,
\* rule set and request, the plan's pairs are the closure of the edges the
\* circuit was given, and deleting any one of them by its support counts or by
\* recomputing the plan comes to the same.
THEOREM EngineClosureExact == Spec => []ClosureExact
<1>1. EngineReads => ClosureExact
  BY DEF EngineReads
<1> QED BY <1>1, EngineReadsAlways, PTL

\* tick(): as long as none of its assertions has failed, the extents, weights and
\* traces are what a recount gives, every derived row has its owner, and a query
\* sees what the default graph's asserted rows entail; whatever MAX_FIXPOINT_ROUNDS
\* is, for every store, rule set and request.
THEOREM SoundTicksAnswer ==
    Spec => [](TickAssertionsHold => IncrementalStateExact /\ DerivedRowsOwned /\ QueriesSeeEntailed)
<1>1. EngineReads =>
          (TickAssertionsHold => IncrementalStateExact /\ DerivedRowsOwned /\ QueriesSeeEntailed)
  BY DEF EngineReads
<1> QED BY <1>1, EngineReadsAlways, PTL

\* The assertions of tick() and its three fixpoints: with a round for every
\* triple none fails, in any tick of an update, an undo, the inverse of a failed
\* commit or an attach.
THEOREM NoTickAssertionFails ==
    ASSUME MaxRounds >= Cardinality(Triple)
    PROVE  Spec => []TickAssertionsHold
<1>1. EngineReads => TickAssertionsHold
  BY DEF EngineReads, EnoughRounds
<1> QED BY <1>1, EngineReadsAlways, PTL

\* debug_validate (i) and (ii): the deltas of retractions, overdeletions and
\* inverse ticks keep the extent, the weights and the traces what a recount
\* gives.
THEOREM EngineCountsExact ==
    ASSUME MaxRounds >= Cardinality(Triple)
    PROVE  Spec => []IncrementalStateExact
<1>1. EngineReads => IncrementalStateExact
  BY DEF EngineReads, EnoughRounds
<1> QED BY <1>1, EngineReadsAlways, PTL

\* debug_validate (iii) and (iv): the rules and the closure share the derived
\* rows without losing one and without keeping one that neither owns.
THEOREM EngineRowsOwned ==
    ASSUME MaxRounds >= Cardinality(Triple)
    PROVE  Spec => []DerivedRowsOwned
<1>1. EngineReads => DerivedRowsOwned
  BY DEF EngineReads, EnoughRounds
<1> QED BY <1>1, EngineReadsAlways, PTL

\* The write funnel, the circuit and the derived graph together: until a commit
\* fails, a query over the default union misses nothing that is entailed, and,
\* unless a tick took the asserted copy from under a rule's row, sees nothing
\* else but the bulk loads.
THEOREM QueriesAnswered ==
    ASSUME MaxRounds >= Cardinality(Triple)
    PROVE  Spec => []QueriesSeeEntailed
<1>1. EngineReads => QueriesSeeEntailed
  BY DEF EngineReads, EnoughRounds
<1> QED BY <1>1, EngineReadsAlways, PTL
=============================================================================

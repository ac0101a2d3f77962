------------------------ MODULE CircuitDriverProofs ------------------------
(***************************************************************************)
(* Proofs about CircuitDriver and its ChangeFeed: what a subscriber        *)
(* hears, what the input log keeps, what a tick publishes, and that the    *)
(* circuit is exact across ticks, crashes and replays.                     *)
(***************************************************************************)
EXTENDS CircuitDriver, CircuitExactness

(***************************************************************************)
(* The change feed.                                                        *)
(***************************************************************************)
Distinct(list) == \A i, k \in 1 .. Len(list) : list[i] = list[k] => i = k

\* The current record has been through the list but for the targets.
TargetsLast ==
    /\ Len(targets) <= Len(subscribers)
    /\ \A i \in 1 .. Len(targets) :
          targets[i] = subscribers[Len(subscribers) - Len(targets) + i]

FeedTypes ==
    /\ subscribers \in Seq(Subscriber)
    /\ queue \in [Subscriber -> Seq(Nat)]
    /\ receiving \subseteq Subscriber
    /\ sent \in 0 .. Period - 1
    /\ targets \in Seq(Subscriber)
    /\ failed \subseteq Subscriber
    /\ heard \in [Subscriber -> 0 .. Period - 1]

FailedPassed ==
    /\ \A s \in failed : Contains(subscribers, s) /\ ~Contains(targets, s)
    /\ targets = <<>> => failed = {}

NothingForTheGone == \A s \in Subscriber : s \notin receiving => queue[s] = <<>>

QuietBetweenTicks == phase # "ticking" => Published

FeedInv ==
    /\ FeedTypes
    /\ Distinct(subscribers)
    /\ TargetsLast
    /\ FailedPassed
    /\ NothingForTheGone
    /\ QuietBetweenTicks
    /\ SubscriberStream

-----------------------------------------------------------------------------
(* Without.                                                                  *)

W == INSTANCE FoldFacts WITH
        Op   <- LAMBDA gone, kept, s : IF s \in gone THEN kept ELSE Append(kept, s),
        Size <- Cardinality

LEMMA WInductive == W!Inductive
BY Induction DEF W!Inductive

LEMMA WithoutFold ==
    ASSUME NEW list, NEW gone
    PROVE  Without(list, gone) = W!Folded(gone, <<>>, list)
BY DEF Without, W!Folded, FoldLeft, MapThenFoldSet, W!MapThenFoldSet, Max, W!Latest

LEMMA WithoutNone ==
    ASSUME NEW gone
    PROVE  Without(<<>>, gone) = <<>>
BY WithoutFold, WInductive, W!FoldNone

LEMMA WithoutOn ==
    ASSUME NEW gone, NEW X, NEW list \in Seq(X), NEW s \in X
    PROVE  Without(Append(list, s), gone) =
               IF s \in gone THEN Without(list, gone) ELSE Append(Without(list, gone), s)
BY WithoutFold, WInductive, W!FoldOn

LEMMA ContainsAppend ==
    ASSUME NEW X, NEW list \in Seq(X), NEW s \in X, NEW x
    PROVE  Contains(Append(list, s), x) <=> Contains(list, x) \/ x = s
<1>1. /\ Len(list) \in Nat
      /\ Len(Append(list, s)) = Len(list) + 1
      /\ Append(list, s)[Len(list) + 1] = s
      /\ \A i \in 1 .. Len(list) : Append(list, s)[i] = list[i]
  OBVIOUS
<1>2. \A i : i \in 1 .. Len(list) + 1 <=> i \in 1 .. Len(list) \/ i = Len(list) + 1
  BY <1>1
<1> QED BY <1>1, <1>2 DEF Contains

\* The list keeps its order, without repetition, and who is not in gone.
LEMMA WithoutKeeps ==
    ASSUME NEW gone, NEW X, NEW list \in Seq(X)
    PROVE  /\ Without(list, gone) \in Seq(X)
           /\ \A x : Contains(Without(list, gone), x) <=> Contains(list, x) /\ x \notin gone
           /\ Distinct(list) => Distinct(Without(list, gone))
<1> DEFINE S == {t \in Seq(X) :
                    /\ Without(t, gone) \in Seq(X)
                    /\ \A x : Contains(Without(t, gone), x) <=> Contains(t, x) /\ x \notin gone
                    /\ Distinct(t) => Distinct(Without(t, gone))}
<1>1. <<>> \in S
  <2>1. Len(<<>>) = 0 /\ 1 .. 0 = {} /\ <<>> \in Seq(X)
    OBVIOUS
  <2>2. Without(<<>>, gone) = <<>>
    BY WithoutNone
  <2> QED BY <2>1, <2>2 DEF Contains, Distinct
<1>2. ASSUME NEW t \in Seq(X), NEW s \in X, t \in S PROVE Append(t, s) \in S
  <2> DEFINE u == Without(t, gone)
             v == Without(Append(t, s), gone)
  <2>1. v = IF s \in gone THEN u ELSE Append(u, s)
    BY WithoutOn
  <2>2. u \in Seq(X) /\ Append(t, s) \in Seq(X) /\ v \in Seq(X)
    BY <1>2, <2>1
  <2>3. \A x : Contains(u, x) <=> Contains(t, x) /\ x \notin gone
    BY <1>2
  <2> HIDE DEF u, v
  <2>4. \A x : Contains(v, x) <=> Contains(Append(t, s), x) /\ x \notin gone
    BY <2>1, <2>2, <2>3, ContainsAppend
  <2>5. ASSUME Distinct(Append(t, s)) PROVE Distinct(v)
    <3>1. /\ Len(t) \in Nat
          /\ Len(Append(t, s)) = Len(t) + 1
          /\ Append(t, s)[Len(t) + 1] = s
          /\ \A i \in 1 .. Len(t) : Append(t, s)[i] = t[i] /\ i # Len(t) + 1 /\ i \in 1 .. Len(t) + 1
          /\ Len(t) + 1 \in 1 .. Len(t) + 1
      OBVIOUS
    <3>2. Distinct(t) /\ ~Contains(t, s)
      BY <2>5, <3>1 DEF Distinct, Contains
    <3>3. Distinct(u)
      BY <1>2, <3>2 DEF u
    <3>4. ~Contains(u, s)
      BY <2>3, <3>2
    <3>5. /\ Len(u) \in Nat
          /\ Len(Append(u, s)) = Len(u) + 1
          /\ Append(u, s)[Len(u) + 1] = s
          /\ \A i \in 1 .. Len(u) : Append(u, s)[i] = u[i]
          /\ \A i \in 1 .. Len(u) + 1 : i \in 1 .. Len(u) \/ i = Len(u) + 1
      BY <2>2
    <3>6. Distinct(Append(u, s))
      BY <3>3, <3>4, <3>5 DEF Distinct, Contains
    <3> QED BY <2>1, <3>3, <3>6
  <2> QED BY <2>2, <2>4, <2>5 DEF v
<1>3. \A t \in Seq(X) : t \in S
  <2> HIDE DEF S
  <2> QED BY <1>1, <1>2, WInductive, W!SeqInduction
<1> QED BY <1>3

-----------------------------------------------------------------------------
(* Positions, modulo Period.                                                 *)

LEMMA PeriodPositive == Period \in Nat /\ Period > 0
BY ChannelAssumption

LEMMA ModType ==
    ASSUME NEW a \in Nat
    PROVE  a % Period \in 0 .. Period - 1
BY PeriodPositive

LEMMA ModSmall ==
    ASSUME NEW a \in 0 .. Period - 1
    PROVE  a % Period = a
BY PeriodPositive

LEMMA ModAdd ==
    ASSUME NEW a \in Nat, NEW b \in Nat
    PROVE  ((a % Period) + b) % Period = (a + b) % Period
<1> DEFINE P == Period
           q == a \div P
           r == a % P
           d == (r + b) \div P
           m == (r + b) % P
<1>1. P \in Nat /\ P > 0
  BY PeriodPositive
<1>2. q \in Int /\ r \in 0 .. P - 1 /\ a = P * q + r
  BY <1>1
<1>3. d \in Int /\ m \in 0 .. P - 1 /\ r + b = P * d + m
  BY <1>1, <1>2
<1>4. a + b = P * (q + d) + m
  <2> HIDE DEF P, q, r, d, m
  <2>1. P * (q + d) = P * q + P * d
    BY <1>1, <1>2, <1>3
  <2>2. P * q \in Int /\ P * d \in Int
    BY <1>1, <1>2, <1>3
  <2> QED BY <1>1, <1>2, <1>3, <2>1, <2>2
<1>5. (a + b) % P = m
  <2> DEFINE x == a + b
             y == q + d
  <2>1. x \in Nat /\ y \in Int /\ x = P * y + m
    BY <1>2, <1>3, <1>4
  <2> HIDE DEF P, q, r, d, m, x, y
  <2>2. x % P = m
    BY <1>1, <1>3, <2>1
  <2> QED BY <2>2 DEF x
<1> QED BY <1>5

-----------------------------------------------------------------------------
(* The operations of the feed keep its invariant.                            *)

\* The part of the stream property that concerns one subscriber.
StreamOf(s) ==
    /\ \A n \in DOMAIN queue[s] : queue[s][n] = Position(s, n)
    /\ Lagged(s) => s \in Slow
    /\ ~Lagged(s) => Position(s, Len(queue[s]) + (IF Contains(targets, s) THEN 1 ELSE 0)) = sent

LEMMA StreamParts == SubscriberStream <=> \A s \in receiving : StreamOf(s)
BY DEF SubscriberStream, StreamOf

LEMMA NoneContained ==
    ASSUME NEW x
    PROVE  ~Contains(<<>>, x)
<1>1. Len(<<>>) = 0 /\ 1 .. 0 = {}
  OBVIOUS
<1> QED BY <1>1 DEF Contains

\* An empty feed.
LEMMA EmptyFeedStarts ==
    ASSUME FeedInit
    PROVE  FeedInv
<1>1. Len(<<>>) = 0 /\ 1 .. 0 = {} /\ <<>> \in Seq(Subscriber) /\ <<>> \in Seq(Nat)
  OBVIOUS
<1>2. 0 \in 0 .. Period - 1
  BY PeriodPositive
<1>3. FeedTypes
  BY <1>1, <1>2 DEF FeedInit, FeedTypes
<1>4. Distinct(subscribers) /\ TargetsLast /\ FailedPassed
  BY <1>1 DEF FeedInit, Distinct, TargetsLast, FailedPassed
<1>5. NothingForTheGone /\ QuietBetweenTicks /\ SubscriberStream
  BY DEF FeedInit, NothingForTheGone, QuietBetweenTicks, Published, SubscriberStream
<1> QED BY <1>3, <1>4, <1>5 DEF FeedInv

\* The feed of a new process.
LEMMA LostFeedStarts ==
    ASSUME FeedLost
    PROVE  FeedInv'
<1>1. Len(<<>>) = 0 /\ 1 .. 0 = {} /\ <<>> \in Seq(Subscriber) /\ <<>> \in Seq(Nat)
  OBVIOUS
<1>2. 0 \in 0 .. Period - 1
  BY PeriodPositive
<1>3. FeedTypes'
  BY <1>1, <1>2 DEF FeedLost, FeedTypes
<1>4. Distinct(subscribers)' /\ TargetsLast' /\ FailedPassed'
  BY <1>1 DEF FeedLost, Distinct, TargetsLast, FailedPassed
<1>5. NothingForTheGone' /\ QuietBetweenTicks' /\ SubscriberStream'
  BY DEF FeedLost, NothingForTheGone, QuietBetweenTicks, Published, SubscriberStream
<1> QED BY <1>3, <1>4, <1>5 DEF FeedInv

\* Only the outbox or the driver's phase changes.
LEMMA FeedAlone ==
    ASSUME FeedInv,
           UNCHANGED <<subscribers, queue, receiving, sent, targets, failed, heard>>,
           phase' # "ticking" => Published'
    PROVE  FeedInv'
<1>1. FeedTypes' /\ Distinct(subscribers)' /\ TargetsLast' /\ FailedPassed' /\ NothingForTheGone'
  BY DEF FeedInv, FeedTypes, Distinct, TargetsLast, FailedPassed, NothingForTheGone
<1>2. SubscriberStream'
  BY DEF FeedInv, SubscriberStream, Lagged, Position
<1> QED BY <1>1, <1>2 DEF FeedInv, QuietBetweenTicks

LEMMA SubscribeKeeps ==
    ASSUME FeedInv, NEW s \in Subscriber, Subscribe(s), phase # "ticking", phase' = phase
    PROVE  FeedInv'
<1> USE DEF FeedInv
<1>1. FeedTypes
  OBVIOUS
<1>2. targets = <<>> /\ outbox = 0 /\ failed = {}
  BY DEF QuietBetweenTicks, Published, FailedPassed
<1>3. /\ subscribers' = Append(subscribers, s) /\ receiving' = receiving \cup {s}
      /\ heard' = [heard EXCEPT ![s] = sent]
      /\ UNCHANGED <<queue, outbox, sent, targets, failed>>
      /\ s \notin receiving /\ ~Contains(subscribers, s)
  BY DEF Subscribe
<1>4. FeedTypes'
  BY <1>1, <1>3 DEF FeedTypes
<1>5. Distinct(subscribers)'
  <2>1. /\ Len(subscribers) \in Nat
        /\ Len(subscribers') = Len(subscribers) + 1
        /\ subscribers'[Len(subscribers) + 1] = s
        /\ \A i \in 1 .. Len(subscribers) : subscribers'[i] = subscribers[i]
        /\ \A i \in 1 .. Len(subscribers) + 1 :
              i \in 1 .. Len(subscribers) \/ i = Len(subscribers) + 1
    BY <1>1, <1>3 DEF FeedTypes
  <2> QED BY <1>3, <2>1 DEF Distinct, Contains
<1>6. TargetsLast' /\ FailedPassed'
  <2>1. Len(targets') = 0 /\ 1 .. 0 = {} /\ Len(subscribers') \in Nat
    BY <1>2, <1>3, <1>4 DEF FeedTypes
  <2> QED BY <1>2, <1>3, <2>1 DEF TargetsLast, FailedPassed
<1>7. NothingForTheGone' /\ QuietBetweenTicks'
  BY <1>2, <1>3 DEF NothingForTheGone, QuietBetweenTicks, Published
<1>8. \A t \in Subscriber : Contains(subscribers, t)' <=> Contains(subscribers, t) \/ t = s
  BY <1>1, <1>3, ContainsAppend DEF FeedTypes
<1>9. SubscriberStream'
  <2> SUFFICES ASSUME NEW t \in receiving' PROVE StreamOf(t)'
    BY DEF SubscriberStream, StreamOf
  <2>1. CASE t = s
    <3>1. queue'[t] = <<>> /\ heard'[t] = sent /\ sent' = sent
      BY <1>1, <1>3, <2>1 DEF NothingForTheGone, FeedTypes
    <3>2. ~Lagged(t)'
      BY <1>2, <1>3, <1>8, <2>1 DEF Lagged
    <3>3. ~Contains(targets, t)'
      BY <1>2, <1>3, NoneContained
    <3>4. (sent + 0) % Period = sent
      <4>1. sent + 0 = sent
        BY <1>1 DEF FeedTypes
      <4> QED BY <1>1, <4>1, ModSmall DEF FeedTypes
    <3>5. Len(<<>>) + 0 = 0 /\ DOMAIN <<>> = {}
      OBVIOUS
    <3> QED BY <3>1, <3>2, <3>3, <3>4, <3>5 DEF StreamOf, Position
  <2>2. CASE t # s
    <3>1. t \in receiving /\ t \in Subscriber /\ heard'[t] = heard[t]
      BY <1>1, <1>3, <2>2 DEF FeedTypes
    <3>2. StreamOf(t)
      BY <3>1, StreamParts
    <3>3. Lagged(t)' <=> Lagged(t)
      BY <1>3, <1>8, <2>2, <3>1 DEF Lagged
    <3> QED BY <1>3, <3>1, <3>2, <3>3 DEF StreamOf, Position
  <2> QED BY <2>1, <2>2
<1> QED BY <1>4, <1>5, <1>6, <1>7, <1>9

LEMMA StartRecordKeeps ==
    ASSUME FeedInv, StartRecord, phase' = phase
    PROVE  FeedInv'
<1> USE DEF FeedInv
<1>1. FeedTypes
  OBVIOUS
<1>2. /\ targets = <<>> /\ failed = {} /\ failed' = {}
      /\ targets' = subscribers
      /\ sent' = (sent + 1) % Period
      /\ UNCHANGED <<subscribers, queue, receiving, heard>>
      /\ phase' = "ticking"
  <2>1. targets = <<>> /\ outbox > 0
    BY DEF StartRecord
  <2>2. outbox # 0
    BY <2>1
  <2> QED BY <2>1, <2>2 DEF StartRecord, QuietBetweenTicks, Published, FailedPassed
<1>3. FeedTypes'
  <2>1. sent + 1 \in Nat
    BY <1>1 DEF FeedTypes
  <2>2. (sent + 1) % Period \in 0 .. Period - 1
    BY <2>1, ModType
  <2> QED BY <1>1, <1>2, <2>2 DEF FeedTypes
<1>4. Distinct(subscribers)' /\ NothingForTheGone' /\ QuietBetweenTicks' /\ FailedPassed'
  BY <1>2 DEF Distinct, NothingForTheGone, QuietBetweenTicks, FailedPassed
<1>5. TargetsLast'
  <2>1. Len(subscribers) \in Nat
    BY <1>1 DEF FeedTypes
  <2>2. \A i \in 1 .. Len(subscribers) : Len(subscribers) - Len(subscribers) + i = i
    BY <2>1
  <2> QED BY <1>2, <2>1, <2>2 DEF TargetsLast
<1>6. SubscriberStream'
  <2> SUFFICES ASSUME NEW t \in receiving' PROVE StreamOf(t)'
    BY DEF SubscriberStream, StreamOf
  <2>1. t \in receiving /\ t \in Subscriber /\ StreamOf(t)
    BY <1>1, <1>2, StreamParts DEF FeedTypes
  <2>2. Lagged(t)' <=> Lagged(t)
    BY <1>2 DEF Lagged
  <2>3. ASSUME ~Lagged(t) PROVE Position(t, Len(queue[t]) + 1) = (sent + 1) % Period
    <3> DEFINE a == heard[t] + Len(queue[t])
    <3>1. ~Contains(targets, t)
      BY <1>2, NoneContained
    <3>2. heard[t] \in Nat /\ Len(queue[t]) \in Nat
      BY <1>1, <2>1 DEF FeedTypes
    <3>3. a \in Nat /\ a % Period = sent
      <4>1. (heard[t] + (Len(queue[t]) + 0)) % Period = sent
        BY <2>1, <2>3, <3>1 DEF StreamOf, Position
      <4>2. heard[t] + (Len(queue[t]) + 0) = a
        BY <3>2
      <4> QED BY <3>2, <4>1, <4>2
    <3>4. ((a % Period) + 1) % Period = (a + 1) % Period
      <4> HIDE DEF a
      <4> QED BY <3>3, ModAdd
    <3>5. heard[t] + (Len(queue[t]) + 1) = a + 1
      BY <3>2
    <3> HIDE DEF a
    <3> QED BY <3>3, <3>4, <3>5 DEF Position
  <2>4. ~Lagged(t) => Contains(targets, t)'
    BY <1>2 DEF Lagged
  <2> QED BY <1>2, <2>1, <2>2, <2>3, <2>4 DEF StreamOf, Position
<1> QED BY <1>3, <1>4, <1>5, <1>6

\* The first target, and the list after it.
LEMMA FirstTarget ==
    ASSUME FeedInv, targets # <<>>
    PROVE  /\ Len(targets) \in Nat \ {0}
           /\ Head(targets) = targets[1]
           /\ Head(targets) \in Subscriber
           /\ Contains(targets, Head(targets))
           /\ Contains(subscribers, Head(targets))
           /\ Tail(targets) \in Seq(Subscriber)
           /\ Len(Tail(targets)) = Len(targets) - 1
           /\ \A i \in 1 .. Len(targets) - 1 : Tail(targets)[i] = targets[i + 1]
           /\ \A t : Contains(Tail(targets), t) <=> Contains(targets, t) /\ t # Head(targets)
           /\ \A t : Contains(targets, t) => Contains(subscribers, t)
<1> DEFINE n == Len(targets)
           m == Len(subscribers)
<1>1. targets \in Seq(Subscriber) /\ subscribers \in Seq(Subscriber) /\ n \in Nat /\ m \in Nat
  BY DEF FeedInv, FeedTypes
<1>2. n # 0
  BY <1>1, EmptySeq
<1>3. /\ Head(targets) = targets[1]
      /\ Head(targets) \in Subscriber
      /\ Tail(targets) \in Seq(Subscriber)
      /\ Len(Tail(targets)) = n - 1
      /\ \A i \in 1 .. n - 1 : Tail(targets)[i] = targets[i + 1]
  BY <1>1, <1>2, HeadTailProperties
<1>4. n <= m /\ \A i \in 1 .. n : targets[i] = subscribers[m - n + i]
  BY DEF FeedInv, TargetsLast
<1>5. \A i \in 1 .. n : m - n + i \in 1 .. m
  BY <1>1, <1>4
<1>6. \A i, k \in 1 .. n : targets[i] = targets[k] => i = k
  <2> SUFFICES ASSUME NEW i \in 1 .. n, NEW k \in 1 .. n, targets[i] = targets[k] PROVE i = k
    OBVIOUS
  <2>1. m - n + i = m - n + k
    BY <1>4, <1>5 DEF FeedInv, Distinct
  <2> QED BY <1>1, <2>1
<1>7. 1 \in 1 .. n
  BY <1>1, <1>2
<1>8. Contains(targets, Head(targets)) /\ \A t : Contains(targets, t) => Contains(subscribers, t)
  BY <1>3, <1>4, <1>5, <1>7 DEF Contains
<1>9. ASSUME NEW t PROVE Contains(Tail(targets), t) <=> Contains(targets, t) /\ t # Head(targets)
  <2>1. \A i \in 1 .. n - 1 : i + 1 \in 1 .. n /\ i + 1 # 1
    BY <1>1
  <2>2. \A i \in 1 .. n : i # 1 => i - 1 \in 1 .. n - 1 /\ (i - 1) + 1 = i
    BY <1>1
  <2>3. ASSUME Contains(Tail(targets), t) PROVE Contains(targets, t) /\ t # Head(targets)
    <3>1. PICK i \in 1 .. n - 1 : Tail(targets)[i] = t
      BY <1>3, <2>3 DEF Contains
    <3>2. targets[i + 1] = t
      BY <1>3, <3>1
    <3> QED BY <1>3, <1>6, <1>7, <2>1, <3>2 DEF Contains
  <2>4. ASSUME Contains(targets, t), t # Head(targets) PROVE Contains(Tail(targets), t)
    <3>1. PICK i \in 1 .. n : targets[i] = t
      BY <2>4 DEF Contains
    <3>2. i - 1 \in 1 .. n - 1 /\ (i - 1) + 1 = i
      BY <1>3, <2>2, <2>4, <3>1
    <3>3. Tail(targets)[i - 1] = t
      BY <1>3, <3>1, <3>2
    <3> QED BY <1>3, <3>2, <3>3 DEF Contains
  <2> QED BY <2>3, <2>4
<1> QED BY <1>1, <1>2, <1>3, <1>8, <1>9

\* Going on to the next target; nowFailed are the failed, perhaps with the
\* first target.
LEMMA NextTargetKeeps ==
    ASSUME FeedInv, targets # <<>>, NEW nowFailed, NextTarget(nowFailed),
           failed \subseteq nowFailed, nowFailed \subseteq failed \cup {Head(targets)}
    PROVE  /\ subscribers' \in Seq(Subscriber)
           /\ targets' \in Seq(Subscriber)
           /\ failed' \subseteq Subscriber
           /\ Distinct(subscribers)'
           /\ TargetsLast'
           /\ FailedPassed'
           /\ \A t : Contains(targets, t)' <=> Contains(targets, t) /\ t # Head(targets)
           /\ \A t : Lagged(t)' <=> t \in nowFailed \/ ~Contains(subscribers, t)
<1> DEFINE n == Len(targets)
           m == Len(subscribers)
<1>1. /\ targets' = Tail(targets)
      /\ targets' \in Seq(Subscriber)
      /\ Len(targets') = n - 1
      /\ n \in Nat \ {0}
      /\ \A i \in 1 .. n - 1 : targets'[i] = targets[i + 1]
      /\ \A t : Contains(targets, t)' <=> Contains(targets, t) /\ t # Head(targets)
  BY FirstTarget DEF NextTarget, Contains
<1>2. /\ subscribers \in Seq(Subscriber) /\ m \in Nat
      /\ nowFailed \subseteq Subscriber
      /\ n <= m
      /\ \A i \in 1 .. n : targets[i] = subscribers[m - n + i]
      /\ \A t \in nowFailed : Contains(subscribers, t)
  BY FirstTarget DEF FeedInv, FeedTypes, TargetsLast, FailedPassed
<1>3. CASE n = 1
  <2>1. subscribers' = Without(subscribers, nowFailed) /\ failed' = {} /\ Len(targets') = 0
    BY <1>1, <1>3 DEF NextTarget
  <2>2. /\ subscribers' \in Seq(Subscriber)
        /\ Distinct(subscribers)'
        /\ \A t : Contains(subscribers, t)' <=> Contains(subscribers, t) /\ t \notin nowFailed
    <3>1. Distinct(subscribers)
      BY DEF FeedInv
    <3>2. /\ subscribers' \in Seq(Subscriber)
          /\ Distinct(subscribers')
          /\ \A t : Contains(subscribers', t) <=> Contains(subscribers, t) /\ t \notin nowFailed
      BY <1>2, <2>1, <3>1, WithoutKeeps
    <3> QED BY <3>2 DEF Distinct, Contains
  <2>3. TargetsLast'
    <3>1. Len(subscribers') \in Nat /\ 1 .. 0 = {}
      BY <2>2
    <3> QED BY <2>1, <3>1 DEF TargetsLast
  <2>4. FailedPassed' /\ \A t : Lagged(t)' <=> t \in nowFailed \/ ~Contains(subscribers, t)
    BY <2>1, <2>2 DEF FailedPassed, Lagged
  <2> QED BY <1>1, <2>1, <2>2, <2>3, <2>4
<1>4. CASE n # 1
  <2>1. subscribers' = subscribers /\ failed' = nowFailed
    BY <1>4 DEF NextTarget
  <2>2. Distinct(subscribers)'
    BY <2>1 DEF FeedInv, Distinct
  <2>3. TargetsLast'
    <3>1. n - 1 <= m /\ \A i \in 1 .. n - 1 : i + 1 \in 1 .. n /\ m - n + (i + 1) = m - (n - 1) + i
      BY <1>1, <1>2
    <3> HIDE DEF n, m
    <3>2. \A i \in 1 .. n - 1 : targets'[i] = subscribers[m - (n - 1) + i]
      BY <1>1, <1>2, <3>1
    <3> QED BY <1>1, <2>1, <3>1, <3>2 DEF TargetsLast, m
  <2>4. FailedPassed'
    <3>1. targets' # <<>>
      <4>1. Len(targets') # 0 /\ Len(<<>>) = 0
        BY <1>1, <1>4
      <4> QED BY <4>1
    <3>2. \A t \in nowFailed : ~Contains(targets, t)'
      BY <1>1 DEF FeedInv, FailedPassed
    <3>3. \A t : Contains(subscribers, t)' <=> Contains(subscribers, t)
      BY <2>1 DEF Contains
    <3> QED BY <1>2, <2>1, <3>1, <3>2, <3>3 DEF FailedPassed
  <2>5. \A t : Lagged(t)' <=> t \in nowFailed \/ ~Contains(subscribers, t)
    BY <2>1 DEF Lagged, Contains
  <2> QED BY <1>1, <1>2, <2>1, <2>2, <2>3, <2>4, <2>5
<1> QED BY <1>3, <1>4

LEMMA DeliverKeeps ==
    ASSUME FeedInv, Deliver, phase' = phase
    PROVE  FeedInv'
<1> DEFINE h == Head(targets)
<1>1. /\ targets # <<>> /\ h \in receiving
      /\ queue' = [queue EXCEPT ![h] = Append(@, sent)]
      /\ UNCHANGED <<receiving, outbox, sent, heard>>
      /\ NextTarget(failed)
  BY DEF Deliver
<1>2. /\ subscribers' \in Seq(Subscriber)
      /\ targets' \in Seq(Subscriber)
      /\ failed' \subseteq Subscriber
      /\ Distinct(subscribers)'
      /\ TargetsLast'
      /\ FailedPassed'
      /\ \A t : Contains(targets, t)' <=> Contains(targets, t) /\ t # h
      /\ \A t : Lagged(t)' <=> t \in failed \/ ~Contains(subscribers, t)
  BY <1>1, NextTargetKeeps
<1>3. FeedTypes /\ h \in Subscriber /\ sent \in Nat /\ Contains(targets, h) /\ Contains(subscribers, h)
  BY <1>1, FirstTarget DEF FeedInv, FeedTypes
<1>4. FeedTypes'
  BY <1>1, <1>2, <1>3 DEF FeedTypes
<1>5. NothingForTheGone'
  BY <1>1, <1>3 DEF FeedInv, FeedTypes, NothingForTheGone
<1>6. QuietBetweenTicks'
  BY <1>1 DEF FeedInv, QuietBetweenTicks, Published
<1>7. SubscriberStream'
  <2> SUFFICES ASSUME NEW t \in receiving' PROVE StreamOf(t)'
    BY DEF SubscriberStream, StreamOf
  <2>1. t \in receiving /\ t \in Subscriber /\ StreamOf(t) /\ heard'[t] = heard[t] /\ sent' = sent
    BY <1>1, <1>3, StreamParts DEF FeedInv, FeedTypes
  <2>2. Lagged(t)' <=> Lagged(t)
    BY <1>2 DEF Lagged
  <2>3. CASE t # h
    <3>1. queue'[t] = queue[t] /\ (Contains(targets, t)' <=> Contains(targets, t))
      BY <1>1, <1>2, <1>3, <2>1, <2>3 DEF FeedTypes
    <3> QED BY <2>1, <2>2, <3>1 DEF StreamOf, Position
  <2>4. CASE t = h
    <3> DEFINE n == Len(queue[t])
    <3>1. ~Lagged(t)
      BY <1>3, <2>4 DEF FeedInv, FailedPassed, Lagged
    <3>2. Position(t, n + 1) = sent
      BY <1>3, <2>1, <2>4, <3>1 DEF StreamOf
    <3>3. /\ queue[t] \in Seq(Nat) /\ n \in Nat
          /\ queue'[t] = Append(queue[t], sent)
      BY <1>1, <1>3, <2>1, <2>4 DEF FeedTypes
    <3>4. /\ Len(queue'[t]) = n + 1
          /\ DOMAIN queue'[t] = 1 .. n + 1
          /\ DOMAIN queue[t] = 1 .. n
          /\ queue'[t][n + 1] = sent
          /\ \A i \in 1 .. n : queue'[t][i] = queue[t][i]
      BY <1>3, <3>3
    <3>5. ~Contains(targets, t)'
      BY <1>2, <2>4
    <3> HIDE DEF n
    <3>6. \A i \in 1 .. n + 1 : i \in 1 .. n \/ i = n + 1
      BY <3>3
    <3>7. \A i \in DOMAIN queue'[t] : queue'[t][i] = Position(t, i)'
      BY <2>1, <3>2, <3>4, <3>6 DEF StreamOf, Position
    <3>8. Position(t, Len(queue[t]) + 0)' = sent'
      BY <2>1, <3>2, <3>3, <3>4 DEF Position
    <3> QED BY <2>2, <3>1, <3>5, <3>7, <3>8 DEF StreamOf
  <2> QED BY <2>3, <2>4
<1> QED BY <1>2, <1>4, <1>5, <1>6, <1>7 DEF FeedInv

LEMMA FailToDeliverKeeps ==
    ASSUME FeedInv, FailToDeliver, phase' = phase
    PROVE  FeedInv'
<1> DEFINE h == Head(targets)
           nowFailed == failed \cup {h}
<1>1. /\ targets # <<>>
      /\ h \in receiving => h \in Slow
      /\ UNCHANGED <<queue, receiving, outbox, sent, heard>>
      /\ NextTarget(nowFailed)
  BY DEF FailToDeliver, Unreachable
<1>2. /\ subscribers' \in Seq(Subscriber)
      /\ targets' \in Seq(Subscriber)
      /\ failed' \subseteq Subscriber
      /\ Distinct(subscribers)'
      /\ TargetsLast'
      /\ FailedPassed'
      /\ \A t : Contains(targets, t)' <=> Contains(targets, t) /\ t # h
      /\ \A t : Lagged(t)' <=> t \in nowFailed \/ ~Contains(subscribers, t)
  <2> HIDE DEF nowFailed
  <2>1. failed \subseteq nowFailed /\ nowFailed \subseteq failed \cup {Head(targets)}
    BY DEF nowFailed
  <2> QED BY <1>1, <2>1, NextTargetKeeps
<1>3. FeedTypes'
  BY <1>1, <1>2 DEF FeedInv, FeedTypes
<1>4. NothingForTheGone'
  BY <1>1 DEF FeedInv, NothingForTheGone
<1>5. QuietBetweenTicks'
  BY <1>1 DEF FeedInv, QuietBetweenTicks, Published
<1>6. SubscriberStream'
  <2> SUFFICES ASSUME NEW t \in receiving' PROVE StreamOf(t)'
    BY DEF SubscriberStream, StreamOf
  <2>1. t \in receiving /\ StreamOf(t)
    BY <1>1, StreamParts DEF FeedInv
  <2>2. Lagged(t)' <=> Lagged(t) \/ t = h
    BY <1>2 DEF Lagged
  <2>3. t # h => (Contains(targets, t)' <=> Contains(targets, t))
    BY <1>2
  <2> QED BY <1>1, <2>1, <2>2, <2>3 DEF StreamOf, Position
<1> QED BY <1>2, <1>3, <1>4, <1>5, <1>6 DEF FeedInv

LEMMA ConsumeKeeps ==
    ASSUME FeedInv, NEW s \in Subscriber, Consume(s), phase' = phase
    PROVE  FeedInv'
<1>1. /\ s \in receiving /\ queue[s] # <<>>
      /\ heard' = [heard EXCEPT ![s] = Head(queue[s])]
      /\ queue' = [queue EXCEPT ![s] = Tail(queue[s])]
      /\ UNCHANGED <<subscribers, receiving, outbox, sent, targets, failed>>
  BY DEF Consume
<1>2. FeedTypes
  BY DEF FeedInv
<1> DEFINE q == queue[s]
           n == Len(q)
<1>3. q \in Seq(Nat) /\ n \in Nat
  BY <1>2 DEF FeedTypes
<1>4. n # 0
  BY <1>1, <1>3, EmptySeq
<1>5. /\ Head(q) = q[1]
      /\ Tail(q) \in Seq(Nat)
      /\ Len(Tail(q)) = n - 1
      /\ \A i \in 1 .. n - 1 : Tail(q)[i] = q[i + 1]
  BY <1>1, <1>3, <1>4, HeadTailProperties
<1>6. StreamOf(s)
  BY <1>1, StreamParts DEF FeedInv
<1>7. heard[s] \in Nat /\ heard[s] + 1 \in Nat /\ Head(q) = (heard[s] + 1) % Period
  <2>1. 1 \in DOMAIN q
    BY <1>3, <1>4
  <2>2. q[1] = (heard[s] + 1) % Period
    BY <1>6, <2>1 DEF StreamOf, Position
  <2>3. heard[s] \in Nat
    BY <1>2 DEF FeedTypes
  <2> QED BY <1>5, <2>2, <2>3
<1>8. Head(q) \in 0 .. Period - 1
  BY <1>7, ModType
<1>9. FeedTypes'
  BY <1>1, <1>2, <1>5, <1>8 DEF FeedTypes
<1>10. Distinct(subscribers)' /\ TargetsLast' /\ FailedPassed' /\ QuietBetweenTicks'
  BY <1>1 DEF FeedInv, Distinct, TargetsLast, FailedPassed, QuietBetweenTicks, Published
<1>11. NothingForTheGone'
  BY <1>1, <1>2 DEF FeedInv, FeedTypes, NothingForTheGone
<1>12. \A k \in Nat : (heard'[s] + k) % Period = Position(s, k + 1)
  <2> SUFFICES ASSUME NEW k \in Nat PROVE (heard'[s] + k) % Period = Position(s, k + 1)
    OBVIOUS
  <2>1. heard'[s] = (heard[s] + 1) % Period
    BY <1>1, <1>2, <1>7 DEF FeedTypes
  <2>2. (((heard[s] + 1) % Period) + k) % Period = ((heard[s] + 1) + k) % Period
    BY <1>7, ModAdd
  <2>3. (heard[s] + 1) + k = heard[s] + (k + 1)
    BY <1>7
  <2> QED BY <2>1, <2>2, <2>3 DEF Position
<1>13. SubscriberStream'
  <2> SUFFICES ASSUME NEW t \in receiving' PROVE StreamOf(t)'
    BY DEF SubscriberStream, StreamOf
  <2>1. t \in receiving /\ t \in Subscriber /\ StreamOf(t)
    BY <1>1, <1>2, StreamParts DEF FeedInv, FeedTypes
  <2>2. Lagged(t)' <=> Lagged(t)
    BY <1>1 DEF Lagged
  <2>3. CASE t # s
    <3>1. queue'[t] = queue[t] /\ heard'[t] = heard[t]
      BY <1>1, <1>2, <2>1, <2>3 DEF FeedTypes
    <3> QED BY <1>1, <2>1, <2>2, <3>1 DEF StreamOf, Position
  <2>4. CASE t = s
    <3>1. queue'[t] = Tail(q)
      BY <1>1, <1>2, <2>4 DEF FeedTypes
    <3> HIDE DEF q
    <3>2. DOMAIN Tail(q) = 1 .. n - 1 /\ DOMAIN q = 1 .. n
      BY <1>3, <1>5
    <3>3. ASSUME NEW i \in 1 .. n - 1 PROVE Tail(q)[i] = (heard'[t] + i) % Period
      <4>1. i \in Nat /\ i + 1 \in 1 .. n
        BY <1>3
      <4>2. q[i + 1] = Position(s, i + 1)
        BY <1>6, <3>2, <4>1 DEF StreamOf, q
      <4> QED BY <1>5, <1>12, <2>4, <4>1, <4>2
    <3> HIDE DEF n
    <3>4. \A i \in DOMAIN queue'[t] : queue'[t][i] = Position(t, i)'
      BY <3>1, <3>2, <3>3 DEF Position
    <3>5. ASSUME ~Lagged(t)
          PROVE  Position(t, Len(queue[t]) + (IF Contains(targets, t) THEN 1 ELSE 0))' = sent'
      <4>1. PICK k \in {0, 1} : k = IF Contains(targets, t) THEN 1 ELSE 0
        OBVIOUS
      <4>2. Position(t, n + k) = sent
        BY <2>1, <2>4, <3>5, <4>1 DEF StreamOf, q, n
      <4>3. n - 1 + k \in Nat /\ (n - 1 + k) + 1 = n + k
        BY <1>3, <1>4
      <4>4. (heard'[t] + (n - 1 + k)) % Period = sent
        BY <1>12, <2>4, <4>2, <4>3
      <4>5. Len(queue'[t]) = n - 1
        BY <1>5, <3>1
      <4>6. k = IF Contains(targets', t) THEN 1 ELSE 0
        BY <1>1, <4>1
      <4> QED BY <1>1, <4>4, <4>5, <4>6 DEF Position
    <3> QED BY <2>1, <2>2, <3>4, <3>5 DEF StreamOf
  <2> QED BY <2>3, <2>4
<1> QED BY <1>9, <1>10, <1>11, <1>13 DEF FeedInv

LEMMA CloseReceiverKeeps ==
    ASSUME FeedInv, NEW s \in Subscriber, CloseReceiver(s), phase' = phase
    PROVE  FeedInv'
<1>1. /\ s \in receiving /\ receiving' = receiving \ {s}
      /\ queue' = [queue EXCEPT ![s] = <<>>]
      /\ heard' = [heard EXCEPT ![s] = 0]
      /\ sent' = IF receiving = {s} THEN 0 ELSE sent
      /\ UNCHANGED <<subscribers, outbox, targets, failed>>
  BY DEF CloseReceiver
<1>2. FeedTypes /\ 0 \in 0 .. Period - 1
  BY PeriodPositive DEF FeedInv
<1>3. FeedTypes'
  BY <1>1, <1>2 DEF FeedTypes
<1>4. Distinct(subscribers)' /\ TargetsLast' /\ FailedPassed' /\ QuietBetweenTicks'
  BY <1>1 DEF FeedInv, Distinct, TargetsLast, FailedPassed, QuietBetweenTicks, Published
<1>5. NothingForTheGone'
  BY <1>1, <1>2 DEF FeedInv, FeedTypes, NothingForTheGone
<1>6. SubscriberStream'
  <2> SUFFICES ASSUME NEW t \in receiving' PROVE StreamOf(t)'
    BY DEF SubscriberStream, StreamOf
  <2>1. t \in receiving /\ t \in Subscriber /\ t # s /\ StreamOf(t)
    BY <1>1, <1>2, StreamParts DEF FeedInv, FeedTypes
  <2>2. sent' = sent /\ queue'[t] = queue[t] /\ heard'[t] = heard[t]
    BY <1>1, <1>2, <2>1 DEF FeedTypes
  <2>3. Lagged(t)' <=> Lagged(t)
    BY <1>1 DEF Lagged
  <2> QED BY <1>1, <2>1, <2>2, <2>3 DEF StreamOf, Position
<1> QED BY <1>3, <1>4, <1>5, <1>6 DEF FeedInv

\* Every step of the driver, its consumers and its crashes.
LEMMA FeedInvStep ==
    ASSUME FeedInv, [Next]_vars
    PROVE  FeedInv'
<1>1. \/ Next
      \/ UNCHANGED vars
  OBVIOUS
<1>2. CASE UNCHANGED vars
  BY <1>2, FeedAlone DEF vars, control, feed, FeedInv, QuietBetweenTicks, Published
<1>3. ASSUME NEW d \in Input, AppendInput(d) PROVE FeedInv'
  BY <1>3, FeedAlone DEF AppendInput, control, feed, FeedInv, QuietBetweenTicks, Published
<1>4. ASSUME NEW records, Drain(records) PROVE FeedInv'
  BY <1>4, FeedAlone DEF Drain
<1>5. CASE BeginTick
  BY <1>4, <1>5 DEF BeginTick
<1>6. CASE EndTick
  BY <1>6, FeedAlone DEF EndTick, feed, Published
<1>7. CASE MaybeCheckpoint
  BY <1>7, FeedAlone DEF MaybeCheckpoint, feed, FeedInv, QuietBetweenTicks, Published
<1>8. CASE SkipCheckpoint
  BY <1>8, FeedAlone DEF SkipCheckpoint, feed, FeedInv, QuietBetweenTicks, Published
<1>9. CASE Checkpoint
  <2>1. CASE pending # <<>>
    BY <1>4, <1>9, <2>1 DEF Checkpoint
  <2>2. CASE pending = <<>>
    BY <1>9, <2>2, FeedAlone DEF Checkpoint, feed, FeedInv, QuietBetweenTicks, Published
  <2> QED BY <2>1, <2>2
<1>10. ASSUME NEW n \in synced .. Len(wal), Crash(n) PROVE FeedInv'
  BY <1>10, LostFeedStarts DEF Crash
<1>11. CASE ReplayTick
  BY <1>4, <1>11 DEF ReplayTick
<1>12. CASE FinishRecovery
  BY <1>12, FeedAlone DEF FinishRecovery, feed, FeedInv, QuietBetweenTicks, Published
<1>13. ASSUME NEW s \in Subscriber, NewSubscriber(s) PROVE FeedInv'
  BY <1>13, SubscribeKeeps DEF NewSubscriber, control
<1>14. ASSUME NEW s \in Subscriber, ConsumerStep(s) PROVE FeedInv'
  BY <1>14, ConsumeKeeps DEF ConsumerStep, control
<1>15. ASSUME NEW s \in Subscriber, ConsumerStops(s) PROVE FeedInv'
  BY <1>15, CloseReceiverKeeps DEF ConsumerStops, control
<1>16. CASE PublishStep
  BY <1>16, StartRecordKeeps, DeliverKeeps, FailToDeliverKeeps DEF PublishStep, Publish, control
<1> QED BY <1>1, <1>2, <1>3, <1>5, <1>6, <1>7, <1>8, <1>9, <1>10, <1>11, <1>12, <1>13,
           <1>14, <1>15, <1>16 DEF Next

\* FeedInv is an invariant of the driver.
LEMMA FeedInvHolds == Spec => []FeedInv
<1>1. Init => FeedInv
  BY EmptyFeedStarts DEF Init
<1>2. FeedInv /\ [Next]_vars => FeedInv'
  BY FeedInvStep
<1> QED BY <1>1, <1>2, PTL DEF Spec

\* change_feed.rs, for every number of subscribers of either lag policy, every
\* channel capacity and whatever ticks, crashes and replays feed it: a consumer
\* gets the stream from its subscription on, in order, with no record missing
\* or twice, and only a DisconnectSlow subscriber that lagged is taken off.
THEOREM SubscribersHearTheStream == Spec => []SubscriberStream
<1>1. FeedInv => SubscriberStream
  BY DEF FeedInv
<1> QED BY <1>1, FeedInvHolds, PTL

(***************************************************************************)
(* The input log.                                                          *)
(***************************************************************************)
\* The inputs the driver may have appended in its first n events.
Logged(n) == [kind : {"input"}, seq : 0 .. n - 1, triple : Triple, mult : Int]
Entry(n) == Logged(n) \cup {TickCommit}
Replays(n) == [ticks : Seq(Seq(Logged(n))), pending : Seq(Logged(n))]

LEMMA SeqMonotone ==
    ASSUME NEW X, NEW Y, X \subseteq Y
    PROVE  Seq(X) \subseteq Seq(Y)
<1> SUFFICES ASSUME NEW s \in Seq(X) PROVE s \in Seq(Y)
  OBVIOUS
<1>1. \A i \in 1 .. Len(s) : s[i] \in Y
  OBVIOUS
<1>2. s = [i \in 1 .. Len(s) |-> s[i]] /\ Len(s) \in Nat
  OBVIOUS
<1> QED BY <1>1, <1>2, IsASeq

LEMMA AppendConcat ==
    ASSUME NEW X, NEW s \in Seq(X), NEW t \in Seq(X), NEW x \in X
    PROVE  s \o Append(t, x) = Append(s \o t, x)
OBVIOUS

LEMMA LogGrows ==
    ASSUME NEW n \in Nat
    PROVE  /\ Logged(n) \subseteq Logged(n + 1)
           /\ Seq(Logged(n)) \subseteq Seq(Logged(n + 1))
           /\ Seq(Entry(n)) \subseteq Seq(Entry(n + 1))
           /\ Replays(n) \subseteq Replays(n + 1)
<1>1. Logged(n) \subseteq Logged(n + 1)
  BY DEF Logged
<1>2. Entry(n) \subseteq Entry(n + 1)
  BY <1>1 DEF Entry
<1>3. Seq(Logged(n)) \subseteq Seq(Logged(n + 1)) /\ Seq(Entry(n)) \subseteq Seq(Entry(n + 1))
  BY <1>1, <1>2, SeqMonotone
<1>4. Seq(Seq(Logged(n))) \subseteq Seq(Seq(Logged(n + 1)))
  BY <1>3, SeqMonotone
<1> QED BY <1>1, <1>3, <1>4 DEF Replays

LEMMA EntryKinds ==
    ASSUME NEW n, NEW e \in Entry(n)
    PROVE  /\ e.kind = "input" => e \in Logged(n)
           /\ e.kind # "input" => e = TickCommit
BY DEF Entry, Logged, TickCommit

LEMMA LoggedKind ==
    ASSUME NEW n
    PROVE  /\ \A e \in Logged(n) : e.kind = "input" /\ e \in Entry(n)
           /\ TickCommit \in Entry(n) /\ TickCommit.kind # "input"
           /\ Summable(Logged(n))
BY DEF Entry, Logged, TickCommit, Summable

-----------------------------------------------------------------------------
(* What the folds over the log compute.                                      *)

Ip == INSTANCE FoldFacts WITH
        Op   <- LAMBDA c, in, e : IF e.kind = "input" THEN Append(in, e) ELSE in,
        Size <- Cardinality

LEMMA IpInductive == Ip!Inductive
BY Induction DEF Ip!Inductive

LEMMA InputsFold == \A s : Inputs(s) = Ip!Folded(0, <<>>, s)
BY DEF Inputs, Ip!Folded, FoldLeft, MapThenFoldSet, Ip!MapThenFoldSet, Max, Ip!Latest

LEMMA InputsNone == Inputs(<<>>) = <<>>
BY InputsFold, IpInductive, Ip!FoldNone

LEMMA InputsOn ==
    ASSUME NEW X, NEW s \in Seq(X), NEW e \in X
    PROVE  Inputs(Append(s, e)) = IF e.kind = "input" THEN Append(Inputs(s), e) ELSE Inputs(s)
BY InputsFold, IpInductive, Ip!FoldOn

LEMMA InputsType ==
    ASSUME NEW n, NEW s \in Seq(Entry(n))
    PROVE  Inputs(s) \in Seq(Logged(n))
<1>1. ASSUME NEW in \in Seq(Logged(n)), NEW e \in Entry(n)
      PROVE  (IF e.kind = "input" THEN Append(in, e) ELSE in) \in Seq(Logged(n))
  <2>1. CASE e.kind = "input"
    <3>1. e \in Logged(n)
      BY <2>1, EntryKinds
    <3> HIDE DEF Logged
    <3> QED BY <2>1, <3>1
  <2> QED BY <2>1
<1>2. <<>> \in Seq(Logged(n))
  OBVIOUS
<1> DEFINE none == <<>>
           P == Seq(Logged(n))
<1>3. none \in P
  BY <1>2
<1>4. Ip!Folded(0, none, s) \in P
  <2> HIDE DEF none, P
  <2>1. \A in \in P, e \in Entry(n) : (IF e.kind = "input" THEN Append(in, e) ELSE in) \in P
    BY <1>1 DEF P
  <2> QED BY <1>3, <2>1, IpInductive, Ip!FoldIn
<1> QED BY <1>4, InputsFold

LEMMA InputsConcat ==
    ASSUME NEW n, NEW s \in Seq(Entry(n)), NEW t \in Seq(Entry(n))
    PROVE  Inputs(s \o t) = Inputs(s) \o Inputs(t)
<1> DEFINE X == Entry(n)
           S == {u \in Seq(X) : Inputs(s \o u) = Inputs(s) \o Inputs(u)}
<1>1. <<>> \in S
  <2>1. s \o <<>> = s /\ <<>> \in Seq(X)
    OBVIOUS
  <2>2. Inputs(s) \o <<>> = Inputs(s)
    BY InputsType
  <2> QED BY <2>1, <2>2, InputsNone
<1>2. ASSUME NEW u \in Seq(X), NEW e \in X, u \in S PROVE Append(u, e) \in S
  <2> DEFINE v == s \o u
  <2>1. v \in Seq(X) /\ s \o Append(u, e) = Append(v, e) /\ Append(u, e) \in Seq(X)
    OBVIOUS
  <2>2. Inputs(v) = Inputs(s) \o Inputs(u)
    BY <1>2
  <2>3. Inputs(s) \in Seq(Logged(n)) /\ Inputs(u) \in Seq(Logged(n))
    BY InputsType
  <2> HIDE DEF v
  <2>4. Inputs(Append(v, e)) = IF e.kind = "input" THEN Append(Inputs(v), e) ELSE Inputs(v)
    BY <2>1, InputsOn
  <2>5. Inputs(Append(u, e)) = IF e.kind = "input" THEN Append(Inputs(u), e) ELSE Inputs(u)
    BY InputsOn
  <2>6. CASE e.kind = "input"
    <3>1. e \in Logged(n)
      BY <2>6, EntryKinds
    <3> DEFINE a == Inputs(s)
               b == Inputs(u)
               Y == Logged(n)
    <3>2. a \in Seq(Y) /\ b \in Seq(Y) /\ e \in Y
      BY <2>3, <3>1
    <3> HIDE DEF a, b, Y
    <3>3. a \o Append(b, e) = Append(a \o b, e)
      BY <3>2, AppendConcat
    <3> QED BY <2>1, <2>2, <2>4, <2>5, <2>6, <3>3 DEF a, b
  <2>7. CASE e.kind # "input"
    BY <2>1, <2>2, <2>4, <2>5, <2>7
  <2> QED BY <2>6, <2>7
<1>3. \A u \in Seq(X) : u \in S
  <2> HIDE DEF S, X
  <2> QED BY <1>1, <1>2, IpInductive, Ip!SeqInduction
<1> QED BY <1>3

\* A concatenation of batches.
Joined(c, in, b) == in \o b
Cat == INSTANCE FoldFacts WITH Op <- Joined, Size <- Cardinality

LEMMA CatInductive == Cat!Inductive
BY Induction DEF Cat!Inductive

LEMMA AllFold == \A s : AllOf(s) = Cat!Folded(0, <<>>, s)
BY DEF AllOf, Cat!Folded, FoldLeft, MapThenFoldSet, Cat!MapThenFoldSet, Max, Cat!Latest, Joined

LEMMA AllNone == AllOf(<<>>) = <<>>
BY AllFold, CatInductive, Cat!FoldNone

LEMMA AllOn ==
    ASSUME NEW X, NEW s \in Seq(X), NEW b \in X
    PROVE  AllOf(Append(s, b)) = AllOf(s) \o b
<1>1. AllOf(Append(s, b)) = Joined(0, AllOf(s), b)
  BY AllFold, CatInductive, Cat!FoldOn
<1> QED BY <1>1 DEF Joined

LEMMA AllType ==
    ASSUME NEW Y, NEW s \in Seq(Seq(Y))
    PROVE  AllOf(s) \in Seq(Y)
<1> DEFINE none == <<>>
           P == Seq(Y)
<1>1. none \in P /\ \A in \in P, b \in P : in \o b \in P
  OBVIOUS
<1>2. Cat!Folded(0, none, s) \in P
  <2>1. s \in Seq(P)
    OBVIOUS
  <2> HIDE DEF none, P
  <2>2. \A in \in P, b \in P : Joined(0, in, b) \in P
    BY <1>1 DEF Joined
  <2> QED BY <1>1, <2>1, <2>2, CatInductive, Cat!FoldIn
<1> QED BY <1>2, AllFold

\* The first batch comes first.
LEMMA AllCons ==
    ASSUME NEW Y, NEW b \in Seq(Y), NEW s \in Seq(Seq(Y))
    PROVE  AllOf(<<b>> \o s) = b \o AllOf(s)
<1> DEFINE P == Seq(Y)
           S == {u \in Seq(P) : AllOf(<<b>> \o u) = b \o AllOf(u)}
<1>1. <<>> \in S
  <2>1. <<b>> \o <<>> = Append(<<>>, b)
    OBVIOUS
  <2>2. AllOf(Append(<<>>, b)) = AllOf(<<>>) \o b
    <3> DEFINE none == <<>>
    <3>1. none \in Seq(P)
      OBVIOUS
    <3> HIDE DEF none, P
    <3>2. AllOf(Append(none, b)) = AllOf(none) \o b
      BY <3>1, AllOn DEF P
    <3> QED BY <3>2 DEF none
  <2>3. <<>> \o b = b /\ b \o <<>> = b /\ <<>> \in Seq(P)
    OBVIOUS
  <2>4. AllOf(<<b>> \o <<>>) = b \o AllOf(<<>>)
    BY <2>1, <2>2, <2>3, AllNone
  <2> QED BY <2>3, <2>4
<1>2. ASSUME NEW u \in Seq(P), NEW x \in P, u \in S PROVE Append(u, x) \in S
  <2> DEFINE v == <<b>> \o u
             all == AllOf(u)
  <2>1. v \in Seq(P) /\ <<b>> \o Append(u, x) = Append(v, x) /\ Append(u, x) \in Seq(P)
    OBVIOUS
  <2>2. AllOf(v) = b \o all
    BY <1>2
  <2>3. all \in Seq(Y)
    BY AllType
  <2>4. AllOf(Append(u, x)) = all \o x
    BY AllOn
  <2> HIDE DEF v, all
  <2>5. AllOf(Append(v, x)) = AllOf(v) \o x
    BY <2>1, AllOn
  <2>6. (b \o all) \o x = b \o (all \o x)
    BY <2>3
  <2>7. AllOf(<<b>> \o Append(u, x)) = b \o AllOf(Append(u, x))
    BY <2>1, <2>2, <2>4, <2>5, <2>6
  <2> QED BY <2>1, <2>7
<1>3. \A u \in Seq(P) : u \in S
  <2> HIDE DEF S, P
  <2> QED BY <1>1, <1>2, CatInductive, Cat!SeqInduction
<1> QED BY <1>3

LEMMA AllHead ==
    ASSUME NEW Y, NEW s \in Seq(Seq(Y)), s # <<>>
    PROVE  /\ Head(s) \in Seq(Y)
           /\ Tail(s) \in Seq(Seq(Y))
           /\ AllOf(s) = Head(s) \o AllOf(Tail(s))
<1> DEFINE P == Seq(Y)
<1>1. Head(s) \in P /\ Tail(s) \in Seq(P)
  <2> HIDE DEF P
  <2>1. s \in Seq(P)
    BY DEF P
  <2> QED BY <2>1
<1>2. <<Head(s)>> \o Tail(s) = s
  <2>1. s \in Seq(P)
    OBVIOUS
  <2> HIDE DEF P
  <2>2. Len(s) \in Nat /\ Len(s) > 0
    BY <2>1, EmptySeq
  <2>3. Tail(s) \in Seq(P) /\ Len(Tail(s)) = Len(s) - 1 /\ \A i \in 1 .. Len(s) - 1 : Tail(s)[i] = s[i + 1]
    BY <2>1, <2>2
  <2>4. Head(s) = s[1] /\ <<Head(s)>> \in Seq(P)
    BY <1>1, <2>2
  <2> DEFINE l == <<Head(s)>> \o Tail(s)
  <2>5. l \in Seq(P) /\ Len(l) = Len(s)
    BY <2>1, <2>2, <2>3, <2>4
  <2>6. \A i \in 1 .. Len(s) : l[i] = s[i]
    <3> SUFFICES ASSUME NEW i \in 1 .. Len(s) PROVE l[i] = s[i]
      OBVIOUS
    <3>1. CASE i = 1
      BY <2>2, <2>3, <2>4, <3>1
    <3>2. CASE i > 1
      <4>1. i - 1 \in 1 .. Len(s) - 1 /\ i - 1 + 1 = i
        BY <3>2, <2>2
      <4>2. l[i] = Tail(s)[i - 1]
        BY <2>2, <2>3, <2>4, <3>2
      <4> QED BY <2>3, <4>1, <4>2
    <3> QED BY <2>2, <3>1, <3>2
  <2> HIDE DEF l
  <2>7. l = s
    BY <2>1, <2>5, <2>6, SeqEqual
  <2> QED BY <2>7 DEF l
<1>3. AllOf(<<Head(s)>> \o Tail(s)) = Head(s) \o AllOf(Tail(s))
  BY <1>1, AllCons
<1> QED BY <1>1, <1>2, <1>3

\* The batches of a log.
ReplayStep(c, r, e) ==
    IF e.kind = "input" THEN [r EXCEPT !.pending = Append(@, e)]
    ELSE IF r.pending = <<>> THEN r
    ELSE [ticks |-> Append(r.ticks, r.pending), pending |-> <<>>]
Rp == INSTANCE FoldFacts WITH Op <- ReplayStep, Size <- Cardinality

LEMMA RpInductive == Rp!Inductive
BY Induction DEF Rp!Inductive

LEMMA ReplayedFold == \A s : Replayed(s) = Rp!Folded(0, NothingRecovered, s)
BY DEF Replayed, Rp!Folded, FoldLeft, MapThenFoldSet, Rp!MapThenFoldSet, Max, Rp!Latest,
       ReplayStep

LEMMA ReplayedNone == Replayed(<<>>) = NothingRecovered
BY ReplayedFold, RpInductive, Rp!FoldNone

LEMMA ReplayedOn ==
    ASSUME NEW X, NEW s \in Seq(X), NEW e \in X
    PROVE  Replayed(Append(s, e)) = ReplayStep(0, Replayed(s), e)
BY ReplayedFold, RpInductive, Rp!FoldOn

LEMMA NothingIsReplay == \A n : NothingRecovered \in Replays(n)
BY DEF NothingRecovered, Replays

LEMMA ReplayStepType ==
    ASSUME NEW n, NEW r \in Replays(n), NEW e \in Entry(n)
    PROVE  ReplayStep(0, r, e) \in Replays(n)
<1> DEFINE Y == Logged(n)
<1>1. r = [ticks |-> r.ticks, pending |-> r.pending] /\ r.ticks \in Seq(Seq(Y)) /\ r.pending \in Seq(Y)
  BY DEF Replays
<1>2. ASSUME e.kind = "input" PROVE e \in Y
  BY <1>2, EntryKinds
<1> HIDE DEF Y
<1>3. CASE e.kind = "input"
  <2>1. Append(r.pending, e) \in Seq(Y)
    BY <1>1, <1>2, <1>3
  <2>2. ReplayStep(0, r, e) = [ticks |-> r.ticks, pending |-> Append(r.pending, e)]
    BY <1>1, <1>3 DEF ReplayStep
  <2> QED BY <1>1, <2>1, <2>2 DEF Replays, Y
<1>4. CASE e.kind # "input" /\ r.pending = <<>>
  BY <1>4 DEF ReplayStep
<1>5. CASE e.kind # "input" /\ r.pending # <<>>
  <2> DEFINE P == Seq(Y)
  <2>1. Append(r.ticks, r.pending) \in Seq(P) /\ <<>> \in P
    <3>1. r.ticks \in Seq(P) /\ r.pending \in P
      BY <1>1
    <3>2. <<>> \in P
      OBVIOUS
    <3> HIDE DEF P
    <3> QED BY <3>1, <3>2
  <2>2. ReplayStep(0, r, e) = [ticks |-> Append(r.ticks, r.pending), pending |-> <<>>]
    BY <1>5 DEF ReplayStep
  <2>3. Replays(n) = [ticks : Seq(P), pending : P]
    BY DEF Replays, Y
  <2> HIDE DEF P
  <2> QED BY <2>1, <2>2, <2>3
<1> QED BY <1>3, <1>4, <1>5

LEMMA ReplayedType ==
    ASSUME NEW n, NEW s \in Seq(Entry(n))
    PROVE  Replayed(s) \in Replays(n)
<1>1. Rp!Folded(0, NothingRecovered, s) \in Replays(n)
  BY NothingIsReplay, ReplayStepType, RpInductive, Rp!FoldIn
<1> QED BY <1>1, ReplayedFold

\* No input is left out by the replay of a log, and none replayed twice.
LEMMA ReplayedAll ==
    ASSUME NEW n, NEW s \in Seq(Entry(n))
    PROVE  AllOf(Replayed(s).ticks) \o Replayed(s).pending = Inputs(s)
<1> DEFINE X == Entry(n)
           Y == Logged(n)
           S == {u \in Seq(X) : AllOf(Replayed(u).ticks) \o Replayed(u).pending = Inputs(u)}
<1>1. <<>> \in S
  <2>1. Replayed(<<>>).ticks = <<>> /\ Replayed(<<>>).pending = <<>>
    BY ReplayedNone DEF NothingRecovered
  <2>2. <<>> \o <<>> = <<>> /\ <<>> \in Seq(X)
    OBVIOUS
  <2>3. AllOf(Replayed(<<>>).ticks) \o Replayed(<<>>).pending = Inputs(<<>>)
    BY <2>1, <2>2, AllNone, InputsNone
  <2> QED BY <2>2, <2>3
<1>2. ASSUME NEW u \in Seq(X), NEW e \in X, u \in S PROVE Append(u, e) \in S
  <2> DEFINE r == Replayed(u)
             q == Replayed(Append(u, e))
             a == AllOf(r.ticks)
             b == r.pending
  <2>1. r \in Replays(n)
    BY ReplayedType
  <2>2. q = ReplayStep(0, r, e)
    BY ReplayedOn
  <2>3. Inputs(u) = a \o b
    BY <1>2
  <2>4. Inputs(Append(u, e)) = IF e.kind = "input" THEN Append(Inputs(u), e) ELSE Inputs(u)
    BY InputsOn
  <2> HIDE DEF r, q
  <2>5. r.ticks \in Seq(Seq(Y)) /\ b \in Seq(Y)
    BY <2>1 DEF Replays
  <2>6. a \in Seq(Y)
    BY <2>5, AllType
  <2>7. Append(u, e) \in Seq(X)
    OBVIOUS
  <2>8. CASE e.kind = "input"
    <3>1. q.ticks = r.ticks /\ q.pending = Append(b, e)
      BY <2>1, <2>2, <2>8 DEF ReplayStep, Replays
    <3>2. e \in Y
      BY <2>8, EntryKinds
    <3> HIDE DEF a, b, X, Y
    <3>3. a \o Append(b, e) = Append(a \o b, e)
      BY <2>5, <2>6, <3>2, AppendConcat
    <3>4. AllOf(q.ticks) \o q.pending = Inputs(Append(u, e))
      BY <2>3, <2>4, <2>8, <3>1, <3>3 DEF a
    <3> QED BY <2>7, <3>4 DEF q
  <2>9. CASE e.kind # "input" /\ b = <<>>
    <3>1. q = r
      BY <2>2, <2>9 DEF ReplayStep
    <3>2. AllOf(q.ticks) \o q.pending = Inputs(Append(u, e))
      BY <2>3, <2>4, <2>9, <3>1
    <3> QED BY <2>7, <3>2 DEF q
  <2>10. CASE e.kind # "input" /\ b # <<>>
    <3>1. q.ticks = Append(r.ticks, b) /\ q.pending = <<>>
      BY <2>2, <2>10 DEF ReplayStep
    <3>2. AllOf(Append(r.ticks, b)) = a \o b
      BY <2>5, AllOn
    <3>3. (a \o b) \o <<>> = a \o b
      BY <2>5, <2>6
    <3>4. AllOf(q.ticks) \o q.pending = Inputs(Append(u, e))
      BY <2>3, <2>4, <2>10, <3>1, <3>2, <3>3
    <3> QED BY <2>7, <3>4 DEF q
  <2> QED BY <2>8, <2>9, <2>10
<1>3. \A u \in Seq(X) : u \in S
  <2> HIDE DEF S, X
  <2> QED BY <1>1, <1>2, RpInductive, Rp!SeqInduction
<1> QED BY <1>3

\* Inputs at the end of a log change no batch that is closed.
LEMMA ReplayedOpen ==
    ASSUME NEW n, NEW s \in Seq(Entry(n)), NEW t \in Seq(Logged(n))
    PROVE  Replayed(s \o t).ticks = Replayed(s).ticks
<1> DEFINE X == Entry(n)
           Y == Logged(n)
           S == {u \in Seq(Y) : Replayed(s \o u).ticks = Replayed(s).ticks}
<1>1. <<>> \in S
  <2>1. s \o <<>> = s /\ <<>> \in Seq(Y)
    OBVIOUS
  <2> QED BY <2>1
<1>2. ASSUME NEW u \in Seq(Y), NEW e \in Y, u \in S PROVE Append(u, e) \in S
  <2> DEFINE v == s \o u
  <2>1. u \in Seq(X) /\ e \in X /\ e.kind = "input"
    BY LoggedKind, SeqMonotone
  <2>2. v \in Seq(X) /\ Append(u, e) \in Seq(Y)
    BY <2>1
  <2>3. s \o Append(u, e) = Append(v, e)
    BY <2>1, AppendConcat
  <2>4. Replayed(v).ticks = Replayed(s).ticks
    BY <1>2
  <2> HIDE DEF v
  <2>5. Replayed(v) \in Replays(n)
    BY <2>2, ReplayedType
  <2>6. Replayed(Append(v, e)) = ReplayStep(0, Replayed(v), e)
    BY <2>1, <2>2, ReplayedOn
  <2>7. Replayed(Append(v, e)).ticks = Replayed(v).ticks
    BY <2>1, <2>5, <2>6 DEF ReplayStep, Replays
  <2> QED BY <2>2, <2>3, <2>4, <2>7
<1>3. \A u \in Seq(Y) : u \in S
  <2> HIDE DEF S, Y
  <2> QED BY <1>1, <1>2, RpInductive, Rp!SeqInduction
<1> QED BY <1>3

-----------------------------------------------------------------------------
(* The clock after a batch of recovered inputs.                              *)

LEMMA MaxUpTo ==
    ASSUME NEW n \in Nat, NEW d \in SUBSET (0 .. n), d # {}
    PROVE  Max(d) \in d /\ \A y \in d : Max(d) >= y
<1> DEFINE T == {n - x : x \in d}
<1>1. \A x \in d : x \in Int /\ n - x \in Nat
  OBVIOUS
<1>2. T \subseteq Nat /\ T # {}
  BY <1>1
<1>3. PICK t \in T : \A u \in T : t <= u
  BY <1>2, LeastElement
<1>4. PICK x \in d : t = n - x
  BY <1>3
<1>5. \A y \in d : n - x <= n - y
  BY <1>3, <1>4
<1>6. \A y \in d : x >= y
  BY <1>1, <1>5
<1> QED BY <1>6 DEF Max

LEMMA ClockPasses ==
    ASSUME NEW n \in Nat, clock \in 0 .. n, NEW entries \in Seq(Logged(n))
    PROVE  /\ ClockAfter(entries) \in 0 .. n
           /\ ClockAfter(entries) >= clock
           /\ \A i \in DOMAIN entries : entries[i].seq < ClockAfter(entries)
<1> DEFINE d == {clock} \cup {entries[i].seq + 1 : i \in DOMAIN entries}
<1>1. \A i \in DOMAIN entries : entries[i].seq \in 0 .. n - 1
  <2>1. \A e \in Logged(n) : e.seq \in 0 .. n - 1
    BY DEF Logged
  <2>2. \A i \in DOMAIN entries : entries[i] \in Logged(n)
    OBVIOUS
  <2> QED BY <2>1, <2>2
<1>2. d \in SUBSET (0 .. n) /\ clock \in d
  BY <1>1
<1>3. \A i \in DOMAIN entries : entries[i].seq + 1 \in d
  OBVIOUS
<1>4. ClockAfter(entries) = Max(d)
  BY DEF ClockAfter
<1> HIDE DEF d
<1>5. Max(d) \in d /\ \A y \in d : Max(d) >= y
  BY <1>2, MaxUpTo
<1>6. Max(d) \in 0 .. n /\ Max(d) >= clock
  BY <1>2, <1>5
<1>7. \A i \in DOMAIN entries : entries[i].seq < Max(d)
  BY <1>1, <1>3, <1>5, <1>6
<1> QED BY <1>4, <1>6, <1>7

-----------------------------------------------------------------------------
(* Types and control.                                                        *)

LogTypes ==
    /\ phase \in {"idle", "ticking", "cadence", "recovering"}
    /\ HasBase(circuit) /\ circuit.asserted \in Zset
    /\ baseline \in Zset
    /\ issued \in Zset
    /\ events \in 0 .. MaxEvents
    /\ clock \in 0 .. events
    /\ pending \in Seq(Logged(events))
    /\ batch \in Seq(Logged(events))
    /\ wal \in Seq(Entry(events))
    /\ recovered \in Replays(events)
    /\ synced \in 0 .. Len(wal)
    /\ policy \in SyncPolicy
    /\ replaying \in BOOLEAN
    /\ resealed \in BOOLEAN

\* What the driver holds in memory besides the circuit, in each phase.
LogControl ==
    /\ phase = "idle" => recovered = NothingRecovered /\ ~replaying
    /\ phase # "idle" => pending = <<>>
    /\ phase # "recovering" /\ ~replaying => recovered = NothingRecovered
    /\ phase # "ticking" => batch = <<>>
    /\ phase = "ticking" /\ ~replaying => batch # <<>>

LEMMA InputLogged ==
    ASSUME LogTypes, NEW d \in Input
    PROVE  /\ InputEntry(clock, d.triple, d.mult) \in Logged(events + 1)
           /\ InputEntry(clock, d.triple, d.mult).kind = "input"
           /\ InputEntry(clock, d.triple, d.mult).seq = clock
BY InputAssumption DEF LogTypes, InputEntry, Logged, Record

\* A tick's effect on the base, as the log sees it.
LEMMA DrainAsserts ==
    ASSUME LogTypes, NEW records \in Seq(Logged(events)), Drain(records)
    PROVE  /\ HasBase(circuit')
           /\ circuit'.asserted = Plus(circuit.asserted, NetDelta(records))
           /\ circuit'.asserted \in Zset
           /\ NetDelta(records) \in Zset
<1>1. circuit' = Tick(circuit, records)
  BY DEF Drain
<1>2. HasBase(circuit') /\ circuit'.asserted = Plus(circuit.asserted, NetDelta(records))
  BY <1>1, TickAsserts DEF LogTypes
<1>3. NetDelta(records) \in Zset
  BY NetType, LoggedKind
<1> QED BY <1>2, <1>3, PlusAt DEF LogTypes

\* The base a new circuit is given is the checkpoint's.
LEMMA RestoredBase ==
    ASSUME NEW base \in Zset, NEW fallback
    PROVE  LET c == Tick(NewCircuit(fallback), Restored(base))
           IN  HasBase(c) /\ c.asserted = base
<1> DEFINE ts == {t \in Triple : base[t] # 0}
           part == [t \in Triple |-> IF t \in ts THEN base[t] ELSE 0]
           c == Tick(NewCircuit(fallback), Restored(base))
<1>1. NetDelta(Restored(base)) = part
  BY RecordsSum DEF Restored
<1>2. part = base
  BY DEF Zset
<1>3. HasBase(NewCircuit(fallback)) /\ NewCircuit(fallback).asserted = EmptyZset
  BY DEF HasBase, NewCircuit
<1>4. HasBase(c) /\ c.asserted = Plus(EmptyZset, NetDelta(Restored(base)))
  BY <1>3, TickAsserts
<1> HIDE DEF c, part
<1>5. HasBase(c) /\ c.asserted = base
  BY <1>1, <1>2, <1>4, EmptySum
<1> QED BY <1>5 DEF c

LEMMA LogStarts == Init => LogTypes /\ LogControl
<1> SUFFICES ASSUME Init PROVE LogTypes /\ LogControl
  OBVIOUS
<1>1. PICK setup \in Setup : circuit = NewCircuit(setup.fallback) /\ policy = setup.policy
  BY DEF Init
<1>2. policy \in SyncPolicy
  BY <1>1, SetupAssumption
<1>3. HasBase(circuit) /\ circuit.asserted = EmptyZset
  BY <1>1 DEF HasBase, NewCircuit
<1>4. <<>> \in Seq(Logged(0)) /\ <<>> \in Seq(Entry(0)) /\ Len(<<>>) = 0
  OBVIOUS
<1>5. LogTypes
  <2>1. wal = <<>> /\ synced = 0 /\ events = 0 /\ clock = 0 /\ pending = <<>> /\ batch = <<>>
    BY DEF Init
  <2>2. synced \in 0 .. Len(wal) /\ clock \in 0 .. events /\ events \in 0 .. MaxEvents
    BY <1>4, <2>1, EventsAssumption
  <2>3. pending \in Seq(Logged(events)) /\ batch \in Seq(Logged(events)) /\ wal \in Seq(Entry(events))
    BY <1>4, <2>1
  <2>4. recovered \in Replays(events) /\ baseline \in Zset /\ issued \in Zset
    BY EmptySum, NothingIsReplay DEF Init
  <2>5. phase = "idle" /\ replaying = FALSE /\ resealed = FALSE
    BY DEF Init
  <2> QED BY <1>2, <1>3, <2>2, <2>3, <2>4, <2>5, EmptySum DEF LogTypes
<1> QED BY <1>5 DEF Init, LogControl

\* A new event makes room for its input.
LEMMA EventCounted ==
    ASSUME LogTypes, Counted
    PROVE  /\ events \in Nat
           /\ events' = events + 1
           /\ events' \in 0 .. MaxEvents
           /\ clock \in 0 .. events'
           /\ pending \in Seq(Logged(events'))
           /\ batch \in Seq(Logged(events'))
           /\ wal \in Seq(Entry(events'))
           /\ recovered \in Replays(events')
<1>1. events \in Nat /\ events' = events + 1 /\ events' \in 0 .. MaxEvents /\ clock \in 0 .. events'
  BY EventsAssumption DEF LogTypes, Counted
<1> QED BY <1>1, LogGrows DEF LogTypes

LEMMA AppendInputTypes ==
    ASSUME LogTypes, LogControl, NEW d \in Input, AppendInput(d)
    PROVE  LogTypes' /\ LogControl'
<1> DEFINE entry == InputEntry(clock, d.triple, d.mult)
<1>1. Counted /\ phase = "idle"
  BY DEF AppendInput
<1>2. entry \in Logged(events') /\ entry \in Entry(events')
  BY <1>1, InputLogged, EventCounted, LoggedKind
<1>3. wal' = Append(wal, entry) /\ pending' = Append(pending, entry) /\ clock' = clock + 1
  BY DEF AppendInput
<1> HIDE DEF entry
<1>4. /\ wal' \in Seq(Entry(events'))
      /\ pending' \in Seq(Logged(events'))
      /\ Len(wal') = Len(wal) + 1
      /\ Len(wal) \in Nat
  BY <1>1, <1>2, <1>3, EventCounted
<1>5. clock' \in 0 .. events'
  BY <1>1, <1>3, EventCounted DEF LogTypes
<1>6. issued' \in Zset
  <2>1. <<entry>> \in Seq(Logged(events'))
    BY <1>2
  <2>2. NetDelta(<<entry>>) \in Zset
    BY <2>1, NetType, LoggedKind
  <2>3. issued' = Plus(issued, NetDelta(<<entry>>))
    BY DEF AppendInput, entry
  <2> QED BY <2>2, <2>3, PlusAt DEF LogTypes
<1>7. synced' \in 0 .. Len(wal')
  BY <1>4 DEF AppendInput, LogTypes
<1>8. UNCHANGED <<phase, circuit, baseline, recovered, batch, policy, replaying, resealed>>
  BY DEF AppendInput, control
<1>9. LogTypes'
  BY <1>1, <1>4, <1>5, <1>6, <1>7, <1>8, EventCounted DEF LogTypes
<1> QED BY <1>1, <1>8, <1>9 DEF LogControl

LEMMA DrainTypes ==
    ASSUME LogTypes, NEW records \in Seq(Logged(events)), Drain(records),
           clock' \in 0 .. events, recovered' \in Replays(events), replaying' \in BOOLEAN,
           UNCHANGED <<wal, synced, policy, baseline, events, history>>
    PROVE  LogTypes'
<1>1. <<>> \in Seq(Logged(events))
  OBVIOUS
<1>2. phase' = "ticking" /\ pending' = <<>> /\ batch' = records
  BY DEF Drain
<1> QED BY <1>1, <1>2, DrainAsserts DEF LogTypes, history

LEMMA EndTickTypes ==
    ASSUME LogTypes, LogControl, EndTick
    PROVE  LogTypes' /\ LogControl'
<1>1. HasBase(circuit') /\ circuit'.asserted = circuit.asserted
  BY DEF EndTick, LogTypes, HasBase
<1>2. /\ phase = "ticking" /\ phase' = "cadence" /\ batch' = <<>>
      /\ UNCHANGED <<pending, clock, policy, baseline, recovered, replaying, events, issued>>
  BY DEF EndTick
<1>3. wal' \in Seq(Entry(events)) /\ synced' \in 0 .. Len(wal')
  <2>1. CASE batch # <<>>
    <3>1. wal' = Append(wal, TickCommit) /\ synced' = Len(wal')
      BY <2>1 DEF EndTick, LogTickCommit
    <3>2. TickCommit \in Entry(events)
      BY LoggedKind
    <3> HIDE DEF TickCommit
    <3> QED BY <3>1, <3>2 DEF LogTypes
  <2>2. CASE batch = <<>>
    BY <2>2 DEF EndTick, LogTypes
  <2> QED BY <2>1, <2>2
<1>4. resealed' \in BOOLEAN
  BY DEF EndTick, LogTypes
<1>5. <<>> \in Seq(Logged(events))
  OBVIOUS
<1>6. LogTypes'
  BY <1>1, <1>2, <1>3, <1>4, <1>5 DEF LogTypes
<1> QED BY <1>2, <1>6 DEF LogControl

LEMMA CrashTypes ==
    ASSUME LogTypes, NEW n \in synced .. Len(wal), Crash(n)
    PROVE  /\ LogTypes' /\ LogControl'
           /\ circuit'.asserted = baseline
           /\ wal' \in Seq(Entry(events))
           /\ SubSeq(wal, n + 1, Len(wal)) \in Seq(Entry(events))
           /\ wal = wal' \o SubSeq(wal, n + 1, Len(wal))
           /\ Len(wal') = n
<1> DEFINE kept == SubSeq(wal, 1, n)
           lost == SubSeq(wal, n + 1, Len(wal))
           X == Entry(events)
<1>1. /\ phase' = "recovering"
      /\ circuit' = [Tick(NewCircuit(circuit.fallback), Restored(baseline))
                       EXCEPT !.pending = NoEmission]
      /\ pending' = <<>>
      /\ clock' = 0
      /\ wal' = kept
      /\ synced' = n
      /\ recovered' = Replayed(kept)
      /\ replaying' = FALSE
      /\ batch' = <<>>
      /\ issued' = [t \in Triple |-> issued[t] - NetDelta(Inputs(lost))[t]]
      /\ UNCHANGED <<policy, baseline, resealed>>
      /\ Counted
  BY DEF Crash
<1>2. HasBase(circuit') /\ circuit'.asserted = baseline
  <2> DEFINE c == Tick(NewCircuit(circuit.fallback), Restored(baseline))
  <2>1. HasBase(c) /\ c.asserted = baseline
    BY RestoredBase DEF LogTypes
  <2> HIDE DEF c
  <2>2. circuit' = [c EXCEPT !.pending = NoEmission]
    BY <1>1 DEF c
  <2> QED BY <2>1, <2>2 DEF HasBase
<1>3. wal \in Seq(X) /\ Len(wal) \in Nat /\ n \in 0 .. Len(wal) /\ Len(wal) = Len(wal)
  BY DEF LogTypes
<1>4. kept \in Seq(X) /\ lost \in Seq(X) /\ wal = kept \o lost /\ Len(kept) = n
  <2> HIDE DEF X
  <2>1. kept \in Seq(X) /\ Len(kept) = n /\ lost \in Seq(X) /\ Len(lost) = Len(wal) - n
    BY <1>3
  <2>2. /\ \A i \in 1 .. n : kept[i] = wal[i]
        /\ \A i \in 1 .. Len(wal) - n : lost[i] = wal[n + i]
    BY <1>3
  <2> HIDE DEF kept, lost
  <2>3. kept \o lost \in Seq(X) /\ Len(kept \o lost) = Len(wal)
    BY <1>3, <2>1
  <2>4. \A i \in 1 .. Len(wal) : (kept \o lost)[i] = wal[i]
    <3> SUFFICES ASSUME NEW i \in 1 .. Len(wal) PROVE (kept \o lost)[i] = wal[i]
      OBVIOUS
    <3>1. CASE i <= n
      BY <1>3, <2>1, <2>2, <3>1
    <3>2. CASE i > n
      <4> DEFINE m == i - n
      <4>1. m \in 1 .. Len(wal) - n /\ n + m = i
        BY <1>3, <3>2
      <4>2. (kept \o lost)[i] = lost[m]
        BY <1>3, <2>1, <3>2
      <4> HIDE DEF m
      <4> QED BY <2>2, <4>1, <4>2
    <3>3. i <= n \/ i > n
      BY <1>3
    <3> HIDE DEF X
    <3> QED BY <3>1, <3>2, <3>3
  <2> QED BY <1>3, <2>1, <2>3, <2>4, SeqEqual
<1> HIDE DEF kept, lost
<1>5. recovered' \in Replays(events) /\ kept \in Seq(Entry(events'))
  BY <1>1, <1>4, ReplayedType, LogGrows, EventCounted
<1>6. recovered' \in Replays(events')
  BY <1>1, <1>5, ReplayedType
<1>7. issued' \in Zset
  <2>1. Inputs(lost) \in Seq(Logged(events))
    BY <1>4, InputsType
  <2>2. NetDelta(Inputs(lost)) \in Zset
    BY <2>1, NetType, LoggedKind
  <2> QED BY <1>1, <2>2 DEF LogTypes, Zset
<1>8. <<>> \in Seq(Logged(events')) /\ n \in 0 .. Len(wal') /\ 0 \in 0 .. events'
  BY <1>1, <1>3, <1>4, EventCounted
<1>9. LogTypes'
  BY <1>1, <1>2, <1>5, <1>6, <1>7, <1>8, EventCounted DEF LogTypes
<1> QED BY <1>1, <1>2, <1>4, <1>9 DEF LogControl, lost

LEMMA LogStep ==
    ASSUME LogTypes, LogControl, [Next]_vars
    PROVE  LogTypes' /\ LogControl'
<1>0. /\ pending \in Seq(Logged(events)) /\ clock \in 0 .. events
      /\ recovered \in Replays(events) /\ replaying \in BOOLEAN
  BY DEF LogTypes
<1>1. CASE UNCHANGED vars
  BY <1>1 DEF vars, log, control, history, LogTypes, LogControl, HasBase
<1>2. ASSUME NEW d \in Input, AppendInput(d) PROVE LogTypes' /\ LogControl'
  BY <1>2, AppendInputTypes
<1>3. CASE BeginTick
  BY <1>0, <1>3, DrainTypes DEF BeginTick, Drain, LogControl
<1>4. CASE EndTick
  BY <1>4, EndTickTypes
<1>5. CASE MaybeCheckpoint
  <2>1. <<>> \in Seq(Entry(events)) /\ Len(<<>>) = 0
    OBVIOUS
  <2>2. LogTypes'
    BY <1>5, <2>1 DEF MaybeCheckpoint, TakeCheckpoint, AfterTick, LogTypes
  <2> QED BY <1>5, <2>2 DEF MaybeCheckpoint, AfterTick, LogControl
<1>6. CASE SkipCheckpoint
  BY <1>6 DEF SkipCheckpoint, AfterTick, log, history, LogTypes, LogControl
<1>7. CASE Checkpoint
  <2>1. CASE pending # <<>>
    BY <1>0, <1>7, <2>1, DrainTypes DEF Checkpoint, Drain, LogControl
  <2>2. CASE pending = <<>>
    BY <1>7, <2>2 DEF Checkpoint, history, LogTypes, LogControl
  <2> QED BY <2>1, <2>2
<1>8. ASSUME NEW n \in synced .. Len(wal), Crash(n) PROVE LogTypes' /\ LogControl'
  BY <1>8, CrashTypes
<1>9. CASE ReplayTick
  <2>1. recovered.ticks \in Seq(Seq(Logged(events))) /\ recovered.ticks # <<>>
    BY <1>0, <1>9 DEF ReplayTick, Replays
  <2>2. /\ Head(recovered.ticks) \in Seq(Logged(events))
        /\ Tail(recovered.ticks) \in Seq(Seq(Logged(events)))
    BY <2>1, AllHead
  <2>3. recovered' \in Replays(events)
    BY <1>0, <1>9, <2>2 DEF ReplayTick, Replays
  <2>4. clock' \in 0 .. events
    BY <1>9, <2>2, ClockPasses DEF ReplayTick, LogTypes
  <2>5. LogTypes'
    BY <1>9, <2>2, <2>3, <2>4, DrainTypes DEF ReplayTick
  <2> QED BY <1>9, <2>5 DEF ReplayTick, Drain, LogControl
<1>10. CASE FinishRecovery
  <2>1. recovered.pending \in Seq(Logged(events))
    BY <1>0 DEF Replays
  <2>2. clock' \in 0 .. events
    BY <1>10, <2>1, ClockPasses DEF FinishRecovery, LogTypes
  <2>3. LogTypes'
    BY <1>10, <2>1, <2>2, NothingIsReplay DEF FinishRecovery, LogTypes, history
  <2> QED BY <1>10, <2>3 DEF FinishRecovery, LogControl
<1>11. ASSUME NEW s \in Subscriber, NewSubscriber(s) PROVE LogTypes' /\ LogControl'
  <2>1. Counted /\ UNCHANGED <<circuit, log, control, history>>
    BY <1>11 DEF NewSubscriber
  <2>2. LogTypes'
    BY <2>1, EventCounted DEF log, control, history, LogTypes
  <2> QED BY <2>1, <2>2 DEF log, control, LogControl
<1>12. ASSUME UNCHANGED <<circuit, log, control, events, history>> PROVE LogTypes' /\ LogControl'
  BY <1>12 DEF log, control, history, LogTypes, LogControl
<1>13. ASSUME NEW s \in Subscriber, ConsumerStep(s) \/ ConsumerStops(s) PROVE LogTypes' /\ LogControl'
  BY <1>12, <1>13 DEF ConsumerStep, ConsumerStops
<1>14. CASE PublishStep
  BY <1>12, <1>14 DEF PublishStep
<1> QED BY <1>1, <1>2, <1>3, <1>4, <1>5, <1>6, <1>7, <1>8, <1>9, <1>10, <1>11, <1>13, <1>14 DEF Next

\* The driver's types, for any number of events: the clock never runs ahead of
\* the inputs appended, recoveries included, and no more of the log is taken
\* for synced than there is.
THEOREM DriverTypeCorrect == Spec => []TypeOK
<1>1. Init => LogTypes /\ LogControl
  BY LogStarts
<1>2. (LogTypes /\ LogControl) /\ [Next]_vars => (LogTypes /\ LogControl)'
  BY LogStep
<1>3. LogTypes /\ FeedInv => TypeOK
  <2> SUFFICES ASSUME LogTypes, FeedInv PROVE TypeOK
    OBVIOUS
  <2>1. clock \in 0 .. MaxEvents
    BY EventsAssumption DEF LogTypes
  <2> QED BY <2>1 DEF LogTypes, TypeOK, FeedInv, FeedTypes
<1> QED BY <1>1, <1>2, <1>3, FeedInvHolds, PTL DEF Spec

-----------------------------------------------------------------------------
(* What of the log is synced.                                                *)

\* The last entries of the log that are not synced are the last ones pending.
TailPending ==
    /\ Len(wal) - synced <= Len(pending)
    /\ \A i \in 1 .. Len(wal) - synced :
          wal[synced + i] = pending[Len(pending) - (Len(wal) - synced) + i]

LogSync ==
    /\ policy = "EveryBatch" => synced = Len(wal)
    /\ phase \in {"cadence", "recovering"} \/ replaying => synced = Len(wal)
    /\ phase = "idle" => TailPending
    /\ \A i \in synced + 1 .. Len(wal) : wal[i] \in Logged(events)

LEMMA AllSynced ==
    ASSUME LogTypes, LogTypes', synced' = Len(wal')
    PROVE  LogSync'
<1>1. Len(wal') \in Nat /\ synced' \in Nat /\ Len(pending') \in Nat
  BY DEF LogTypes
<1>2. TailPending'
  BY <1>1 DEF TailPending
<1>3. \A i \in synced' + 1 .. Len(wal') : FALSE
  BY <1>1
<1> QED BY <1>2, <1>3 DEF LogSync

LEMMA AppendInputSync ==
    ASSUME LogTypes, LogControl, LogSync, LogTypes', NEW d \in Input, AppendInput(d)
    PROVE  LogSync'
<1>1. CASE synced' = Len(wal')
  BY <1>1, AllSynced
<1>2. CASE policy = "Every" /\ synced' = synced
  <2> DEFINE entry == InputEntry(clock, d.triple, d.mult)
  <2>1. /\ wal' = Append(wal, entry) /\ pending' = Append(pending, entry)
        /\ phase = "idle" /\ Counted /\ UNCHANGED <<phase, policy, replaying>>
    BY DEF AppendInput, control
  <2>2. entry \in Logged(events')
    BY <2>1, InputLogged, EventCounted
  <2> HIDE DEF entry
  <2>3. /\ wal \in Seq(Entry(events)) /\ pending \in Seq(Logged(events))
        /\ Len(wal) \in Nat /\ Len(pending) \in Nat /\ synced \in 0 .. Len(wal)
    BY DEF LogTypes
  <2>4. /\ Len(wal') = Len(wal) + 1 /\ Len(pending') = Len(pending) + 1
        /\ wal'[Len(wal) + 1] = entry /\ pending'[Len(pending) + 1] = entry
        /\ \A i \in 1 .. Len(wal) : wal'[i] = wal[i]
        /\ \A i \in 1 .. Len(pending) : pending'[i] = pending[i]
    BY <2>1, <2>3
  <2>5. TailPending'
    <3> DEFINE k == Len(wal) - synced
               p == Len(pending)
    <3>0. TailPending
      BY <2>1 DEF LogSync
    <3>1. k \in Nat /\ p \in Nat /\ k <= p /\ \A i \in 1 .. k : wal[synced + i] = pending[p - k + i]
      <4>1. k \in Nat /\ p \in Nat
        BY <2>3
      <4>2. k <= p /\ \A i \in 1 .. k : wal[synced + i] = pending[p - k + i]
        BY <3>0 DEF TailPending
      <4> QED BY <4>1, <4>2
    <3>2. Len(wal') - synced' = k + 1 /\ Len(pending') = p + 1 /\ p + 1 - (k + 1) = p - k /\ synced' = synced
      BY <1>2, <2>3, <2>4
    <3> SUFFICES ASSUME NEW i \in 1 .. k + 1
                 PROVE  wal'[synced + i] = pending'[p - k + i]
      <4>1. \A i \in 1 .. k + 1 : wal'[synced + i] = pending'[p - k + i]
        OBVIOUS
      <4>2. k + 1 <= p + 1
        BY <3>1
      <4> HIDE DEF k, p
      <4>3. Len(wal') - synced' <= Len(pending')
        BY <3>2, <4>2
      <4>4. 1 .. Len(wal') - synced' = 1 .. k + 1
        BY <3>2
      <4>5. Len(pending') - (Len(wal') - synced') = p - k
        BY <3>1, <3>2
      <4>6. \A i \in 1 .. Len(wal') - synced' :
                wal'[synced' + i] = pending'[Len(pending') - (Len(wal') - synced') + i]
        BY <3>2, <4>1, <4>4, <4>5
      <4> QED BY <4>3, <4>6 DEF TailPending
    <3>3. CASE i <= k
      <4>1. wal[synced + i] = pending[p - k + i] /\ synced + i \in 1 .. Len(wal) /\ p - k + i \in 1 .. p
        <5>1. i \in 1 .. k
          BY <3>1, <3>3
        <5>2. synced + i \in 1 .. Len(wal)
          BY <2>3, <5>1
        <5>3. p - k + i \in 1 .. p
          <6> HIDE DEF k, p
          <6> QED BY <3>1, <5>1
        <5> QED BY <3>1, <5>1, <5>2, <5>3
      <4> QED BY <2>4, <4>1
    <3>4. CASE i = k + 1
      <4>1. synced + i = Len(wal) + 1 /\ p - k + i = p + 1
        BY <2>3, <3>1, <3>4
      <4> QED BY <2>4, <4>1
    <3>5. i <= k \/ i = k + 1
      BY <3>1
    <3> QED BY <3>3, <3>4, <3>5
  <2>6. \A i \in synced' + 1 .. Len(wal') : wal'[i] \in Logged(events')
    <3> SUFFICES ASSUME NEW i \in synced + 1 .. Len(wal) + 1 PROVE wal'[i] \in Logged(events')
      BY <1>2, <2>4
    <3>1. CASE i = Len(wal) + 1
      BY <2>2, <2>4, <3>1
    <3>2. CASE i # Len(wal) + 1
      <4>1. i \in synced + 1 .. Len(wal) /\ i \in 1 .. Len(wal)
        BY <2>3, <3>2
      <4>2. wal[i] \in Logged(events)
        BY <4>1 DEF LogSync
      <4> QED BY <2>1, <2>4, <4>1, <4>2, LogGrows, EventCounted
    <3> QED BY <3>1, <3>2
  <2> QED BY <1>2, <2>1, <2>5, <2>6 DEF LogSync, LogControl
<1> QED BY <1>1, <1>2 DEF AppendInput

\* Steps that leave the log alone and do not return to the driver.
LEMMA SyncKept ==
    ASSUME LogTypes, LogSync, UNCHANGED <<wal, synced, policy, events>>,
           phase' = "ticking", replaying' => phase = "recovering"
    PROVE  LogSync'
BY DEF LogSync, LogTypes

LEMMA SyncStep ==
    ASSUME LogTypes, LogControl, LogSync, LogTypes', [Next]_vars
    PROVE  LogSync'
<1>1. CASE UNCHANGED vars
  BY <1>1 DEF vars, log, control, LogSync, TailPending
<1>2. ASSUME NEW d \in Input, AppendInput(d) PROVE LogSync'
  BY <1>2, AppendInputSync
<1>3. CASE BeginTick
  BY <1>3, SyncKept DEF BeginTick, Drain, LogControl
<1>4. CASE EndTick
  <2>1. CASE batch # <<>>
    BY <1>4, <2>1, AllSynced DEF EndTick
  <2>2. CASE batch = <<>>
    BY <1>4, <2>2, AllSynced DEF EndTick, LogControl, LogSync
  <2> QED BY <2>1, <2>2
<1>5. CASE MaybeCheckpoint
  <2>1. Len(<<>>) = 0
    OBVIOUS
  <2> QED BY <1>5, <2>1, AllSynced DEF MaybeCheckpoint, TakeCheckpoint
<1>6. CASE SkipCheckpoint
  BY <1>6, AllSynced DEF SkipCheckpoint, log, LogSync
<1>7. CASE Checkpoint
  <2>1. CASE pending # <<>>
    BY <1>7, <2>1, SyncKept DEF Checkpoint, Drain, LogControl
  <2>2. CASE pending = <<>>
    <3>1. Len(pending) = 0 /\ Len(wal) \in Nat /\ synced \in 0 .. Len(wal)
      BY <2>2 DEF LogTypes
    <3>2. synced = Len(wal)
      BY <1>7, <3>1 DEF Checkpoint, LogSync, TailPending
    <3> QED BY <1>7, <2>2, <3>2, AllSynced DEF Checkpoint
  <2> QED BY <2>1, <2>2
<1>8. ASSUME NEW n \in synced .. Len(wal), Crash(n) PROVE LogSync'
  BY <1>8, CrashTypes, AllSynced DEF Crash
<1>9. CASE ReplayTick
  BY <1>9, SyncKept DEF ReplayTick, Drain
<1>10. CASE FinishRecovery
  BY <1>10, AllSynced DEF FinishRecovery, LogSync
<1>11. ASSUME NEW s \in Subscriber, NewSubscriber(s) PROVE LogSync'
  <2>1. Counted /\ UNCHANGED <<log, control>>
    BY <1>11 DEF NewSubscriber
  <2>2. \A i \in synced + 1 .. Len(wal) : wal[i] \in Logged(events')
    BY <2>1, LogGrows, EventCounted DEF LogSync
  <2> QED BY <2>1, <2>2 DEF log, control, LogSync, TailPending
<1>12. ASSUME UNCHANGED <<circuit, log, control, events, history>> PROVE LogSync'
  BY <1>12 DEF log, control, LogSync, TailPending
<1>13. ASSUME NEW s \in Subscriber, ConsumerStep(s) \/ ConsumerStops(s) PROVE LogSync'
  BY <1>12, <1>13 DEF ConsumerStep, ConsumerStops
<1>14. CASE PublishStep
  BY <1>12, <1>14 DEF PublishStep
<1> QED BY <1>1, <1>2, <1>3, <1>4, <1>5, <1>6, <1>7, <1>8, <1>9, <1>10, <1>11, <1>13, <1>14 DEF Next

LEMMA SuffixOf ==
    ASSUME NEW X, NEW s \in Seq(X), NEW t \in Seq(X), Len(s) <= Len(t),
           \A i \in 1 .. Len(s) : s[i] = t[Len(t) - Len(s) + i]
    PROVE  IsSuffix(s, t)
<1> DEFINE k == Len(s)
           p == Len(t)
<1>1. k \in Nat /\ p \in Nat /\ k <= p
  OBVIOUS
<1>2. /\ Reverse(s) \in Seq(X) /\ Len(Reverse(s)) = k
      /\ \A i \in 1 .. k : Reverse(s)[i] = s[k - i + 1]
  BY DEF Reverse
<1>3. /\ Reverse(t) \in Seq(X) /\ Len(Reverse(t)) = p
      /\ \A i \in 1 .. p : Reverse(t)[i] = t[p - i + 1]
  BY DEF Reverse
<1> DEFINE a == SubSeq(Reverse(s), 1, k)
           b == SubSeq(Reverse(t), 1, k)
<1>4. /\ a \in Seq(X) /\ Len(a) = k /\ \A i \in 1 .. k : a[i] = Reverse(s)[i]
      /\ b \in Seq(X) /\ Len(b) = k /\ \A i \in 1 .. k : b[i] = Reverse(t)[i]
  BY <1>1, <1>2, <1>3
<1>5. \A i \in 1 .. k : a[i] = b[i]
  <2> SUFFICES ASSUME NEW i \in 1 .. k PROVE Reverse(s)[i] = Reverse(t)[i]
    BY <1>4
  <2>1. k - i + 1 \in 1 .. k /\ p - k + (k - i + 1) = p - i + 1 /\ i \in 1 .. p
    BY <1>1
  <2>2. s[k - i + 1] = t[p - k + (k - i + 1)]
    BY <2>1
  <2> QED BY <1>2, <1>3, <2>1, <2>2
<1> HIDE DEF a, b
<1>6. a = b
  BY <1>4, <1>5, SeqEqual
<1> QED BY <1>1, <1>2, <1>3, <1>6 DEF IsSuffix, IsPrefix, a, b

\* What CrashLosesNothing says of the synced part of the log.
LEMMA SyncedEnough ==
    ASSUME LogTypes, LogSync
    PROVE  /\ policy = "EveryBatch" => Unsynced = <<>>
           /\ phase \in {"idle", "cadence"} => IsSuffix(Unsynced, pending)
<1> DEFINE X == Entry(events)
<1>1. /\ wal \in Seq(X) /\ pending \in Seq(X)
      /\ Len(wal) \in Nat /\ Len(pending) \in Nat /\ synced \in 0 .. Len(wal)
  BY LoggedKind, SeqMonotone DEF LogTypes
<1> HIDE DEF X
<1>2. /\ Unsynced \in Seq(X) /\ Len(Unsynced) = Len(wal) - synced
      /\ \A i \in 1 .. Len(wal) - synced : Unsynced[i] = wal[synced + i]
  BY <1>1 DEF Unsynced
<1>3. ASSUME synced = Len(wal) PROVE Unsynced = <<>> /\ IsSuffix(Unsynced, pending)
  <2>1. Len(Unsynced) = 0
    BY <1>1, <1>2, <1>3
  <2>2. \A i \in 1 .. Len(Unsynced) : Unsynced[i] = pending[Len(pending) - Len(Unsynced) + i]
    BY <2>1
  <2>3. Unsynced = <<>>
    BY <1>2, <2>1, EmptySeq
  <2>4. Len(Unsynced) <= Len(pending)
    BY <1>1, <2>1
  <2> HIDE DEF Unsynced
  <2>5. IsSuffix(Unsynced, pending)
    BY <1>1, <1>2, <2>2, <2>4, SuffixOf
  <2> QED BY <2>3, <2>5
<1>4. ASSUME TailPending PROVE IsSuffix(Unsynced, pending)
  BY <1>1, <1>2, <1>4, SuffixOf DEF TailPending
<1> QED BY <1>3, <1>4 DEF LogSync

-----------------------------------------------------------------------------
(* Logical times.                                                            *)

\* What recover() has still to replay.
Unreplayed(r) == AllOf(r.ticks) \o r.pending
Has(s, e) == \E j \in DOMAIN s : s[j] = e
Rising(in) == \A m, n \in DOMAIN in : m < n => in[m].seq < in[n].seq

\* The clock is ahead of every time in the log, but for the inputs that
\* recover() has not come to.
Passed(in, r, time) == \A m \in DOMAIN in : in[m].seq < time \/ Has(Unreplayed(r), in[m])
LogTimes == Rising(Inputs(wal)) /\ Passed(Inputs(wal), recovered, clock)

LEMMA UnreplayedType ==
    ASSUME NEW n, NEW r \in Replays(n)
    PROVE  Unreplayed(r) \in Seq(Logged(n)) /\ AllOf(r.ticks) \in Seq(Logged(n))
<1>1. r.ticks \in Seq(Seq(Logged(n))) /\ r.pending \in Seq(Logged(n))
  BY DEF Replays
<1>2. AllOf(r.ticks) \in Seq(Logged(n))
  BY <1>1, AllType
<1> QED BY <1>1, <1>2 DEF Unreplayed

LEMMA NothingUnreplayed == Unreplayed(NothingRecovered) = <<>>
<1>1. NothingRecovered.ticks = <<>> /\ NothingRecovered.pending = <<>>
  BY DEF NothingRecovered
<1>2. <<>> \o <<>> = <<>>
  OBVIOUS
<1> QED BY <1>1, <1>2, AllNone DEF Unreplayed

LEMMA TimesOnAppend ==
    ASSUME LogTypes, LogControl, LogTimes, NEW d \in Input, AppendInput(d)
    PROVE  LogTimes'
<1> DEFINE entry == InputEntry(clock, d.triple, d.mult)
           in == Inputs(wal)
<1>1. /\ wal' = Append(wal, entry) /\ clock' = clock + 1 /\ recovered' = recovered
      /\ phase = "idle" /\ Counted
  BY DEF AppendInput, control
<1>2. entry \in Logged(events') /\ entry \in Entry(events') /\ entry.kind = "input" /\ entry.seq = clock
  BY <1>1, InputLogged, EventCounted, LoggedKind
<1> HIDE DEF entry
<1>3. Inputs(wal') = Append(in, entry)
  BY <1>1, <1>2, EventCounted, InputsOn
<1>4. in \in Seq(Logged(events'))
  BY <1>1, EventCounted, InputsType
<1> DEFINE Y == Logged(events')
<1>5. \A e \in Y : e.seq \in Nat
  BY DEF Logged
<1>6. in \in Seq(Y) /\ entry \in Y /\ clock \in Nat
  BY <1>2, <1>4 DEF LogTypes
<1>7. \A m \in DOMAIN in : in[m].seq < clock /\ in[m].seq \in Nat
  <2>1. recovered = NothingRecovered
    BY <1>1 DEF LogControl
  <2>2. DOMAIN Unreplayed(recovered) = {}
    BY <2>1, NothingUnreplayed
  <2> QED BY <1>5, <1>6, <2>2 DEF LogTimes, Passed, Has
<1> HIDE DEF Y, in
<1>8. /\ DOMAIN in = 1 .. Len(in) /\ Len(in) \in Nat
      /\ DOMAIN Append(in, entry) = 1 .. Len(in) + 1
      /\ Append(in, entry)[Len(in) + 1] = entry
      /\ \A m \in 1 .. Len(in) : Append(in, entry)[m] = in[m]
  BY <1>6
<1>9. \A m \in 1 .. Len(in) + 1 : Append(in, entry)[m].seq < clock + 1
  BY <1>2, <1>6, <1>7, <1>8
<1>10. Rising(Append(in, entry))
  <2> SUFFICES ASSUME NEW m \in 1 .. Len(in) + 1, NEW n \in 1 .. Len(in) + 1, m < n
               PROVE  Append(in, entry)[m].seq < Append(in, entry)[n].seq
    BY <1>8 DEF Rising
  <2>1. m \in 1 .. Len(in)
    BY <1>8
  <2>2. CASE n = Len(in) + 1
    BY <1>2, <1>7, <1>8, <2>1, <2>2
  <2>3. CASE n # Len(in) + 1
    <3>1. n \in 1 .. Len(in)
      BY <1>8, <2>3
    <3>2. in[m].seq < in[n].seq
      BY <1>8, <2>1, <3>1 DEF LogTimes, Rising, in
    <3> QED BY <1>8, <2>1, <3>1, <3>2
  <2> QED BY <2>2, <2>3
<1>11. Passed(Append(in, entry), recovered', clock')
  BY <1>1, <1>8, <1>9 DEF Passed
<1> QED BY <1>3, <1>10, <1>11 DEF LogTimes

LEMMA TimesOnCrash ==
    ASSUME LogTypes, LogTimes, NEW n \in synced .. Len(wal), Crash(n)
    PROVE  LogTimes'
<1> DEFINE lost == SubSeq(wal, n + 1, Len(wal))
           Y == Logged(events)
           a == Inputs(wal')
           b == Inputs(lost)
<1>1. wal' \in Seq(Entry(events)) /\ lost \in Seq(Entry(events)) /\ wal = wal' \o lost
  BY CrashTypes
<1>2. recovered' = Replayed(wal')
  BY DEF Crash
<1>3. Inputs(wal) = a \o b /\ a \in Seq(Y) /\ b \in Seq(Y)
  BY <1>1, InputsConcat, InputsType
<1>4. Unreplayed(recovered') = a
  BY <1>1, <1>2, ReplayedAll DEF Unreplayed
<1> HIDE DEF a, b, lost, Y
<1>5. /\ DOMAIN a = 1 .. Len(a) /\ Len(a) \in Nat
      /\ 1 .. Len(a) \subseteq DOMAIN (a \o b)
      /\ \A m \in 1 .. Len(a) : (a \o b)[m] = a[m]
  BY <1>3
<1>6. Rising(a)
  BY <1>3, <1>5 DEF LogTimes, Rising
<1>7. Passed(a, recovered', clock')
  BY <1>4 DEF Passed, Has
<1> QED BY <1>6, <1>7 DEF LogTimes, a

LEMMA TimesOnReplay ==
    ASSUME LogTypes, LogTimes, ReplayTick
    PROVE  LogTimes'
<1> DEFINE Y == Logged(events)
           h == Head(recovered.ticks)
           rest == Unreplayed(recovered')
<1>1. recovered.ticks \in Seq(Seq(Y)) /\ recovered.ticks # <<>> /\ recovered.pending \in Seq(Y)
  BY DEF LogTypes, ReplayTick, Replays
<1>2. /\ h \in Seq(Y) /\ Tail(recovered.ticks) \in Seq(Seq(Y))
      /\ AllOf(recovered.ticks) = h \o AllOf(Tail(recovered.ticks))
  BY <1>1, AllHead
<1>3. recovered'.ticks = Tail(recovered.ticks) /\ recovered'.pending = recovered.pending
  BY DEF ReplayTick, LogTypes, Replays
<1>4. AllOf(Tail(recovered.ticks)) \in Seq(Y)
  BY <1>2, AllType
<1>5. Unreplayed(recovered) = h \o rest /\ rest \in Seq(Y)
  <2> DEFINE t == AllOf(Tail(recovered.ticks))
             q == recovered.pending
  <2>1. Unreplayed(recovered) = (h \o t) \o q /\ rest = t \o q
    BY <1>2, <1>3 DEF Unreplayed
  <2>2. h \in Seq(Y) /\ t \in Seq(Y) /\ q \in Seq(Y)
    BY <1>1, <1>2, <1>4
  <2> HIDE DEF h, t, q, rest, Y
  <2> QED BY <2>1, <2>2
<1>6. /\ clock' >= clock /\ clock' \in Nat /\ clock \in Nat
      /\ \A i \in DOMAIN h : h[i].seq < clock'
  <2>1. events \in Nat /\ clock \in 0 .. events
    BY DEF LogTypes
  <2>2. clock' = ClockAfter(h)
    BY DEF ReplayTick
  <2>3. ClockAfter(h) \in 0 .. events /\ ClockAfter(h) >= clock /\ \A i \in DOMAIN h : h[i].seq < ClockAfter(h)
    <3> HIDE DEF h
    <3> QED BY <1>2, <2>1, ClockPasses
  <2> QED BY <2>1, <2>2, <2>3
<1>7. wal' = wal /\ Inputs(wal) \in Seq(Y) /\ \A e \in Y : e.seq \in Nat
  <2>1. wal' = wal /\ wal \in Seq(Entry(events))
    BY DEF ReplayTick, LogTypes
  <2>2. \A e \in Y : e.seq \in Nat
    BY DEF Logged
  <2> QED BY <2>1, <2>2, InputsType
<1> DEFINE in == Inputs(wal)
<1>8. Passed(in, recovered', clock')
  <2> SUFFICES ASSUME NEW m \in DOMAIN in PROVE in[m].seq < clock' \/ Has(rest, in[m])
    BY DEF Passed
  <2>1. in[m].seq < clock \/ Has(h \o rest, in[m])
    BY <1>5 DEF LogTimes, Passed
  <2>2. in[m].seq \in Nat
    BY <1>7
  <2> HIDE DEF h, rest, in, Y
  <2>3. CASE in[m].seq < clock
    BY <1>6, <2>2, <2>3
  <2>4. CASE Has(h \o rest, in[m])
    <3>1. PICK j \in DOMAIN (h \o rest) : (h \o rest)[j] = in[m]
      BY <2>4 DEF Has
    <3>2. /\ Len(h) \in Nat /\ Len(rest) \in Nat /\ j \in 1 .. Len(h) + Len(rest)
          /\ DOMAIN h = 1 .. Len(h) /\ DOMAIN rest = 1 .. Len(rest)
      BY <1>2, <1>5, <3>1
    <3>3. CASE j <= Len(h)
      <4>1. j \in DOMAIN h /\ h[j] = in[m]
        BY <1>2, <1>5, <3>1, <3>2, <3>3
      <4> QED BY <1>6, <4>1
    <3>4. CASE j > Len(h)
      <4>1. j - Len(h) \in DOMAIN rest /\ rest[j - Len(h)] = in[m]
        BY <1>2, <1>5, <3>1, <3>2, <3>4
      <4> QED BY <4>1 DEF Has
    <3>5. j <= Len(h) \/ j > Len(h)
      BY <3>2
    <3> QED BY <3>3, <3>4, <3>5
  <2> QED BY <2>1, <2>3, <2>4
<1> QED BY <1>7, <1>8 DEF LogTimes

LEMMA TimesStep ==
    ASSUME LogTypes, LogControl, LogTimes, [Next]_vars
    PROVE  LogTimes'
<1>0. ASSUME UNCHANGED <<wal, clock, recovered>> PROVE LogTimes'
  BY <1>0 DEF LogTimes
<1>1. CASE UNCHANGED vars
  BY <1>0, <1>1 DEF vars, log, control
<1>2. ASSUME NEW d \in Input, AppendInput(d) PROVE LogTimes'
  BY <1>2, TimesOnAppend
<1>3. CASE BeginTick
  BY <1>0, <1>3 DEF BeginTick
<1>4. CASE EndTick
  <2>1. CASE batch # <<>>
    <3>1. wal' = Append(wal, TickCommit) /\ UNCHANGED <<clock, recovered>>
      BY <1>4, <2>1 DEF EndTick, LogTickCommit
    <3>2. Inputs(wal') = Inputs(wal)
      BY <3>1, InputsOn, LoggedKind DEF LogTypes
    <3> QED BY <3>1, <3>2 DEF LogTimes
  <2>2. CASE batch = <<>>
    BY <1>0, <1>4, <2>2 DEF EndTick
  <2> QED BY <2>1, <2>2
<1>5. CASE MaybeCheckpoint
  <2>1. Inputs(wal') = <<>>
    BY <1>5, InputsNone DEF MaybeCheckpoint, TakeCheckpoint
  <2>2. DOMAIN <<>> = {}
    OBVIOUS
  <2> QED BY <2>1, <2>2 DEF LogTimes, Rising, Passed
<1>6. CASE SkipCheckpoint
  BY <1>0, <1>6 DEF SkipCheckpoint, log
<1>7. CASE Checkpoint
  BY <1>0, <1>7 DEF Checkpoint
<1>8. ASSUME NEW n \in synced .. Len(wal), Crash(n) PROVE LogTimes'
  BY <1>8, TimesOnCrash
<1>9. CASE ReplayTick
  BY <1>9, TimesOnReplay
<1>10. CASE FinishRecovery
  <2> DEFINE Y == Logged(events)
             q == recovered.pending
             in == Inputs(wal)
  <2>1. recovered \in Replays(events) /\ recovered.ticks = <<>> /\ q \in Seq(Y)
    BY <1>10 DEF LogTypes, FinishRecovery, Replays
  <2>2. Unreplayed(recovered) = q
    <3>1. <<>> \o q = q
      BY <2>1
    <3> QED BY <2>1, <3>1, AllNone DEF Unreplayed
  <2>3. clock' >= clock /\ clock \in Nat /\ clock' \in Nat /\ \A i \in DOMAIN q : q[i].seq < clock'
    BY <1>10, <2>1, ClockPasses DEF FinishRecovery, LogTypes
  <2>4. wal' = wal /\ in \in Seq(Y) /\ \A e \in Y : e.seq \in Nat
    <3>1. wal' = wal /\ wal \in Seq(Entry(events))
      BY <1>10 DEF FinishRecovery, LogTypes
    <3>2. \A e \in Y : e.seq \in Nat
      BY DEF Logged
    <3> QED BY <3>1, <3>2, InputsType
  <2>5. \A m \in DOMAIN in : in[m].seq \in Nat
    <3> HIDE DEF in, Y
    <3> QED BY <2>4
  <2>6. Passed(in, recovered', clock')
    <3> SUFFICES ASSUME NEW m \in DOMAIN in PROVE in[m].seq < clock'
      BY DEF Passed
    <3>1. in[m].seq < clock \/ Has(q, in[m])
      BY <2>2 DEF LogTimes, Passed
    <3> HIDE DEF in, q, Y
    <3> QED BY <2>3, <2>5, <3>1 DEF Has
  <2> QED BY <2>4, <2>6 DEF LogTimes
<1>11. ASSUME UNCHANGED <<log, control>> PROVE LogTimes'
  BY <1>0, <1>11 DEF log, control
<1>12. ASSUME NEW s \in Subscriber, NewSubscriber(s) \/ ConsumerStep(s) \/ ConsumerStops(s) PROVE LogTimes'
  BY <1>11, <1>12 DEF NewSubscriber, ConsumerStep, ConsumerStops
<1>13. CASE PublishStep
  BY <1>11, <1>13 DEF PublishStep
<1> QED BY <1>1, <1>2, <1>3, <1>4, <1>5, <1>6, <1>7, <1>8, <1>9, <1>10, <1>12, <1>13 DEF Next

\* DeltaLog's next_time over crashes and recoveries, also slow ones: the
\* logical times in the log increase, whichever entries a crash left and
\* however often recover() was interrupted.
THEOREM LoggedTimesIncrease == Spec => []TimesIncrease
<1> DEFINE I == LogTypes /\ LogControl /\ LogTimes
<1>1. Init => I
  <2> SUFFICES ASSUME Init PROVE LogTimes
    BY LogStarts
  <2>1. Inputs(wal) = <<>>
    BY InputsNone DEF Init
  <2>2. DOMAIN <<>> = {}
    OBVIOUS
  <2> QED BY <2>1, <2>2 DEF LogTimes, Rising, Passed
<1>2. I /\ [Next]_vars => I'
  BY LogStep, TimesStep
<1>3. I => TimesIncrease
  BY DEF LogTimes, Rising, TimesIncrease
<1> QED BY <1>1, <1>2, <1>3, PTL DEF Spec

-----------------------------------------------------------------------------
(* The inputs are accounted for, in memory and on disk.                      *)

\* The records that are neither in the base nor lost.
LEMMA OwedIdle ==
    ASSUME NEW n, NEW p \in Seq(Logged(n))
    PROVE  p \o AllOf(NothingRecovered.ticks) \o NothingRecovered.pending = p
<1>1. NothingRecovered.ticks = <<>> /\ NothingRecovered.pending = <<>>
  BY DEF NothingRecovered
<1>2. (p \o <<>>) \o <<>> = p
  OBVIOUS
<1> QED BY <1>1, <1>2, AllNone

LEMMA OwedBusy ==
    ASSUME NEW n, NEW r \in Replays(n)
    PROVE  <<>> \o AllOf(r.ticks) \o r.pending = Unreplayed(r)
<1>1. AllOf(r.ticks) \in Seq(Logged(n))
  BY UnreplayedType
<1>2. <<>> \o AllOf(r.ticks) = AllOf(r.ticks)
  BY <1>1
<1> QED BY <1>2 DEF Unreplayed

Accounts == InputsAccounted /\ NoInputTruncated

LEMMA AccountsOnAppend ==
    ASSUME LogTypes, LogControl, Accounts, NEW d \in Input, AppendInput(d)
    PROVE  Accounts'
<1> DEFINE entry == InputEntry(clock, d.triple, d.mult)
           one == NetDelta(<<entry>>)
           Y == Logged(events')
<1>1. /\ wal' = Append(wal, entry) /\ pending' = Append(pending, entry) /\ recovered' = recovered
      /\ phase = "idle" /\ Counted /\ UNCHANGED <<circuit, baseline>>
      /\ issued' = Plus(issued, one)
  BY DEF AppendInput, control
<1>2. entry \in Y /\ entry \in Entry(events') /\ entry.kind = "input"
  BY <1>1, InputLogged, EventCounted, LoggedKind
<1>3. recovered = NothingRecovered
  BY <1>1 DEF LogControl
<1> HIDE DEF entry
<1>4. /\ pending \in Seq(Y) /\ wal \in Seq(Entry(events')) /\ <<entry>> \in Seq(Y)
      /\ Summable(Y)
  BY <1>1, <1>2, EventCounted, LoggedKind
<1>5. Inputs(wal) \in Seq(Y) /\ Inputs(wal') = Append(Inputs(wal), entry)
  BY <1>1, <1>2, <1>4, InputsType, InputsOn
<1>6. ASSUME NEW s \in Seq(Y)
      PROVE  NetDelta(Append(s, entry)) = Plus(NetDelta(s), one) /\ NetDelta(s) \in Zset
  <2> HIDE DEF Y
  <2>1. Append(s, entry) = s \o <<entry>>
    BY <1>2
  <2> QED BY <1>4, <2>1, NetConcat, NetType
<1>7. one \in Zset /\ circuit.asserted \in Zset /\ baseline \in Zset
  BY <1>4, NetType DEF LogTypes
<1>8. /\ issued = Plus(circuit.asserted, NetDelta(pending))
      /\ issued = Plus(baseline, NetDelta(Inputs(wal)))
  BY <1>3, <1>4, OwedIdle DEF Accounts, InputsAccounted, NoInputTruncated
<1>9. pending' \in Seq(Y)
  <2> HIDE DEF Y
  <2> QED BY <1>1, <1>2, <1>4
<1> HIDE DEF one, Y
<1>10. issued' = Plus(circuit.asserted, NetDelta(pending'))
  <2>1. NetDelta(Append(pending, entry)) = Plus(NetDelta(pending), one) /\ NetDelta(pending) \in Zset
    BY <1>4, <1>6
  <2>2. issued' = Plus(Plus(circuit.asserted, NetDelta(pending)), one)
    BY <1>1, <1>8
  <2>3. issued' = Plus(circuit.asserted, Plus(NetDelta(pending), one))
    BY <1>7, <2>1, <2>2, PlusAssociative
  <2> QED BY <1>1, <2>1, <2>3
<1>11. issued' = Plus(baseline, NetDelta(Inputs(wal')))
  BY <1>1, <1>5, <1>6, <1>7, <1>8, PlusAssociative
<1>12. pending' \o AllOf(recovered'.ticks) \o recovered'.pending = pending'
  BY <1>1, <1>3, <1>9, OwedIdle DEF Y
<1> QED BY <1>1, <1>10, <1>11, <1>12 DEF Accounts, InputsAccounted, NoInputTruncated

\* A tick moves what it drains from memory to the base.
LEMMA AccountsOnDrain ==
    ASSUME LogTypes, LogControl, Accounts, phase = "idle", Drain(pending),
           UNCHANGED <<wal, baseline, recovered, issued>>
    PROVE  Accounts'
<1>1. /\ pending \in Seq(Logged(events)) /\ pending' = <<>> /\ recovered = NothingRecovered
      /\ <<>> \in Seq(Logged(events))
  BY DEF LogTypes, LogControl, Drain
<1>2. issued = Plus(circuit.asserted, NetDelta(pending))
  BY <1>1, OwedIdle DEF Accounts, InputsAccounted
<1>3. circuit'.asserted = Plus(circuit.asserted, NetDelta(pending)) /\ circuit'.asserted \in Zset
  BY <1>1, DrainAsserts
<1>4. pending' \o AllOf(recovered'.ticks) \o recovered'.pending = <<>>
  BY <1>1, OwedIdle
<1>5. issued' = Plus(circuit'.asserted, EmptyZset)
  BY <1>2, <1>3, EmptySum
<1> QED BY <1>4, <1>5, NetNone DEF Accounts, InputsAccounted, NoInputTruncated

LEMMA AccountsOnCheckpoint ==
    ASSUME ~SlowRecovery, LogTypes, LogControl, Accounts, MaybeCheckpoint
    PROVE  Accounts'
<1>1. /\ recovered = NothingRecovered /\ pending = <<>>
      /\ UNCHANGED <<circuit, pending, recovered, issued>>
      /\ baseline' = circuit.asserted /\ wal' = <<>>
  BY DEF MaybeCheckpoint, Due, TakeCheckpoint, LogControl
<1>2. pending \o AllOf(recovered.ticks) \o recovered.pending = <<>>
  BY <1>1, OwedIdle DEF LogTypes
<1>3. issued = circuit.asserted
  BY <1>2, NetNone, EmptySum DEF Accounts, InputsAccounted, LogTypes
<1>4. issued' = Plus(baseline', NetDelta(Inputs(wal')))
  BY <1>1, <1>3, InputsNone, NetNone, EmptySum DEF LogTypes
<1> QED BY <1>1, <1>4 DEF Accounts, InputsAccounted, NoInputTruncated

LEMMA AccountsOnCrash ==
    ASSUME LogTypes, Accounts, NEW n \in synced .. Len(wal), Crash(n)
    PROVE  Accounts'
<1> DEFINE lost == SubSeq(wal, n + 1, Len(wal))
           Y == Logged(events)
           a == NetDelta(Inputs(wal'))
           b == NetDelta(Inputs(lost))
<1>1. /\ wal' \in Seq(Entry(events)) /\ lost \in Seq(Entry(events)) /\ wal = wal' \o lost
      /\ circuit'.asserted = baseline
  BY CrashTypes
<1>2. /\ recovered' = Replayed(wal') /\ pending' = <<>> /\ baseline' = baseline
      /\ issued' = [t \in Triple |-> issued[t] - b[t]]
  BY DEF Crash
<1>3. Inputs(wal) = Inputs(wal') \o Inputs(lost) /\ Inputs(wal') \in Seq(Y) /\ Inputs(lost) \in Seq(Y)
  BY <1>1, InputsConcat, InputsType
<1>4. NetDelta(Inputs(wal)) = Plus(a, b) /\ a \in Zset /\ b \in Zset
  BY <1>3, NetConcat, NetType, LoggedKind
<1>5. issued = Plus(baseline, Plus(a, b)) /\ baseline \in Zset
  BY <1>4 DEF Accounts, NoInputTruncated, LogTypes
<1>6. recovered' \in Replays(events) /\ Unreplayed(recovered') = Inputs(wal')
  BY <1>1, <1>2, ReplayedType, ReplayedAll DEF Unreplayed
<1>7. pending' \o AllOf(recovered'.ticks) \o recovered'.pending = Inputs(wal')
  BY <1>2, <1>6, OwedBusy
<1> HIDE DEF a, b, lost, Y
<1>8. issued' = Plus(baseline, a)
  <2>1. \A t \in Triple : issued[t] = baseline[t] + (a[t] + b[t])
    BY <1>4, <1>5, PlusAt
  <2>2. \A t \in Triple : issued[t] - b[t] = baseline[t] + a[t]
    BY <1>4, <1>5, <2>1 DEF Zset
  <2>3. Plus(baseline, a) = [t \in Triple |-> baseline[t] + a[t]]
    BY DEF Plus, Tabulated
  <2> QED BY <1>2, <2>2, <2>3
<1> QED BY <1>1, <1>2, <1>7, <1>8 DEF Accounts, InputsAccounted, NoInputTruncated, a

LEMMA AccountsOnReplay ==
    ASSUME LogTypes, LogControl, Accounts, ReplayTick
    PROVE  Accounts'
<1> DEFINE Y == Logged(events)
           h == Head(recovered.ticks)
           t == AllOf(Tail(recovered.ticks))
           q == recovered.pending
<1>1. /\ recovered \in Replays(events) /\ recovered.ticks \in Seq(Seq(Y))
      /\ recovered.ticks # <<>> /\ q \in Seq(Y) /\ pending = <<>> /\ pending' = <<>>
      /\ UNCHANGED <<wal, baseline, issued>>
  BY DEF LogTypes, ReplayTick, Replays, LogControl, Drain, history
<1>2. h \in Seq(Y) /\ Tail(recovered.ticks) \in Seq(Seq(Y)) /\ AllOf(recovered.ticks) = h \o t
  BY <1>1, AllHead
<1>3. recovered' = [ticks |-> Tail(recovered.ticks), pending |-> q]
  BY DEF ReplayTick, LogTypes, Replays
<1>4. t \in Seq(Y) /\ recovered' \in Replays(events)
  BY <1>1, <1>2, <1>3, AllType DEF Replays
<1>5. circuit'.asserted = Plus(circuit.asserted, NetDelta(h)) /\ NetDelta(h) \in Zset
  BY <1>2, DrainAsserts DEF ReplayTick
<1>6. pending \o AllOf(recovered.ticks) \o q = (h \o t) \o q
  BY <1>1, <1>2, OwedBusy DEF Unreplayed
<1>7. pending' \o AllOf(recovered'.ticks) \o recovered'.pending = t \o q
  BY <1>1, <1>3, <1>4, OwedBusy DEF Unreplayed
<1>8. issued = Plus(circuit.asserted, NetDelta((h \o t) \o q)) /\ circuit.asserted \in Zset
  BY <1>6 DEF Accounts, InputsAccounted, LogTypes
<1>9. Summable(Y)
  BY LoggedKind
<1> HIDE DEF h, t, q, Y
<1>10. (h \o t) \o q = h \o (t \o q) /\ t \o q \in Seq(Y)
  BY <1>1, <1>2, <1>4
<1>11. NetDelta(h \o (t \o q)) = Plus(NetDelta(h), NetDelta(t \o q)) /\ NetDelta(t \o q) \in Zset
  <2> DEFINE u == t \o q
  <2>1. u \in Seq(Y)
    BY <1>10
  <2> HIDE DEF u
  <2>2. NetDelta(h \o u) = Plus(NetDelta(h), NetDelta(u)) /\ NetDelta(u) \in Zset
    BY <1>2, <1>9, <2>1, NetConcat, NetType
  <2> QED BY <2>2 DEF u
<1>12. issued = Plus(Plus(circuit.asserted, NetDelta(h)), NetDelta(t \o q))
  BY <1>5, <1>8, <1>10, <1>11, PlusAssociative
<1> QED BY <1>1, <1>5, <1>7, <1>12 DEF Accounts, InputsAccounted, NoInputTruncated

LEMMA AccountsOnFinish ==
    ASSUME LogTypes, LogControl, Accounts, FinishRecovery
    PROVE  Accounts'
<1> DEFINE q == recovered.pending
<1>1. /\ recovered \in Replays(events) /\ q \in Seq(Logged(events)) /\ recovered.ticks = <<>>
      /\ pending = <<>> /\ pending' = q /\ recovered' = NothingRecovered
      /\ UNCHANGED <<circuit, wal, baseline, issued>>
  BY DEF LogTypes, FinishRecovery, Replays, LogControl, history
<1>2. pending \o AllOf(recovered.ticks) \o q = q
  <2>1. <<>> \o q = q
    BY <1>1
  <2> QED BY <1>1, <2>1, OwedBusy, AllNone DEF Unreplayed
<1>3. pending' \o AllOf(recovered'.ticks) \o recovered'.pending = q
  BY <1>1, OwedIdle
<1> QED BY <1>1, <1>2, <1>3 DEF Accounts, InputsAccounted, NoInputTruncated

LEMMA AccountsStep ==
    ASSUME ~SlowRecovery, LogTypes, LogControl, Accounts, [Next]_vars
    PROVE  Accounts'
<1>0. ASSUME UNCHANGED <<circuit, pending, wal, baseline, recovered, issued>> PROVE Accounts'
  BY <1>0 DEF Accounts, InputsAccounted, NoInputTruncated
<1>1. CASE UNCHANGED vars
  BY <1>0, <1>1 DEF vars, log, control, history
<1>2. ASSUME NEW d \in Input, AppendInput(d) PROVE Accounts'
  BY <1>2, AccountsOnAppend
<1>3. CASE BeginTick
  BY <1>3, AccountsOnDrain DEF BeginTick, history
<1>4. CASE EndTick
  <2>1. UNCHANGED <<pending, baseline, recovered, issued>> /\ circuit'.asserted = circuit.asserted
    BY <1>4 DEF EndTick, LogTypes, HasBase
  <2>2. Inputs(wal') = Inputs(wal)
    <3>1. CASE batch # <<>>
      <4>1. wal' = Append(wal, TickCommit)
        BY <1>4, <3>1 DEF EndTick, LogTickCommit
      <4> QED BY <4>1, InputsOn, LoggedKind DEF LogTypes
    <3>2. CASE batch = <<>>
      BY <1>4, <3>2 DEF EndTick
    <3> QED BY <3>1, <3>2
  <2> QED BY <2>1, <2>2 DEF Accounts, InputsAccounted, NoInputTruncated
<1>5. CASE MaybeCheckpoint
  BY <1>5, AccountsOnCheckpoint
<1>6. CASE SkipCheckpoint
  BY <1>0, <1>6 DEF SkipCheckpoint, log, history
<1>7. CASE Checkpoint
  <2>1. CASE pending # <<>>
    BY <1>7, <2>1, AccountsOnDrain DEF Checkpoint, history
  <2>2. CASE pending = <<>>
    BY <1>0, <1>7, <2>2 DEF Checkpoint, history
  <2> QED BY <2>1, <2>2
<1>8. ASSUME NEW n \in synced .. Len(wal), Crash(n) PROVE Accounts'
  BY <1>8, AccountsOnCrash
<1>9. CASE ReplayTick
  BY <1>9, AccountsOnReplay
<1>10. CASE FinishRecovery
  BY <1>10, AccountsOnFinish
<1>11. ASSUME UNCHANGED <<circuit, log, control, history>> PROVE Accounts'
  BY <1>0, <1>11 DEF log, control, history
<1>12. ASSUME NEW s \in Subscriber, NewSubscriber(s) \/ ConsumerStep(s) \/ ConsumerStops(s) PROVE Accounts'
  BY <1>11, <1>12 DEF NewSubscriber, ConsumerStep, ConsumerStops
<1>13. CASE PublishStep
  BY <1>11, <1>13 DEF PublishStep
<1> QED BY <1>1, <1>2, <1>3, <1>4, <1>5, <1>6, <1>7, <1>8, <1>9, <1>10, <1>12, <1>13 DEF Next

LEMMA AccountsStart == Init => Accounts
<1> SUFFICES ASSUME Init PROVE Accounts
  OBVIOUS
<1>1. /\ circuit.asserted = EmptyZset /\ baseline = EmptyZset /\ issued = EmptyZset
      /\ pending = <<>> /\ wal = <<>> /\ recovered = NothingRecovered
  BY DEF Init, NewCircuit
<1>2. pending \in Seq(Logged(0))
  BY <1>1
<1>3. pending \o AllOf(recovered.ticks) \o recovered.pending = <<>>
  BY <1>1, <1>2, OwedIdle
<1>4. Plus(EmptyZset, EmptyZset) = EmptyZset
  BY EmptySum
<1> QED BY <1>1, <1>3, <1>4, NetNone, InputsNone DEF Accounts, InputsAccounted, NoInputTruncated

-----------------------------------------------------------------------------
(* The batches a replay would have.                                          *)

OpenBatch ==
    CASE phase = "idle" -> pending
      [] phase = "ticking" /\ ~replaying -> batch
      [] OTHER -> recovered.pending
Grouped == ~resealed => Replayed(wal) = [ticks |-> grouping, pending |-> OpenBatch]

LEMMA GroupedOnAppend ==
    ASSUME LogTypes, Grouped, NEW d \in Input, AppendInput(d)
    PROVE  Grouped'
<1> DEFINE entry == InputEntry(clock, d.triple, d.mult)
<1>1. /\ wal' = Append(wal, entry) /\ pending' = Append(pending, entry)
      /\ phase = "idle" /\ phase' = "idle" /\ Counted /\ UNCHANGED <<grouping, resealed>>
  BY DEF AppendInput, control
<1>2. entry \in Entry(events') /\ entry.kind = "input"
  BY <1>1, InputLogged, EventCounted, LoggedKind
<1> HIDE DEF entry
<1>3. Replayed(wal') = ReplayStep(0, Replayed(wal), entry)
  BY <1>1, <1>2, EventCounted, ReplayedOn
<1> SUFFICES ASSUME ~resealed
             PROVE  Replayed(wal') = [ticks |-> grouping, pending |-> pending']
  BY <1>1 DEF Grouped, OpenBatch
<1>4. Replayed(wal) = [ticks |-> grouping, pending |-> pending]
  BY <1>1 DEF Grouped, OpenBatch
<1> DEFINE r == [ticks |-> grouping, pending |-> pending]
<1>5. ReplayStep(0, r, entry) = [r EXCEPT !.pending = Append(@, entry)]
  BY <1>2 DEF ReplayStep
<1>6. [r EXCEPT !.pending = Append(@, entry)] = [ticks |-> grouping, pending |-> Append(pending, entry)]
  OBVIOUS
<1> QED BY <1>1, <1>3, <1>4, <1>5, <1>6

LEMMA GroupedOnEndTick ==
    ASSUME LogTypes, LogControl, Grouped, EndTick
    PROVE  Grouped'
<1> SUFFICES ASSUME ~resealed'
             PROVE  Replayed(wal') = [ticks |-> grouping', pending |-> recovered.pending]
  BY DEF Grouped, OpenBatch, EndTick
<1>1. phase = "ticking"
  BY DEF EndTick
<1>2. CASE batch = <<>>
  <2>1. replaying /\ ~resealed /\ UNCHANGED <<wal, grouping>>
    BY <1>1, <1>2 DEF EndTick, LogControl, LogTypes
  <2> QED BY <1>1, <2>1 DEF Grouped, OpenBatch
<1>3. CASE batch # <<>>
  <2>1. wal' = Append(wal, TickCommit) /\ ~resealed /\ (replaying => recovered.pending = <<>>)
    BY <1>3 DEF EndTick, LogTickCommit
  <2>2. Replayed(wal') = ReplayStep(0, Replayed(wal), TickCommit)
    BY <2>1, ReplayedOn, LoggedKind DEF LogTypes
  <2>3. TickCommit.kind # "input"
    BY LoggedKind
  <2> HIDE DEF TickCommit
  <2>4. CASE replaying
    <3>1. grouping' = grouping
      BY <1>3, <2>4 DEF EndTick
    <3>2. Replayed(wal) = [ticks |-> grouping, pending |-> recovered.pending]
      BY <1>1, <2>1, <2>4 DEF Grouped, OpenBatch
    <3> QED BY <2>1, <2>2, <2>3, <2>4, <3>1, <3>2 DEF ReplayStep
  <2>5. CASE ~replaying
    <3>1. grouping' = Append(grouping, batch)
      BY <1>3, <2>5 DEF EndTick
    <3>2. Replayed(wal) = [ticks |-> grouping, pending |-> batch]
      BY <1>1, <2>1, <2>5 DEF Grouped, OpenBatch
    <3>3. recovered.pending = <<>>
      BY <1>1, <2>5 DEF LogControl, NothingRecovered
    <3> QED BY <1>3, <2>2, <2>3, <3>1, <3>2, <3>3 DEF ReplayStep
  <2> QED BY <2>4, <2>5
<1> QED BY <1>2, <1>3

LEMMA GroupedOnCrash ==
    ASSUME LogTypes, LogSync, Grouped, NEW n \in synced .. Len(wal), Crash(n)
    PROVE  Grouped'
<1> DEFINE lost == SubSeq(wal, n + 1, Len(wal))
           Y == Logged(events)
<1>1. /\ wal' \in Seq(Entry(events)) /\ lost \in Seq(Entry(events)) /\ wal = wal' \o lost
  BY CrashTypes
<1>2. phase' = "recovering" /\ recovered' = Replayed(wal') /\ UNCHANGED <<grouping, resealed>>
  BY DEF Crash
<1>3. lost \in Seq(Y)
  <2>1. /\ wal \in Seq(Entry(events)) /\ Len(wal) \in Nat /\ synced \in Nat
        /\ n \in synced .. Len(wal)
    BY DEF LogTypes
  <2>2. Len(lost) = Len(wal) - n /\ Len(lost) \in Nat
    <3> DEFINE X == Entry(events)
    <3> HIDE DEF X
    <3>1. wal \in Seq(X)
      BY <2>1 DEF X
    <3> QED BY <2>1, <3>1
  <2>3. \A i \in 1 .. Len(lost) : lost[i] = wal[n + i] /\ n + i \in synced + 1 .. Len(wal)
    <3> DEFINE X == Entry(events)
    <3> HIDE DEF X
    <3>1. wal \in Seq(X)
      BY <2>1 DEF X
    <3> QED BY <2>1, <2>2, <3>1
  <2> HIDE DEF lost, Y
  <2>4. \A i \in 1 .. Len(lost) : lost[i] \in Y
    BY <2>3 DEF LogSync, Y
  <2>5. lost = [i \in 1 .. Len(lost) |-> lost[i]]
    <3> DEFINE X == Entry(events)
    <3> HIDE DEF X
    <3>1. lost \in Seq(X)
      BY <1>1 DEF X
    <3> QED BY <3>1
  <2> QED BY <2>2, <2>4, <2>5, IsASeq
<1> HIDE DEF lost
<1> SUFFICES ASSUME ~resealed
             PROVE  Replayed(wal') = [ticks |-> grouping, pending |-> Replayed(wal').pending]
  BY <1>2 DEF Grouped, OpenBatch
<1>4. Replayed(wal).ticks = grouping
  BY DEF Grouped
<1>5. Replayed(wal') \in Replays(events) /\ Replayed(wal).ticks = Replayed(wal').ticks
  BY <1>1, <1>3, ReplayedType, ReplayedOpen
<1> QED BY <1>4, <1>5 DEF Replays

LEMMA GroupedStep ==
    ASSUME ~SlowRecovery, LogTypes, LogControl, LogSync, Grouped, [Next]_vars
    PROVE  Grouped'
<1>1. CASE UNCHANGED vars
  BY <1>1 DEF vars, log, control, history, Grouped, OpenBatch
<1>2. ASSUME NEW d \in Input, AppendInput(d) PROVE Grouped'
  BY <1>2, GroupedOnAppend
<1>3. CASE BeginTick
  BY <1>3 DEF BeginTick, Drain, history, Grouped, OpenBatch, LogControl
<1>4. CASE EndTick
  BY <1>4, GroupedOnEndTick
<1>5. CASE MaybeCheckpoint
  <2>1. recovered = NothingRecovered /\ pending = <<>>
    BY <1>5 DEF MaybeCheckpoint, Due, LogControl
  <2>2. Replayed(wal') = NothingRecovered /\ grouping' = <<>> /\ OpenBatch' = <<>>
    BY <1>5, <2>1, ReplayedNone
       DEF MaybeCheckpoint, TakeCheckpoint, OpenBatch, AfterTick, NothingRecovered
  <2> QED BY <2>2 DEF Grouped, NothingRecovered
<1>6. CASE SkipCheckpoint
  <2>1. OpenBatch' = OpenBatch
    BY <1>6 DEF SkipCheckpoint, AfterTick, log, OpenBatch, LogControl, NothingRecovered
  <2> QED BY <1>6, <2>1 DEF SkipCheckpoint, log, history, Grouped
<1>7. CASE Checkpoint
  <2>1. CASE pending # <<>>
    BY <1>7, <2>1 DEF Checkpoint, Drain, history, Grouped, OpenBatch, LogControl
  <2>2. CASE pending = <<>>
    <3>1. OpenBatch' = OpenBatch
      BY <1>7, <2>2 DEF Checkpoint, OpenBatch, LogControl, NothingRecovered
    <3> QED BY <1>7, <2>2, <3>1 DEF Checkpoint, history, Grouped
  <2> QED BY <2>1, <2>2
<1>8. ASSUME NEW n \in synced .. Len(wal), Crash(n) PROVE Grouped'
  BY <1>8, GroupedOnCrash
<1>9. CASE ReplayTick
  <2>1. recovered'.pending = recovered.pending
    BY <1>9 DEF ReplayTick, LogTypes, Replays
  <2>2. OpenBatch' = OpenBatch
    BY <1>9, <2>1 DEF ReplayTick, Drain, OpenBatch
  <2> QED BY <1>9, <2>2 DEF ReplayTick, history, Grouped
<1>10. CASE FinishRecovery
  <2>1. OpenBatch' = OpenBatch
    BY <1>10 DEF FinishRecovery, OpenBatch
  <2> QED BY <1>10, <2>1 DEF FinishRecovery, history, Grouped
<1>11. ASSUME UNCHANGED <<circuit, log, control, history>> PROVE Grouped'
  BY <1>11 DEF log, control, history, Grouped, OpenBatch
<1>12. ASSUME NEW s \in Subscriber, NewSubscriber(s) \/ ConsumerStep(s) \/ ConsumerStops(s) PROVE Grouped'
  BY <1>11, <1>12 DEF NewSubscriber, ConsumerStep, ConsumerStops
<1>13. CASE PublishStep
  BY <1>11, <1>13 DEF PublishStep
<1> QED BY <1>1, <1>2, <1>3, <1>4, <1>5, <1>6, <1>7, <1>8, <1>9, <1>10, <1>12, <1>13 DEF Next

-----------------------------------------------------------------------------
(* The theorems about the log.                                               *)

LogInv ==
    /\ LogTypes
    /\ LogControl
    /\ LogSync
    /\ Accounts
    /\ Grouped

\* The log's invariant holds where recover() is never slower than the
\* checkpoint interval.
LEMMA LogInvHolds ==
    ASSUME ~SlowRecovery
    PROVE  Spec => []LogInv
<1>1. Init => LogInv
  <2> SUFFICES ASSUME Init PROVE LogInv
    OBVIOUS
  <2>1. LogTypes /\ LogControl /\ Accounts
    BY LogStarts, AccountsStart
  <2>2. LogSync
    <3>1. wal = <<>> /\ synced = 0 /\ pending = <<>> /\ Len(<<>>) = 0
      BY DEF Init
    <3>2. TailPending
      BY <3>1 DEF TailPending
    <3>3. \A i \in synced + 1 .. Len(wal) : FALSE
      BY <3>1
    <3> QED BY <3>1, <3>2, <3>3 DEF LogSync
  <2>3. Grouped
    BY ReplayedNone DEF Init, Grouped, OpenBatch, NothingRecovered
  <2> QED BY <2>1, <2>2, <2>3 DEF LogInv
<1>2. LogInv /\ [Next]_vars => LogInv'
  <2> SUFFICES ASSUME LogInv, [Next]_vars PROVE LogInv'
    OBVIOUS
  <2>1. LogTypes' /\ LogControl'
    BY LogStep DEF LogInv
  <2>2. LogSync'
    BY <2>1, SyncStep DEF LogInv
  <2>3. Accounts' /\ Grouped'
    BY AccountsStep, GroupedStep DEF LogInv
  <2> QED BY <2>1, <2>2, <2>3 DEF LogInv
<1> QED BY <1>1, <1>2, PTL DEF Spec

\* delta_log.rs and checkpoint.rs: every input is in the asserted base, pending
\* or about to be replayed, once, after any ticks, checkpoints, crashes and
\* interrupted recoveries, for every set of triples, rules and inputs.
THEOREM EveryInputAccounted ==
    ASSUME ~SlowRecovery
    PROVE  Spec => []InputsAccounted
<1>1. LogInv => InputsAccounted
  BY DEF LogInv, Accounts
<1> QED BY <1>1, LogInvHolds, PTL

\* Circuit::checkpoint's contract, and the sync policies': a crash at any point
\* loses no synced input; what it may lose was never ticked, and under
\* EveryBatch it loses nothing.
THEOREM CrashesLoseNothing ==
    ASSUME ~SlowRecovery
    PROVE  Spec => []CrashLosesNothing
<1>1. LogInv => CrashLosesNothing
  BY SyncedEnough DEF LogInv, Accounts, CrashLosesNothing
<1> QED BY <1>1, LogInvHolds, PTL

\* RecoveredInputs: a replay of the log has the ticks that were run, in their
\* grouping, until a replayed tick's marker closes an open batch.
THEOREM ReplaysKeepGrouping ==
    ASSUME ~SlowRecovery
    PROVE  Spec => []GroupingKept
<1>1. LogInv => GroupingKept
  BY DEF LogInv, Grouped, OpenBatch, GroupingKept
<1> QED BY <1>1, LogInvHolds, PTL

-----------------------------------------------------------------------------
(* What a tick publishes.                                                    *)

\* The circuit keeps its shape, and its derived rows their owners: between
\* ticks and while a tick's records are being published.
CircuitFormed == WellFormed(circuit)

\* A circuit whose net records have been published, or dropped.
LEMMA PublishedForm ==
    ASSUME NEW c, WellFormed(c)
    PROVE  WellFormed([c EXCEPT !.pending = NoEmission])
<1> DEFINE d == [c EXCEPT !.pending = NoEmission]
<1>1. NoEmission \in Emission
  BY DEF NoEmission, Emission
<1>2. /\ d \in CircuitState /\ d.derived = c.derived /\ d.attr = c.attr
      /\ d.support = c.support
  BY <1>1, StateShape DEF WellFormed
<1> HIDE DEF d
<1>3. WellFormed(d)
  BY <1>2 DEF WellFormed, Owners, Owned
<1> QED BY <1>3 DEF d

\* What the records of the tick from c to d say of each triple.
Announces(c, d) ==
    /\ {t \in Triple : TotalOf(d, t) > 0} = DerivedSet(d) \ DerivedSet(c)
    /\ {t \in Triple : TotalOf(d, t) < 0} = DerivedSet(c) \ DerivedSet(d)

LEMMA DrainAnnounces ==
    ASSUME LogTypes, CircuitFormed, NEW records \in Seq(Logged(events)), Drain(records)
    PROVE  CircuitFormed' /\ Announces(circuit, circuit')
<1>1. circuit' = Tick(circuit, records)
  BY DEF Drain
<1>2. NetDelta(records) \in Zset
  BY DrainAsserts
<1>3. /\ WellFormed(circuit')
      /\ \A t \in Triple : Reported(circuit', t) = circuit'.derived[t] - circuit.derived[t]
  BY <1>1, <1>2, TickMoves DEF CircuitFormed
<1>4. \A t \in Triple : TotalOf(circuit', t) = Reported(circuit', t)
  BY DEF TotalOf, Reported, SumOf
<1>5. ASSUME NEW t \in Triple
      PROVE  /\ TotalOf(circuit', t) > 0 <=> circuit'.derived[t] > 0 /\ ~(circuit.derived[t] > 0)
             /\ TotalOf(circuit', t) < 0 <=> circuit.derived[t] > 0 /\ ~(circuit'.derived[t] > 0)
  <2>1. circuit'.derived[t] \in {0, 1}
    BY <1>3 DEF WellFormed, Owners
  <2>2. circuit.derived[t] \in {0, 1}
    BY DEF CircuitFormed, WellFormed, Owners
  <2>3. TotalOf(circuit', t) = circuit'.derived[t] - circuit.derived[t]
    BY <1>3, <1>4
  <2> QED BY <2>1, <2>2, <2>3
<1>6. Announces(circuit, circuit')
  BY <1>5 DEF Announces, DerivedSet
<1> QED BY <1>3, <1>6 DEF CircuitFormed

LEMMA CircuitFormedStarts == Init => CircuitFormed
<1> SUFFICES ASSUME Init PROVE CircuitFormed
  OBVIOUS
<1>1. PICK setup \in Setup : circuit = NewCircuit(setup.fallback)
  BY DEF Init
<1>2. setup.fallback \in BOOLEAN
  BY SetupAssumption
<1> QED BY <1>1, <1>2, NewCircuitFormed DEF CircuitFormed

\* A new circuit that is given the checkpoint's base.
LEMMA CrashForms ==
    ASSUME LogTypes, CircuitFormed, NEW n, Crash(n)
    PROVE  CircuitFormed'
<1> DEFINE fresh == NewCircuit(circuit.fallback)
           c == Tick(fresh, Restored(baseline))
<1>1. circuit.fallback \in BOOLEAN
  BY StateShape DEF CircuitFormed, WellFormed
<1>2. WellFormed(fresh)
  BY <1>1, NewCircuitFormed
<1>3. NetDelta(Restored(baseline)) \in Zset
  <2> DEFINE ts == {t \in Triple : baseline[t] # 0}
  <2>1. baseline \in Zset /\ ts \in SUBSET Triple
    BY DEF LogTypes
  <2>2. Restored(baseline) \in Seq(Delta)
    BY <2>1, RecordsSum DEF Restored
  <2> QED BY <2>2, NetType, DeltasSummable
<1> HIDE DEF fresh
<1>4. WellFormed(c)
  BY <1>2, <1>3, TickMoves
<1>5. circuit' = [c EXCEPT !.pending = NoEmission]
  BY DEF Crash, fresh
<1> HIDE DEF c
<1> QED BY <1>4, <1>5, PublishedForm DEF CircuitFormed

\* Only the tick itself moves derived rows between two ticks.
LEMMA AnnounceStep ==
    ASSUME LogTypes, CircuitFormed, [Next]_vars
    PROVE  /\ CircuitFormed'
           /\ phase # "ticking" /\ phase' = "ticking" => Announces(circuit, circuit')
<1> DEFINE Goal == /\ CircuitFormed'
                   /\ phase # "ticking" /\ phase' = "ticking" => Announces(circuit, circuit')
<1>0. pending \in Seq(Logged(events)) /\ recovered \in Replays(events)
  BY DEF LogTypes
<1>1. ASSUME circuit' = circuit, phase' # "ticking" \/ phase' = phase PROVE Goal
  BY <1>1 DEF CircuitFormed
<1>2. ASSUME NEW records \in Seq(Logged(events)), Drain(records) PROVE Goal
  BY <1>2, DrainAnnounces
<1> HIDE DEF Goal
<1>3. ASSUME UNCHANGED vars PROVE Goal
  BY <1>1, <1>3 DEF vars, control
<1>4. ASSUME NEW d \in Input, AppendInput(d) PROVE Goal
  BY <1>1, <1>4 DEF AppendInput, control
<1>5. ASSUME BeginTick PROVE Goal
  BY <1>0, <1>2, <1>5 DEF BeginTick
<1>6. ASSUME EndTick PROVE Goal
  <2>1. circuit' = [circuit EXCEPT !.pending = NoEmission] /\ phase' = "cadence"
    BY <1>6 DEF EndTick
  <2> QED BY <2>1, PublishedForm DEF CircuitFormed, Goal
<1>7. ASSUME MaybeCheckpoint PROVE Goal
  BY <1>1, <1>7 DEF MaybeCheckpoint, AfterTick
<1>8. ASSUME SkipCheckpoint PROVE Goal
  BY <1>1, <1>8 DEF SkipCheckpoint, AfterTick
<1>9. ASSUME Checkpoint PROVE Goal
  <2>1. CASE pending # <<>>
    BY <1>0, <1>2, <1>9, <2>1 DEF Checkpoint
  <2>2. CASE pending = <<>>
    BY <1>1, <1>9, <2>2 DEF Checkpoint
  <2> QED BY <2>1, <2>2
<1>10. ASSUME NEW n \in synced .. Len(wal), Crash(n) PROVE Goal
  <2>1. phase' = "recovering"
    BY <1>10 DEF Crash
  <2> QED BY <1>10, <2>1, CrashForms DEF Goal
<1>11. ASSUME ReplayTick PROVE Goal
  <2>1. recovered.ticks \in Seq(Seq(Logged(events))) /\ recovered.ticks # <<>>
    BY <1>0, <1>11 DEF ReplayTick, Replays
  <2>2. Head(recovered.ticks) \in Seq(Logged(events))
    BY <2>1, AllHead
  <2> QED BY <1>2, <1>11, <2>2 DEF ReplayTick
<1>12. ASSUME FinishRecovery PROVE Goal
  BY <1>1, <1>12 DEF FinishRecovery
<1>13. ASSUME UNCHANGED <<circuit, control>> PROVE Goal
  BY <1>1, <1>13 DEF control
<1>14. ASSUME NEW s \in Subscriber, NewSubscriber(s) \/ ConsumerStep(s) \/ ConsumerStops(s) PROVE Goal
  BY <1>13, <1>14 DEF NewSubscriber, ConsumerStep, ConsumerStops
<1>15. ASSUME PublishStep PROVE Goal
  BY <1>13, <1>15 DEF PublishStep
<1>16. Goal
  BY <1>3, <1>4, <1>5, <1>6, <1>7, <1>8, <1>9, <1>10, <1>11, <1>12, <1>14, <1>15 DEF Next
<1> QED BY <1>16 DEF Goal

\* The circuit's change feed, for every rule set, input history, retraction
\* regime, crash and replay: the derived records of a tick, summed per triple,
\* are the rows that came and the rows that went.
THEOREM NetRecordsTellTheRows == Spec => NetRecordsExact
<1>1. Init => LogTypes /\ LogControl /\ CircuitFormed
  BY LogStarts, CircuitFormedStarts
<1>2. (LogTypes /\ LogControl /\ CircuitFormed) /\ [Next]_vars
          => (LogTypes /\ LogControl /\ CircuitFormed)'
  BY LogStep, AnnounceStep
<1>3. LogTypes /\ LogControl /\ CircuitFormed /\ [Next]_vars =>
          [phase # "ticking" /\ phase' = "ticking" =>
            /\ {t \in Triple : TotalOf(circuit', t) > 0} = DerivedSet(circuit') \ DerivedSet(circuit)
            /\ {t \in Triple : TotalOf(circuit', t) < 0} = DerivedSet(circuit) \ DerivedSet(circuit')]_vars
  BY AnnounceStep DEF Announces
<1> QED BY <1>1, <1>2, <1>3, PTL DEF Spec, NetRecordsExact


-----------------------------------------------------------------------------
(* The circuit's counts, over ticks, crashes and replays.                    *)

EnoughRounds == MaxRounds >= Cardinality(Triple)

\* The driver's circuit, between ticks and while a tick is published.
CircuitHeld == Held(circuit) /\ (EnoughRounds => circuit.sound)

LEMMA CircuitHeldStarts == Init => CircuitHeld
<1> SUFFICES ASSUME Init PROVE CircuitHeld
  OBVIOUS
<1>1. PICK setup \in Setup : circuit = NewCircuit(setup.fallback)
  BY DEF Init
<1>2. setup.fallback \in BOOLEAN
  BY SetupAssumption
<1>3. circuit.sound
  BY <1>1 DEF NewCircuit
<1> QED BY <1>1, <1>2, <1>3, NewCircuitHeld DEF CircuitHeld

LEMMA DrainHolds ==
    ASSUME CircuitHeld, NEW records \in Seq(Logged(events)), Drain(records)
    PROVE  CircuitHeld'
<1>1. circuit' = Tick(circuit, records) /\ Summable(Logged(events))
  BY LoggedKind DEF Drain
<1>2. Held(circuit')
  BY <1>1, TickHeld DEF CircuitHeld
<1>3. EnoughRounds => circuit'.sound
  BY <1>1, TickSound DEF CircuitHeld, EnoughRounds
<1> QED BY <1>2, <1>3 DEF CircuitHeld, EnoughRounds

LEMMA PublishedHolds ==
    ASSUME NEW c, Held(c)
    PROVE  LET d == [c EXCEPT !.pending = NoEmission]
           IN  Held(d) /\ d.sound = c.sound /\ d.fallback = c.fallback
<1>1. c \in CircuitState
  BY DEF Held, WellFormed
<1> QED BY <1>1, PublishedHeld, StateShape

\* A new circuit that is given the checkpoint's base.
LEMMA CrashHolds ==
    ASSUME LogTypes, CircuitHeld, NEW n, Crash(n)
    PROVE  CircuitHeld'
<1> DEFINE fresh == NewCircuit(circuit.fallback)
           records == Restored(baseline)
           c == Tick(fresh, records)
<1>1. circuit.fallback \in BOOLEAN
  BY StateShape DEF CircuitHeld, Held, WellFormed
<1>2. Held(fresh) /\ fresh.sound
  BY <1>1, NewCircuitHeld DEF NewCircuit
<1>3. records \in Seq(Delta)
  <2> DEFINE ts == {t \in Triple : baseline[t] # 0}
  <2>1. baseline \in Zset /\ ts \in SUBSET Triple
    BY DEF LogTypes
  <2> QED BY <2>1, RecordsSum DEF Restored
<1> HIDE DEF fresh, records
<1>4. Held(c) /\ (EnoughRounds => c.sound)
  BY <1>2, <1>3, DeltasSummable, TickHeld, TickSound DEF EnoughRounds
<1>5. circuit' = [c EXCEPT !.pending = NoEmission]
  BY DEF Crash, fresh, records
<1> HIDE DEF c
<1> QED BY <1>4, <1>5, PublishedHolds DEF CircuitHeld, EnoughRounds

LEMMA CircuitHeldStep ==
    ASSUME LogTypes, CircuitHeld, [Next]_vars
    PROVE  CircuitHeld'
<1>0. pending \in Seq(Logged(events)) /\ recovered \in Replays(events)
  BY DEF LogTypes
<1>1. ASSUME circuit' = circuit PROVE CircuitHeld'
  BY <1>1 DEF CircuitHeld, EnoughRounds
<1>2. CASE UNCHANGED vars
  BY <1>1, <1>2 DEF vars
<1>3. ASSUME NEW d \in Input, AppendInput(d) PROVE CircuitHeld'
  BY <1>1, <1>3 DEF AppendInput
<1>4. CASE BeginTick
  BY <1>0, <1>4, DrainHolds DEF BeginTick
<1>5. CASE EndTick
  <2>1. circuit' = [circuit EXCEPT !.pending = NoEmission]
    BY <1>5 DEF EndTick
  <2> QED BY <2>1, PublishedHolds DEF CircuitHeld, EnoughRounds
<1>6. CASE MaybeCheckpoint
  BY <1>1, <1>6 DEF MaybeCheckpoint
<1>7. CASE SkipCheckpoint
  BY <1>1, <1>7 DEF SkipCheckpoint
<1>8. CASE Checkpoint
  <2>1. CASE pending # <<>>
    BY <1>0, <1>8, <2>1, DrainHolds DEF Checkpoint
  <2>2. CASE pending = <<>>
    BY <1>1, <1>8, <2>2 DEF Checkpoint
  <2> QED BY <2>1, <2>2
<1>9. ASSUME NEW n \in synced .. Len(wal), Crash(n) PROVE CircuitHeld'
  BY <1>9, CrashHolds
<1>10. CASE ReplayTick
  <2>1. recovered.ticks \in Seq(Seq(Logged(events))) /\ recovered.ticks # <<>>
    BY <1>0, <1>10 DEF ReplayTick, Replays
  <2>2. Head(recovered.ticks) \in Seq(Logged(events))
    BY <2>1, AllHead
  <2> QED BY <1>10, <2>2, DrainHolds DEF ReplayTick
<1>11. CASE FinishRecovery
  BY <1>1, <1>11 DEF FinishRecovery
<1>12. ASSUME NEW s \in Subscriber, NewSubscriber(s) \/ ConsumerStep(s) \/ ConsumerStops(s)
       PROVE  CircuitHeld'
  BY <1>1, <1>12 DEF NewSubscriber, ConsumerStep, ConsumerStops
<1>13. CASE PublishStep
  BY <1>1, <1>13 DEF PublishStep
<1> QED BY <1>2, <1>3, <1>4, <1>5, <1>6, <1>7, <1>8, <1>9, <1>10, <1>11, <1>12, <1>13 DEF Next

\* What holds of the circuit at every moment, whichever bound the fixpoints have.
CircuitReads ==
    /\ ClosurePlanExact(circuit)
    /\ TickAssertionsHold => CircuitExact
    /\ TickAssertionsHold => Entailed(AssertedSet(circuit)) \subseteq PresentSet(circuit)
    /\ EnoughRounds => TickAssertionsHold

LEMMA CircuitReadsAlways == Spec => []CircuitReads
<1>1. Init => LogTypes /\ LogControl /\ CircuitHeld
  BY LogStarts, CircuitHeldStarts
<1>2. (LogTypes /\ LogControl /\ CircuitHeld) /\ [Next]_vars
          => (LogTypes /\ LogControl /\ CircuitHeld)'
  BY LogStep, CircuitHeldStep
<1>3. CircuitHeld => CircuitReads
  <2> SUFFICES ASSUME CircuitHeld PROVE CircuitReads
    OBVIOUS
  <2>1. Held(circuit) /\ (EnoughRounds => circuit.sound)
    BY DEF CircuitHeld
  <2>2. ClosurePlanExact(circuit)
    BY <2>1, HeldMeans
  <2>3. circuit.sound => IncrementalExact(circuit) /\ RowsOwned(circuit)
    BY <2>1, HeldMeans
  <2>4. circuit.sound => Entailed(AssertedSet(circuit)) \subseteq PresentSet(circuit)
    BY <2>1, EntailedPresent
  <2> QED BY <2>1, <2>2, <2>3, <2>4 DEF CircuitReads, TickAssertionsHold, CircuitExact
<1> QED BY <1>1, <1>2, <1>3, PTL DEF Spec

\* tick(), whatever MAX_FIXPOINT_ROUNDS is: as long as none of its assertions has
\* failed, the circuit between two ticks is what a recount gives, and nothing that
\* the present inputs entail is missing, in both retraction regimes, after a
\* recovery as before it.  The closure plan is exact whether an assertion failed
\* or not.
THEOREM SoundTicksExact ==
    Spec => [](/\ ClosurePlanExact(circuit)
               /\ TickAssertionsHold => CircuitExact
               /\ TickAssertionsHold => Entailed(AssertedSet(circuit)) \subseteq PresentSet(circuit))
<1>1. CircuitReads =>
          /\ ClosurePlanExact(circuit)
          /\ TickAssertionsHold => CircuitExact
          /\ TickAssertionsHold => Entailed(AssertedSet(circuit)) \subseteq PresentSet(circuit)
  BY DEF CircuitReads
<1> QED BY <1>1, CircuitReadsAlways, PTL

\* The assertions of tick(), of its fixpoints and of the fallback's recompute: with
\* a round for every triple none fails, in a live tick, in the tick that restores a
\* checkpoint or in a replayed one.
THEOREM DriverAssertionsHold ==
    ASSUME MaxRounds >= Cardinality(Triple)
    PROVE  Spec => []TickAssertionsHold
<1>1. CircuitReads => TickAssertionsHold
  BY DEF CircuitReads, EnoughRounds
<1> QED BY <1>1, CircuitReadsAlways, PTL

\* debug_validate between ticks: extents, weights, traces, owners and the plan
\* are exact for every rule set, input history, retraction regime, crash and
\* replay.
THEOREM CircuitStaysExact ==
    ASSUME MaxRounds >= Cardinality(Triple)
    PROVE  Spec => []CircuitExact
<1>1. CircuitReads => CircuitExact
  BY DEF CircuitReads, EnoughRounds
<1> QED BY <1>1, CircuitReadsAlways, PTL


-----------------------------------------------------------------------------
(* What the driver's circuit entails.                                        *)

\* A row is there because the inputs entail it.
CircuitRooted == PresentSet(circuit) \subseteq Entailed(AssertedSet(circuit))

\* No tick takes the asserted copy from under a row that a rule owns.
NoTickUnshadows == [][phase' = "ticking" => ~Unshadows(circuit, circuit')]_vars

LEMMA NothingRooted ==
    ASSUME NEW c, c.asserted = EmptyZset, c.derived = EmptyZset
    PROVE  /\ PresentSet(c) \subseteq Entailed(AssertedSet(c))
           /\ \A d : ~Unshadows(c, d)
<1>1. \A t \in Triple : ~(c.asserted[t] > 0) /\ ~(c.derived[t] > 0)
  BY DEF EmptyZset
<1>2. AssertedSet(c) = {} /\ DerivedSet(c) = {}
  BY <1>1, Zenon DEF AssertedSet, DerivedSet
<1>3. \A d : ~Unshadows(c, d)
  BY <1>1, Zenon DEF Unshadows
<1>4. PresentSet(c) = {}
  BY <1>2 DEF PresentSet
<1> QED BY <1>3, <1>4

LEMMA TickRoots ==
    ASSUME NEW c, Held(c), c.sound, PresentSet(c) \subseteq Entailed(AssertedSet(c)),
           NEW X, Summable(X), NEW records \in Seq(X), EnoughRounds,
           ~Unshadows(c, Tick(c, records))
    PROVE  LET d == Tick(c, records)
           IN  /\ Held(d) /\ d.sound
               /\ PresentSet(d) \subseteq Entailed(AssertedSet(d))
<1> DEFINE d == Tick(c, records)
<1>1. Held(d)
  BY TickHeld
<1>2. d.sound
  BY TickSound DEF EnoughRounds
<1>3. PresentSet(d) \subseteq Entailed(AssertedSet(d))
  BY <1>2, TickSupported
<1> QED BY <1>1, <1>2, <1>3

LEMMA PublishedRoots ==
    ASSUME NEW c, Held(c)
    PROVE  LET d == [c EXCEPT !.pending = NoEmission]
           IN  PresentSet(d) = PresentSet(c) /\ AssertedSet(d) = AssertedSet(c)
<1> DEFINE d == [c EXCEPT !.pending = NoEmission]
<1>1. c \in CircuitState
  BY DEF Held, WellFormed
<1>2. d.asserted = c.asserted /\ d.derived = c.derived
  BY <1>1, StateShape
<1> HIDE DEF d
<1>3. PresentSet(d) = PresentSet(c) /\ AssertedSet(d) = AssertedSet(c)
  BY <1>2 DEF PresentSet, AssertedSet, DerivedSet
<1> QED BY <1>3 DEF d

LEMMA DrainRoots ==
    ASSUME CircuitHeld, CircuitRooted, EnoughRounds, ~Unshadows(circuit, circuit'),
           NEW records \in Seq(Logged(events)), Drain(records)
    PROVE  CircuitRooted'
<1>1. circuit' = Tick(circuit, records) /\ Summable(Logged(events))
  BY LoggedKind DEF Drain
<1>2. Held(circuit) /\ circuit.sound
  BY DEF CircuitHeld
<1> QED BY <1>1, <1>2, TickRoots DEF CircuitRooted

LEMMA CrashRoots ==
    ASSUME LogTypes, CircuitHeld, CircuitRooted, EnoughRounds, NEW n, Crash(n)
    PROVE  CircuitRooted'
<1> DEFINE fresh == NewCircuit(circuit.fallback)
           records == Restored(baseline)
           c == Tick(fresh, records)
           d == [c EXCEPT !.pending = NoEmission]
<1>1. circuit.fallback \in BOOLEAN
  BY StateShape DEF CircuitHeld, Held, WellFormed
<1>2. Held(fresh) /\ fresh.sound
  BY <1>1, NewCircuitHeld DEF NewCircuit
<1>3. records \in Seq(Delta)
  <2> DEFINE ts == {t \in Triple : baseline[t] # 0}
  <2>1. baseline \in Zset /\ ts \in SUBSET Triple
    BY DEF LogTypes
  <2> QED BY <2>1, RecordsSum DEF Restored
<1>4. /\ PresentSet(fresh) \subseteq Entailed(AssertedSet(fresh))
      /\ ~Unshadows(fresh, c)
  <2>1. fresh.asserted = EmptyZset /\ fresh.derived = EmptyZset
    BY DEF NewCircuit
  <2> HIDE DEF fresh, c
  <2> QED BY <2>1, NothingRooted
<1> HIDE DEF fresh, records
<1>5. Held(c) /\ PresentSet(c) \subseteq Entailed(AssertedSet(c))
  BY <1>2, <1>3, <1>4, DeltasSummable, TickRoots
<1> HIDE DEF c
<1>6. PresentSet(d) = PresentSet(c) /\ AssertedSet(d) = AssertedSet(c)
  BY <1>5, PublishedRoots
<1>7. circuit' = d
  BY DEF Crash, d, c, fresh, records
<1> HIDE DEF d
<1>8. PresentSet(d) \subseteq Entailed(AssertedSet(d))
  BY <1>5, <1>6
<1> QED BY <1>7, <1>8 DEF CircuitRooted


LEMMA CircuitRootedStep ==
    ASSUME LogTypes, CircuitHeld, CircuitRooted, EnoughRounds, [Next]_vars,
           [phase' = "ticking" => ~Unshadows(circuit, circuit')]_vars
    PROVE  CircuitRooted'
<1>0. pending \in Seq(Logged(events)) /\ recovered \in Replays(events)
  BY DEF LogTypes
<1>1. ASSUME circuit' = circuit PROVE CircuitRooted'
  BY <1>1 DEF CircuitRooted
<1>2. CASE UNCHANGED vars
  BY <1>1, <1>2 DEF vars
<1>3. ASSUME NEW records \in Seq(Logged(events)), Drain(records) PROVE CircuitRooted'
  <2>1. phase' = "ticking"
    BY <1>3 DEF Drain
  <2>2. CASE UNCHANGED vars
    BY <1>2, <2>2
  <2>3. CASE ~Unshadows(circuit, circuit')
    BY <1>3, <2>3, DrainRoots
  <2> QED BY <2>1, <2>2, <2>3
<1>4. ASSUME NEW d \in Input, AppendInput(d) PROVE CircuitRooted'
  BY <1>1, <1>4 DEF AppendInput
<1>5. CASE BeginTick
  BY <1>0, <1>3, <1>5 DEF BeginTick
<1>6. CASE EndTick
  <2>1. circuit' = [circuit EXCEPT !.pending = NoEmission]
    BY <1>6 DEF EndTick
  <2> QED BY <2>1, PublishedRoots DEF CircuitHeld, CircuitRooted
<1>7. CASE MaybeCheckpoint
  BY <1>1, <1>7 DEF MaybeCheckpoint
<1>8. CASE SkipCheckpoint
  BY <1>1, <1>8 DEF SkipCheckpoint
<1>9. CASE Checkpoint
  <2>1. CASE pending # <<>>
    BY <1>0, <1>3, <1>9, <2>1 DEF Checkpoint
  <2>2. CASE pending = <<>>
    BY <1>1, <1>9, <2>2 DEF Checkpoint
  <2> QED BY <2>1, <2>2
<1>10. ASSUME NEW n \in synced .. Len(wal), Crash(n) PROVE CircuitRooted'
  BY <1>10, CrashRoots
<1>11. CASE ReplayTick
  <2>1. recovered.ticks \in Seq(Seq(Logged(events))) /\ recovered.ticks # <<>>
    BY <1>0, <1>11 DEF ReplayTick, Replays
  <2>2. Head(recovered.ticks) \in Seq(Logged(events))
    BY <2>1, AllHead
  <2> QED BY <1>3, <1>11, <2>2 DEF ReplayTick
<1>12. CASE FinishRecovery
  BY <1>1, <1>12 DEF FinishRecovery
<1>13. ASSUME NEW s \in Subscriber, NewSubscriber(s) \/ ConsumerStep(s) \/ ConsumerStops(s)
       PROVE  CircuitRooted'
  BY <1>1, <1>13 DEF NewSubscriber, ConsumerStep, ConsumerStops
<1>14. CASE PublishStep
  BY <1>1, <1>14 DEF PublishStep
<1> QED BY <1>2, <1>4, <1>5, <1>6, <1>7, <1>8, <1>9, <1>10, <1>11, <1>12, <1>13, <1>14 DEF Next

LEMMA CircuitRootedStarts == Init => CircuitRooted
<1> SUFFICES ASSUME Init PROVE CircuitRooted
  OBVIOUS
<1>1. PICK setup \in Setup : circuit = NewCircuit(setup.fallback)
  BY DEF Init
<1>2. circuit.asserted = EmptyZset /\ circuit.derived = EmptyZset
  BY <1>1 DEF NewCircuit
<1> QED BY <1>2, NothingRooted DEF CircuitRooted

\* A circuit across ticks, crashes and replays: what is present between two ticks
\* is what the present inputs entail, for every rule set and input history in
\* which no tick of the unified regime unshadows a row; with the debug fallback,
\* for every input history.
THEOREM PresentStaysEntailed ==
    ASSUME MaxRounds >= Cardinality(Triple)
    PROVE  Spec /\ NoTickUnshadows => []PresentIsEntailed
<1>0. EnoughRounds
  BY DEF EnoughRounds
<1>1. Init => LogTypes /\ LogControl /\ CircuitHeld /\ CircuitRooted
  BY LogStarts, CircuitHeldStarts, CircuitRootedStarts
<1>2. /\ LogTypes /\ LogControl /\ CircuitHeld /\ CircuitRooted
      /\ [Next]_vars /\ [phase' = "ticking" => ~Unshadows(circuit, circuit')]_vars
      => (LogTypes /\ LogControl /\ CircuitHeld /\ CircuitRooted)'
  BY <1>0, LogStep, CircuitHeldStep, CircuitRootedStep
<1>3. CircuitHeld /\ CircuitRooted => PresentIsEntailed
  <2> SUFFICES ASSUME CircuitHeld, CircuitRooted PROVE PresentIsEntailed
    OBVIOUS
  <2>1. Held(circuit) /\ circuit.sound
    BY <1>0 DEF CircuitHeld
  <2>2. Entailed(AssertedSet(circuit)) \subseteq PresentSet(circuit)
    BY <2>1, EntailedPresent
  <2> QED BY <2>2 DEF CircuitRooted, PresentIsEntailed
<1> QED BY <1>1, <1>2, <1>3, PTL DEF Spec, NoTickUnshadows
=============================================================================

----------------------------- MODULE ChangeFeed -----------------------------
(***************************************************************************)
(* The change feed (crates/incremental/src/change_feed.rs): the records of *)
(* a tick go out one by one, each to the subscribers registered when its   *)
(* publication starts, through one bounded channel per subscriber.  A full *)
(* channel makes the publisher wait (Block) or costs the subscriber its    *)
(* subscription (DisconnectSlow).  Consumers run on threads of their own.  *)
(*                                                                         *)
(* A record is its position in the stream, modulo Period.  There is one    *)
(* publisher, the tick: it sets `outbox`.  Nobody subscribes during a tick *)
(* (it has the circuit to itself), so reaping goes with the last send.     *)
(***************************************************************************)
EXTENDS Naturals, Sequences, SequencesExt

CONSTANTS
    Blocking,          \* subscribers with LagPolicy::Block
    Slow,              \* subscribers with LagPolicy::DisconnectSlow
    ChannelCapacity,   \* records a channel holds
    Period             \* bound: positions told apart

ASSUME SubscriberAssumption == Blocking \cap Slow = {}
ASSUME ChannelAssumption == ChannelCapacity \in Nat \ {0} /\ Period \in Nat /\ Period > ChannelCapacity + 2

Subscriber == Blocking \cup Slow

VARIABLES
    subscribers,       \* who is registered, in order
    queue,             \* the undelivered records of each channel
    receiving,         \* who holds the receiving end
    outbox,            \* records the tick has yet to publish
    sent,              \* records published so far, the current one included
    targets,           \* who the current record still has to go to
    failed,            \* who it could not be delivered to
    heard              \* history: the last record before each queue

feed == <<subscribers, queue, receiving, outbox, sent, targets, failed, heard>>

FeedInit ==
    /\ subscribers = <<>>
    /\ queue = [s \in Subscriber |-> <<>>]
    /\ receiving = {}
    /\ outbox = 0
    /\ sent = 0
    /\ targets = <<>>
    /\ failed = {}
    /\ heard = [s \in Subscriber |-> 0]

\* The process ends, and the feed with it.
FeedLost ==
    /\ subscribers' = <<>>
    /\ queue' = [s \in Subscriber |-> <<>>]
    /\ receiving' = {}
    /\ outbox' = 0
    /\ sent' = 0
    /\ targets' = <<>>
    /\ failed' = {}
    /\ heard' = [s \in Subscriber |-> 0]

\* With a channel of its own each time.
Subscribe(s) ==
    /\ s \notin receiving
    /\ ~Contains(subscribers, s)
    /\ subscribers' = Append(subscribers, s)
    /\ receiving' = receiving \cup {s}
    /\ heard' = [heard EXCEPT ![s] = sent]
    /\ UNCHANGED <<queue, outbox, sent, targets, failed>>

-----------------------------------------------------------------------------
(* publish_record: the senders are copied under the lock, the sends happen   *)
(* without it, and who could not be reached is taken off the list.           *)

StartRecord ==
    /\ targets = <<>>
    /\ outbox > 0
    /\ outbox' = outbox - 1
    /\ sent' = (sent + 1) % Period
    /\ targets' = subscribers
    /\ UNCHANGED <<subscribers, queue, receiving, failed, heard>>

Full(s) == Len(queue[s]) >= ChannelCapacity

\* Mutant: a receiver that is gone is waited for.
Unreachable_LagOnly(s) == s \in receiving /\ s \in Slow /\ Full(s)

\* The receiver is gone, or the channel of a DisconnectSlow subscriber is full.
Unreachable(s) == s \notin receiving \/ (s \in Slow /\ Full(s))

\* The list without the subscribers in gone.
Without(list, gone) ==
    FoldLeft(LAMBDA kept, s : IF s \in gone THEN kept ELSE Append(kept, s), <<>>, list)

\* Mutant: who missed a record stays on the list.
NextTarget_NoReap(nowFailed) ==
    /\ targets' = Tail(targets)
    /\ failed' = {}
    /\ UNCHANGED subscribers

\* The record is done with its first target; after the last one, the failed
\* are taken off the list.
NextTarget(nowFailed) ==
    /\ targets' = Tail(targets)
    /\ IF Len(targets) = 1
       THEN /\ subscribers' = Without(subscribers, nowFailed)
            /\ failed' = {}
       ELSE failed' = nowFailed /\ UNCHANGED subscribers

Deliver ==
    /\ targets # <<>>
    /\ LET s == Head(targets) IN
        /\ s \in receiving
        /\ ~Full(s)
        /\ queue' = [queue EXCEPT ![s] = Append(@, sent)]
    /\ NextTarget(failed)
    /\ UNCHANGED <<receiving, outbox, sent, heard>>

FailToDeliver ==
    /\ targets # <<>>
    /\ Unreachable(Head(targets))
    /\ NextTarget(failed \cup {Head(targets)})
    /\ UNCHANGED <<queue, receiving, outbox, sent, heard>>

Publish == StartRecord \/ Deliver \/ FailToDeliver
Published == targets = <<>> /\ outbox = 0

-----------------------------------------------------------------------------
Consume(s) ==
    /\ s \in receiving
    /\ queue[s] # <<>>
    /\ heard' = [heard EXCEPT ![s] = Head(queue[s])]
    /\ queue' = [queue EXCEPT ![s] = Tail(@)]
    /\ UNCHANGED <<subscribers, receiving, outbox, sent, targets, failed>>

\* The receiver is dropped, with what its channel holds.  Positions start
\* again when nobody is left to know them.
CloseReceiver(s) ==
    /\ s \in receiving
    /\ receiving' = receiving \ {s}
    /\ queue' = [queue EXCEPT ![s] = <<>>]
    /\ heard' = [heard EXCEPT ![s] = 0]
    /\ sent' = IF receiving = {s} THEN 0 ELSE sent
    /\ UNCHANGED <<subscribers, outbox, targets, failed>>

-----------------------------------------------------------------------------
\* What reaches a consumer is the stream from its subscription on, in order
\* and with no record missing or twice, up to the record being published while
\* it is registered; only a DisconnectSlow subscriber that lagged is off the
\* list, and what it still gets is a prefix of the stream.
Lagged(s) == s \in failed \/ ~Contains(subscribers, s)
Position(s, n) == (heard[s] + n) % Period

SubscriberStream ==
    \A s \in receiving :
        /\ \A n \in DOMAIN queue[s] : queue[s][n] = Position(s, n)
        /\ Lagged(s) => s \in Slow
        /\ ~Lagged(s) => Position(s, Len(queue[s]) + (IF Contains(targets, s) THEN 1 ELSE 0)) = sent
=============================================================================

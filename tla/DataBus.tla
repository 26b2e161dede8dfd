------------------------------ MODULE DataBus ------------------------------
(***************************************************************************)
(* One topic of the DataBus inside one process: publishers that call       *)
(* DataBus::Publish on their own threads, subscribers that call            *)
(* DataBus::Subscribe on theirs, and the Last Value Cache that hands a     *)
(* late subscriber the latest value.                                       *)
(*                                                                         *)
(* Neither call is atomic: both take the bus mutex for a while, and touch  *)
(* the topic's Signal and run the callbacks outside it.  A step of this    *)
(* module is one critical section, or one callback of the unlocked part,   *)
(* so the interleavings the comments of DataBus.h:437-441 and 474-484      *)
(* speak of are the behaviours of the specification.                       *)
(*                                                                         *)
(* A message is the number its publisher drew from the application's       *)
(* counter.  It carries the counter modulo the range of its type           *)
(* (MessageBase), and the subscribers that have a worker thread run every  *)
(* message through a MonotonicGuard, as the bus recommends.                *)
(***************************************************************************)
EXTENDS Integers, Sequences, FiniteSets

CONSTANTS
    Publishers,     \* threads that publish on the topic
    Subscribers,    \* calls of DataBus::Subscribe, one subscription each
    LvcSubscribers, \* the ones with qos.lastValueCache
    AsyncSubscribers, \* the ones with a worker thread
    NumMessages,    \* how many messages are published
    HalfRange,      \* half the range of its sequence number: 2^(bits - 1)
    Start,          \* where the application's counter starts
    None            \* no value

ASSUME SubscribersAssumption ==
    /\ LvcSubscribers \subseteq Subscribers
    /\ AsyncSubscribers \subseteq Subscribers

\* MonotonicGuard works "up to half the range of the type".
ASSUME RangeAssumption ==
    /\ HalfRange \in Nat \ {0}
    /\ NumMessages \in Nat
    /\ NumMessages <= HalfRange
    /\ Start \in 0 .. 2 * HalfRange - 1

ASSUME NoneAssumption == None \notin Int

RangeOfT == 2 * HalfRange

VARIABLES
    drawn,      \* how many messages the application has numbered
    hasSignal,  \* the topic has an entry in m_signals
    slots,      \* the subscriptions connected to that Signal, oldest first
    lvcOn,      \* m_topicQos[topic].lastValueCache
    lastValue,  \* m_lastValues[topic]
    pub,        \* each publisher: where it is in InternalPublish
    sub,        \* each subscriber: where it is in InternalSubscribe
    inbox,      \* each asynchronous subscriber: its worker thread's queue
    refused,    \* history: the messages its worker thread refused
    handled,    \* each subscriber: the messages its callback was called with
    guard,      \* each asynchronous subscriber: its MonotonicGuard
    accepted    \* what that guard let through, oldest first

vars == <<drawn, hasSignal, slots, lvcOn, lastValue, pub, sub, inbox,
          refused, handled, guard, accepted>>

busVars  == <<hasSignal, slots, lvcOn, lastValue>>
queueVars == <<inbox, refused>>
taskVars == <<handled, guard, accepted>>

IdlePublisher == [pc |-> "idle", msg |-> None, targets |-> <<>>]

Init ==
    /\ drawn = 0
    /\ hasSignal = FALSE
    /\ slots = <<>>
    /\ lvcOn = FALSE
    /\ lastValue = None
    /\ pub = [p \in Publishers |-> IdlePublisher]
    /\ sub = [s \in Subscribers |-> [pc |-> "create", cached |-> None]]
    /\ inbox = [s \in AsyncSubscribers |-> <<>>]
    /\ refused = [s \in AsyncSubscribers |-> {}]
    /\ handled = [s \in Subscribers |-> {}]
    /\ guard = [s \in AsyncSubscribers |-> [first |-> TRUE, last |-> 0]]
    /\ accepted = [s \in AsyncSubscribers |-> <<>>]

-----------------------------------------------------------------------------
(* MonotonicGuard: sequence numbers that roll over.                        *)

\* The sequence number message m carries.
Stamp(m) == (Start + m) % RangeOfT

\* Mutant: the stamps are compared as unsigned numbers.
UnsignedDiff(a, b) == a - b

\* static_cast<SignedT>(a - b): the difference, read as a signed number.
SignedDiff(a, b) ==
    LET diff == (a - b) % RangeOfT
    IN  IF diff >= HalfRange THEN diff - RangeOfT ELSE diff

\* The answer of IsNewer for a stamp.
IsNewer(g, stamp) == g.first \/ SignedDiff(stamp, g.last) > 0

\* What a subscriber with a guard does with message m on its worker thread.
Guarded(s, m) ==
    IF IsNewer(guard[s], Stamp(m))
    THEN /\ guard' = [guard EXCEPT ![s] = [first |-> FALSE, last |-> Stamp(m)]]
         /\ accepted' = [accepted EXCEPT ![s] = Append(@, m)]
    ELSE UNCHANGED <<guard, accepted>>

-----------------------------------------------------------------------------
(* Delivery: a slot's delegate is called on the caller's thread.           *)

\* The dispatch of an asynchronous delegate to its worker thread.  The thread
\* refuses it when its queue, which others fill too, is full under DROP or TIMEOUT,
\* or when it is exiting; the message is then logged and lost.
Dispatch(s, m) ==
    \/ inbox' = [inbox EXCEPT ![s] = Append(@, m)] /\ UNCHANGED refused
    \/ refused' = [refused EXCEPT ![s] = @ \cup {m}] /\ UNCHANGED inbox

\* A synchronous delegate runs the callback at once.
Deliver(s, m) ==
    IF s \in AsyncSubscribers
    THEN Dispatch(s, m) /\ UNCHANGED taskVars
    ELSE /\ handled' = [handled EXCEPT ![s] = @ \cup {m}]
         /\ UNCHANGED <<queueVars, guard, accepted>>

\* The worker thread takes the oldest message of its queue.
Handle(s) ==
    /\ inbox[s] # <<>>
    /\ inbox' = [inbox EXCEPT ![s] = Tail(@)]
    /\ handled' = [handled EXCEPT ![s] = @ \cup {Head(inbox[s])}]
    /\ Guarded(s, Head(inbox[s]))
    /\ UNCHANGED <<drawn, busVars, pub, sub, refused>>

-----------------------------------------------------------------------------
(* InternalPublish.                                                        *)

\* The application numbers a message and calls Publish with it.
CallPublish(p) ==
    /\ pub[p].pc = "idle"
    /\ drawn < NumMessages
    /\ drawn' = drawn + 1
    /\ pub' = [pub EXCEPT ![p].pc = "update", ![p].msg = drawn + 1]
    /\ UNCHANGED <<busVars, sub, queueVars, taskVars>>

\* The cache after message m: kept only while the topic has it enabled.
CacheAfter(m) == IF lvcOn THEN m ELSE lastValue

\* The critical section: update the cache, look up the Signal.
Update(p) ==
    /\ pub[p].pc = "update"
    /\ lastValue' = CacheAfter(pub[p].msg)
    /\ pub' = IF hasSignal THEN [pub EXCEPT ![p].pc = "snapshot"]
                           ELSE [pub EXCEPT ![p] = IdlePublisher]
    /\ UNCHANGED <<drawn, hasSignal, slots, lvcOn, sub, queueVars, taskVars>>

\* Signal::operator(): copy the list of slots under the Signal's lock ...
Snapshot(p) ==
    /\ pub[p].pc = "snapshot"
    /\ pub' = [pub EXCEPT ![p].pc = "invoke", ![p].targets = slots]
    /\ UNCHANGED <<drawn, busVars, sub, queueVars, taskVars>>

\* ... and call them one by one outside it.
Invoke(p) ==
    /\ pub[p].pc = "invoke"
    /\ pub[p].targets # <<>>
    /\ Deliver(Head(pub[p].targets), pub[p].msg)
    /\ pub' = [pub EXCEPT ![p].targets = Tail(@)]
    /\ UNCHANGED <<drawn, busVars, sub>>

\* The list is done; Publish returns.
PublishReturns(p) ==
    /\ pub[p].pc = "invoke"
    /\ pub[p].targets = <<>>
    /\ pub' = [pub EXCEPT ![p] = IdlePublisher]
    /\ UNCHANGED <<drawn, busVars, sub, queueVars, taskVars>>

-----------------------------------------------------------------------------
(* InternalSubscribe.                                                      *)

\* Mutant: the cached value is copied before the slot is connected.
CopyBeforeConnect(step) ==
    CASE step = "create"  -> "copy"
      [] step = "copy"    -> "connect"
      [] step = "connect" -> "deliver"
      [] step = "deliver" -> "live"

\* The order of its steps.
StepAfter(step) ==
    CASE step = "create"  -> "connect"
      [] step = "connect" -> "copy"
      [] step = "copy"    -> "deliver"
      [] step = "deliver" -> "live"

Advance(s) == [sub EXCEPT ![s].pc = StepAfter(@)]

\* First critical section: enable the cache, create the topic's Signal.
Create(s) ==
    /\ sub[s].pc = "create"
    /\ lvcOn' = (lvcOn \/ s \in LvcSubscribers)
    /\ hasSignal' = TRUE
    /\ sub' = Advance(s)
    /\ UNCHANGED <<drawn, slots, lastValue, pub, queueVars, taskVars>>

\* Signal::Connect, outside the bus mutex.
Connect(s) ==
    /\ sub[s].pc = "connect"
    /\ slots' = Append(slots, s)
    /\ sub' = Advance(s)
    /\ UNCHANGED <<drawn, hasSignal, lvcOn, lastValue, pub, queueVars, taskVars>>

\* Second critical section: copy the cached value, if there is one.
Copy(s) ==
    /\ sub[s].pc = "copy"
    /\ sub' = IF s \in LvcSubscribers
              THEN [Advance(s) EXCEPT ![s].cached = lastValue]
              ELSE Advance(s)
    /\ UNCHANGED <<drawn, busVars, pub, queueVars, taskVars>>

\* Deliver the copy outside the mutex and return the connection.
DeliverCached(s) ==
    /\ sub[s].pc = "deliver"
    /\ IF sub[s].cached = None
       THEN UNCHANGED <<queueVars, taskVars>>
       ELSE Deliver(s, sub[s].cached)
    /\ sub' = Advance(s)
    /\ UNCHANGED <<drawn, busVars, pub>>

\* Mutant: the slot stays in the list.
SlotStays(s) ==
    /\ sub[s].pc = "live"
    /\ sub' = [sub EXCEPT ![s].pc = "gone"]
    /\ UNCHANGED <<drawn, busVars, pub, queueVars, taskVars>>

\* The subscriber drops its ScopedConnection.
Disconnect(s) ==
    /\ sub[s].pc = "live"
    /\ \E i \in 1 .. Len(slots) :
          /\ slots[i] = s
          /\ slots' = SubSeq(slots, 1, i - 1) \o SubSeq(slots, i + 1, Len(slots))
    /\ sub' = [sub EXCEPT ![s].pc = "gone"]
    /\ UNCHANGED <<drawn, hasSignal, lvcOn, lastValue, pub, queueVars, taskVars>>

-----------------------------------------------------------------------------
\* DataBus::LastValueCache.  The cached value itself stays where it is.
LastValueCache(enabled) ==
    /\ lvcOn # enabled
    /\ lvcOn' = enabled
    /\ UNCHANGED <<drawn, hasSignal, slots, lastValue, pub, sub, queueVars,
                   taskVars>>

Next ==
    \/ \E p \in Publishers :
          \/ CallPublish(p)
          \/ Update(p)
          \/ Snapshot(p)
          \/ Invoke(p)
          \/ PublishReturns(p)
    \/ \E s \in Subscribers :
          \/ Create(s)
          \/ Connect(s)
          \/ Copy(s)
          \/ DeliverCached(s)
          \/ Disconnect(s)
    \/ \E s \in AsyncSubscribers : Handle(s)
    \/ \E enabled \in BOOLEAN : LastValueCache(enabled)

Spec == Init /\ [][Next]_vars

-----------------------------------------------------------------------------
(* Properties.                                                             *)

Published == 1 .. drawn

\* A subscription is in the Signal's list from its Connect to its
\* Disconnect, once (SignalConnect, SignalDisconnectImpl).
SlotsAreSubscriptions ==
    /\ slots \in Seq(Subscribers)
    /\ \A i, j \in 1 .. Len(slots) : slots[i] = slots[j] => i = j
    /\ \A s \in Subscribers :
          (\E i \in 1 .. Len(slots) : slots[i] = s)
            <=> sub[s].pc \in {"copy", "deliver", "live"}

BusOK ==
    /\ drawn \in 0 .. NumMessages
    /\ hasSignal \in BOOLEAN /\ lvcOn \in BOOLEAN
    /\ lastValue \in Published \cup {None}

CallersOK ==
    /\ pub \in [Publishers -> [pc : {"idle", "update", "snapshot", "invoke"},
                               msg : Published \cup {None},
                               targets : Seq(Subscribers)]]
    /\ sub \in [Subscribers -> [pc : {"create", "connect", "copy", "deliver",
                                      "live", "gone"},
                                cached : Published \cup {None}]]

TasksOK ==
    /\ inbox \in [AsyncSubscribers -> Seq(Published)]
    /\ refused \in [AsyncSubscribers -> SUBSET Published]
    /\ handled \in [Subscribers -> SUBSET Published]
    /\ guard \in [AsyncSubscribers -> [first : BOOLEAN, last : 0 .. RangeOfT - 1]]
    /\ accepted \in [AsyncSubscribers -> Seq(Published)]

\* The type invariant: every value in the cache, a queue or a callback is
\* one that was published, and the list of slots is the list of
\* subscriptions.
TypeOK == BusOK /\ CallersOK /\ TasksOK /\ SlotsAreSubscriptions

\* "Signal connection is established before LVC delivery to ensure no
\* messages are missed" (the note of DataBus::Subscribe): once Subscribe has
\* returned to a Last Value Cache subscriber, and neither a publisher nor
\* the subscriber's own queue still holds the cached value on its way to the
\* callbacks, the subscriber has seen it, whatever publishes, subscriptions
\* and changes of the cache ran in between.  One with a worker thread may also
\* have been offered that very value and its thread refused it (DelegateAsync.h:
\* 163): the bus does not offer it again.
CaughtUp ==
    \A s \in LvcSubscribers :
        \/ lastValue = None
        \/ sub[s].pc # "live"
        \/ \E p \in Publishers : pub[p].msg = lastValue
        \/ s \in AsyncSubscribers /\ (inbox[s] # <<>> \/ lastValue \in refused[s])
        \/ lastValue \in handled[s]

\* MonotonicGuard: what the application lets through is strictly newer each
\* time, although the bus may deliver the cached value after a fresher one,
\* deliver it twice and deliver two publishers' messages in either order;
\* and the newest message seen is never among those turned away, even where
\* the sequence numbers roll over.
GuardKeepsNewest ==
    \A s \in AsyncSubscribers :
        /\ \A i \in 1 .. Len(accepted[s]) - 1 :
              accepted[s][i] < accepted[s][i + 1]
        /\ \A m \in handled[s] :
              accepted[s] # <<>> /\ m <= accepted[s][Len(accepted[s])]

=============================================================================

------------------------- MODULE ParticipantProofs -------------------------
(***************************************************************************)
(* Proofs about Participant, for any messages, any limits of the link and  *)
(* any size of the duplicate filter.  The link takes its own steps, so what*)
(* ReliableLinkProofs shows of it holds with this receiver too; what is    *)
(* left is where an acknowledged message can be, and what the ring knows.  *)
(***************************************************************************)
EXTENDS Participant, ReliableLinkProofs

\* An acknowledged message has run, found no channel, or waits to be looked at; the
\* filter knows only messages that ran.
HandledInv ==
    /\ acks \subseteq executed \cup unheard \cup {hand}
    /\ \A i \in Slots : buffer[i] # NoMsg => buffer[i] \in executed

\* How many messages ran after the one in slot i.
SlotAge(i) == IF i < head THEN head - 1 - i ELSE head - 1 - i + HistorySize

\* Each slot of the ring holds the message that ran as long ago as its distance
\* from the head says.
RingInv ==
    /\ \A i \in Slots : buffer[i] # NoMsg => since[buffer[i]] = SlotAge(i)
    /\ \A m \in Msgs : since[m] < HistorySize => IsDuplicate(m)

DeliveryInv == IInv /\ DeliveryTypeOK /\ HandledInv /\ RingInv

-----------------------------------------------------------------------------
(* The receiver and the link.                                              *)

\* A step is one of these: the sender's alone, or one of the receiver's.
LEMMA DeliverySteps ==
    ASSUME [DeliveryNext]_deliveryVars
    PROVE  \/ UNCHANGED <<acks, recvVars>>
           \/ \E m \in Msgs : Arrive(m)
           \/ DropDuplicate \/ InvokeChannel \/ NoDispatcher \/ RegisterHandler
<1>1. ASSUME SenderNext PROVE UNCHANGED acks
  BY <1>1 DEF SenderNext, PublisherStep, NetStep, vars, storeVars, monVars, netVars, wireVars,
     reportVars, Transmit, Store, Add, AddRefused, Send, SendFails, MarkSent, CancelSend,
     AbandonSend, Expire, Timeout, RemoveAcked, Scan, RetryAdd, RetryAddRefused, RetrySend,
     RetrySendFails, RetryCancel, RetryAbandon, ReAdd, StatusSuccess
<1> QED
  BY <1>1 DEF DeliveryNext, deliveryVars, vars, wireVars

\* What the receiver does to the link is a step of the link.
LEMMA DeliveryLinkStep == [DeliveryNext]_deliveryVars => [Next]_vars
  BY DEF DeliveryNext, deliveryVars, Next, Arrive, DropDuplicate, InvokeChannel, NoDispatcher,
         RegisterHandler

-----------------------------------------------------------------------------
(* The parts of the invariant.                                             *)

ReceiverTypes ==
    /\ hand \in Msgs \cup {NoMsg} /\ registered \in BOOLEAN
    /\ buffer \in [Slots -> Msgs \cup {NoMsg}] /\ head \in Slots
    /\ executed \subseteq Msgs /\ since \in [Msgs -> 0 .. HistorySize]
    /\ unheard \subseteq Msgs

\* Every step keeps the receiver's types: the head stays on the ring.
LEMMA ReceiverStep ==
    ASSUME DeliveryTypeOK, [DeliveryNext]_deliveryVars PROVE ReceiverTypes'
<1> USE DEF DeliveryTypeOK, ReceiverTypes, recvVars, ringVars
<1>1. CASE UNCHANGED recvVars
  BY <1>1
<1>2. ASSUME NEW m \in Msgs, Arrive(m) PROVE ReceiverTypes'
  BY <1>2 DEF Arrive
<1>3. CASE DropDuplicate \/ NoDispatcher \/ RegisterHandler
  BY <1>3 DEF DropDuplicate, NoDispatcher, RegisterHandler
<1>4. CASE InvokeChannel
  <2>1. head' \in Slots
    <3>1. HistorySize \in Nat /\ HistorySize > 0 /\ head + 1 \in Nat
      BY HistoryAssumption DEF Slots
    <3>2. (head + 1) % HistorySize \in 0 .. HistorySize - 1
      BY <3>1
    <3> QED
      BY <1>4, <3>2 DEF InvokeChannel, NextHead, Slots
  <2>2. buffer' \in [Slots -> Msgs \cup {NoMsg}]
    BY <1>4 DEF InvokeChannel
  <2>3. since' \in [Msgs -> 0 .. HistorySize]
    <3>1. \A n \in Msgs : since[n] \in 0 .. HistorySize
      OBVIOUS
    <3>2. \A n \in Msgs : since[n] < HistorySize => since[n] + 1 \in 0 .. HistorySize
      BY <3>1, HistoryAssumption
    <3>3. 0 \in 0 .. HistorySize /\ HistorySize \in 0 .. HistorySize
      BY HistoryAssumption
    <3> QED
      BY <1>4, <3>1, <3>2, <3>3 DEF InvokeChannel
  <2> QED
    BY <1>4, <2>1, <2>2, <2>3 DEF InvokeChannel
<1> QED
  BY <1>1, <1>2, <1>3, <1>4, DeliverySteps

\* A message leaves the receiver's hand by running or by finding no channel; the
\* filter drops it only when it has run already.
LEMMA HandledStep ==
    ASSUME DeliveryTypeOK, HandledInv, [DeliveryNext]_deliveryVars PROVE HandledInv'
<1>1. NoMsg \notin Msgs /\ acks \subseteq Msgs
  BY LinkAssumption DEF DeliveryTypeOK, TypeOK
<1> USE <1>1 DEF HandledInv, recvVars, ringVars, vars, wireVars
<1>2. CASE UNCHANGED <<acks, recvVars>>
  BY <1>2
<1>3. ASSUME NEW m \in Msgs, Arrive(m) PROVE HandledInv'
  BY <1>3 DEF Arrive, Receive
<1>4. CASE DropDuplicate
  <2>1. hand \in executed
    BY <1>4 DEF DropDuplicate, IsDuplicate
  <2> QED
    BY <1>4, <2>1 DEF DropDuplicate
<1>5. CASE InvokeChannel
  BY <1>5 DEF InvokeChannel, DeliveryTypeOK
<1>6. CASE NoDispatcher \/ RegisterHandler
  BY <1>6 DEF NoDispatcher, RegisterHandler
<1> QED
  BY <1>2, <1>3, <1>4, <1>5, <1>6, DeliverySteps

\* The slot at the head holds the oldest message; one step of the head makes
\* every other slot one older.
LEMMA AgeOfSlots ==
    ASSUME head \in Slots, head' = NextHead
    PROVE  /\ head' \in Slots
           /\ \A i \in Slots : SlotAge(i) \in 0 .. HistorySize - 1
           /\ \A i \in Slots : i # head => SlotAge(i) < HistorySize - 1 /\ SlotAge(i)' = SlotAge(i) + 1
           /\ SlotAge(head) = HistorySize - 1
           /\ \A i \in Slots : i = head => SlotAge(i)' = 0
<1>1. HistorySize \in Nat /\ HistorySize > 0 /\ head \in 0 .. HistorySize - 1
  BY HistoryAssumption DEF Slots
<1>2. head' = IF head = HistorySize - 1 THEN 0 ELSE head + 1
  <2>1. CASE head = HistorySize - 1
    <3>1. (head + 1) % HistorySize = 0
      BY <1>1, <2>1
    <3> QED
      BY <2>1, <3>1 DEF NextHead
  <2>2. CASE head < HistorySize - 1
    <3>1. (head + 1) % HistorySize = head + 1
      BY <1>1, <2>2
    <3> QED
      BY <1>1, <2>2, <3>1 DEF NextHead
  <2> QED
    BY <1>1, <2>1, <2>2
<1> QED
  BY <1>1, <1>2 DEF SlotAge, Slots

\* The ring keeps the last HistorySize messages that ran.
LEMMA RingStep ==
    ASSUME DeliveryTypeOK, RingInv, [DeliveryNext]_deliveryVars PROVE RingInv'
<1>1. UNCHANGED <<buffer, head, since>> \/ InvokeChannel
  BY DeliverySteps DEF recvVars, ringVars, Arrive, DropDuplicate, NoDispatcher, RegisterHandler
<1>2. /\ NoMsg \notin Msgs /\ HistorySize \in Nat \ {0} /\ head \in Slots
      /\ buffer \in [Slots -> Msgs \cup {NoMsg}] /\ since \in [Msgs -> 0 .. HistorySize]
  BY LinkAssumption, HistoryAssumption DEF DeliveryTypeOK
<1>3. CASE UNCHANGED <<buffer, head, since>>
  BY <1>3 DEF RingInv, SlotAge, IsDuplicate
<1>4. CASE InvokeChannel
  <2> DEFINE m == hand
  <2>1. /\ m \in Msgs /\ ~IsDuplicate(m)
        /\ head \in Slots /\ head' = NextHead
        /\ buffer' = [buffer EXCEPT ![head] = m]
        /\ buffer \in [Slots -> Msgs \cup {NoMsg}]
        /\ since \in [Msgs -> 0 .. HistorySize]
        /\ since' = [n \in Msgs |-> IF n = m THEN 0
                                    ELSE IF since[n] < HistorySize THEN since[n] + 1
                                    ELSE HistorySize]
    BY <1>2, <1>4 DEF InvokeChannel, DeliveryTypeOK
  <2> HIDE DEF m
  <2>2. /\ \A i \in Slots : SlotAge(i) \in 0 .. HistorySize - 1
        /\ \A i \in Slots : i # head => SlotAge(i) < HistorySize - 1 /\ SlotAge(i)' = SlotAge(i) + 1
        /\ SlotAge(head) = HistorySize - 1
        /\ \A i \in Slots : i = head => SlotAge(i)' = 0
    BY <2>1, AgeOfSlots
  <2>3. /\ buffer'[head] = m
        /\ \A i \in Slots : i # head => buffer'[i] = buffer[i] /\ buffer[i] # m
    BY <1>4, <2>1 DEF IsDuplicate
  <2>4. /\ since'[m] = 0
        /\ \A n \in Msgs : n # m /\ since[n] < HistorySize => since'[n] = since[n] + 1
        /\ \A n \in Msgs : n # m /\ since'[n] < HistorySize => since[n] < HistorySize - 1
    BY <1>2, <2>1
  <2>5. ASSUME NEW i \in Slots, buffer'[i] # NoMsg PROVE since'[buffer'[i]] = SlotAge(i)'
    <3>1. CASE i = head
      BY <2>2, <2>3, <2>4, <3>1
    <3>2. CASE i # head
      <4>1. buffer[i] \in Msgs /\ buffer[i] # m /\ buffer'[i] = buffer[i]
        BY <2>1, <2>3, <2>5, <3>2
      <4>2. since[buffer[i]] = SlotAge(i)
        BY <1>2, <4>1 DEF RingInv
      <4>3. SlotAge(i) < HistorySize /\ SlotAge(i)' = SlotAge(i) + 1
        BY <1>2, <2>2, <3>2
      <4> QED
        BY <2>4, <4>1, <4>2, <4>3
    <3> QED
      BY <3>1, <3>2
  <2>6. ASSUME NEW n \in Msgs, since'[n] < HistorySize PROVE \E i \in Slots : buffer'[i] = n
    <3>1. CASE n = m
      BY <2>1, <2>3, <3>1
    <3>2. CASE n # m
      <4>1. since[n] < HistorySize - 1 /\ since[n] < HistorySize
        BY <1>2, <2>1, <2>4, <2>6, <3>2
      <4>2. PICK i \in Slots : buffer[i] = n
        BY <1>2, <4>1 DEF RingInv, IsDuplicate
      <4>3. since[n] = SlotAge(i)
        BY <1>2, <4>2 DEF RingInv
      <4>4. i # head
        BY <1>2, <2>2, <4>1, <4>3
      <4> QED
        BY <2>3, <4>2, <4>4
    <3> QED
      BY <3>1, <3>2
  <2> QED
    BY <2>5, <2>6 DEF RingInv, IsDuplicate
<1> QED
  BY <1>1, <1>3, <1>4

-----------------------------------------------------------------------------
(* The inductive invariant and what follows from it.                       *)

\* DeliveryInv holds at the start.
LEMMA DeliveryInvInit == DeliveryInit => DeliveryInv
<1> SUFFICES ASSUME DeliveryInit PROVE DeliveryInv
  OBVIOUS
<1>1. IInv /\ TypeOK
  BY IInvInit, TypeInit DEF DeliveryInit
<1>2. DeliveryTypeOK
  <2>1. 0 \in Slots /\ HistorySize \in 0 .. HistorySize
    BY HistoryAssumption DEF Slots
  <2> QED
    BY <1>1, <2>1 DEF DeliveryInit, ReceiverInit, DeliveryTypeOK
<1>3. HandledInv
  BY DEF DeliveryInit, Init, ReceiverInit, HandledInv
<1>4. RingInv
  BY HistoryAssumption DEF DeliveryInit, ReceiverInit, RingInv
<1> QED
  BY <1>1, <1>2, <1>3, <1>4 DEF DeliveryInv

\* DeliveryInv is kept by every step of the sender, the network and the receiver.
LEMMA DeliveryInvStep == DeliveryInv /\ [DeliveryNext]_deliveryVars => DeliveryInv'
<1> SUFFICES ASSUME DeliveryInv, [DeliveryNext]_deliveryVars PROVE DeliveryInv'
  OBVIOUS
<1>1. IInv' /\ TypeOK'
  BY DeliveryLinkStep, IInvStep, TypeStep DEF DeliveryInv
<1>2. DeliveryTypeOK'
  BY <1>1, ReceiverStep DEF DeliveryInv, DeliveryTypeOK, ReceiverTypes
<1> QED
  BY <1>1, <1>2, HandledStep, RingStep DEF DeliveryInv

\* DeliveryInv holds in every reachable state.
LEMMA DeliveryInvariance == DeliverySpec => []DeliveryInv
  BY DeliveryInvInit, DeliveryInvStep, PTL DEF DeliverySpec

\* The sender of the data bus is the one of ReliableLink: all that is proved of the
\* link, NothingForgotten too, holds whatever its receiver does.
THEOREM ReceiverUsesTheLink == DeliverySpec => Spec
<1>1. DeliveryInit => Init
  BY DEF DeliveryInit
<1> QED
  BY <1>1, DeliveryLinkStep, PTL DEF DeliverySpec, Spec

\* Every variable of sender and receiver keeps its type: the pending map its limit,
\* every message its budget of datagrams, and the head its place on the ring.
THEOREM DeliveryTypeCorrect == DeliverySpec => []DeliveryTypeOK
<1>1. DeliveryInv => DeliveryTypeOK
  BY DEF DeliveryInv
<1> QED
  BY DeliveryInvariance, <1>1, PTL

\* The filter of the receiver knows exactly the last HistorySize messages it ran,
\* wherever its head is.
THEOREM FilterIsExact == DeliverySpec => []RingIsRecent
<1>1. DeliveryInv => RingIsRecent
  <2> SUFFICES ASSUME DeliveryInv, NEW m \in Msgs PROVE IsDuplicate(m) <=> since[m] < HistorySize
    BY DEF RingIsRecent
  <2>1. ASSUME NEW i \in Slots, buffer[i] = m PROVE since[m] < HistorySize
    <3>1. since[m] = SlotAge(i)
      BY <2>1, LinkAssumption DEF DeliveryInv, RingInv
    <3>2. SlotAge(i) < HistorySize
      BY HistoryAssumption DEF DeliveryInv, DeliveryTypeOK, Slots, SlotAge
    <3> QED
      BY <3>1, <3>2
  <2> QED
    BY <2>1 DEF DeliveryInv, RingInv, IsDuplicate
<1> QED
  BY DeliveryInvariance, <1>1, PTL

\* When the net thread receives the acknowledgements, as in NetworkNode, the
\* application hears of a message once, and what it hears is true; a success says
\* that the message reached the receiver and was not lost to its filter, not that
\* it ran.
THEOREM OneTrueOutcome == ASSUME AcksOnNet PROVE DeliverySpec => []OutcomeIsTrue
<1>1. DeliveryInv => OutcomeIsTrue
  <2> SUFFICES ASSUME DeliveryInv, NEW m \in Msgs
               PROVE  /\ Cardinality(outcome[m]) <= 1
                      /\ "success" \in outcome[m] => m \in executed \/ m = hand \/ m \in unheard
                      /\ "exhausted" \in outcome[m] => tx[m] = MaxRetries + 1
                      /\ outcome[m] # {} => m \notin stored
    BY DEF OutcomeIsTrue
  <2>1. OutcomeInv /\ HandledInv
    BY DEF DeliveryInv, IInv
  <2>2. Cardinality(outcome[m]) <= 1
    <3>1. CASE outcome[m] = {}
      BY <3>1, FS_EmptySet
    <3>2. ASSUME NEW what, outcome[m] = {what} PROVE Cardinality(outcome[m]) <= 1
      <4>1. Cardinality({what}) = 1
        BY FS_Singleton
      <4> QED
        BY <3>2, <4>1
    <3> QED
      BY <2>1, <3>1, <3>2 DEF OutcomeInv
  <2> QED
    BY <2>1, <2>2 DEF OutcomeInv, HandledInv
<1> QED
  BY DeliveryInvariance, <1>1, PTL
=============================================================================

------------------------- MODULE ReliableLinkProofs -------------------------
(***************************************************************************)
(* Proofs about ReliableLink, for any messages, any number of retries and  *)
(* any limits of the pending map and of a batch.                               *)
(***************************************************************************)
EXTENDS ReliableLink, FiniteSetTheorems, TLAPS

Unsent == {"new", "add", "send", "cancel", "abandon"}

\* Where the net thread is when it retransmits its message.
Retrying == {"add", "send", "cancel", "abandon"}

\* A publisher's call before its first send: nobody else has the message before
\* it is registered, it has not been sent, and its entry is untouched.
PublisherInv ==
    \A m \in Msgs :
        /\ spc[m] \in {"new", "add"} => m \notin pending /\ m \notin batch /\ m # cur /\ m # ackCur
        /\ spc[m] \in Unsent => m \notin wire /\ tx[m] = 0
        /\ m \in isSent => spc[m] = "done"
        /\ spc[m] \in Unsent \ {"new"} => m \in stored
        /\ m \in stored /\ m \notin isSent => left[m] = MaxRetries

\* Where the net thread stands with its batch and its message; a message is in
\* one place: in m_pending, in the batch or in its hands.
NetInv ==
    /\ npc \in {"idle", "scan"} => batch = {}
    /\ cur = NoMsg <=> npc \in {"idle", "scan", "fire"}
    /\ npc \in Retrying => cur \in isSent
    /\ batch \cap pending = {}
    /\ cur \notin batch
    /\ cur \in pending => npc \in {"send", "cancel"}

InFlight(m) == IF cur = m /\ npc \in Retrying THEN 1 ELSE 0

\* The budget of a message: what was sent, what is left and the retransmission
\* being made add up.
BudgetInv ==
    \A m \in Msgs :
        /\ spc[m] # "new" => tx[m] + left[m] + InFlight(m) <= MaxRetries + 1
        /\ m \in stored /\ spc[m] \notin Unsent =>
              tx[m] + left[m] + InFlight(m) = MaxRetries + 1

Held(m) == m \in pending \/ m \in batch \/ m = cur \/ m = ackCur

\* An acknowledgement is one of a message that was sent.  When acknowledgements are
\* taken on the net thread, what was sent and is still held by somebody has its
\* entry, and only one of Remove() and Process() is at work.
AckInv ==
    /\ acks \subseteq wire
    /\ ackCur # NoMsg => ackCur \in acks
    /\ AcksOnNet =>
          /\ ackCur # NoMsg => npc = "idle" /\ ackCur \notin pending
          /\ npc \in Retrying => cur \in stored
          /\ \A m \in wire : Held(m) => m \in stored

\* What the application has heard of each message.
OutcomeInv ==
    \A m \in Msgs :
        /\ outcome[m] = {} \/ \E what \in Outcomes : outcome[m] = {what}
        /\ "success" \in outcome[m] => m \in acks
        /\ "exhausted" \in outcome[m] => tx[m] = MaxRetries + 1
        /\ outcome[m] # {} => m \notin stored /\ spc[m] \notin Unsent

IInv ==
    TypeOK /\ PublisherInv /\ NetInv /\ BudgetInv /\ AckInv /\ Tracked
    /\ (AcksOnNet => OutcomeInv)
-----------------------------------------------------------------------------
(* Type correctness.                                                       *)

\* A step is one of these.
LEMMA Steps ==
    ASSUME [Next]_vars
    PROVE  \/ UNCHANGED vars
           \/ \E m \in Msgs :
                 \/ Store(m) \/ Add(m) \/ AddRefused(m) \/ Send(m) \/ SendFails(m)
                 \/ MarkSent(m) \/ CancelSend(m) \/ AbandonSend(m) \/ Expire(m)
                 \/ Timeout(m) \/ RemoveAcked(m) \/ Receive(m)
           \/ Scan \/ RetryAdd \/ RetryAddRefused \/ RetrySend \/ RetrySendFails
           \/ RetryCancel \/ RetryAbandon \/ ReAdd \/ StatusSuccess
  BY DEF Next, SenderNext, PublisherStep, NetStep

\* The types of the sender's entries and reports.
SenderTypes ==
    /\ stored \subseteq Msgs /\ isSent \subseteq Msgs
    /\ left \in [Msgs -> 0 .. MaxRetries]
    /\ spc \in [Msgs -> {"new", "add", "send", "mark", "cancel", "abandon", "done"}]
    /\ tx \in [Msgs -> 0 .. MaxRetries + 1]
    /\ outcome \in [Msgs -> SUBSET Outcomes]
    /\ untracked \subseteq Msgs

\* The types of the monitor and of the net thread.
MonitorTypes ==
    /\ expired \subseteq pending /\ pending \subseteq Msgs
    /\ npc \in {"idle", "scan", "fire", "add", "send", "cancel", "abandon", "readd"}
    /\ cur \in Msgs \cup {NoMsg} /\ ackCur \in Msgs \cup {NoMsg}
    /\ batch \subseteq Msgs /\ full \in BOOLEAN
    /\ Cardinality(pending) <= MaxPending

\* The types of the network.
WireTypes == wire \subseteq Msgs /\ acks \subseteq Msgs

\* TypeOK is the three together.
LEMMA TypeParts == TypeOK <=> SenderTypes /\ MonitorTypes /\ WireTypes
  BY DEF TypeOK, SenderTypes, MonitorTypes, WireTypes

\* The same, of the next state.
LEMMA TypePartsNext == TypeOK' <=> (SenderTypes /\ MonitorTypes /\ WireTypes)'
  BY DEF TypeOK, SenderTypes, MonitorTypes, WireTypes

\* A limit on the pending map outlives the removal of entries and the addition
\* that CanAdd allows.
LEMMA PendingBound ==
    ASSUME NEW P, P \subseteq Msgs, Cardinality(P) <= MaxPending
    PROVE  /\ \A Q \in SUBSET P : Cardinality(Q) <= MaxPending
           /\ \A m \in Msgs : Cardinality(P) < MaxPending => Cardinality(P \cup {m}) <= MaxPending
<1>1. IsFiniteSet(P) /\ Cardinality(P) \in Nat /\ MaxPending \in Nat
  BY FS_Subset, FS_CardinalityType, LinkAssumption
<1>2. ASSUME NEW Q \in SUBSET P PROVE Cardinality(Q) <= MaxPending
  <2>1. IsFiniteSet(Q) /\ Cardinality(Q) <= Cardinality(P)
    BY <1>1, FS_Subset
  <2>2. Cardinality(Q) \in Nat
    BY <2>1, FS_CardinalityType
  <2> QED
    BY <1>1, <2>1, <2>2
<1>3. ASSUME NEW m \in Msgs, Cardinality(P) < MaxPending
      PROVE  Cardinality(P \cup {m}) <= MaxPending
  <2>1. Cardinality(P \cup {m}) = IF m \in P THEN Cardinality(P) ELSE Cardinality(P) + 1
    BY <1>1, FS_AddElement
  <2> QED
    BY <1>1, <1>3, <2>1
<1> QED
  BY <1>2, <1>3

\* Init sets every variable to a value of its type.
LEMMA TypeInit == Init => TypeOK
<1> SUFFICES ASSUME Init PROVE TypeOK
  OBVIOUS
<1>1. SenderTypes
  BY LinkAssumption DEF Init, SenderTypes
<1>2. MonitorTypes
  <2>1. Cardinality(pending) <= MaxPending
    BY FS_EmptySet, LinkAssumption DEF Init
  <2> QED
    BY <2>1 DEF Init, MonitorTypes
<1>3. WireTypes
  BY DEF Init, WireTypes
<1> QED
  BY <1>1, <1>2, <1>3, TypeParts

\* The net thread at work has a message.
LEMMA CurIsMsg ==
    ASSUME TypeOK, NetInv, npc \in Retrying \cup {"readd"} PROVE cur \in Msgs
  BY DEF TypeOK, NetInv, Retrying

\* Abandon() reports one of the four.
LEMMA AbandonTypes ==
    ASSUME SenderTypes, NEW m \in Msgs, NEW why \in Outcomes, Abandon(m, why),
           UNCHANGED <<tx, untracked>>,
           spc' = spc \/ spc' = [spc EXCEPT ![m] = "done"]
    PROVE  SenderTypes'
<1>1. outcome' \in [Msgs -> SUBSET Outcomes]
  BY DEF SenderTypes, Abandon, Report
<1>2. spc' \in [Msgs -> {"new", "add", "send", "mark", "cancel", "abandon", "done"}]
  BY DEF SenderTypes
<1> QED
  BY <1>1, <1>2 DEF SenderTypes, Abandon

\* A datagram is sent while the budget has room for it.
LEMMA TransmitTypes ==
    ASSUME NEW m \in Msgs, Transmit(m), tx \in [Msgs -> 0 .. MaxRetries + 1], tx[m] <= MaxRetries
    PROVE  tx' \in [Msgs -> 0 .. MaxRetries + 1]
  BY LinkAssumption DEF Transmit

\* The four reports.
LEMMA TheOutcomes ==
    "success" \in Outcomes /\ "exhausted" \in Outcomes /\ "sendFailed" \in Outcomes
    /\ "addFailed" \in Outcomes
  BY DEF Outcomes

\* Every step keeps the sender's types: the budget bounds what is sent.
LEMMA SenderStep == ASSUME IInv, [Next]_vars PROVE SenderTypes'
<1>1. \/ UNCHANGED <<storeVars, spc, reportVars>>
      \/ \E m \in Msgs :
           \/ Store(m) \/ Add(m) \/ AddRefused(m) \/ Send(m) \/ SendFails(m)
           \/ MarkSent(m) \/ CancelSend(m) \/ AbandonSend(m) \/ Timeout(m)
      \/ RetryAddRefused \/ RetrySend \/ RetryAbandon \/ ReAdd \/ StatusSuccess
  BY Steps DEF vars, storeVars, monVars, netVars, wireVars, reportVars, Track,
     Untrack, Report, Abandon, Transmit, NextItem, Expire, RemoveAcked, Receive, Scan,
     RetryAdd, RetrySendFails, RetryCancel
<1>2. TypeOK /\ SenderTypes /\ NetInv /\ PublisherInv /\ BudgetInv
  BY TypeParts DEF IInv
<1> USE <1>2 DEF storeVars, monVars, netVars, wireVars, reportVars
<1>3. CASE UNCHANGED <<storeVars, spc, reportVars>>
  BY <1>3 DEF SenderTypes
<1>4. ASSUME NEW m \in Msgs, Store(m) PROVE SenderTypes'
  <2>1. left' \in [Msgs -> 0 .. MaxRetries]
    BY <1>4, LinkAssumption DEF SenderTypes, Store
  <2> QED
    BY <1>4, <2>1 DEF SenderTypes, Store
<1>5. ASSUME NEW m \in Msgs, Add(m) PROVE SenderTypes'
  BY <1>5 DEF SenderTypes, Add
<1>6. ASSUME NEW m \in Msgs, AddRefused(m) PROVE SenderTypes'
  BY <1>6, AbandonTypes, TheOutcomes DEF AddRefused
<1>7. ASSUME NEW m \in Msgs, Send(m) PROVE SenderTypes'
  <2>1. tx[m] <= MaxRetries
    BY <1>7, LinkAssumption DEF Send, PublisherInv, Unsent
  <2>2. tx' \in [Msgs -> 0 .. MaxRetries + 1]
    BY <1>7, <2>1, TransmitTypes DEF Send, SenderTypes
  <2> QED
    BY <1>7, <2>2 DEF Send, SenderTypes
<1>8. ASSUME NEW m \in Msgs, SendFails(m) PROVE SenderTypes'
  BY <1>8 DEF SenderTypes, SendFails
<1>9. ASSUME NEW m \in Msgs, MarkSent(m) PROVE SenderTypes'
  <2>1. isSent' \subseteq Msgs
    BY <1>9 DEF MarkSent, Marked, SenderTypes
  <2> QED
    BY <1>9, <2>1 DEF MarkSent, SenderTypes
<1>10. ASSUME NEW m \in Msgs, CancelSend(m) PROVE SenderTypes'
  BY <1>10 DEF SenderTypes, CancelSend
<1>11. ASSUME NEW m \in Msgs, AbandonSend(m) PROVE SenderTypes'
  BY <1>11, AbandonTypes, TheOutcomes DEF AbandonSend
<1>12. ASSUME NEW m \in Msgs, Timeout(m) PROVE SenderTypes'
  <2>1. CASE /\ left' = [left EXCEPT ![m] = @ - 1] /\ left[m] > 0
             /\ UNCHANGED <<stored, isSent, outcome>>
    <3>1. left' \in [Msgs -> 0 .. MaxRetries]
      <4>1. left[m] - 1 \in 0 .. MaxRetries
        BY <2>1, LinkAssumption DEF SenderTypes
      <4> QED
        BY <2>1, <4>1 DEF SenderTypes
    <3> QED
      BY <1>12, <2>1, <3>1 DEF Timeout, SenderTypes
  <2>2. CASE Abandon(m, "exhausted")
    BY <1>12, <2>2, AbandonTypes, TheOutcomes DEF Timeout
  <2>3. CASE UNCHANGED <<storeVars, outcome>>
    BY <1>12, <2>3 DEF Timeout, SenderTypes
  <2> QED
    BY <1>12, <2>1, <2>2, <2>3 DEF Timeout, ShouldRetry
<1>13. ASSUME RetryAddRefused PROVE SenderTypes'
  <2>1. cur \in Msgs
    BY <1>13, CurIsMsg DEF RetryAddRefused, Retrying
  <2> QED
    BY <1>13, <2>1, AbandonTypes, TheOutcomes DEF RetryAddRefused
<1>14. ASSUME RetrySend PROVE SenderTypes'
  <2>1. cur \in Msgs /\ npc \in Retrying
    BY <1>14, CurIsMsg DEF RetrySend, Retrying
  <2>2. spc[cur] # "new" /\ tx[cur] + left[cur] + 1 <= MaxRetries + 1
    BY <2>1 DEF NetInv, PublisherInv, BudgetInv, InFlight
  <2>3. tx[cur] <= MaxRetries
    BY <2>1, <2>2, LinkAssumption DEF SenderTypes
  <2>4. tx' \in [Msgs -> 0 .. MaxRetries + 1]
    BY <1>14, <2>1, <2>3, TransmitTypes DEF RetrySend, SenderTypes
  <2> QED
    BY <1>14, <2>4 DEF RetrySend, SenderTypes
<1>15. ASSUME RetryAbandon PROVE SenderTypes'
  <2>1. cur \in Msgs
    BY <1>15, CurIsMsg DEF RetryAbandon, Retrying
  <2> QED
    BY <1>15, <2>1, AbandonTypes, TheOutcomes DEF RetryAbandon
<1>16. ASSUME ReAdd PROVE SenderTypes'
  <2>1. cur \in Msgs
    BY <1>16, CurIsMsg DEF ReAdd
  <2>2. untracked' \subseteq Msgs
    BY <1>16, <2>1 DEF ReAdd, SenderTypes
  <2> QED
    BY <1>16, <2>2 DEF ReAdd, SenderTypes
<1>17. ASSUME StatusSuccess PROVE SenderTypes'
  <2>1. ackCur \in Msgs
    BY <1>17 DEF StatusSuccess, TypeOK
  <2>2. outcome' \in [Msgs -> SUBSET Outcomes]
    BY <1>17, <2>1, TheOutcomes DEF StatusSuccess, SenderTypes, Report
  <2> QED
    BY <1>17, <2>2 DEF StatusSuccess, SenderTypes
<1> QED
  BY <1>1, <1>3, <1>4, <1>5, <1>6, <1>7, <1>8, <1>9, <1>10, <1>11, <1>12, <1>13, <1>14,
     <1>15, <1>16, <1>17

\* Every step keeps the monitor's types: Add() refuses what the map has no room for.
LEMMA MonitorStep == ASSUME IInv, [Next]_vars PROVE MonitorTypes'
<1>1. \/ UNCHANGED <<monVars, netVars, ackCur>>
      \/ \E m \in Msgs :
           \/ Add(m) \/ CancelSend(m) \/ Expire(m) \/ Timeout(m)
           \/ RemoveAcked(m)
      \/ Scan \/ RetryAdd \/ RetryAddRefused \/ RetrySend \/ RetrySendFails
      \/ RetryCancel \/ RetryAbandon \/ ReAdd \/ StatusSuccess
  BY Steps DEF vars, storeVars, monVars, netVars, wireVars, reportVars, Track,
     Untrack, Report, Abandon, Transmit, NextItem, Store, AddRefused, Send, SendFails,
     MarkSent, AbandonSend, Receive
<1> USE PendingBound DEF IInv, TypeOK, MonitorTypes, CanAdd, storeVars, monVars, netVars,
         wireVars, reportVars, Track, Untrack, Report, Abandon, Transmit, NextItem
<1>2. CASE UNCHANGED <<monVars, netVars, ackCur>>
  BY <1>2
<1>3. ASSUME NEW m \in Msgs, Add(m) PROVE MonitorTypes'
  BY <1>3 DEF Add
<1>4. ASSUME NEW m \in Msgs, CancelSend(m) PROVE MonitorTypes'
  BY <1>4 DEF CancelSend
<1>5. ASSUME NEW m \in Msgs, Expire(m) PROVE MonitorTypes'
  BY <1>5 DEF Expire
<1>6. ASSUME NEW m \in Msgs, Timeout(m) PROVE MonitorTypes'
  BY <1>6 DEF Timeout
<1>7. ASSUME NEW m \in Msgs, RemoveAcked(m) PROVE MonitorTypes'
  BY <1>7 DEF RemoveAcked
<1>8. ASSUME Scan PROVE MonitorTypes'
  BY <1>8 DEF Scan
<1>9. ASSUME RetryAdd PROVE MonitorTypes'
  <2>1. cur \in Msgs
    BY <1>9, CurIsMsg DEF RetryAdd, Retrying
  <2> QED
    BY <1>9, <2>1 DEF RetryAdd
<1>10. ASSUME RetryAddRefused PROVE MonitorTypes'
  BY <1>10 DEF RetryAddRefused
<1>11. ASSUME RetrySend PROVE MonitorTypes'
  BY <1>11 DEF RetrySend
<1>12. ASSUME RetrySendFails PROVE MonitorTypes'
  BY <1>12 DEF RetrySendFails
<1>13. ASSUME RetryCancel PROVE MonitorTypes'
  BY <1>13 DEF RetryCancel
<1>14. ASSUME RetryAbandon PROVE MonitorTypes'
  BY <1>14 DEF RetryAbandon
<1>15. ASSUME ReAdd PROVE MonitorTypes'
  <2>1. cur \in Msgs
    BY <1>15, CurIsMsg DEF ReAdd, Retrying
  <2> QED
    BY <1>15, <2>1 DEF ReAdd
<1>16. ASSUME StatusSuccess PROVE MonitorTypes'
  BY <1>16 DEF StatusSuccess
<1> QED
  BY <1>1, <1>2, <1>3, <1>4, <1>5, <1>6, <1>7, <1>8, <1>9, <1>10, <1>11, <1>12, <1>13,
     <1>14, <1>15, <1>16

\* Every step keeps the network's types.
LEMMA WireStep == ASSUME IInv, [Next]_vars PROVE WireTypes'
<1>1. \/ UNCHANGED wireVars
      \/ \E m \in Msgs : Send(m) \/ Receive(m)
      \/ RetrySend
  BY Steps DEF vars, storeVars, monVars, netVars, wireVars, reportVars, Track, Untrack,
     Report, Abandon, Transmit, NextItem, Store, Add, AddRefused, SendFails, MarkSent,
     CancelSend, AbandonSend, Expire, Timeout, RemoveAcked, Scan, RetryAdd,
     RetryAddRefused, RetrySendFails, RetryCancel, RetryAbandon, ReAdd, StatusSuccess
<1> USE DEF IInv, TypeOK, WireTypes, wireVars, Transmit
<1>2. CASE UNCHANGED wireVars
  BY <1>2
<1>3. ASSUME NEW m \in Msgs, Send(m) PROVE WireTypes'
  BY <1>3 DEF Send
<1>4. ASSUME NEW m \in Msgs, Receive(m) PROVE WireTypes'
  BY <1>4 DEF Receive
<1>5. ASSUME RetrySend PROVE WireTypes'
  <2>1. cur \in Msgs
    BY <1>5, CurIsMsg DEF RetrySend, Retrying
  <2> QED
    BY <1>5, <2>1 DEF RetrySend
<1> QED
  BY <1>1, <1>2, <1>3, <1>4, <1>5

\* Every step keeps every variable in its type.
LEMMA TypeStep == IInv /\ [Next]_vars => TypeOK'
  BY SenderStep, MonitorStep, WireStep, TypePartsNext

-----------------------------------------------------------------------------
(* The parts of the invariant.                                             *)

\* A pass empties nobody's hands: the net thread had nothing before it.
LEMMA ScanHolds ==
    ASSUME TypeOK, NetInv, Scan
    PROVE  /\ npc \in {"idle", "scan"} /\ batch = {} /\ cur = NoMsg
           /\ \E E \in SUBSET expired :
                 /\ batch' = E /\ pending' = pending \ E /\ expired' = expired \ E
                 /\ npc' = IF E = {} THEN "idle" ELSE "fire"
           /\ UNCHANGED <<storeVars, spc, cur, ackCur, wireVars, reportVars>>
<1>1. npc \in {"idle", "scan"} /\ batch = {} /\ cur = NoMsg
  BY DEF Scan, NetFree, NetInv
<1>2. \E E \in SUBSET expired :
          /\ batch' = E /\ pending' = pending \ E /\ expired' = expired \ E
          /\ npc' = IF E = {} THEN "idle" ELSE "fire"
  BY DEF Scan
<1> QED
  BY <1>1, <1>2 DEF Scan

\* Nobody touches a message before its publisher's first send is under way.
LEMMA PublisherStepInv == ASSUME IInv, [Next]_vars PROVE PublisherInv'
<1>1. \/ UNCHANGED <<stored, left, isSent, pending, spc, cur, batch, ackCur, wire, tx>>
      \/ \E m \in Msgs :
           \/ Store(m) \/ Add(m) \/ AddRefused(m) \/ Send(m) \/ SendFails(m)
           \/ MarkSent(m) \/ CancelSend(m) \/ AbandonSend(m) \/ Timeout(m)
           \/ RemoveAcked(m)
      \/ Scan \/ RetryAdd \/ RetryAddRefused \/ RetrySend \/ RetrySendFails
      \/ RetryCancel \/ RetryAbandon \/ ReAdd \/ StatusSuccess
  BY Steps DEF vars, storeVars, monVars, netVars, wireVars, reportVars, Track,
     Untrack, Report, Abandon, Transmit, NextItem, Expire, Receive
<1>2. NoMsg \notin Msgs /\ TypeOK /\ PublisherInv /\ NetInv
  BY LinkAssumption DEF IInv
<1> USE <1>2 DEF TypeOK, PublisherInv, NetInv, Unsent, Retrying,
            storeVars, monVars, netVars, wireVars, reportVars,
            Track, Untrack, Report, Abandon, Transmit, NextItem
<1>3. CASE UNCHANGED <<stored, left, isSent, pending, spc, cur, batch, ackCur, wire, tx>>
  BY <1>3
<1>4. ASSUME NEW m \in Msgs, Store(m) PROVE PublisherInv'
  BY <1>4 DEF Store
<1>5. ASSUME NEW m \in Msgs, Add(m) PROVE PublisherInv'
  BY <1>5 DEF Add
<1>6. ASSUME NEW m \in Msgs, AddRefused(m) PROVE PublisherInv'
  BY <1>6 DEF AddRefused
<1>7. ASSUME NEW m \in Msgs, Send(m) PROVE PublisherInv'
  BY <1>7 DEF Send
<1>8. ASSUME NEW m \in Msgs, SendFails(m) PROVE PublisherInv'
  BY <1>8 DEF SendFails
<1>9. ASSUME NEW m \in Msgs, MarkSent(m) PROVE PublisherInv'
  BY <1>9 DEF MarkSent, Marked
<1>10. ASSUME NEW m \in Msgs, CancelSend(m) PROVE PublisherInv'
  BY <1>10 DEF CancelSend
<1>11. ASSUME NEW m \in Msgs, AbandonSend(m) PROVE PublisherInv'
  BY <1>11 DEF AbandonSend
<1>12. ASSUME NEW m \in Msgs, Timeout(m) PROVE PublisherInv'
  <2>1. m \in batch /\ spc[m] \notin {"new", "add"} /\ UNCHANGED <<pending, spc, ackCur, wire, tx>>
    BY <1>12 DEF Timeout
  <2>2. m \in isSent \/ UNCHANGED <<stored, left>>
    <3>1. m \in stored /\ left[m] = 0 => m \in isSent
      BY LinkAssumption
    <3> QED
      BY <1>12, <3>1 DEF Timeout, ShouldRetry
  <2>3. /\ isSent' = isSent /\ batch' \subseteq batch /\ cur' \in {m, NoMsg}
        /\ stored' = stored \/ stored' = stored \ {m}
        /\ left' = left \/ left' = [left EXCEPT ![m] = @ - 1]
    BY <1>12 DEF Timeout
  <2> QED
    BY <2>1, <2>2, <2>3
<1>13. ASSUME NEW m \in Msgs, RemoveAcked(m) PROVE PublisherInv'
  BY <1>13 DEF RemoveAcked
<1>14. ASSUME Scan PROVE PublisherInv'
  BY <1>14 DEF Scan
<1>15. ASSUME RetryAdd PROVE PublisherInv'
  BY <1>15 DEF RetryAdd
<1>16. ASSUME RetryAddRefused PROVE PublisherInv'
  BY <1>16 DEF RetryAddRefused
<1>17. ASSUME RetrySend PROVE PublisherInv'
  BY <1>17 DEF RetrySend
<1>18. ASSUME RetrySendFails PROVE PublisherInv'
  BY <1>18 DEF RetrySendFails
<1>19. ASSUME RetryCancel PROVE PublisherInv'
  BY <1>19 DEF RetryCancel
<1>20. ASSUME RetryAbandon PROVE PublisherInv'
  BY <1>20 DEF RetryAbandon
<1>21. ASSUME ReAdd PROVE PublisherInv'
  BY <1>21 DEF ReAdd
<1>22. ASSUME StatusSuccess PROVE PublisherInv'
  <2>1. ackCur \in wire
    BY <1>22 DEF IInv, AckInv, StatusSuccess
  <2> QED
    BY <1>22, <2>1 DEF StatusSuccess
<1> QED
  BY <1>1, <1>3, <1>4, <1>5, <1>6, <1>7, <1>8, <1>9, <1>10, <1>11, <1>12, <1>13, <1>14,
     <1>15, <1>16, <1>17, <1>18, <1>19, <1>20, <1>21, <1>22

\* The net thread keeps a message in one place at a time.
LEMMA NetStepInv == ASSUME IInv, [Next]_vars PROVE NetInv'
<1>1. \/ UNCHANGED <<pending, isSent, npc, cur, batch>>
      \/ \E m \in Msgs :
           \/ Add(m) \/ MarkSent(m) \/ CancelSend(m) \/ Timeout(m)
           \/ RemoveAcked(m)
      \/ Scan \/ RetryAdd \/ RetryAddRefused \/ RetrySend \/ RetrySendFails
      \/ RetryCancel \/ RetryAbandon \/ ReAdd
  BY Steps DEF vars, storeVars, monVars, netVars, wireVars, reportVars, Track,
     Untrack, Report, Abandon, Transmit, NextItem, Store, AddRefused, Send, SendFails,
     AbandonSend, Expire, Receive, StatusSuccess
<1>2. NoMsg \notin Msgs /\ TypeOK /\ PublisherInv /\ NetInv
  BY LinkAssumption DEF IInv
<1> USE <1>2 DEF TypeOK, PublisherInv, NetInv, Unsent, Retrying, Marked, ShouldRetry,
            storeVars, monVars, netVars, wireVars, reportVars,
            Track, Untrack, Report, Abandon, Transmit, NextItem
<1>3. CASE UNCHANGED <<pending, isSent, npc, cur, batch>>
  BY <1>3
<1>4. ASSUME NEW m \in Msgs, Add(m) PROVE NetInv'
  BY <1>4 DEF Add
<1>5. ASSUME NEW m \in Msgs, MarkSent(m) PROVE NetInv'
  BY <1>5 DEF MarkSent
<1>6. ASSUME NEW m \in Msgs, CancelSend(m) PROVE NetInv'
  BY <1>6 DEF CancelSend
<1>7. ASSUME NEW m \in Msgs, Timeout(m) PROVE NetInv'
  BY <1>7 DEF Timeout
<1>8. ASSUME NEW m \in Msgs, RemoveAcked(m) PROVE NetInv'
  BY <1>8 DEF RemoveAcked
<1>9. ASSUME Scan PROVE NetInv'
  BY <1>9, ScanHolds
<1>10. ASSUME RetryAdd PROVE NetInv'
  BY <1>10 DEF RetryAdd
<1>11. ASSUME RetryAddRefused PROVE NetInv'
  BY <1>11 DEF RetryAddRefused
<1>12. ASSUME RetrySend PROVE NetInv'
  BY <1>12 DEF RetrySend
<1>13. ASSUME RetrySendFails PROVE NetInv'
  BY <1>13 DEF RetrySendFails
<1>14. ASSUME RetryCancel PROVE NetInv'
  BY <1>14 DEF RetryCancel
<1>15. ASSUME RetryAbandon PROVE NetInv'
  BY <1>15 DEF RetryAbandon
<1>16. ASSUME ReAdd PROVE NetInv'
  BY <1>16 DEF ReAdd
<1> QED
  BY <1>1, <1>3, <1>4, <1>5, <1>6, <1>7, <1>8, <1>9, <1>10, <1>11, <1>12, <1>13, <1>14,
     <1>15, <1>16

\* What was sent, what is left and what is being sent add up.
LEMMA BudgetStep == ASSUME IInv, [Next]_vars PROVE BudgetInv'
<1>1. \/ UNCHANGED <<stored, left, spc, npc, cur, tx>>
      \/ \E m \in Msgs :
           \/ Store(m) \/ Add(m) \/ AddRefused(m) \/ Send(m) \/ SendFails(m)
           \/ MarkSent(m) \/ CancelSend(m) \/ AbandonSend(m) \/ Timeout(m)
      \/ Scan \/ RetryAdd \/ RetryAddRefused \/ RetrySend \/ RetrySendFails
      \/ RetryCancel \/ RetryAbandon \/ ReAdd \/ StatusSuccess
  BY Steps DEF vars, storeVars, monVars, netVars, wireVars, reportVars, Track,
     Untrack, Report, Abandon, Transmit, NextItem, Expire, RemoveAcked, Receive
<1>2. NoMsg \notin Msgs /\ TypeOK /\ PublisherInv /\ NetInv /\ BudgetInv
  BY LinkAssumption DEF IInv
<1> USE <1>2, LinkAssumption DEF TypeOK, PublisherInv, NetInv, BudgetInv, Unsent,
            Retrying, InFlight, storeVars, monVars, netVars, wireVars, reportVars,
            Track, Untrack, Report, Abandon, Transmit, NextItem
<1>3. CASE UNCHANGED <<stored, left, spc, npc, cur, tx>>
  BY <1>3
<1>4. ASSUME NEW m \in Msgs, Store(m) PROVE BudgetInv'
  BY <1>4 DEF Store
<1>5. ASSUME NEW m \in Msgs, Add(m) PROVE BudgetInv'
  BY <1>5 DEF Add
<1>6. ASSUME NEW m \in Msgs, AddRefused(m) PROVE BudgetInv'
  BY <1>6 DEF AddRefused
<1>7. ASSUME NEW m \in Msgs, Send(m) PROVE BudgetInv'
  BY <1>7 DEF Send
<1>8. ASSUME NEW m \in Msgs, SendFails(m) PROVE BudgetInv'
  BY <1>8 DEF SendFails
<1>9. ASSUME NEW m \in Msgs, MarkSent(m) PROVE BudgetInv'
  BY <1>9 DEF MarkSent
<1>10. ASSUME NEW m \in Msgs, CancelSend(m) PROVE BudgetInv'
  BY <1>10 DEF CancelSend
<1>11. ASSUME NEW m \in Msgs, AbandonSend(m) PROVE BudgetInv'
  BY <1>11 DEF AbandonSend
<1>12. ASSUME NEW m \in Msgs, Timeout(m) PROVE BudgetInv'
  BY <1>12 DEF Timeout
<1>13. ASSUME Scan PROVE BudgetInv'
  BY <1>13, ScanHolds
<1>14. ASSUME RetryAdd PROVE BudgetInv'
  BY <1>14 DEF RetryAdd
<1>15. ASSUME RetryAddRefused PROVE BudgetInv'
  BY <1>15 DEF RetryAddRefused
<1>16. ASSUME RetrySend PROVE BudgetInv'
  BY <1>16 DEF RetrySend
<1>17. ASSUME RetrySendFails PROVE BudgetInv'
  BY <1>17 DEF RetrySendFails
<1>18. ASSUME RetryCancel PROVE BudgetInv'
  BY <1>18 DEF RetryCancel
<1>19. ASSUME RetryAbandon PROVE BudgetInv'
  BY <1>19 DEF RetryAbandon
<1>20. ASSUME ReAdd PROVE BudgetInv'
  BY <1>20 DEF ReAdd
<1>21. ASSUME StatusSuccess PROVE BudgetInv'
  BY <1>21 DEF StatusSuccess
<1> QED
  BY <1>1, <1>3, <1>4, <1>5, <1>6, <1>7, <1>8, <1>9, <1>10, <1>11, <1>12, <1>13, <1>14,
     <1>15, <1>16, <1>17, <1>18, <1>19, <1>20, <1>21

\* An entry stays in sight of a thread that will deal with it.
LEMMA TrackedStep == ASSUME IInv, [Next]_vars PROVE Tracked'
<1>1. \/ UNCHANGED <<stored, pending, untracked, spc, batch, npc, cur, ackCur>>
      \/ \E m \in Msgs :
           \/ Store(m) \/ Add(m) \/ AddRefused(m) \/ Send(m) \/ SendFails(m)
           \/ MarkSent(m) \/ CancelSend(m) \/ AbandonSend(m) \/ Timeout(m)
           \/ RemoveAcked(m)
      \/ Scan \/ RetryAdd \/ RetryAddRefused \/ RetrySend \/ RetrySendFails
      \/ RetryCancel \/ RetryAbandon \/ ReAdd \/ StatusSuccess
  BY Steps DEF vars, storeVars, monVars, netVars, wireVars, reportVars, Track,
     Untrack, Report, Abandon, Transmit, NextItem, Expire, Receive
<1>2. NoMsg \notin Msgs /\ TypeOK /\ PublisherInv /\ NetInv /\ Tracked
  BY LinkAssumption DEF IInv
<1> USE <1>2 DEF TypeOK, NetInv, Tracked, OnNet, Retrying, ShouldRetry, ShouldReregister,
            storeVars, monVars, netVars, wireVars, reportVars,
            Track, Untrack, Report, Abandon, Transmit, NextItem
<1>3. CASE UNCHANGED <<stored, pending, untracked, spc, batch, npc, cur, ackCur>>
  BY <1>3
<1>4. ASSUME NEW m \in Msgs, Store(m) PROVE Tracked'
  BY <1>4 DEF Store
<1>5. ASSUME NEW m \in Msgs, Add(m) PROVE Tracked'
  BY <1>5 DEF Add
<1>6. ASSUME NEW m \in Msgs, AddRefused(m) PROVE Tracked'
  BY <1>6 DEF AddRefused
<1>7. ASSUME NEW m \in Msgs, Send(m) PROVE Tracked'
  BY <1>7 DEF Send
<1>8. ASSUME NEW m \in Msgs, SendFails(m) PROVE Tracked'
  BY <1>8 DEF SendFails
<1>9. ASSUME NEW m \in Msgs, MarkSent(m) PROVE Tracked'
  BY <1>9 DEF MarkSent
<1>10. ASSUME NEW m \in Msgs, CancelSend(m) PROVE Tracked'
  BY <1>10 DEF CancelSend
<1>11. ASSUME NEW m \in Msgs, AbandonSend(m) PROVE Tracked'
  BY <1>11 DEF AbandonSend
<1>12. ASSUME NEW m \in Msgs, Timeout(m) PROVE Tracked'
  BY <1>12 DEF Timeout
<1>13. ASSUME NEW m \in Msgs, RemoveAcked(m) PROVE Tracked'
  BY <1>13 DEF RemoveAcked
<1>14. ASSUME Scan PROVE Tracked'
  BY <1>14, ScanHolds
<1>15. ASSUME RetryAdd PROVE Tracked'
  BY <1>15 DEF RetryAdd
<1>16. ASSUME RetryAddRefused PROVE Tracked'
  BY <1>16 DEF RetryAddRefused
<1>17. ASSUME RetrySend PROVE Tracked'
  BY <1>17 DEF RetrySend
<1>18. ASSUME RetrySendFails PROVE Tracked'
  BY <1>18 DEF RetrySendFails
<1>19. ASSUME RetryCancel PROVE Tracked'
  BY <1>19 DEF RetryCancel
<1>20. ASSUME RetryAbandon PROVE Tracked'
  BY <1>20 DEF RetryAbandon
<1>21. ASSUME ReAdd PROVE Tracked'
  BY <1>21 DEF ReAdd
<1>22. ASSUME StatusSuccess PROVE Tracked'
  BY <1>22 DEF StatusSuccess
<1> QED
  BY <1>1, <1>3, <1>4, <1>5, <1>6, <1>7, <1>8, <1>9, <1>10, <1>11, <1>12, <1>13, <1>14,
     <1>15, <1>16, <1>17, <1>18, <1>19, <1>20, <1>21, <1>22

\* An acknowledgement is taken for a message whose entry is there: while one is
\* at work the net thread is not, and what was sent is let go only with its entry.
LEMMA AckStep == ASSUME IInv, [Next]_vars PROVE AckInv'
<1>1. \/ UNCHANGED <<stored, pending, npc, cur, batch, ackCur, wire, acks>>
      \/ \E m \in Msgs :
           \/ Store(m) \/ Add(m) \/ AddRefused(m) \/ Send(m) \/ CancelSend(m)
           \/ AbandonSend(m) \/ Expire(m) \/ Timeout(m) \/ RemoveAcked(m)
           \/ Receive(m)
      \/ Scan \/ RetryAdd \/ RetryAddRefused \/ RetrySend \/ RetrySendFails
      \/ RetryCancel \/ RetryAbandon \/ ReAdd \/ StatusSuccess
  BY Steps DEF vars, storeVars, monVars, netVars, wireVars, reportVars, Track,
     Untrack, Report, Abandon, Transmit, NextItem, SendFails, MarkSent
<1>2. NoMsg \notin Msgs /\ TypeOK /\ PublisherInv /\ NetInv /\ AckInv
  BY LinkAssumption DEF IInv
<1> USE <1>2 DEF TypeOK, PublisherInv, NetInv, AckInv, Held, Unsent, Retrying,
            storeVars, monVars, netVars, wireVars, reportVars,
            Track, Untrack, Report, Abandon, Transmit, NextItem
<1>3. CASE UNCHANGED <<stored, pending, npc, cur, batch, ackCur, wire, acks>>
  BY <1>3
<1>4. ASSUME NEW m \in Msgs, Store(m) PROVE AckInv'
  BY <1>4 DEF Store
<1>5. ASSUME NEW m \in Msgs, Add(m) PROVE AckInv'
  BY <1>5 DEF Add
<1>6. ASSUME NEW m \in Msgs, AddRefused(m) PROVE AckInv'
  BY <1>6 DEF AddRefused
<1>7. ASSUME NEW m \in Msgs, Send(m) PROVE AckInv'
  BY <1>7 DEF Send
<1>8. ASSUME NEW m \in Msgs, CancelSend(m) PROVE AckInv'
  BY <1>8 DEF CancelSend
<1>9. ASSUME NEW m \in Msgs, AbandonSend(m) PROVE AckInv'
  BY <1>9 DEF AbandonSend
<1>10. ASSUME NEW m \in Msgs, Expire(m) PROVE AckInv'
  BY <1>10 DEF Expire
<1>11. ASSUME NEW m \in Msgs, Timeout(m) PROVE AckInv'
  BY <1>11 DEF Timeout
<1>12. ASSUME NEW m \in Msgs, RemoveAcked(m) PROVE AckInv'
  BY <1>12 DEF RemoveAcked, NetFree
<1>13. ASSUME NEW m \in Msgs, Receive(m) PROVE AckInv'
  BY <1>13 DEF Receive
<1>14. ASSUME Scan PROVE AckInv'
  <2>1. AcksOnNet => ackCur = NoMsg
    BY <1>14 DEF Scan, NetFree
  <2> QED
    BY <1>14, <2>1, ScanHolds
<1>15. ASSUME RetryAdd PROVE AckInv'
  BY <1>15 DEF RetryAdd
<1>16. ASSUME RetryAddRefused PROVE AckInv'
  BY <1>16 DEF RetryAddRefused
<1>17. ASSUME RetrySend PROVE AckInv'
  BY <1>17 DEF RetrySend
<1>18. ASSUME RetrySendFails PROVE AckInv'
  BY <1>18 DEF RetrySendFails
<1>19. ASSUME RetryCancel PROVE AckInv'
  BY <1>19 DEF RetryCancel
<1>20. ASSUME RetryAbandon PROVE AckInv'
  BY <1>20 DEF RetryAbandon
<1>21. ASSUME ReAdd PROVE AckInv'
  BY <1>21 DEF ReAdd
<1>22. ASSUME StatusSuccess PROVE AckInv'
  BY <1>22 DEF StatusSuccess
<1> QED
  BY <1>1, <1>3, <1>4, <1>5, <1>6, <1>7, <1>8, <1>9, <1>10, <1>11, <1>12, <1>13, <1>14,
     <1>15, <1>16, <1>17, <1>18, <1>19, <1>20, <1>21, <1>22


\* The report of a message nobody has heard of.
LEMMA FirstReport ==
    ASSUME NEW m \in Msgs, NEW what, Report(m, what), outcome[m] = {},
           outcome \in [Msgs -> SUBSET Outcomes]
    PROVE  /\ outcome'[m] = {what}
           /\ \A n \in Msgs : n # m => outcome'[n] = outcome[n]
  BY DEF Report

\* One true report: whoever reports a message finds its entry, and takes it away.
LEMMA OutcomeStep == ASSUME IInv, AcksOnNet, [Next]_vars PROVE OutcomeInv'
<1>1. \/ UNCHANGED <<stored, spc, acks, tx, outcome>>
      \/ \E m \in Msgs :
           \/ Store(m) \/ Add(m) \/ AddRefused(m) \/ Send(m) \/ SendFails(m)
           \/ MarkSent(m) \/ CancelSend(m) \/ AbandonSend(m) \/ Timeout(m)
           \/ Receive(m)
      \/ RetryAddRefused \/ RetrySend \/ RetryAbandon \/ StatusSuccess
  BY Steps DEF vars, storeVars, monVars, netVars, wireVars, reportVars, Track,
     Untrack, Report, Abandon, Transmit, NextItem, Expire, RemoveAcked, Scan, RetryAdd,
     RetrySendFails, RetryCancel, ReAdd
<1>2. NoMsg \notin Msgs /\ TypeOK /\ PublisherInv /\ NetInv /\ AckInv /\ BudgetInv /\ OutcomeInv
  BY LinkAssumption DEF IInv
<1> USE <1>2 DEF storeVars, monVars, netVars, wireVars, reportVars
<1>3. CASE UNCHANGED <<stored, spc, acks, tx, outcome>>
  BY <1>3 DEF OutcomeInv
<1>4. ASSUME NEW m \in Msgs, Store(m) PROVE OutcomeInv'
  BY <1>4 DEF Store, OutcomeInv, Unsent, TypeOK, Untrack
<1>5. ASSUME NEW m \in Msgs, Add(m) PROVE OutcomeInv'
  BY <1>5 DEF Add, OutcomeInv, Unsent, TypeOK, Untrack
<1>6. ASSUME NEW m \in Msgs, AddRefused(m) PROVE OutcomeInv'
  <2>1. outcome[m] = {}
    BY <1>6 DEF AddRefused, OutcomeInv, Unsent
  <2>2. outcome'[m] = {"addFailed"} /\ \A n \in Msgs : n # m => outcome'[n] = outcome[n]
    BY <1>6, <2>1, FirstReport DEF AddRefused, Abandon, TypeOK
  <2>3. spc' = [spc EXCEPT ![m] = "done"] /\ stored' = stored \ {m} /\ UNCHANGED <<tx, acks>>
    BY <1>6 DEF AddRefused, Abandon
  <2> QED
    BY <2>2, <2>3 DEF OutcomeInv, Unsent, Outcomes, TypeOK
<1>7. ASSUME NEW m \in Msgs, Send(m) PROVE OutcomeInv'
  BY <1>7 DEF Send, Transmit, OutcomeInv, Unsent, TypeOK
<1>8. ASSUME NEW m \in Msgs, SendFails(m) PROVE OutcomeInv'
  BY <1>8 DEF SendFails, OutcomeInv, Unsent, TypeOK, Untrack
<1>9. ASSUME NEW m \in Msgs, MarkSent(m) PROVE OutcomeInv'
  BY <1>9 DEF MarkSent, OutcomeInv, Unsent, TypeOK, Untrack
<1>10. ASSUME NEW m \in Msgs, CancelSend(m) PROVE OutcomeInv'
  BY <1>10 DEF CancelSend, OutcomeInv, Unsent, TypeOK, Untrack
<1>11. ASSUME NEW m \in Msgs, AbandonSend(m) PROVE OutcomeInv'
  <2>1. outcome[m] = {}
    BY <1>11 DEF AbandonSend, OutcomeInv, Unsent
  <2>2. outcome'[m] = {"sendFailed"} /\ \A n \in Msgs : n # m => outcome'[n] = outcome[n]
    BY <1>11, <2>1, FirstReport DEF AbandonSend, Abandon, TypeOK
  <2>3. spc' = [spc EXCEPT ![m] = "done"] /\ stored' = stored \ {m} /\ UNCHANGED <<tx, acks>>
    BY <1>11 DEF AbandonSend, Abandon
  <2> QED
    BY <2>2, <2>3 DEF OutcomeInv, Unsent, Outcomes, TypeOK
<1>12. ASSUME NEW m \in Msgs, Timeout(m) PROVE OutcomeInv'
  <2>1. CASE m \in stored /\ left[m] = 0 /\ Abandon(m, "exhausted")
    <3>1. m \in isSent /\ spc[m] = "done" /\ outcome[m] = {}
      BY <2>1, LinkAssumption DEF PublisherInv, OutcomeInv
    <3>2. tx[m] = MaxRetries + 1
      <4>1. InFlight(m) = 0
        BY <1>12 DEF Timeout, InFlight, Retrying
      <4>2. tx[m] + left[m] + 0 = MaxRetries + 1
        BY <2>1, <3>1, <4>1 DEF BudgetInv, Unsent
      <4> QED
        BY <2>1, <4>2, LinkAssumption DEF TypeOK
    <3>3. outcome'[m] = {"exhausted"} /\ \A n \in Msgs : n # m => outcome'[n] = outcome[n]
      BY <2>1, <3>1, FirstReport DEF Abandon, TypeOK
    <3> QED
      BY <1>12, <2>1, <3>1, <3>2, <3>3 DEF Timeout, Abandon, OutcomeInv, Unsent, Outcomes
  <2>2. CASE UNCHANGED <<stored, outcome>>
    BY <1>12, <2>2 DEF Timeout, OutcomeInv
  <2> QED
    BY <1>12, <2>1, <2>2 DEF Timeout
<1>13. ASSUME NEW m \in Msgs, Receive(m) PROVE OutcomeInv'
  BY <1>13 DEF Receive, OutcomeInv, Unsent, TypeOK, Untrack
<1>14. ASSUME RetryAddRefused PROVE OutcomeInv'
  <2>1. cur \in Msgs /\ cur \in stored /\ cur \in isSent
    BY <1>14, CurIsMsg DEF RetryAddRefused, AckInv, Retrying, NetInv
  <2>2. outcome[cur] = {} /\ spc[cur] = "done"
    BY <2>1 DEF OutcomeInv, PublisherInv
  <2>3. outcome'[cur] = {"addFailed"} /\ \A n \in Msgs : n # cur => outcome'[n] = outcome[n]
    BY <1>14, <2>1, <2>2, FirstReport DEF RetryAddRefused, Abandon, TypeOK
  <2> QED
    BY <1>14, <2>2, <2>3 DEF RetryAddRefused, Abandon, OutcomeInv, Unsent, Outcomes
<1>15. ASSUME RetrySend PROVE OutcomeInv'
  <2>1. cur \in Msgs /\ cur \in stored
    BY <1>15, CurIsMsg DEF RetrySend, AckInv, Retrying
  <2>2. outcome[cur] = {}
    BY <2>1 DEF OutcomeInv
  <2> QED
    BY <1>15, <2>1, <2>2 DEF RetrySend, Transmit, OutcomeInv, TypeOK
<1>16. ASSUME RetryAbandon PROVE OutcomeInv'
  <2>1. cur \in Msgs /\ cur \in stored /\ cur \in isSent
    BY <1>16, CurIsMsg DEF RetryAbandon, AckInv, Retrying, NetInv
  <2>2. outcome[cur] = {} /\ spc[cur] = "done"
    BY <2>1 DEF OutcomeInv, PublisherInv
  <2>3. outcome'[cur] = {"sendFailed"} /\ \A n \in Msgs : n # cur => outcome'[n] = outcome[n]
    BY <1>16, <2>1, <2>2, FirstReport DEF RetryAbandon, Abandon, TypeOK
  <2> QED
    BY <1>16, <2>2, <2>3 DEF RetryAbandon, Abandon, OutcomeInv, Unsent, Outcomes
<1>17. ASSUME StatusSuccess PROVE OutcomeInv'
  <2>1. ackCur \in Msgs /\ ackCur \in acks /\ ackCur \in wire /\ ackCur \in stored
    BY <1>17 DEF StatusSuccess, AckInv, Held, TypeOK
  <2>2. outcome[ackCur] = {} /\ spc[ackCur] \notin Unsent
    BY <2>1 DEF OutcomeInv, PublisherInv
  <2>3. outcome'[ackCur] = {"success"} /\ \A n \in Msgs : n # ackCur => outcome'[n] = outcome[n]
    BY <1>17, <2>1, <2>2, FirstReport DEF StatusSuccess, TypeOK
  <2> QED
    BY <1>17, <2>1, <2>2, <2>3 DEF StatusSuccess, OutcomeInv, Outcomes
<1> QED
  BY <1>1, <1>3, <1>4, <1>5, <1>6, <1>7, <1>8, <1>9, <1>10, <1>11, <1>12, <1>13, <1>14,
     <1>15, <1>16, <1>17

-----------------------------------------------------------------------------
(* The inductive invariant and what follows from it.                       *)

\* IInv holds at the start.
LEMMA IInvInit == Init => IInv
<1> SUFFICES ASSUME Init PROVE IInv
  OBVIOUS
<1>1. NoMsg \notin Msgs
  BY LinkAssumption
<1>2. PublisherInv /\ NetInv
  BY <1>1 DEF Init, PublisherInv, NetInv, Unsent, Retrying
<1>3. BudgetInv
  BY DEF Init, BudgetInv, Unsent
<1>4. AckInv /\ Tracked
  BY <1>1 DEF Init, AckInv, Tracked, Retrying
<1>5. OutcomeInv
  BY DEF Init, OutcomeInv
<1> QED
  BY TypeInit, <1>2, <1>3, <1>4, <1>5 DEF IInv

\* IInv is kept by every step.
LEMMA IInvStep == IInv /\ [Next]_vars => IInv'
  BY TypeStep, PublisherStepInv, NetStepInv, BudgetStep, AckStep, TrackedStep,
     OutcomeStep DEF IInv

\* IInv holds in every reachable state.
LEMMA Invariance == Spec => []IInv
  BY IInvInit, IInvStep, PTL DEF Spec

\* Every variable keeps its type: the pending map its limit and every message its
\* budget of datagrams.
THEOREM TypeCorrect == Spec => []TypeOK
<1>1. IInv => TypeOK
  BY DEF IInv
<1> QED
  BY Invariance, <1>1, PTL

\* Whatever the threads, no entry of the retry store is forgotten, unless its
\* re-registration was refused.
THEOREM NothingForgotten == Spec => []Tracked
<1>1. IInv => Tracked
  BY DEF IInv
<1> QED
  BY Invariance, <1>1, PTL
=============================================================================

---------------------------- MODULE ReliableLink ----------------------------
(***************************************************************************)
(* Reliable sending over a lossy link (DelegateMQ/extras/util:             *)
(* TransportMonitor.h, RetryMonitor.h, ReliableTransport.h), up to the     *)
(* transport of the receiver, which acknowledges what it reads from the    *)
(* network.  What becomes of a message after that is up to the receiver:   *)
(* Participant and RemoteInvoke say what two of them do.                   *)
(*                                                                         *)
(* Publishers call RetryMonitor::SendWithRetry().  The net thread runs     *)
(* TransportMonitor::Process(), whose TIMEOUTs reach                       *)
(* RetryMonitor::OnStatusChanged().  Acknowledgements reach                *)
(* TransportMonitor::Remove() on the net thread (NetworkNode) or on a      *)
(* receive thread of their own (RemoteDispatcher).                         *)
(*                                                                         *)
(* Every message is sent by one call.  All have one remote id and          *)
(* sequence numbers of their own: the 16-bit counter does not wrap.        *)
(***************************************************************************)
EXTENDS Naturals, FiniteSets

CONSTANTS
    Msgs,           \* messages, each with its sequence number
    MaxRetries,     \* m_maxRetries
    MaxPending,     \* MAX_TRANSPORT_MONITOR_PENDING
    BatchSize,      \* MAX_TIMER_EXPIRED, the size of m_expiredItems
    AcksOnNet,      \* whether acknowledgements are received on the net thread
    SendsOnNet,     \* whether publishers hand their sends to the net thread
    NoMsg

ASSUME LinkAssumption ==
    /\ MaxRetries \in Nat \ {0} /\ MaxPending \in Nat \ {0}
    /\ BatchSize \in Nat \ {0}
    /\ AcksOnNet \in BOOLEAN /\ SendsOnNet \in BOOLEAN
    /\ NoMsg \notin Msgs
    /\ IsFiniteSet(Msgs)

VARIABLES
    stored, left, isSent,       \* m_retryStore: its keys, attemptsRemaining, isSent
    pending,                    \* the keys of m_pending
    expired,                    \* those older than TRANSPORT_TIMEOUT
    spc,                        \* where each publisher is in SendWithRetry()
    npc, cur,                   \* where the net thread is in Process(), and its message
    batch, full,                \* m_expiredItems still to fire; whether it was filled
    ackCur,                     \* message between the two halves of Remove()
    wire, acks,                 \* datagrams sent, and those received and acknowledged
    tx, outcome,                \* history: datagrams sent, and what was reported
    untracked                   \* history: re-registrations that Add() refused

storeVars == <<stored, left, isSent>>
monVars == <<pending, expired>>
netVars == <<npc, cur, batch, full>>
wireVars == <<wire, acks>>
reportVars == <<tx, outcome, untracked>>
vars == <<storeVars, monVars, spc, netVars, ackCur, wireVars, reportVars>>

Outcomes == {"success", "exhausted", "sendFailed", "addFailed"}

\* The types of all variables.
TypeOK ==
    /\ stored \subseteq Msgs /\ isSent \subseteq Msgs
    /\ left \in [Msgs -> 0 .. MaxRetries]
    /\ expired \subseteq pending /\ pending \subseteq Msgs
    /\ spc \in [Msgs -> {"new", "add", "send", "mark", "cancel", "abandon", "done"}]
    /\ npc \in {"idle", "scan", "fire", "add", "send", "cancel", "abandon", "readd"}
    /\ cur \in Msgs \cup {NoMsg} /\ ackCur \in Msgs \cup {NoMsg}
    /\ batch \subseteq Msgs /\ full \in BOOLEAN
    /\ wire \subseteq Msgs /\ acks \subseteq Msgs
    /\ tx \in [Msgs -> 0 .. MaxRetries + 1]
    /\ outcome \in [Msgs -> SUBSET Outcomes]
    /\ untracked \subseteq Msgs
    /\ Cardinality(pending) <= MaxPending

Init ==
    /\ stored = {} /\ isSent = {} /\ left = [m \in Msgs |-> 0]
    /\ pending = {} /\ expired = {}
    /\ spc = [m \in Msgs |-> "new"]
    /\ npc = "idle" /\ cur = NoMsg /\ batch = {} /\ full = FALSE
    /\ ackCur = NoMsg
    /\ wire = {} /\ acks = {}
    /\ tx = [m \in Msgs |-> 0]
    /\ outcome = [m \in Msgs |-> {}]
    /\ untracked = {}

-----------------------------------------------------------------------------
(* TransportMonitor: Add and the erasure of a key                          *)

Active(m) == spc[m] \notin {"new", "done"}

\* The net thread is free for another work item.
NetFree ==
    /\ npc = "idle"
    /\ AcksOnNet => ackCur = NoMsg
    /\ SendsOnNet => \A m \in Msgs : ~Active(m)

\* Mutant: one entry too many.
CapOffByOne(m) == Cardinality(pending) <= MaxPending /\ m \notin pending

CanAdd(m) == Cardinality(pending) < MaxPending /\ m \notin pending

Track(m) == pending' = pending \cup {m} /\ UNCHANGED expired

\* Cancel() and the first half of Remove(); nothing happens to an absent key.
Untrack(m) == pending' = pending \ {m} /\ expired' = expired \ {m}

Report(m, what) == outcome' = [outcome EXCEPT ![m] = @ \cup {what}]

\* Erase the entry, then OnDeliveryFailed.
Abandon(m, why) ==
    /\ stored' = stored \ {m}
    /\ Report(m, why)
    /\ UNCHANGED <<left, isSent>>

\* ITransport::Send(): the datagram leaves, or sendto() fails.
Transmit(m) ==
    /\ wire' = wire \cup {m}
    /\ tx' = [tx EXCEPT ![m] = @ + 1]
    /\ UNCHANGED acks

-----------------------------------------------------------------------------
(* A publisher: SendWithRetry                                              *)

Store(m) ==
    /\ spc[m] = "new"
    /\ SendsOnNet => NetFree
    /\ stored' = stored \cup {m}
    /\ left' = [left EXCEPT ![m] = MaxRetries]
    /\ spc' = [spc EXCEPT ![m] = "add"]
    /\ UNCHANGED <<isSent, monVars, netVars, ackCur, wireVars, reportVars>>

Add(m) ==
    /\ spc[m] = "add" /\ CanAdd(m)
    /\ Track(m)
    /\ spc' = [spc EXCEPT ![m] = "send"]
    /\ UNCHANGED <<storeVars, netVars, ackCur, wireVars, reportVars>>

AddRefused(m) ==
    /\ spc[m] = "add" /\ ~CanAdd(m)
    /\ Abandon(m, "addFailed")
    /\ spc' = [spc EXCEPT ![m] = "done"]
    /\ UNCHANGED <<monVars, netVars, ackCur, wireVars, tx, untracked>>

Send(m) ==
    /\ spc[m] = "send"
    /\ Transmit(m)
    /\ spc' = [spc EXCEPT ![m] = "mark"]
    /\ UNCHANGED <<storeVars, monVars, netVars, ackCur, outcome, untracked>>

SendFails(m) ==
    /\ spc[m] = "send"
    /\ spc' = [spc EXCEPT ![m] = "cancel"]
    /\ UNCHANGED <<storeVars, monVars, netVars, ackCur, wireVars, reportVars>>

\* Mutant: the flag is not set after the send.
NotMarked(m) == isSent

\* The entry may be gone by now: the acknowledgement was faster.
Marked(m) == IF m \in stored THEN isSent \cup {m} ELSE isSent

MarkSent(m) ==
    /\ spc[m] = "mark"
    /\ isSent' = Marked(m)
    /\ spc' = [spc EXCEPT ![m] = "done"]
    /\ UNCHANGED <<stored, left, monVars, netVars, ackCur, wireVars, reportVars>>

CancelSend(m) ==
    /\ spc[m] = "cancel"
    /\ Untrack(m)
    /\ spc' = [spc EXCEPT ![m] = "abandon"]
    /\ UNCHANGED <<storeVars, netVars, ackCur, wireVars, reportVars>>

AbandonSend(m) ==
    /\ spc[m] = "abandon"
    /\ Abandon(m, "sendFailed")
    /\ spc' = [spc EXCEPT ![m] = "done"]
    /\ UNCHANGED <<monVars, netVars, ackCur, wireVars, tx, untracked>>

-----------------------------------------------------------------------------
(* The net thread: Process                                                 *)

\* An entry grows older than TRANSPORT_TIMEOUT.
Expire(m) ==
    /\ m \in pending \ expired
    /\ expired' = expired \cup {m}
    /\ UNCHANGED <<storeVars, pending, spc, netVars, ackCur, wireVars, reportVars>>

\* One pass over m_pending under the lock.  Which of too many expired entries
\* fit in m_expiredItems depends on their keys: any of them.
Scan ==
    /\ npc = "scan" \/ (NetFree /\ expired # {})
    /\ \E E \in SUBSET expired :
        /\ Cardinality(E) = IF Cardinality(expired) < BatchSize
                            THEN Cardinality(expired) ELSE BatchSize
        /\ batch' = E
        /\ full' = (Cardinality(E) = BatchSize)
        /\ pending' = pending \ E
        /\ expired' = expired \ E
        /\ npc' = IF E = {} THEN "idle" ELSE "fire"
    /\ UNCHANGED <<storeVars, spc, cur, ackCur, wireVars, reportVars>>

\* The message is dealt with: the next of the batch, the next pass, or the end.
NextItem(rest) ==
    /\ npc' = (IF rest # {} THEN "fire" ELSE IF full THEN "scan" ELSE "idle")
    /\ cur' = NoMsg

\* Mutant: a TIMEOUT takes a retry although the first Send() still runs.
RetryUnsent(m) == left[m] > 0

ShouldRetry(m) == left[m] > 0 /\ m \in isSent

\* Mutant: a message whose first Send() still runs is not re-registered.
NeverReregister(m) == FALSE

ShouldReregister(m) == left[m] > 0 /\ m \notin isSent

\* OnSendStatus(TIMEOUT) for the next item: the locked part of OnStatusChanged.
Timeout(m) ==
    /\ npc = "fire" /\ m \in batch
    /\ batch' = batch \ {m}
    /\ \/ /\ m \in stored /\ ShouldRetry(m)
          /\ left' = [left EXCEPT ![m] = @ - 1]
          /\ npc' = "add" /\ cur' = m
          /\ UNCHANGED <<stored, isSent, outcome>>
       \/ /\ m \in stored /\ ShouldReregister(m)
          /\ npc' = "readd" /\ cur' = m
          /\ UNCHANGED <<storeVars, outcome>>
       \/ /\ m \in stored /\ left[m] = 0
          /\ Abandon(m, "exhausted")
          /\ NextItem(batch \ {m})
       \/ /\ m \in stored => left[m] > 0 /\ ~ShouldRetry(m) /\ ~ShouldReregister(m)
          /\ NextItem(batch \ {m})
          /\ UNCHANGED <<storeVars, outcome>>
    /\ UNCHANGED <<full, monVars, spc, ackCur, wireVars, tx, untracked>>

RetryAdd ==
    /\ npc = "add" /\ CanAdd(cur)
    /\ Track(cur)
    /\ npc' = "send"
    /\ UNCHANGED <<storeVars, spc, cur, batch, full, ackCur, wireVars, reportVars>>

RetryAddRefused ==
    /\ npc = "add" /\ ~CanAdd(cur)
    /\ Abandon(cur, "addFailed")
    /\ NextItem(batch)
    /\ UNCHANGED <<monVars, spc, batch, full, ackCur, wireVars, tx, untracked>>

RetrySend ==
    /\ npc = "send"
    /\ Transmit(cur)
    /\ NextItem(batch)
    /\ UNCHANGED <<storeVars, monVars, spc, batch, full, ackCur, outcome, untracked>>

RetrySendFails ==
    /\ npc = "send"
    /\ npc' = "cancel"
    /\ UNCHANGED <<storeVars, monVars, spc, cur, batch, full, ackCur, wireVars, reportVars>>

RetryCancel ==
    /\ npc = "cancel"
    /\ Untrack(cur)
    /\ npc' = "abandon"
    /\ UNCHANGED <<storeVars, spc, cur, batch, full, ackCur, wireVars, reportVars>>

RetryAbandon ==
    /\ npc = "abandon"
    /\ Abandon(cur, "sendFailed")
    /\ NextItem(batch)
    /\ UNCHANGED <<monVars, spc, batch, full, ackCur, wireVars, tx, untracked>>

\* The result of this Add() is not looked at.
ReAdd ==
    /\ npc = "readd"
    /\ IF CanAdd(cur)
       THEN Track(cur) /\ UNCHANGED untracked
       ELSE untracked' = untracked \cup {cur} /\ UNCHANGED monVars
    /\ NextItem(batch)
    /\ UNCHANGED <<storeVars, spc, batch, full, ackCur, wireVars, tx, outcome>>

-----------------------------------------------------------------------------
(* Acknowledgements and the network                                        *)

\* Remove() takes the key under the lock; a late acknowledgement finds none.
RemoveAcked(m) ==
    /\ m \in acks /\ ackCur = NoMsg
    /\ AcksOnNet => NetFree
    /\ Untrack(m)
    /\ ackCur' = IF m \in pending THEN m ELSE NoMsg
    /\ UNCHANGED <<storeVars, spc, netVars, wireVars, reportVars>>

\* OnSendStatus(SUCCESS): OnStatusChanged erases the entry, the others are told.
StatusSuccess ==
    /\ ackCur # NoMsg
    /\ stored' = stored \ {ackCur}
    /\ Report(ackCur, "success")
    /\ ackCur' = NoMsg
    /\ UNCHANGED <<left, isSent, monVars, spc, netVars, wireVars, tx, untracked>>

\* The network may bring a datagram, early, late, more than once or never.  The
\* transport acknowledges it before anybody has looked at it.
Receive(m) ==
    /\ m \in wire
    /\ acks' = acks \cup {m}
    /\ UNCHANGED <<storeVars, monVars, spc, netVars, ackCur, wire, reportVars>>

-----------------------------------------------------------------------------
PublisherStep(m) ==
    \/ Add(m) \/ AddRefused(m) \/ Send(m) \/ SendFails(m)
    \/ MarkSent(m) \/ CancelSend(m) \/ AbandonSend(m)

NetStep ==
    \/ Scan
    \/ \E m \in Msgs : Timeout(m)
    \/ RetryAdd \/ RetryAddRefused \/ RetrySend \/ RetrySendFails
    \/ RetryCancel \/ RetryAbandon
    \/ ReAdd

\* What the sending side does, and time.
SenderNext ==
    \/ \E m \in Msgs : Store(m) \/ PublisherStep(m) \/ Expire(m) \/ RemoveAcked(m)
    \/ NetStep
    \/ StatusSuccess

Next == SenderNext \/ \E m \in Msgs : Receive(m)

Spec == Init /\ [][Next]_vars

-----------------------------------------------------------------------------
(* Properties                                                              *)

\* Where the net thread holds a message it has taken out of m_pending.
OnNet(m) == m \in batch \/ (cur = m /\ npc \in {"add", "cancel", "abandon", "readd"})

\* A packet kept for retransmission is watched by somebody: it is pending, or a
\* thread that took it out of m_pending still has it in hand, so that a timeout or
\* an acknowledgement will reach it.  The one exception is a re-registration that
\* Add() refused, whose result RetryMonitor.h:250 does not look at.
Tracked ==
    \A m \in stored :
        \/ m \in pending \/ m \in untracked
        \/ spc[m] \in {"add", "cancel", "abandon"}
        \/ OnNet(m) \/ ackCur = m
=============================================================================

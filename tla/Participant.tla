---------------------------- MODULE Participant ----------------------------
(***************************************************************************)
(* The receiving side of the data bus (extras/databus/Participant.h) at the*)
(* end of a ReliableLink: ProcessIncoming() on the receive thread, its     *)
(* duplicate filter, and the registration of the channel of the remote id. *)
(*                                                                         *)
(* Receive() has acknowledged a message before ProcessIncoming() looks at  *)
(* it: it may be a duplicate, or find no channel.                          *)
(***************************************************************************)
EXTENDS ReliableLink

CONSTANT HistorySize    \* DMQ_SEQ_HISTORY_SIZE

ASSUME HistoryAssumption == HistorySize \in Nat \ {0}

VARIABLES
    hand,               \* message between Receive() and the locked part of ProcessIncoming()
    registered,         \* whether m_channels has the remote id
    buffer, head,       \* SeqHistory of the remote id
    executed, since,    \* history: messages run, and how many others since
    unheard             \* history: messages that found no channel (ERR_NO_DISPATCHER)

ringVars == <<buffer, head, executed, since>>
recvVars == <<hand, registered, ringVars, unheard>>
deliveryVars == <<vars, recvVars>>

Slots == 0 .. HistorySize - 1

\* The types of the link's variables and of those this module adds.
DeliveryTypeOK ==
    /\ TypeOK
    /\ hand \in Msgs \cup {NoMsg} /\ registered \in BOOLEAN
    /\ buffer \in [Slots -> Msgs \cup {NoMsg}] /\ head \in Slots
    /\ executed \subseteq Msgs /\ since \in [Msgs -> 0 .. HistorySize]
    /\ unheard \subseteq Msgs

ReceiverInit ==
    /\ hand = NoMsg /\ registered = FALSE
    /\ buffer = [i \in Slots |-> NoMsg] /\ head = 0
    /\ executed = {} /\ since = [m \in Msgs |-> HistorySize]
    /\ unheard = {}

DeliveryInit == Init /\ ReceiverInit

-----------------------------------------------------------------------------
(* ProcessIncoming                                                         *)

Arrive(m) ==
    /\ hand = NoMsg
    /\ Receive(m)
    /\ hand' = m
    /\ UNCHANGED <<registered, ringVars, unheard>>

IsDuplicate(m) == \E i \in Slots : buffer[i] = m

\* Mutant: every message is written to the same slot.
HeadStays == head

NextHead == (head + 1) % HistorySize

\* Only a message whose id has a channel is looked up in the filter.
DropDuplicate ==
    /\ hand # NoMsg /\ registered /\ IsDuplicate(hand)
    /\ hand' = NoMsg
    /\ UNCHANGED <<vars, registered, ringVars, unheard>>

\* The filter remembers the message and its channel runs it.
InvokeChannel ==
    /\ hand # NoMsg /\ registered /\ ~IsDuplicate(hand)
    /\ buffer' = [buffer EXCEPT ![head] = hand]
    /\ head' = NextHead
    /\ executed' = executed \cup {hand}
    /\ since' = [m \in Msgs |-> IF m = hand THEN 0
                                ELSE IF since[m] < HistorySize THEN since[m] + 1
                                ELSE HistorySize]
    /\ hand' = NoMsg
    /\ UNCHANGED <<vars, registered, unheard>>

\* ERR_NO_DISPATCHER: the message is lost, and was acknowledged.
NoDispatcher ==
    /\ hand # NoMsg /\ ~registered
    /\ unheard' = unheard \cup {hand}
    /\ hand' = NoMsg
    /\ UNCHANGED <<vars, registered, ringVars>>

\* RegisterHandler(), on any thread and at any time; a channel is never removed.
RegisterHandler ==
    /\ ~registered
    /\ registered' = TRUE
    /\ UNCHANGED <<vars, hand, ringVars, unheard>>

-----------------------------------------------------------------------------
DeliveryNext ==
    \/ SenderNext /\ UNCHANGED recvVars
    \/ \E m \in Msgs : Arrive(m)
    \/ DropDuplicate \/ InvokeChannel \/ NoDispatcher
    \/ RegisterHandler

DeliverySpec == DeliveryInit /\ [][DeliveryNext]_deliveryVars

\* Threads of the sender that can run do run and time passes; the network and the
\* receiver owe nothing.
Fairness ==
    /\ \A m \in Msgs :
        /\ WF_deliveryVars(PublisherStep(m) /\ UNCHANGED recvVars)
        /\ WF_deliveryVars(Expire(m) /\ UNCHANGED recvVars)
    /\ WF_deliveryVars(NetStep /\ UNCHANGED recvVars)
    /\ WF_deliveryVars(StatusSuccess /\ UNCHANGED recvVars)

FairDeliverySpec == DeliverySpec /\ Fairness

-----------------------------------------------------------------------------
(* Properties                                                              *)

\* What the application hears of a message is one thing, and true.  An exhausted
\* budget means that every retry was sent.  A success means that the message
\* reached the receiver and has run, or is about to be looked at, or found no
\* channel: no acknowledged message is lost to the duplicate filter.  It does not
\* mean that the message has run.
OutcomeIsTrue ==
    \A m \in Msgs :
        /\ Cardinality(outcome[m]) <= 1
        /\ "success" \in outcome[m] => m \in executed \/ m = hand \/ m \in unheard
        /\ "exhausted" \in outcome[m] => tx[m] = MaxRetries + 1
        /\ outcome[m] # {} => m \notin stored

\* The duplicate filter knows exactly the last HistorySize messages that ran: a
\* retransmission runs again only when as many others ran in between, and no
\* message is dropped (and acknowledged) that has not run.
RingIsRecent == \A m \in Msgs : IsDuplicate(m) <=> since[m] < HistorySize

\* Every message handed to SendWithRetry() is settled, by an acknowledgement or by
\* a report, unless its re-registration was refused.
Settles == \A m \in Msgs : spc[m] = "add" ~> m \notin stored \/ m \in untracked
=============================================================================

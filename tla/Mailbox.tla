------------------------------ MODULE Mailbox ------------------------------
(***************************************************************************)
(* What a DelegateMQ thread promises about the messages handed to it,      *)
(* without queues, locks, condition variables or threads.                  *)
(*                                                                         *)
(* A message is refused at the door or accepted; an accepted one gets a    *)
(* ticket, and is later either delivered -- in the order of the Priority   *)
(* contract of delegate/DelegateMsg.h -- or thrown away when the thread    *)
(* exits.  A message thrown away is cancelled, so that a sender blocked on *)
(* it is released.  DelegateThread implements this module.                 *)
(***************************************************************************)
EXTENDS Naturals

CONSTANTS
    Messages,   \* every message that is ever dispatched
    HighMsgs    \* those of Priority::HIGH; the others are Priority::NORMAL

VARIABLES
    fate,       \* what has become of each message
    ticket,     \* position of a message among the accepted ones; 0 before that
    nextTicket

vars == <<fate, ticket, nextTicket>>

Fates == {"new", "refused", "queued", "running", "invoked", "discarded", "cancelled"}

Pending == {m \in Messages : fate[m] = "queued"}

\* HIGH goes ahead of any waiting NORMAL; within a priority, first come first served.
Precedes(m, n) ==
    \/ m \in HighMsgs /\ n \notin HighMsgs
    \/ (m \in HighMsgs <=> n \in HighMsgs) /\ ticket[m] < ticket[n]

Init ==
    /\ fate = [m \in Messages |-> "new"]
    /\ ticket = [m \in Messages |-> 0]
    /\ nextTicket = 1

Move(S, to) ==
    /\ fate' = [m \in Messages |-> IF m \in S THEN to ELSE fate[m]]
    /\ UNCHANGED <<ticket, nextTicket>>

Accept(m) ==
    /\ fate[m] = "new"
    /\ fate' = [fate EXCEPT ![m] = "queued"]
    /\ ticket' = [ticket EXCEPT ![m] = nextTicket]
    /\ nextTicket' = nextTicket + 1

Refuse(m) == fate[m] = "new" /\ Move({m}, "refused")

Deliver(m) ==
    /\ m \in Pending
    /\ \A n \in Pending \ {m} : Precedes(m, n)
    /\ Move({m}, "running")

Complete(m) == fate[m] = "running" /\ Move({m}, "invoked")

\* An exit throws away everything that is waiting, never a part of it.
Discard == Pending # {} /\ Move(Pending, "discarded")

Discarded == {m \in Messages : fate[m] = "discarded"}

\* The messages thrown away together are cancelled together.
Cancel == Discarded # {} /\ Move(Discarded, "cancelled")

Next ==
    \/ \E m \in Messages : Accept(m) \/ Refuse(m) \/ Deliver(m) \/ Complete(m)
    \/ Discard
    \/ Cancel

Spec == Init /\ [][Next]_vars
=============================================================================

---------------------------- MODULE RemoteInvoke ----------------------------
(***************************************************************************)
(* RemoteDispatcher::RemoteInvokeWait (DelegateMQ/extras/rpc): a blocking  *)
(* remote call over a ReliableLink, from a thread that is not the network  *)
(* thread.                                                                 *)
(*                                                                         *)
(* The caller queues its send to the network thread, whose TransportMonitor*)
(* timer runs there too, and waits for a status of the message, which the  *)
(* receive thread reports when an acknowledgement comes in.  The sequence  *)
(* number is known only after the send, and a status may be earlier.       *)
(*                                                                         *)
(* The remote is a RemoteDispatcher too.  Its transport acknowledges a     *)
(* message, then its receive thread queues it to the network thread and    *)
(* waits, up to INVOKE_TIMEOUT, until that has run it, if somebody has     *)
(* registered its id.  There is no duplicate filter.                       *)
(*                                                                         *)
(* Every message of the link is one call; arguments can be serialized.     *)
(***************************************************************************)
EXTENDS ReliableLink

ASSUME DispatcherAssumption == ~AcksOnNet /\ SendsOnNet

VARIABLES
    cpc,                    \* where each caller is in RemoteInvokeWaitInternal()
    seqSet, early,          \* InvokeWaitState: seqSet, a SUCCESS of the call's in early
    complete, success,
    sem,                    \* the semaphore of the state
    netTold, ackTold,       \* status a thread has yet to pass to the call's callback
    inbox,                  \* remote: the call between Receive() and Incoming(), if any
    executed, lost,         \* history: calls run, and those the remote lost before they ran
    first                   \* history: the first status told before the wait was over

stateVars == <<seqSet, early, complete, success, sem>>
remoteVars == <<inbox, executed, lost>>
toldVars == <<netTold, ackTold>>
linkVars == vars
allVars == <<linkVars, cpc, stateVars, toldVars, remoteVars, first>>

\* The types of the variables this module adds.
InvokeTypeOK ==
    /\ cpc \in [Msgs -> {"idle", "queued", "send", "wait", "finish", "true", "false"}]
    /\ seqSet \subseteq Msgs /\ early \subseteq Msgs \ seqSet /\ complete \subseteq Msgs
    /\ success \subseteq complete /\ sem \subseteq complete
    /\ netTold \in Msgs \cup {NoMsg} /\ ackTold \in Msgs \cup {NoMsg}
    /\ first \in [Msgs -> {"none", "success", "timeout"}]
    /\ inbox \subseteq Msgs /\ executed \subseteq Msgs /\ lost \subseteq Msgs \ executed
    /\ \A c \in Msgs : spc[c] \in {"new", "done"} \/ cpc[c] = "send"

InvokeInit ==
    /\ Init
    /\ cpc = [c \in Msgs |-> "idle"]
    /\ seqSet = {} /\ early = {} /\ complete = {} /\ success = {} /\ sem = {}
    /\ netTold = NoMsg /\ ackTold = NoMsg
    /\ first = [c \in Msgs |-> "none"]
    /\ inbox = {} /\ executed = {} /\ lost = {}

Goto(c, where) == cpc' = [cpc EXCEPT ![c] = where]

\* The network thread runs neither a send nor a status callback.
NetThreadFree == netTold = NoMsg /\ \A c \in Msgs : cpc[c] # "send"

-----------------------------------------------------------------------------
(* The caller                                                              *)

\* The callback is connected, then AsyncInvoke() queues the send.
Queue(c) ==
    /\ cpc[c] = "idle"
    /\ Goto(c, "queued")
    /\ UNCHANGED <<linkVars, stateVars, toldVars, remoteVars, first>>

\* The queue is full (FullPolicy::DROP): there is no return value.
QueueRefused(c) ==
    /\ cpc[c] = "idle"
    /\ Goto(c, "finish")
    /\ UNCHANGED <<linkVars, stateVars, toldVars, remoteVars, first>>

WaitSignaled(c) ==
    /\ cpc[c] = "wait" /\ c \in sem
    /\ sem' = sem \ {c}
    /\ Goto(c, "finish")
    /\ UNCHANGED <<linkVars, seqSet, early, complete, success, toldVars, remoteVars, first>>

\* RECV_TIMEOUT
WaitExpired(c) ==
    /\ cpc[c] = "wait" /\ c \notin sem
    /\ Goto(c, "finish")
    /\ UNCHANGED <<linkVars, stateVars, toldVars, remoteVars, first>>

\* Read success under the mutex.
Return(c) ==
    /\ cpc[c] = "finish"
    /\ Goto(c, IF c \in success THEN "true" ELSE "false")
    /\ UNCHANGED <<linkVars, stateVars, toldVars, remoteVars, first>>

-----------------------------------------------------------------------------
(* The network thread: the send lambda                                     *)

LambdaStarts(c) ==
    /\ cpc[c] = "queued" /\ NetThreadFree
    /\ Store(c)
    /\ Goto(c, "send")
    /\ UNCHANGED <<stateVars, toldVars, remoteVars, first>>

LambdaSends(c) ==
    /\ cpc[c] = "send"
    /\ PublisherStep(c)
    /\ UNCHANGED <<cpc, stateVars, toldVars, remoteVars, first>>

\* Mutant: a status that came before the sequence number was known is dropped.
EarlyForgotten(c) == FALSE

EarlyFound(c) == c \in early

\* Mutant: early statuses are kept.
EarlyKept(c) == early

EarlyCleared(c) == early \ {c}

\* GetError() after the send
SendOk(c) == outcome[c] \cap {"sendFailed", "addFailed"} = {}

LambdaEnds(c) ==
    /\ cpc[c] = "send" /\ spc[c] = "done"
    /\ seqSet' = seqSet \cup {c}
    /\ complete' = IF EarlyFound(c) THEN complete \cup {c} ELSE complete
    /\ success' = IF EarlyFound(c) THEN success \cup {c} ELSE success
    /\ sem' = IF EarlyFound(c) THEN sem \cup {c} ELSE sem
    /\ early' = EarlyCleared(c)
    /\ Goto(c, IF SendOk(c) THEN "wait" ELSE "finish")
    /\ UNCHANGED <<linkVars, toldVars, remoteVars, first>>

-----------------------------------------------------------------------------
(* OnSendStatus: RetryMonitor's slot runs first, then the caller's         *)

\* The item OnStatusChanged() is done with in this step of the network thread.
ItemDone ==
    IF npc = "fire"
    THEN IF cur' = NoMsg THEN batch \ batch' ELSE {}
    ELSE IF cur # NoMsg /\ cur' = NoMsg THEN {cur} ELSE {}

\* Timeout() on the network thread, up to the callback of a call.
NetSteps ==
    /\ NetThreadFree
    /\ NetStep
    /\ netTold' = IF ItemDone = {} THEN NoMsg ELSE CHOOSE m \in ItemDone : TRUE
    /\ UNCHANGED <<cpc, stateVars, ackTold, remoteVars, first>>

AckSuccess ==
    /\ ackTold = NoMsg
    /\ StatusSuccess
    /\ ackTold' = ackCur
    /\ UNCHANGED <<cpc, stateVars, netTold, remoteVars, first>>

AckReceived(m) ==
    /\ ackTold = NoMsg
    /\ RemoveAcked(m)
    /\ UNCHANGED <<cpc, stateVars, toldVars, remoteVars, first>>

\* Mutant: a later status replaces the one that completed the call.
LastStatusWins(c) == c \in seqSet

FirstForSeq(c) == c \in seqSet /\ c \notin complete

\* statusCbFunc, for the call whose sequence number this is.
Callback(c, isSuccess) ==
    /\ early' = IF c \notin seqSet /\ isSuccess THEN early \cup {c} ELSE early
    /\ IF FirstForSeq(c)
       THEN /\ complete' = complete \cup {c}
            /\ success' = IF isSuccess THEN success \cup {c} ELSE success \ {c}
            /\ sem' = sem \cup {c}
       ELSE UNCHANGED <<complete, success, sem>>
    /\ first' = IF first[c] = "none" /\ cpc[c] \in {"send", "wait"}
                THEN [first EXCEPT ![c] = IF isSuccess THEN "success" ELSE "timeout"]
                ELSE first
    /\ UNCHANGED <<linkVars, cpc, seqSet, remoteVars>>

TimeoutCallback ==
    /\ netTold # NoMsg
    /\ Callback(netTold, FALSE)
    /\ netTold' = NoMsg
    /\ UNCHANGED ackTold

SuccessCallback ==
    /\ ackTold # NoMsg
    /\ Callback(ackTold, TRUE)
    /\ ackTold' = NoMsg
    /\ UNCHANGED netTold

Age ==
    /\ \E m \in Msgs : Expire(m)
    /\ UNCHANGED <<cpc, stateVars, toldVars, remoteVars, first>>

-----------------------------------------------------------------------------
(* The remote: RecvThread and Incoming                                     *)

RemoteReceives(c) ==
    /\ inbox = {}
    /\ Receive(c)
    /\ inbox' = inbox \cup {c}
    /\ UNCHANGED <<executed, lost>>

\* A call runs as often as its message comes in.
Incoming(c) ==
    /\ c \in inbox
    /\ inbox' = inbox \ {c}
    /\ executed' = executed \cup {c}
    /\ lost' = lost \ {c}
    /\ UNCHANGED linkVars

\* The queue was full (FullPolicy::DROP), INVOKE_TIMEOUT has withdrawn the call
\* before it was its turn, or nobody has registered its id.
RemoteLoses(c) ==
    /\ c \in inbox
    /\ inbox' = inbox \ {c}
    /\ lost' = lost \cup ({c} \ executed)
    /\ UNCHANGED <<linkVars, executed>>

RemoteStep ==
    /\ \E c \in Msgs : RemoteReceives(c) \/ Incoming(c) \/ RemoteLoses(c)
    /\ UNCHANGED <<cpc, stateVars, toldVars, first>>

-----------------------------------------------------------------------------
CallerStep(c) == WaitSignaled(c) \/ WaitExpired(c) \/ Return(c)
LambdaStep(c) == LambdaStarts(c) \/ LambdaSends(c) \/ LambdaEnds(c)

InvokeNext ==
    \/ \E c \in Msgs : Queue(c) \/ QueueRefused(c) \/ CallerStep(c) \/ LambdaStep(c)
    \/ NetSteps \/ TimeoutCallback
    \/ \E m \in Msgs : AckReceived(m)
    \/ AckSuccess \/ SuccessCallback
    \/ Age \/ RemoteStep

InvokeSpec == InvokeInit /\ [][InvokeNext]_allVars

\* Threads that can run do run, and time passes; the network owes nothing, and a
\* caller need not give up before it is told.
FairInvokeSpec ==
    /\ InvokeSpec
    /\ \A c \in Msgs :
        /\ WF_allVars(WaitSignaled(c) \/ Return(c)) /\ WF_allVars(LambdaStep(c))
        /\ WF_allVars(Expire(c) /\ UNCHANGED <<cpc, stateVars, toldVars, remoteVars, first>>)
    /\ WF_allVars(NetSteps \/ TimeoutCallback)
    /\ WF_allVars(AckSuccess \/ SuccessCallback)

-----------------------------------------------------------------------------
(* Properties                                                              *)

\* The remote has acknowledged the call, and it has run, waits to run, or was
\* dropped or ignored without a word.
Accepted(c) == c \in acks /\ c \in executed \cup inbox \cup lost

\* RemoteInvokeWait() returns true only for a call the remote has received and
\* acknowledged (it may never run), and false never to a caller that still waited
\* when a success was its first status: not even when the acknowledgement overtook
\* the sequence number.
AnswerIsRight ==
    \A c \in Msgs :
        /\ cpc[c] = "true" => Accepted(c)
        /\ cpc[c] = "false" => first[c] # "success"

\* Every queued call returns without the help of RECV_TIMEOUT: a call whose message
\* was sent is told a status, wherever it came from and however early it was.
CallAnswered ==
    \A c \in Msgs : cpc[c] = "queued" ~> cpc[c] \in {"true", "false"}
=============================================================================

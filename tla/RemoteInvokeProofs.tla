------------------------- MODULE RemoteInvokeProofs -------------------------
(***************************************************************************)
(* Proofs about RemoteInvoke, for any calls and any limits of the link     *)
(* they are made over.  The link takes its own steps, so what              *)
(* ReliableLinkProofs shows of it holds under the calls too; what is left  *)
(* is how a status finds its way from the link to the caller.              *)
(***************************************************************************)
EXTENDS RemoteInvoke, ReliableLinkProofs

\* A success is told of a call that was acknowledged.
TruthInv ==
    /\ success \subseteq acks /\ early \subseteq acks
    /\ ackTold # NoMsg => ackTold \in acks
    /\ complete \subseteq seqSet

\* A call that was acknowledged is somewhere at the remote, or was lost there.
RemoteInv == acks \subseteq executed \cup inbox \cup lost

\* A call before, in and after its send: the first status it is told while it
\* waits is the one it keeps, in early as long as its sequence number is unknown.
CallOK(c) ==
    /\ cpc[c] \in {"idle", "queued"} => spc[c] = "new" /\ first[c] = "none"
    /\ cpc[c] \in {"idle", "queued", "send"} => c \notin seqSet
    /\ cpc[c] = "wait" => c \in seqSet
    /\ cpc[c] = "send" /\ c \in early => first[c] # "none"
    /\ cpc[c] = "wait" /\ c \in complete => first[c] # "none"
    /\ first[c] = "success" /\ cpc[c] = "send" => c \in early
    /\ first[c] = "success" /\ cpc[c] # "send" => c \in success /\ cpc[c] # "false"
    /\ cpc[c] = "true" => c \in acks

CallInv == \A c \in Msgs : CallOK(c)

InvokeInv == IInv /\ InvokeTypeOK /\ TruthInv /\ RemoteInv /\ CallInv

-----------------------------------------------------------------------------
(* The calls and the link.                                                 *)

\* What a call does to the link is a step of the link.
LEMMA LinkStep == [InvokeNext]_allVars => [Next]_vars
<1> SUFFICES ASSUME [InvokeNext]_allVars PROVE [Next]_vars
  OBVIOUS
<1> USE DEF linkVars
<1>1. ASSUME NEW c \in Msgs, Queue(c) \/ QueueRefused(c) \/ CallerStep(c) PROVE UNCHANGED vars
  BY <1>1 DEF Queue, QueueRefused, CallerStep, WaitSignaled, WaitExpired, Return
<1>2. ASSUME NEW c \in Msgs, LambdaStep(c) PROVE [Next]_vars
  BY <1>2 DEF LambdaStep, LambdaStarts, LambdaSends, LambdaEnds, Next, SenderNext
<1>3. CASE NetSteps
  BY <1>3 DEF NetSteps, Next, SenderNext
<1>4. CASE TimeoutCallback \/ SuccessCallback
  BY <1>4 DEF TimeoutCallback, SuccessCallback, Callback
<1>5. ASSUME NEW m \in Msgs, AckReceived(m) PROVE [Next]_vars
  BY <1>5 DEF AckReceived, Next, SenderNext
<1>6. CASE AckSuccess
  BY <1>6 DEF AckSuccess, Next, SenderNext
<1>7. CASE Age \/ RemoteStep
  BY <1>7 DEF Age, RemoteStep, RemoteReceives, Incoming, RemoteLoses, Next, SenderNext
<1>8. CASE UNCHANGED allVars
  BY <1>8 DEF allVars
<1> QED
  BY <1>1, <1>2, <1>3, <1>4, <1>5, <1>6, <1>7, <1>8 DEF InvokeNext

\* What ReliableLinkProofs shows of the link, as far as a call relies on it.
LEMMA LinkFacts ==
    ASSUME IInv
    PROVE  /\ ackCur # NoMsg => ackCur \in acks
           /\ \A c \in acks : c \in Msgs /\ spc[c] # "new"
           /\ ackCur \in Msgs \cup {NoMsg} /\ cur \in Msgs \cup {NoMsg} /\ batch \subseteq Msgs
           /\ NoMsg \notin Msgs
  BY LinkAssumption DEF IInv, TypeOK, AckInv, PublisherInv, Unsent

\* No step of the link takes back an acknowledgement, and only the remote gives one.
LEMMA AcksStay ==
    ASSUME [Next]_vars PROVE acks \subseteq acks' /\ (acks' = acks \/ \E m \in Msgs : Receive(m))
  BY Steps DEF vars, storeVars, monVars, netVars, wireVars, reportVars, Transmit, Store, Add,
     AddRefused, Send, SendFails, MarkSent, CancelSend, AbandonSend, Expire, Timeout,
     RemoveAcked, Receive, Scan, RetryAdd, RetryAddRefused, RetrySend, RetrySendFails,
     RetryCancel, RetryAbandon, ReAdd, StatusSuccess

\* The network thread reports nothing but messages.
LEMMA DoneItems ==
    ASSUME IInv
    PROVE  (IF ItemDone = {} THEN NoMsg ELSE CHOOSE m \in ItemDone : TRUE) \in Msgs \cup {NoMsg}
<1>1. ItemDone \subseteq Msgs
  BY LinkFacts DEF ItemDone
<1>2. ItemDone # {} => (CHOOSE m \in ItemDone : TRUE) \in ItemDone
  OBVIOUS
<1> QED BY <1>1, <1>2

\* The threads other than the publisher leave its place in SendWithRetry() alone.
LEMMA NetLeavesPublishers == NetStep \/ StatusSuccess => UNCHANGED spc
  BY DEF NetStep, StatusSuccess, Scan, Timeout, RetryAdd, RetryAddRefused, RetrySend,
         RetrySendFails, RetryCancel, RetryAbandon, ReAdd

-----------------------------------------------------------------------------
(* Type correctness.                                                       *)

StateTypes ==
    /\ seqSet \subseteq Msgs /\ early \subseteq Msgs \ seqSet /\ complete \subseteq Msgs
    /\ success \subseteq complete /\ sem \subseteq complete

CallTypes ==
    /\ cpc \in [Msgs -> {"idle", "queued", "send", "wait", "finish", "true", "false"}]
    /\ netTold \in Msgs \cup {NoMsg} /\ ackTold \in Msgs \cup {NoMsg}
    /\ first \in [Msgs -> {"none", "success", "timeout"}]
    /\ \A c \in Msgs : spc[c] \in {"new", "done"} \/ cpc[c] = "send"

RemoteTypes == inbox \subseteq Msgs /\ executed \subseteq Msgs /\ lost \subseteq Msgs \ executed

\* InvokeTypeOK is the three together.
LEMMA InvokeTypeParts == InvokeTypeOK <=> StateTypes /\ CallTypes /\ RemoteTypes
  BY DEF InvokeTypeOK, StateTypes, CallTypes, RemoteTypes

\* The same, of the next state.
LEMMA InvokeTypePartsNext == InvokeTypeOK' <=> (StateTypes /\ CallTypes /\ RemoteTypes)'
  BY DEF InvokeTypeOK, StateTypes, CallTypes, RemoteTypes

\* The state a caller waits for: only the end of the send and a status change it.
LEMMA StateTypesStep ==
    ASSUME IInv, StateTypes, CallTypes, [InvokeNext]_allVars PROVE StateTypes'
<1> USE DEF StateTypes, stateVars, linkVars
<1>1. CASE UNCHANGED stateVars
  BY <1>1
<1>2. ASSUME NEW c \in Msgs, WaitSignaled(c) PROVE StateTypes'
  BY <1>2 DEF WaitSignaled
<1>3. ASSUME NEW c \in Msgs, LambdaEnds(c) PROVE StateTypes'
  BY <1>3 DEF LambdaEnds, EarlyFound, EarlyCleared
<1>4. ASSUME NEW c \in Msgs, NEW isSuccess \in BOOLEAN, Callback(c, isSuccess) PROVE StateTypes'
  BY <1>4 DEF Callback, FirstForSeq
<1>5. CASE TimeoutCallback \/ SuccessCallback
  BY <1>4, <1>5 DEF TimeoutCallback, SuccessCallback, CallTypes
<1> QED
  BY <1>1, <1>2, <1>3, <1>5
  DEF InvokeNext, allVars, Queue, QueueRefused, CallerStep, WaitExpired, Return, LambdaStep,
      LambdaStarts, LambdaSends, NetSteps, AckReceived, AckSuccess, Age, RemoteStep

\* Where the callers are, and what is on its way to them.
LEMMA CallTypesStep ==
    ASSUME IInv, CallTypes, [InvokeNext]_allVars PROVE CallTypes'
<1>1. ackCur \in Msgs \cup {NoMsg} /\ spc \in [Msgs -> {"new", "add", "send", "mark", "cancel", "abandon", "done"}]
  BY DEF IInv, TypeOK
<1> USE <1>1 DEF CallTypes, Goto, toldVars
<1>2. ASSUME NEW c \in Msgs, Queue(c) \/ QueueRefused(c) \/ CallerStep(c) PROVE CallTypes'
  BY <1>2 DEF Queue, QueueRefused, CallerStep, WaitSignaled, WaitExpired, Return, linkVars, vars
<1>3. ASSUME NEW c \in Msgs, LambdaStarts(c) PROVE CallTypes'
  BY <1>3 DEF LambdaStarts, Store
<1>4. ASSUME NEW c \in Msgs, LambdaSends(c) PROVE CallTypes'
  BY <1>4 DEF LambdaSends, PublisherStep, Add, AddRefused, Send, SendFails, MarkSent, CancelSend,
              AbandonSend
<1>5. ASSUME NEW c \in Msgs, LambdaEnds(c) PROVE CallTypes'
  BY <1>5 DEF LambdaEnds, linkVars, vars
<1>6. CASE NetSteps
  <2>1. netTold' \in Msgs \cup {NoMsg}
    BY <1>6, DoneItems DEF NetSteps
  <2> QED BY <1>6, <2>1, NetLeavesPublishers DEF NetSteps
<1>7. ASSUME NEW m \in Msgs, AckReceived(m) PROVE CallTypes'
  BY <1>7 DEF AckReceived, RemoveAcked
<1>8. CASE AckSuccess
  BY <1>8, NetLeavesPublishers DEF AckSuccess
<1>9. ASSUME NEW c \in Msgs, NEW isSuccess \in BOOLEAN, Callback(c, isSuccess)
      PROVE  cpc' = cpc /\ spc' = spc /\ first' \in [Msgs -> {"none", "success", "timeout"}]
  BY <1>9 DEF Callback, linkVars, vars
<1>10. CASE TimeoutCallback \/ SuccessCallback
  BY <1>9, <1>10 DEF TimeoutCallback, SuccessCallback
<1>11. CASE Age \/ RemoteStep
  BY <1>11 DEF Age, RemoteStep, RemoteReceives, Incoming, RemoteLoses, Expire, Receive, linkVars, vars
<1>12. CASE UNCHANGED allVars
  BY <1>12 DEF allVars, linkVars, vars
<1> QED
  BY <1>2, <1>3, <1>4, <1>5, <1>6, <1>7, <1>8, <1>10, <1>11, <1>12 DEF InvokeNext, LambdaStep

\* A step of anybody else leaves the remote's variables alone.
LEMMA RemoteFrame ==
    ASSUME [InvokeNext]_allVars
    PROVE  UNCHANGED <<acks, remoteVars>>
           \/ \E c \in Msgs : RemoteReceives(c) \/ Incoming(c) \/ RemoteLoses(c)
<1>1. ASSUME ~RemoteStep PROVE UNCHANGED remoteVars
  BY <1>1 DEF InvokeNext, allVars, Queue, QueueRefused, CallerStep, WaitSignaled, WaitExpired,
     Return, LambdaStep, LambdaStarts, LambdaSends, LambdaEnds, NetSteps, TimeoutCallback,
     SuccessCallback, Callback, AckReceived, AckSuccess, Age
<1>2. ASSUME ~RemoteStep PROVE UNCHANGED acks
  BY <1>2 DEF InvokeNext, allVars, linkVars, vars, wireVars, Queue, QueueRefused, CallerStep,
     WaitSignaled, WaitExpired, Return, LambdaStep, LambdaStarts, LambdaSends, LambdaEnds,
     NetSteps, TimeoutCallback, SuccessCallback, Callback, AckReceived, AckSuccess, Age,
     PublisherStep, NetStep, Transmit, Store, Add, AddRefused, Send, SendFails, MarkSent,
     CancelSend, AbandonSend, Expire, Timeout, RemoveAcked, Scan, RetryAdd, RetryAddRefused,
     RetrySend, RetrySendFails, RetryCancel, RetryAbandon, ReAdd, StatusSuccess
<1> QED
  BY <1>1, <1>2 DEF RemoteStep

\* What the remote has, and what it has lost.
LEMMA RemoteTypesStep == ASSUME RemoteTypes, [InvokeNext]_allVars PROVE RemoteTypes'
  BY RemoteFrame DEF RemoteTypes, remoteVars, RemoteReceives, Incoming, RemoteLoses

\* The remote acknowledges what it queues, and what it queued it runs or loses.
LEMMA RemoteInvStep == ASSUME RemoteInv, [InvokeNext]_allVars PROVE RemoteInv'
<1>1. CASE UNCHANGED <<acks, remoteVars>>
  BY <1>1 DEF RemoteInv, remoteVars
<1>2. ASSUME NEW c \in Msgs, RemoteReceives(c) PROVE RemoteInv'
  BY <1>2 DEF RemoteReceives, Receive, RemoteInv
<1>3. ASSUME NEW c \in Msgs, Incoming(c) \/ RemoteLoses(c) PROVE RemoteInv'
  BY <1>3 DEF Incoming, RemoteLoses, RemoteInv, linkVars, vars, wireVars
<1> QED
  BY <1>1, <1>2, <1>3, RemoteFrame

-----------------------------------------------------------------------------
(* What a call is told.                                                    *)

\* A success is told of an acknowledged call only, whoever passes it on.
LEMMA TruthStep ==
    ASSUME IInv, InvokeTypeOK, TruthInv, [InvokeNext]_allVars PROVE TruthInv'
<1>1. acks \subseteq acks'
  BY LinkStep, AcksStay
<1>2. /\ ackCur # NoMsg => ackCur \in acks
      /\ NoMsg \notin Msgs
  BY LinkFacts
<1> USE <1>1, <1>2 DEF TruthInv, stateVars, toldVars
<1>3. CASE UNCHANGED <<seqSet, early, complete, success, ackTold>>
  BY <1>3
<1>4. ASSUME NEW c \in Msgs, LambdaEnds(c) PROVE TruthInv'
  BY <1>4 DEF LambdaEnds, EarlyFound, EarlyCleared
<1>5. CASE AckSuccess
  BY <1>5 DEF AckSuccess
<1>6. CASE TimeoutCallback
  BY <1>6 DEF TimeoutCallback, Callback, FirstForSeq
<1>7. CASE SuccessCallback
  BY <1>7 DEF SuccessCallback, Callback, FirstForSeq
<1> QED
  BY <1>3, <1>4, <1>5, <1>6, <1>7
  DEF InvokeNext, allVars, Queue, QueueRefused, CallerStep, WaitSignaled, WaitExpired, Return,
      LambdaStep, LambdaStarts, LambdaSends, NetSteps, AckReceived, Age, RemoteStep

\* A call is left alone by a step that changes nothing CallOK speaks of.
LEMMA SameCall ==
    ASSUME NEW c \in Msgs, CallOK(c), acks \subseteq acks',
           cpc'[c] = cpc[c], first'[c] = first[c], spc'[c] = spc[c],
           c \in seqSet' <=> c \in seqSet, c \in early' <=> c \in early,
           c \in complete' <=> c \in complete, c \in success' <=> c \in success
    PROVE  CallOK(c)'
  BY DEF CallOK

\* The caller's own steps, and those of its send.
LEMMA CallerKeeps ==
    ASSUME InvokeInv, acks \subseteq acks', NEW a \in Msgs,
           Queue(a) \/ QueueRefused(a) \/ CallerStep(a) \/ LambdaStep(a), NEW c \in Msgs
    PROVE  CallOK(c)'
<1>1. CallOK(c) /\ StateTypes /\ CallTypes /\ TruthInv
  BY InvokeTypeParts DEF InvokeInv, CallInv
<1>2. spc \in [Msgs -> {"new", "add", "send", "mark", "cancel", "abandon", "done"}]
  BY DEF InvokeInv, IInv, TypeOK
<1>3. c \in acks => spc[c] # "new"
  BY LinkFacts DEF InvokeInv
<1> USE <1>1, <1>2 DEF CallTypes, StateTypes, Goto, stateVars, linkVars
<1>4. CASE Queue(a)
  BY <1>4 DEF Queue, CallOK, vars
<1>5. CASE QueueRefused(a)
  BY <1>5 DEF QueueRefused, CallOK, vars
<1>6. CASE WaitSignaled(a)
  BY <1>6 DEF WaitSignaled, CallOK, vars
<1>7. CASE WaitExpired(a)
  BY <1>7 DEF WaitExpired, CallOK, vars
<1>8. CASE Return(a)
  BY <1>8 DEF Return, CallOK, vars, TruthInv
<1>9. CASE LambdaStarts(a)
  BY <1>3, <1>9 DEF LambdaStarts, Store, CallOK, TruthInv
<1>10. CASE LambdaSends(a)
  <2>1. cpc[a] = "send" /\ UNCHANGED <<cpc, stateVars, first>>
    BY <1>10 DEF LambdaSends
  <2>2. \A m \in Msgs : m # a => spc'[m] = spc[m]
    BY <1>10 DEF LambdaSends, PublisherStep, Add, AddRefused, Send, SendFails, MarkSent,
              CancelSend, AbandonSend
  <2> QED BY <2>1, <2>2 DEF CallOK
<1>11. CASE LambdaEnds(a)
  <2>1. CASE c # a
    BY <1>11, <2>1 DEF LambdaEnds, EarlyCleared, CallOK, vars
  <2>2. CASE c = a
    BY <1>11, <2>2 DEF LambdaEnds, EarlyCleared, EarlyFound, CallOK, TruthInv, vars
  <2> QED BY <2>1, <2>2
<1> QED
  BY <1>4, <1>5, <1>6, <1>7, <1>8, <1>9, <1>10, <1>11 DEF CallerStep, LambdaStep

\* A status finds the call that waits for it, now or at the end of its send.
LEMMA CallbackKeeps ==
    ASSUME InvokeInv, acks \subseteq acks', NEW a \in Msgs, NEW isSuccess \in BOOLEAN,
           Callback(a, isSuccess), isSuccess => a \in acks, NEW c \in Msgs
    PROVE  CallOK(c)'
<1>1. CallOK(c) /\ StateTypes /\ CallTypes /\ TruthInv
  BY InvokeTypeParts DEF InvokeInv, CallInv
<1>2. c \in acks => spc[c] # "new"
  BY LinkFacts DEF InvokeInv
<1>3. spc' = spc /\ cpc' = cpc /\ seqSet' = seqSet
  BY DEF Callback, linkVars, vars
<1>4. CASE c # a
  <2>1. /\ c \in early' <=> c \in early
        /\ c \in complete' <=> c \in complete
        /\ c \in success' <=> c \in success
    BY <1>4 DEF Callback
  <2>2. first'[c] = first[c]
    BY <1>1, <1>4 DEF Callback, CallTypes
  <2> QED BY <1>1, <1>3, <2>1, <2>2, SameCall
<1>5. CASE c = a
  <2>1. first'[a] = IF first[a] = "none" /\ cpc[a] \in {"send", "wait"}
                    THEN IF isSuccess THEN "success" ELSE "timeout"
                    ELSE first[a]
    BY <1>1 DEF Callback, CallTypes
  <2>2. CASE isSuccess
    <3>1. /\ a \in early' <=> a \in early \/ a \notin seqSet
          /\ a \in complete' <=> a \in complete \/ FirstForSeq(a)
          /\ a \in success' <=> a \in success \/ FirstForSeq(a)
          /\ early \subseteq early'
      BY <2>2 DEF Callback
    <3> QED
      BY <1>1, <1>2, <1>3, <1>5, <2>1, <2>2, <3>1 DEF CallOK, FirstForSeq, CallTypes, StateTypes, TruthInv
  <2>3. CASE ~isSuccess
    <3>1. /\ early' = early
          /\ a \in complete' <=> a \in complete \/ FirstForSeq(a)
          /\ a \in success' <=> a \in success /\ ~FirstForSeq(a)
      BY <2>3 DEF Callback
    <3> QED
      BY <1>1, <1>2, <1>3, <1>5, <2>1, <2>3, <3>1 DEF CallOK, FirstForSeq, CallTypes, StateTypes
  <2> QED BY <2>2, <2>3
<1> QED BY <1>4, <1>5

\* The steps of the other threads do not touch a call.
LEMMA CallStep ==
    ASSUME InvokeInv, [InvokeNext]_allVars PROVE CallInv'
<1> SUFFICES ASSUME NEW c \in Msgs PROVE CallOK(c)'
  BY DEF CallInv
<1>1. acks \subseteq acks'
  BY LinkStep, AcksStay
<1>2. CallOK(c) /\ CallTypes
  BY InvokeTypeParts DEF InvokeInv, CallInv
<1>3. CASE UNCHANGED <<cpc, stateVars, first, spc>>
  BY <1>1, <1>2, <1>3, SameCall DEF stateVars
<1>4. ASSUME NEW a \in Msgs, Queue(a) \/ QueueRefused(a) \/ CallerStep(a) \/ LambdaStep(a)
      PROVE  CallOK(c)'
  BY <1>1, <1>4, CallerKeeps
<1>5. CASE TimeoutCallback
  <2>1. netTold \in Msgs /\ Callback(netTold, FALSE)
    BY <1>2, <1>5 DEF TimeoutCallback, CallTypes
  <2> QED BY <1>1, <2>1, CallbackKeeps
<1>6. CASE SuccessCallback
  <2>1. ackTold \in Msgs /\ Callback(ackTold, TRUE) /\ ackTold \in acks
    BY <1>2, <1>6 DEF SuccessCallback, CallTypes, InvokeInv, TruthInv
  <2> QED BY <1>1, <2>1, CallbackKeeps
<1>7. CASE NetSteps \/ AckSuccess
  BY <1>3, <1>7, NetLeavesPublishers DEF NetSteps, AckSuccess
<1>8. ASSUME NEW m \in Msgs, AckReceived(m) PROVE CallOK(c)'
  BY <1>3, <1>8 DEF AckReceived, RemoveAcked
<1>9. CASE Age \/ RemoteStep
  BY <1>3, <1>9 DEF Age, RemoteStep, RemoteReceives, Incoming, RemoteLoses, Expire, Receive, linkVars, vars
<1>10. CASE UNCHANGED allVars
  BY <1>3, <1>10 DEF allVars, linkVars, vars
<1> QED
  BY <1>4, <1>5, <1>6, <1>7, <1>8, <1>9, <1>10 DEF InvokeNext

-----------------------------------------------------------------------------
(* The inductive invariant, and what follows from it.                      *)

\* InvokeInv holds before the first call.
LEMMA InvokeInvInit == InvokeInit => InvokeInv
<1> SUFFICES ASSUME InvokeInit PROVE InvokeInv
  OBVIOUS
<1>1. IInv
  BY IInvInit DEF InvokeInit
<1>2. InvokeTypeOK
  BY LinkAssumption DEF InvokeInit, Init, InvokeTypeOK
<1>3. TruthInv /\ RemoteInv
  BY DEF InvokeInit, Init, TruthInv, RemoteInv
<1>4. CallInv
  BY DEF InvokeInit, Init, CallInv, CallOK
<1> QED BY <1>1, <1>2, <1>3, <1>4 DEF InvokeInv

\* InvokeInv is kept by every step of the callers, the threads and the network.
LEMMA InvokeInvStep == InvokeInv /\ [InvokeNext]_allVars => InvokeInv'
<1> SUFFICES ASSUME InvokeInv, [InvokeNext]_allVars PROVE InvokeInv'
  OBVIOUS
<1>1. IInv'
  BY LinkStep, IInvStep DEF InvokeInv
<1>2. InvokeTypeOK'
  BY InvokeTypeParts, InvokeTypePartsNext, StateTypesStep, CallTypesStep,
     RemoteTypesStep DEF InvokeInv
<1>3. TruthInv' /\ RemoteInv'
  BY TruthStep, RemoteInvStep DEF InvokeInv
<1>4. CallInv'
  BY CallStep
<1> QED BY <1>1, <1>2, <1>3, <1>4 DEF InvokeInv

\* InvokeInv holds in every reachable state.
LEMMA InvokeInvariance == InvokeSpec => []InvokeInv
  BY InvokeInvInit, InvokeInvStep, PTL DEF InvokeSpec

\* The link under the calls of RemoteInvokeWait() is the link of ReliableLink: the
\* callers use it only by its own operations, so all that is proved of it holds.
THEOREM CallsUseTheLink == InvokeSpec => Spec
<1>1. InvokeInit => Init
  BY DEF InvokeInit
<1> QED BY <1>1, LinkStep, PTL DEF InvokeSpec, Spec

\* The state shared by RemoteInvokeWait() and its callbacks keeps its types; a call
\* is in the middle of its send only while its lambda runs on the network thread.
THEOREM InvokeTypeCorrect == InvokeSpec => []InvokeTypeOK
<1>1. InvokeInv => InvokeTypeOK
  BY DEF InvokeInv
<1> QED BY InvokeInvariance, <1>1, PTL

\* RemoteInvokeWait() tells the truth: true only for a call the remote has received
\* and acknowledged, which may yet be dropped there or find no handler, and never
\* false when a success was the first status of a call that still waited, for any
\* number of concurrent calls and in whatever order the acknowledgement, the retries
\* and the end of the send come.
THEOREM AnswersAreRight == InvokeSpec => []AnswerIsRight
<1>1. InvokeInv => AnswerIsRight
  BY DEF InvokeInv, CallInv, CallOK, RemoteInv, AnswerIsRight, Accepted
<1> QED BY InvokeInvariance, <1>1, PTL
=============================================================================

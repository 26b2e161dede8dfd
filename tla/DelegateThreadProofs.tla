------------------------ MODULE DelegateThreadProofs ------------------------
(***************************************************************************)
(* Proofs about DelegateThread, for any number of messages, producers and  *)
(* workers, any queue limit and any full-queue policies.                   *)
(***************************************************************************)
EXTENDS DelegateThread, SequenceTheorems, FiniteSetTheorems, TLAPS

\* A caller inside DispatchDelegate() has a message of its own, not yet accepted.
DispatchInv ==
    /\ \A a \in Actors : dpc[a] = "ready" <=> dmsg[a] = NoMsg
    /\ \A a \in Actors : dpc[a] # "ready" => fate[dmsg[a]] = "offered"
    /\ \A a, b \in Actors : dmsg[a] = dmsg[b] /\ dmsg[a] # NoMsg => a = b

Exiting == {"cancelling", "joining", "resetting"}

\* One caller at a time is in ExitThread().  Until it has reset m_thread, the
\* thread is there and m_exit is set; m_exit is set on a live thread only then.
LifeInv ==
    /\ \A a, b \in Exiters : xpc[a] # "ready" /\ xpc[b] # "ready" => a = b
    /\ \A a \in Exiters : xpc[a] \in Exiting => exit /\ thread # NoThread
    /\ thread # NoThread /\ exit => ~ExitIdle /\ \A a \in Exiters : xpc[a] # "cleanup"
    /\ cpc = "emplace" => thread = NoThread /\ ~exit

\* A worker in its loop is the one m_thread holds; one that is no longer is in
\* its handler, which exited its own thread, or gone.
WorkerInv ==
    /\ \A w \in Workers :
          /\ wpc[w] \in {"starting", "loop", "asleep", "idle"} => thread = w
          /\ wpc[w] = "invoke" => thread = w \/ selfExit[w]
          /\ selfExit[w] => wpc[w] \in {"invoke", "exited"}
          /\ selfExit[w] /\ thread = w => xpc[w] = "resetting"
          /\ xpc[w] # "ready" => wpc[w] = "invoke"
    /\ \A a \in Exiters :
          xpc[a] = "resetting" =>
              IF thread = a THEN selfExit[a] ELSE wpc[thread] = "exited"

-----------------------------------------------------------------------------
(* Type correctness, in three parts.                                       *)

LaneTypes == high \in Seq(Messages) /\ normal \in Seq(Messages \cup {ExitMsg})

LifeTypes ==
    /\ policy \in FullPolicies
    /\ exit \in BOOLEAN /\ fault \in BOOLEAN
    /\ thread \in Workers \cup {NoThread}
    /\ wpc \in [Workers -> {"unborn", "starting", "loop", "asleep", "idle", "invoke", "exited"}]
    /\ selfExit \in [Workers -> BOOLEAN]
    /\ xpc \in [Exiters -> {"ready", "cancelling", "joining", "resetting", "cleanup"}]
    /\ cpc \in {"ready", "emplace", "await"}

MessageTypes ==
    /\ wmsg \in [Workers -> Messages \cup {NoMsg}]
    /\ dpc \in [Actors -> {"ready", "checked", "entering", "blocked", "woken", "expired"}]
    /\ dmsg \in [Actors -> Messages \cup {NoMsg}]
    /\ fate \in [Messages -> Fates]
    /\ ticket \in [Messages -> Nat]
    /\ nextTicket \in Nat \ {0}

\* TypeOK is the three parts together, so that a step can be shown to keep each
\* with the facts that part needs.
LEMMA TypeParts == TypeOK <=> LaneTypes /\ LifeTypes /\ MessageTypes
  BY DEF TypeOK, LaneTypes, LifeTypes, MessageTypes

\* The same, of the next state.
LEMMA TypePartsNext == TypeOK' <=> (LaneTypes /\ LifeTypes /\ MessageTypes)'
  BY DEF TypeOK, LaneTypes, LifeTypes, MessageTypes

\* What PushBack, and the two pops, do to a lane.
LEMMA LaneOps ==
    ASSUME NEW S, NEW lane \in Seq(S)
    PROVE  /\ \A m \in S : PushBack(lane, m) \in Seq(S) /\ Len(PushBack(lane, m)) = Len(lane) + 1
           /\ lane # <<>> => /\ Head(lane) \in S /\ Tail(lane) \in Seq(S)
                             /\ Len(Tail(lane)) = Len(lane) - 1
  BY AppendProperties, HeadTailProperties DEF PushBack

\* A push makes its lane longer by one.
LEMMA PushLengths ==
    ASSUME LaneTypes, NEW m \in Messages
    PROVE  /\ Len(PushBack(high, m)) = Len(high) + 1
           /\ Len(PushBack(normal, m)) = Len(normal) + 1
  BY DEF LaneTypes, PushBack

\* The constructor leaves every variable in its type.
LEMMA TypeInit == Init => TypeOK
<1> SUFFICES ASSUME Init PROVE TypeOK
  OBVIOUS
<1>1. LaneTypes
  BY DEF Init, LaneTypes
<1>2. LifeTypes
  BY DEF Init, LifeTypes
<1>3. MessageTypes
  BY DEF Init, MessageTypes, Fates
<1> QED BY <1>1, <1>2, <1>3, TypeParts

\* The life cycle's variables keep their types; they depend on no lane.
LEMMA LifeTypesStep == LifeTypes /\ [Next]_vars => LifeTypes'
<1> SUFFICES ASSUME LifeTypes, [Next]_vars PROVE LifeTypes'
  OBVIOUS
<1> USE DEF LifeTypes, workerVars, lifeVars
<1>1. ASSUME NEW a \in Actors, NEW m \in Messages, DispatchDelegate(a, m) PROVE LifeTypes'
  BY <1>1 DEF DispatchDelegate
<1>2. ASSUME NEW a \in Actors, DispatchStep(a) PROVE LifeTypes'
  BY <1>2 DEF DispatchStep, DispatchCheckThread, DispatchPush, WakeWorker, DispatchRejected,
              DispatchDropped, DispatchFaults, DispatchBlocks, DispatchExpires, DispatchTimedOut
<1>3. ASSUME NEW w \in Workers, WorkerStep(w) PROVE LifeTypes'
  BY <1>3 DEF WorkerStep, Started, Sleep, IdleDue, RunIdle, DequeueMessage, DequeueExit,
              InvokeReturns, InvokeThrows
<1>4. ASSUME NEW a \in Exiters, NEW exitPolicy \in {"DRAIN", "DISCARD"}, ExitBegin(a, exitPolicy)
      PROVE  LifeTypes'
  BY <1>4 DEF ExitBegin, WakeWorker
<1>5. ASSUME NEW a \in Exiters, ExitStep(a) PROVE LifeTypes'
  BY <1>5 DEF ExitStep, ExitCancel, ExitJoin, ExitDetach, ExitReset, ExitCleanup
<1>6. CASE CreateBegin \/ CreateStep
  BY <1>6 DEF CreateBegin, CreateStep, CreateEmplace, CreateReturns
<1>7. CASE UNCHANGED vars
  BY <1>7 DEF vars
<1> QED
  BY <1>1, <1>2, <1>3, <1>4, <1>5, <1>6, <1>7 DEF Next, Step

\* What is pushed and popped is a message, so the callers' and the worker's
\* variables keep their types.
LEMMA MessageTypesStep == LaneTypes /\ MessageTypes /\ DispatchInv /\ [Next]_vars => MessageTypes'
<1> SUFFICES ASSUME LaneTypes, MessageTypes, DispatchInv, [Next]_vars PROVE MessageTypes'
  OBVIOUS
<1>1. \A S, f : f \in Fates /\ SetFate(S, f) => fate' \in [Messages -> Fates]
  BY DEF SetFate, MessageTypes
<1> USE DEF MessageTypes, workerVars, dispatchVars, history
<1>2. ASSUME NEW a \in Actors, NEW m \in Messages, DispatchDelegate(a, m) PROVE MessageTypes'
  BY <1>1, <1>2 DEF DispatchDelegate, Return, Fates
<1>3. ASSUME NEW a \in Actors, DispatchPush(a) PROVE MessageTypes'
  BY <1>1, <1>3 DEF DispatchPush, HoldsLock, Return, DispatchInv, Fates
<1>4. ASSUME NEW a \in Actors, DispatchStep(a), ~DispatchPush(a) PROVE MessageTypes'
  BY <1>1, <1>4 DEF DispatchStep, DispatchCheckThread, DispatchRejected, DispatchDropped,
              DispatchFaults, DispatchBlocks, DispatchExpires, DispatchTimedOut, Return, Fates
<1>5. ASSUME NEW w \in Workers, Started(w) \/ Sleep(w) \/ IdleDue(w) \/ RunIdle(w) \/ InvokeThrows(w)
      PROVE  MessageTypes'
  BY <1>5 DEF Started, Sleep, IdleDue, RunIdle, InvokeThrows
<1>6. ASSUME NEW w \in Workers, DequeueMessage(w) PROVE MessageTypes'
  <2>1. high # <<>> => Head(high) \in Messages
    BY LaneOps DEF LaneTypes
  <2>2. normal # <<>> /\ IsDelegateMsg(Head(normal)) => Head(normal) \in Messages
    <3>1. normal # <<>> => Head(normal) \in Messages \cup {ExitMsg}
      BY LaneOps DEF LaneTypes
    <3> QED BY <3>1 DEF IsDelegateMsg
  <2>3. wmsg' \in [Workers -> Messages \cup {NoMsg}]
    BY <1>6, <2>1, <2>2 DEF DequeueMessage, HighFirst
  <2> QED
    BY <1>1, <1>6, <2>3 DEF DequeueMessage, NotifyNotFull, Fates
<1>7. ASSUME NEW w \in Workers, DequeueExit(w) \/ InvokeReturns(w) PROVE MessageTypes'
  BY <1>1, <1>7 DEF DequeueExit, InvokeReturns, NotifyNotFull, Fates
<1>8. ASSUME NEW a \in Exiters, NEW exitPolicy \in {"DRAIN", "DISCARD"}, ExitBegin(a, exitPolicy)
      PROVE  MessageTypes'
  BY <1>1, <1>8 DEF ExitBegin, SwapLanes, WakeProducers, Fates
<1>9. ASSUME NEW a \in Exiters, ExitStep(a) PROVE MessageTypes'
  BY <1>1, <1>9 DEF ExitStep, ExitCancel, ExitJoin, ExitDetach, ExitReset, ExitCleanup, CancelAll,
              SwapLanes, WakeProducers, Fates
<1>10. CASE CreateBegin \/ CreateStep
  BY <1>10 DEF CreateBegin, CreateStep, CreateEmplace, CreateReturns
<1>11. CASE UNCHANGED vars
  BY <1>11 DEF vars
<1> QED
  BY <1>2, <1>3, <1>4, <1>5, <1>6, <1>7, <1>8, <1>9, <1>10, <1>11 DEF Next, Step, WorkerStep

\* The steps that touch a lane.
LaneStep ==
    \/ \E a \in Actors : DispatchPush(a)
    \/ \E w \in Workers : DequeueMessage(w) \/ DequeueExit(w)
    \/ \E a \in Exiters :
          \/ ExitReset(a)
          \/ \E exitPolicy \in {"DRAIN", "DISCARD"} : ExitBegin(a, exitPolicy)

\* Every other step leaves the lanes alone.
LEMMA LaneSteps == [Next]_vars => LaneStep \/ UNCHANGED <<high, normal>>
  BY DEF LaneStep, Next, Step, vars, queueVars, DispatchDelegate, DispatchStep, DispatchCheckThread,
         DispatchRejected, DispatchDropped, DispatchFaults, DispatchBlocks, DispatchExpires,
         DispatchTimedOut, WorkerStep, Started, Sleep, IdleDue, RunIdle, InvokeReturns,
         InvokeThrows, ExitStep, ExitCancel, ExitJoin, ExitDetach, ExitCleanup, CreateBegin,
         CreateStep, CreateEmplace, CreateReturns

\* The lanes stay sequences of messages; the exit message is only in normal.
LEMMA LaneTypesStep == TypeOK /\ DispatchInv /\ [Next]_vars => LaneTypes'
<1> SUFFICES ASSUME TypeOK, DispatchInv, [Next]_vars PROVE LaneTypes'
  OBVIOUS
<1>1. LaneTypes /\ MessageTypes
  BY TypeParts
<1> USE DEF LaneTypes
<1>2. ASSUME NEW a \in Actors, DispatchPush(a) PROVE LaneTypes'
  <2>1. dmsg[a] \in Messages
    BY <1>1, <1>2 DEF DispatchPush, HoldsLock, DispatchInv, MessageTypes
  <2>2. PushBack(high, dmsg[a]) \in Seq(Messages)
    BY <1>1, <2>1, LaneOps
  <2>3. PushBack(normal, dmsg[a]) \in Seq(Messages \cup {ExitMsg})
    BY <1>1, <2>1, LaneOps
  <2> QED BY <1>1, <1>2, <2>2, <2>3 DEF DispatchPush
<1>3. ASSUME NEW w \in Workers, DequeueMessage(w) \/ DequeueExit(w) PROVE LaneTypes'
  <2>1. high # <<>> => Tail(high) \in Seq(Messages)
    BY <1>1, LaneOps
  <2>2. normal # <<>> => Tail(normal) \in Seq(Messages \cup {ExitMsg})
    BY <1>1, LaneOps
  <2> QED BY <1>1, <1>3, <2>1, <2>2 DEF DequeueMessage, HighFirst, DequeueExit
<1>4. ASSUME NEW a \in Exiters, NEW exitPolicy \in {"DRAIN", "DISCARD"}, ExitBegin(a, exitPolicy)
      PROVE  LaneTypes'
  <2>1. PushBack(normal, ExitMsg) \in Seq(Messages \cup {ExitMsg})
    BY <1>1, LaneOps
  <2>2. <<>> \in Seq(Messages) /\ <<ExitMsg>> \in Seq(Messages \cup {ExitMsg})
    OBVIOUS
  <2> QED BY <1>1, <1>4, <2>1, <2>2 DEF ExitBegin, SwapLanes
<1>5. ASSUME NEW a \in Exiters, ExitReset(a) PROVE LaneTypes'
  BY <1>1, <1>5 DEF ExitReset, SwapLanes
<1> QED
  BY <1>1, <1>2, <1>3, <1>4, <1>5, LaneSteps DEF LaneStep

\* TypeOK is inductive, relative to DispatchInv.
LEMMA TypeStep == TypeOK /\ DispatchInv /\ [Next]_vars => TypeOK'
  BY TypeParts, TypePartsNext, LaneTypesStep, LifeTypesStep, MessageTypesStep

-----------------------------------------------------------------------------
(* The life cycle: LifeInv and WorkerInv.                                  *)

\* No step of ExitThread() or CreateThread() breaks the order of the life cycle.
LEMMA LifeStep == TypeOK /\ LifeInv /\ [Next]_vars => LifeInv'
<1> SUFFICES ASSUME TypeOK, LifeInv, [Next]_vars PROVE LifeInv'
  OBVIOUS
<1>1. LifeTypes
  BY TypeParts
<1> USE <1>1 DEF LifeTypes, LifeInv, Exiting, ExitIdle, lifeVars
<1>2. ASSUME UNCHANGED lifeVars PROVE LifeInv'
  BY <1>2
<1>3. ASSUME NEW a \in Exiters, NEW exitPolicy \in {"DRAIN", "DISCARD"}, ExitBegin(a, exitPolicy)
      PROVE  LifeInv'
  BY <1>3 DEF ExitBegin
<1>4. ASSUME NEW a \in Exiters, ExitCancel(a) \/ ExitJoin(a) \/ ExitDetach(a) PROVE LifeInv'
  BY <1>4 DEF ExitCancel, ExitJoin, ExitDetach
<1>5. ASSUME NEW a \in Exiters, ExitReset(a) PROVE LifeInv'
  BY <1>5 DEF ExitReset
<1>6. ASSUME NEW a \in Exiters, ExitCleanup(a) PROVE LifeInv'
  BY <1>6 DEF ExitCleanup
<1>7. CASE CreateBegin
  BY <1>7 DEF CreateBegin
<1>8. CASE CreateEmplace
  BY <1>8 DEF CreateEmplace
<1>9. CASE CreateReturns
  BY <1>9 DEF CreateReturns
<1> QED
  BY <1>2, <1>3, <1>4, <1>5, <1>6, <1>7, <1>8, <1>9
     DEF Next, Step, vars, DispatchDelegate, DispatchStep, DispatchCheckThread, DispatchPush,
         DispatchRejected, DispatchDropped, DispatchFaults, DispatchBlocks, DispatchExpires,
         DispatchTimedOut, WorkerStep, Started, Sleep, IdleDue, RunIdle, DequeueMessage,
         DequeueExit, InvokeReturns, InvokeThrows, ExitStep, CreateStep

\* ExitThread() takes m_thread away only from a worker that has returned or that
\* is the caller itself.
LEMMA WorkerInvStep == TypeOK /\ LifeInv /\ WorkerInv /\ [Next]_vars => WorkerInv'
<1> SUFFICES ASSUME TypeOK, LifeInv, WorkerInv, [Next]_vars PROVE WorkerInv'
  OBVIOUS
<1>1. LifeTypes /\ NoThread \notin Workers /\ Owner \notin Workers
  BY TypeParts, ThreadAssumption
<1> USE <1>1 DEF LifeTypes, WorkerInv, lifeVars, workerVars, Exiters
<1>2. ASSUME UNCHANGED <<wpc, selfExit, xpc, thread>> PROVE WorkerInv'
  BY <1>2
<1>3. ASSUME wpc' = WakeWorker, UNCHANGED <<selfExit, xpc, thread>> PROVE WorkerInv'
  BY <1>3 DEF WakeWorker
<1>4. ASSUME NEW w \in Workers, Started(w) \/ Sleep(w) \/ IdleDue(w) \/ RunIdle(w) PROVE WorkerInv'
  BY <1>4 DEF Started, Sleep, IdleDue, RunIdle
<1>5. ASSUME NEW w \in Workers, DequeueMessage(w) \/ DequeueExit(w) PROVE WorkerInv'
  BY <1>5 DEF DequeueMessage, DequeueExit
<1>6. ASSUME NEW w \in Workers, InvokeReturns(w) PROVE WorkerInv'
  BY <1>6 DEF InvokeReturns, InHandler
<1>7. ASSUME NEW a \in Exiters, NEW exitPolicy \in {"DRAIN", "DISCARD"}, ExitBegin(a, exitPolicy)
      PROVE  WorkerInv'
  BY <1>7 DEF ExitBegin, InHandler, ExitIdle, WakeWorker
<1>8. ASSUME NEW a \in Exiters, ExitCancel(a) PROVE WorkerInv'
  BY <1>8 DEF ExitCancel
<1>9. ASSUME NEW a \in Exiters, ExitJoin(a) \/ ExitDetach(a) PROVE WorkerInv'
  BY <1>9 DEF ExitJoin, ExitDetach, LifeInv, Exiting
<1>10. ASSUME NEW a \in Exiters, ExitReset(a) PROVE WorkerInv'
  BY <1>10 DEF ExitReset, LifeInv, Exiting
<1>11. ASSUME NEW a \in Exiters, ExitCleanup(a) PROVE WorkerInv'
  BY <1>11 DEF ExitCleanup
<1>12. CASE CreateEmplace
  BY <1>12 DEF CreateEmplace, LifeInv, Exiting
<1> QED
  BY <1>2, <1>3, <1>4, <1>5, <1>6, <1>7, <1>8, <1>9, <1>10, <1>11, <1>12
     DEF Next, Step, vars, DispatchDelegate, DispatchStep, DispatchCheckThread, DispatchPush,
         DispatchRejected, DispatchDropped, DispatchFaults, DispatchBlocks, DispatchExpires,
         DispatchTimedOut, WorkerStep, InvokeThrows, ExitStep, CreateBegin, CreateStep,
         CreateReturns

-----------------------------------------------------------------------------
(* Lanes as the set of what they hold.                                     *)

Holds(lane, x) == \E i \in DOMAIN lane : lane[i] = x
Distinct(lane) == \A i, j \in DOMAIN lane : lane[i] = lane[j] => i = j
OnlyLast(lane, x) == \A i \in DOMAIN lane : lane[i] = x => i = Len(lane)

\* PushBack adds one element, at the end.
LEMMA PushHolds ==
    ASSUME NEW S, NEW lane \in Seq(S), NEW m \in S
    PROVE  /\ \A x : Holds(PushBack(lane, m), x) <=> Holds(lane, x) \/ x = m
           /\ Distinct(lane) /\ ~Holds(lane, m) => Distinct(PushBack(lane, m))
           /\ \A x : ~Holds(lane, x) => OnlyLast(PushBack(lane, m), x)
<1> DEFINE pushed == PushBack(lane, m)
<1>1. /\ pushed \in Seq(S) /\ Len(pushed) = Len(lane) + 1 /\ Len(lane) \in Nat
      /\ \A i \in 1 .. Len(lane) : pushed[i] = lane[i]
      /\ pushed[Len(lane) + 1] = m
  BY AppendProperties DEF PushBack
<1>2. DOMAIN lane = 1 .. Len(lane) /\ DOMAIN pushed = 1 .. Len(lane) + 1
  BY <1>1
<1> HIDE DEF pushed
<1> QED BY <1>1, <1>2, SMTT(30) DEF Holds, Distinct, OnlyLast, pushed

\* Tail takes the front element away, and nothing else.
LEMMA PopHolds ==
    ASSUME NEW S, NEW lane \in Seq(S), lane # <<>>
    PROVE  /\ Holds(lane, Head(lane))
           /\ \A x : Holds(lane, x) <=> Holds(Tail(lane), x) \/ x = Head(lane)
           /\ Distinct(lane) => Distinct(Tail(lane)) /\ ~Holds(Tail(lane), Head(lane))
           /\ \A x : OnlyLast(lane, x) => OnlyLast(Tail(lane), x)
           /\ OnlyLast(lane, Head(lane)) => Tail(lane) = <<>>
<1> DEFINE rest == Tail(lane)
<1>1. /\ rest \in Seq(S) /\ Len(rest) = Len(lane) - 1 /\ Len(lane) \in Nat /\ Len(lane) > 0
      /\ \A i \in 1 .. Len(rest) : rest[i] = lane[i + 1]
      /\ lane[1] = Head(lane)
  BY HeadTailProperties, EmptySeq
<1>2. DOMAIN lane = 1 .. Len(lane) /\ DOMAIN rest = 1 .. Len(rest)
  BY <1>1
<1> HIDE DEF rest
<1>3. Holds(lane, Head(lane))
  BY <1>1, <1>2 DEF Holds
<1>4. \A x : Holds(lane, x) <=> Holds(rest, x) \/ x = Head(lane)
  <2>1. \A i \in 2 .. Len(lane) : i - 1 \in 1 .. Len(rest) /\ rest[i - 1] = lane[i]
    BY <1>1
  <2>2. ASSUME NEW x, Holds(lane, x), x # Head(lane) PROVE Holds(rest, x)
    <3>1. PICK i \in 1 .. Len(lane) : lane[i] = x
      BY <1>2, <2>2 DEF Holds
    <3>2. i \in 2 .. Len(lane)
      BY <1>1, <2>2, <3>1
    <3> QED BY <1>2, <2>1, <3>1, <3>2 DEF Holds
  <2>3. ASSUME NEW x, Holds(rest, x) PROVE Holds(lane, x)
    <3>1. PICK i \in 1 .. Len(rest) : rest[i] = x
      BY <1>2, <2>3 DEF Holds
    <3>2. i + 1 \in 1 .. Len(lane)
      BY <1>1
    <3> QED BY <1>1, <1>2, <3>1, <3>2 DEF Holds
  <2> QED BY <1>3, <2>2, <2>3
<1>5. ASSUME Distinct(lane) PROVE Distinct(rest) /\ ~Holds(rest, Head(lane))
  <2>1. \A i \in 1 .. Len(rest) : i + 1 \in 1 .. Len(lane) /\ i + 1 # 1
    BY <1>1
  <2>2. 1 \in 1 .. Len(lane)
    BY <1>1
  <2>3. ~Holds(rest, Head(lane))
    BY <1>1, <1>2, <1>5, <2>1, <2>2 DEF Distinct, Holds
  <2>4. ASSUME NEW i \in 1 .. Len(rest), NEW j \in 1 .. Len(rest), rest[i] = rest[j] PROVE i = j
    <3>1. \A k, l \in 1 .. Len(lane) : lane[k] = lane[l] => k = l
      BY ONLY <1>2, <1>5 DEF Distinct
    <3>2. lane[i + 1] = lane[j + 1]
      BY ONLY <1>1, <2>4
    <3>3. i + 1 = j + 1
      BY ONLY <2>1, <3>1, <3>2
    <3> QED BY ONLY <3>3
  <2> QED BY <1>2, <2>3, <2>4 DEF Distinct
<1>6. \A x : OnlyLast(lane, x) => OnlyLast(rest, x)
  BY <1>1, <1>2 DEF OnlyLast
<1>7. OnlyLast(lane, Head(lane)) => rest = <<>>
  BY <1>1, <1>2, EmptySeq DEF OnlyLast
<1> QED BY <1>3, <1>4, <1>5, <1>6, <1>7 DEF rest

\* Nothing is in an empty lane, and the exit message alone in <<ExitMsg>>.
LEMMA SwappedHolds ==
    /\ \A x : ~Holds(<<>>, x) /\ OnlyLast(<<>>, x) /\ OnlyLast(<<ExitMsg>>, x)
    /\ \A x : Holds(<<ExitMsg>>, x) <=> x = ExitMsg
    /\ Distinct(<<>>) /\ Distinct(<<ExitMsg>>)
  BY DEF Holds, Distinct, OnlyLast

-----------------------------------------------------------------------------
(* The fate of the messages.                                               *)

\* What is queued is in one lane, its own, once; what is running is in the hands
\* of one worker; what is offered, in those of one caller (DispatchInv).
QueuedInv ==
    /\ \A m \in Messages : fate[m] = "queued" <=> Holds(high, m) \/ Holds(normal, m)
    /\ \A m \in Messages : Holds(high, m) => m \in HighMsgs
    /\ \A m \in HighMsgs : ~Holds(normal, m)
    /\ Distinct(high) /\ Distinct(normal)

RunningInv ==
    /\ \A w \in Workers : wpc[w] = "invoke" <=> wmsg[w] # NoMsg
    /\ \A w \in Workers : wmsg[w] # NoMsg => fate[wmsg[w]] = "running"
    /\ \A v, w \in Workers : wmsg[v] = wmsg[w] /\ wmsg[v] # NoMsg => v = w

FateInv == DispatchInv /\ QueuedInv /\ RunningInv

\* The exit message is there only during an exit, and nothing is queued behind it.
ExitMsgInv ==
    /\ Holds(normal, ExitMsg) => exit /\ thread # NoThread
    /\ OnlyLast(normal, ExitMsg)

\* What ThreadAssumption says of the messages.
LEMMA Constants == ExitMsg \notin Messages /\ NoMsg \notin Messages /\ HighMsgs \subseteq Messages
  BY ThreadAssumption DEF ThreadAssumption

\* No step loses or doubles a message, or takes it out of two hands.
LEMMA FateStep == TypeOK /\ LifeInv /\ ExitMsgInv /\ FateInv /\ [Next]_vars => FateInv'
<1> SUFFICES ASSUME TypeOK, LifeInv, ExitMsgInv, FateInv, [Next]_vars PROVE FateInv'
  OBVIOUS
<1>1. LaneTypes /\ MessageTypes /\ LifeTypes
  BY TypeParts
<1>2. ExitMsg \notin Messages /\ NoMsg \notin Messages /\ HighMsgs \subseteq Messages
  BY Constants
<1> USE DEF FateInv, DispatchInv, QueuedInv, RunningInv
<1>3. ASSUME UNCHANGED <<high, normal, wmsg, dmsg, fate>>,
             \A a \in Actors : dpc'[a] = "ready" <=> dpc[a] = "ready",
             \A w \in Workers : wpc'[w] = "invoke" <=> wpc[w] = "invoke"
      PROVE  FateInv'
  BY <1>3
<1> USE <1>2 DEF MessageTypes, LifeTypes, workerVars, dispatchVars, history, queueVars
<1>4. ASSUME NEW a \in Actors, NEW m \in Messages, DispatchDelegate(a, m) PROVE FateInv'
  BY <1>1, <1>4 DEF DispatchDelegate, MayDispatch, Return, SetFate
<1>5. ASSUME NEW a \in Actors, dpc[a] # "ready", Return(a, dmsg[a], "refused"),
             UNCHANGED <<high, normal, wmsg, wpc>>
      PROVE  FateInv'
  BY <1>1, <1>5 DEF Return, SetFate
<1>6. ASSUME NEW a \in Actors, DispatchPush(a) PROVE FateInv'
  <2>1. dmsg[a] \in Messages /\ fate[dmsg[a]] = "offered"
    BY <1>1, <1>6 DEF DispatchPush, HoldsLock
  <2>2. /\ \A x : Holds(PushBack(high, dmsg[a]), x) <=> Holds(high, x) \/ x = dmsg[a]
        /\ ~Holds(high, dmsg[a]) => Distinct(PushBack(high, dmsg[a]))
    BY <1>1, <2>1, PushHolds DEF LaneTypes
  <2>3. /\ \A x : Holds(PushBack(normal, dmsg[a]), x) <=> Holds(normal, x) \/ x = dmsg[a]
        /\ ~Holds(normal, dmsg[a]) => Distinct(PushBack(normal, dmsg[a]))
    BY <1>1, <2>1, PushHolds DEF LaneTypes
  <2>4. DispatchInv'
    BY <1>1, <1>6, <2>1 DEF DispatchPush, HoldsLock, Return, SetFate
  <2>5. QueuedInv'
    BY <1>1, <1>6, <2>1, <2>2, <2>3 DEF DispatchPush, HoldsLock, Return, SetFate
  <2>6. RunningInv'
    BY <1>1, <1>6, <2>1 DEF DispatchPush, HoldsLock, Return, SetFate, WakeWorker
  <2> QED BY <2>4, <2>5, <2>6
<1>7. ASSUME NEW a \in Actors,
             DispatchStep(a), ~DispatchPush(a)
      PROVE  FateInv'
  BY <1>1, <1>3, <1>5, <1>7
     DEF DispatchStep, DispatchCheckThread, DispatchRejected, DispatchDropped, DispatchFaults,
         DispatchBlocks, DispatchExpires, DispatchTimedOut, HoldsLock
<1>8. ASSUME NEW w \in Workers, Started(w) \/ Sleep(w) \/ IdleDue(w) \/ RunIdle(w) \/ InvokeThrows(w)
      PROVE  FateInv'
  BY <1>1, <1>3, <1>8 DEF Started, Sleep, IdleDue, RunIdle, InvokeThrows
<1>9. ASSUME NEW w \in Workers, DequeueMessage(w) PROVE FateInv'
  <2> DEFINE m == wmsg'[w]
  <2>1. high # <<>> =>
          /\ Head(high) \in Messages /\ Holds(high, Head(high))
          /\ \A x : Holds(Tail(high), x) <=> Holds(high, x) /\ x # Head(high)
          /\ Distinct(Tail(high))
    <3>1. high # <<>> => Head(high) \in Messages
      BY <1>1, LaneOps DEF LaneTypes
    <3> QED BY <1>1, <3>1, PopHolds DEF LaneTypes
  <2>2. normal # <<>> =>
          /\ Head(normal) \in Messages \cup {ExitMsg} /\ Holds(normal, Head(normal))
          /\ \A x : Holds(Tail(normal), x) <=> Holds(normal, x) /\ x # Head(normal)
          /\ Distinct(Tail(normal))
    <3>1. normal # <<>> => Head(normal) \in Messages \cup {ExitMsg}
      BY <1>1, LaneOps DEF LaneTypes
    <3> QED BY <1>1, <3>1, PopHolds DEF LaneTypes
  <2>3. /\ m \in Messages /\ fate[m] = "queued" /\ wmsg' = [wmsg EXCEPT ![w] = m]
        /\ \A x \in Messages :
              Holds(high', x) \/ Holds(normal', x) <=> (Holds(high, x) \/ Holds(normal, x)) /\ x # m
        /\ \A x : (Holds(high', x) => Holds(high, x)) /\ (Holds(normal', x) => Holds(normal, x))
        /\ Distinct(high') /\ Distinct(normal')
    <3>1. CASE HighFirst
      <4>1. /\ high # <<>> /\ high' = Tail(high) /\ normal' = normal
            /\ m = Head(high) /\ wmsg' = [wmsg EXCEPT ![w] = m]
        BY <1>1, <1>9, <3>1 DEF DequeueMessage, HighFirst
      <4> HIDE DEF m
      <4> QED BY <1>1, <2>1, <4>1
    <3>2. CASE ~HighFirst
      <4>1. /\ normal # <<>> /\ Head(normal) # ExitMsg /\ normal' = Tail(normal) /\ high' = high
            /\ m = Head(normal) /\ wmsg' = [wmsg EXCEPT ![w] = m]
        BY <1>1, <1>9, <3>2 DEF DequeueMessage, IsDelegateMsg
      <4> HIDE DEF m
      <4> QED BY <1>1, <2>2, <4>1
    <3> QED BY <3>1, <3>2
  <2>4. /\ wpc' = [wpc EXCEPT ![w] = "invoke"] /\ SetFate({m}, "running") /\ UNCHANGED dmsg
        /\ wpc[w] = "loop"
        /\ \A b \in Actors : dpc'[b] = "ready" <=> dpc[b] = "ready"
    BY <1>1, <1>9 DEF DequeueMessage, NotifyNotFull, Blocked
  <2> HIDE DEF m
  <2>5. DispatchInv'
    BY <1>1, <2>3, <2>4 DEF SetFate
  <2>6. QueuedInv'
    BY <1>1, <2>3, <2>4 DEF SetFate
  <2>7. RunningInv'
    BY <1>1, <2>3, <2>4 DEF SetFate
  <2> QED BY <2>5, <2>6, <2>7
<1>10. ASSUME NEW w \in Workers, DequeueExit(w) PROVE FateInv'
  <2>1. normal # <<>> =>
          /\ \A x : Holds(Tail(normal), x) <=> Holds(normal, x) /\ x # Head(normal)
          /\ Distinct(Tail(normal))
    BY <1>1, PopHolds DEF LaneTypes
  <2>2. /\ high' = high /\ fate' = fate /\ wmsg' = wmsg /\ dmsg' = dmsg
        /\ wpc[w] = "loop" /\ wpc' = [wpc EXCEPT ![w] = "exited"]
        /\ \A b \in Actors : dpc'[b] = "ready" <=> dpc[b] = "ready"
    BY <1>1, <1>10 DEF DequeueExit, NotifyNotFull, Blocked
  <2>3. /\ \A m \in Messages : Holds(normal', m) <=> Holds(normal, m)
        /\ Distinct(normal')
    <3>1. CASE normal = <<>>
      BY <1>10, <3>1 DEF DequeueExit
    <3>2. CASE normal # <<>>
      <4>1. Head(normal) = ExitMsg /\ normal' = Tail(normal)
        BY <1>10, <3>2 DEF DequeueExit
      <4> QED BY <2>1, <3>2, <4>1
    <3> QED BY <3>1, <3>2
  <2> QED BY <1>1, <2>2, <2>3
<1>11. ASSUME NEW w \in Workers, InvokeReturns(w) PROVE FateInv'
  BY <1>1, <1>11 DEF InvokeReturns, InHandler, SetFate
<1>12. ASSUME NEW a \in Exiters, NEW exitPolicy \in {"DRAIN", "DISCARD"}, ExitBegin(a, exitPolicy)
      PROVE  FateInv'
  <2>1. ~Holds(normal, ExitMsg)
    BY <1>12 DEF ExitBegin, ExitMsgInv, LifeInv
  <2>2. /\ \A x : Holds(PushBack(normal, ExitMsg), x) <=> Holds(normal, x) \/ x = ExitMsg
        /\ Distinct(PushBack(normal, ExitMsg))
    BY <1>1, <2>1, PushHolds DEF LaneTypes
  <2>3. CASE exitPolicy = "DRAIN"
    <3>1. /\ high' = high /\ fate' = fate /\ wmsg' = wmsg /\ dmsg' = dmsg
          /\ normal' = PushBack(normal, ExitMsg)
      BY <1>12, <2>3 DEF ExitBegin
    <3>2. /\ \A w \in Workers : wpc'[w] = "invoke" <=> wpc[w] = "invoke"
          /\ \A b \in Actors : dpc'[b] = "ready" <=> dpc[b] = "ready"
      BY <1>12 DEF ExitBegin, WakeWorker, WakeProducers
    <3> QED BY <2>2, <3>1, <3>2
  <2>4. CASE exitPolicy = "DISCARD"
    <3>1. /\ high' = <<>> /\ normal' = <<ExitMsg>> /\ wmsg' = wmsg /\ dmsg' = dmsg
          /\ \A m \in Messages : fate'[m] = IF fate[m] = "queued" THEN "discarded" ELSE fate[m]
      BY <1>12, <2>4 DEF ExitBegin, SwapLanes, SetFate, WithFate
    <3>2. /\ \A w \in Workers : wpc'[w] = "invoke" <=> wpc[w] = "invoke"
          /\ \A b \in Actors : dpc'[b] = "ready" <=> dpc[b] = "ready"
      BY <1>12 DEF ExitBegin, WakeWorker, WakeProducers
    <3>3. /\ \A m \in Messages : ~Holds(<<>>, m) /\ ~Holds(<<ExitMsg>>, m)
          /\ Distinct(<<>>) /\ Distinct(<<ExitMsg>>)
      BY SwappedHolds
    <3>4. QueuedInv'
      BY <3>1, <3>3
    <3>5. DispatchInv' /\ RunningInv'
      BY <1>1, <3>1, <3>2
    <3> QED BY <3>4, <3>5
  <2> QED BY <2>3, <2>4
<1>13. ASSUME NEW a \in Exiters, ExitReset(a) PROVE FateInv'
  BY <1>1, <1>13, SwappedHolds DEF ExitReset, SwapLanes, SetFate, WithFate, WakeProducers
<1>14. ASSUME NEW a \in Exiters, ExitCancel(a) \/ ExitCleanup(a) PROVE FateInv'
  BY <1>1, <1>14 DEF ExitCancel, ExitCleanup, CancelAll, SetFate, WithFate
<1>15. ASSUME NEW a \in Exiters, ExitJoin(a) \/ ExitDetach(a) PROVE FateInv'
  BY <1>3, <1>15 DEF ExitJoin, ExitDetach
<1>16. CASE CreateBegin \/ CreateStep
  BY <1>1, <1>3, <1>16 DEF CreateBegin, CreateStep, CreateEmplace, CreateReturns
<1>17. CASE UNCHANGED vars
  BY <1>3, <1>17 DEF vars
<1> QED
  BY <1>4, <1>6, <1>7, <1>8, <1>9, <1>10, <1>11, <1>12, <1>13, <1>14, <1>15, <1>16, <1>17
     DEF Next, Step, WorkerStep, ExitStep

-----------------------------------------------------------------------------
(* The exit message, sleep, and the queue limit.                           *)

\* Nothing is pushed behind the exit message, and it is gone when its thread is.
LEMMA ExitMsgStep == TypeOK /\ LifeInv /\ DispatchInv /\ ExitMsgInv /\ [Next]_vars => ExitMsgInv'
<1> SUFFICES ASSUME TypeOK, LifeInv, DispatchInv, ExitMsgInv, [Next]_vars PROVE ExitMsgInv'
  OBVIOUS
<1>1. LaneTypes /\ MessageTypes
  BY TypeParts
<1> USE DEF ExitMsgInv, lifeVars, queueVars
<1>2. ASSUME UNCHANGED <<normal, exit, thread>> PROVE ExitMsgInv'
  BY <1>2
<1>3. ASSUME NEW a \in Actors, DispatchPush(a) PROVE ExitMsgInv'
  <2>1. dmsg[a] \in Messages /\ dmsg[a] # ExitMsg
    BY <1>1, <1>3, Constants DEF DispatchPush, HoldsLock, DispatchInv, MessageTypes
  <2>2. ~Holds(normal, ExitMsg) => /\ ~Holds(PushBack(normal, dmsg[a]), ExitMsg)
                                  /\ OnlyLast(PushBack(normal, dmsg[a]), ExitMsg)
    BY <1>1, <2>1, PushHolds DEF LaneTypes
  <2> QED BY <1>3, <2>2 DEF DispatchPush, MayPush
<1>4. ASSUME NEW w \in Workers, DequeueMessage(w) \/ DequeueExit(w) PROVE ExitMsgInv'
  <2>1. normal # <<>> => /\ Holds(Tail(normal), ExitMsg) => Holds(normal, ExitMsg)
                         /\ OnlyLast(Tail(normal), ExitMsg)
    BY <1>1, PopHolds DEF LaneTypes
  <2>2. normal' = normal \/ (normal # <<>> /\ normal' = Tail(normal))
    BY <1>4 DEF DequeueMessage, DequeueExit
  <2> QED BY <1>4, <2>1, <2>2 DEF DequeueMessage, DequeueExit
<1>5. ASSUME NEW a \in Exiters, NEW exitPolicy \in {"DRAIN", "DISCARD"}, ExitBegin(a, exitPolicy)
      PROVE  ExitMsgInv'
  <2>1. ~Holds(normal, ExitMsg)
    BY <1>5 DEF ExitBegin, LifeInv
  <2>2. OnlyLast(PushBack(normal, ExitMsg), ExitMsg)
    BY <1>1, <2>1, PushHolds DEF LaneTypes
  <2> QED BY <1>5, <2>2, SwappedHolds DEF ExitBegin, SwapLanes
<1>6. ASSUME NEW a \in Exiters, ExitReset(a) PROVE ExitMsgInv'
  BY <1>6, SwappedHolds DEF ExitReset, SwapLanes
<1>7. CASE CreateBegin
  BY <1>7 DEF CreateBegin
<1>8. CASE CreateEmplace
  BY <1>8 DEF CreateEmplace, LifeInv
<1> QED
  BY <1>2, <1>3, <1>4, <1>5, <1>6, <1>7, <1>8
     DEF Next, Step, vars, DispatchDelegate, DispatchStep, DispatchCheckThread,
         DispatchRejected, DispatchDropped, DispatchFaults, DispatchBlocks, DispatchExpires,
         DispatchTimedOut, WorkerStep, Started, Sleep, IdleDue, RunIdle,
         InvokeReturns, InvokeThrows, ExitStep, ExitCancel, ExitJoin, ExitDetach, ExitCleanup,
         CreateStep, CreateReturns

\* While an exit is under way the worker has the exit message to find, or is gone
\* and has left nothing; it sleeps only when there is nothing to do.
WakeInv ==
    /\ \A a \in Exiters :
          xpc[a] \in {"cancelling", "joining"} => wpc[thread] = "exited" \/ Holds(normal, ExitMsg)
    /\ thread # NoThread /\ wpc[thread] = "exited" => exit /\ Empty
    /\ \A w \in Workers : wpc[w] = "asleep" => Empty /\ ~exit

\* Whatever gives the worker something to do also wakes it; a worker that returns
\* has emptied the lanes, and nobody fills them again before the join.
LEMMA WakeStep ==
    TypeOK /\ LifeInv /\ WorkerInv /\ ExitMsgInv /\ WakeInv /\ [Next]_vars => WakeInv'
<1> SUFFICES ASSUME TypeOK, LifeInv, WorkerInv, ExitMsgInv, WakeInv, [Next]_vars PROVE WakeInv'
  OBVIOUS
<1>1. LaneTypes /\ LifeTypes /\ NoThread \notin Workers /\ Owner \notin Workers
  BY TypeParts, ThreadAssumption DEF ThreadAssumption
<1> USE DEF WakeInv, Empty, lifeVars, queueVars, workerVars
<1>2. ASSUME UNCHANGED <<high, normal, exit, thread, xpc, wpc>> PROVE WakeInv'
  BY <1>2
<1> USE DEF LifeTypes, Exiters
<1>3. ASSUME NEW a \in Actors, DispatchPush(a) PROVE WakeInv'
  BY <1>1, <1>3 DEF DispatchPush, MayPush, WakeWorker, LifeInv, Exiting
<1>4. ASSUME NEW w \in Workers, Started(w) \/ Sleep(w) \/ IdleDue(w) \/ RunIdle(w) PROVE WakeInv'
  BY <1>1, <1>4 DEF Started, Sleep, IdleDue, RunIdle, WorkerInv
<1>5. ASSUME NEW w \in Workers, DequeueMessage(w) PROVE WakeInv'
  <2>1. normal # <<>> /\ Head(normal) # ExitMsg /\ Holds(normal, ExitMsg) => Holds(Tail(normal), ExitMsg)
    BY <1>1, PopHolds DEF LaneTypes
  <2>2. Holds(normal, ExitMsg) => Holds(normal', ExitMsg)
    BY <1>5, <2>1 DEF DequeueMessage, IsDelegateMsg
  <2>3. wpc[w] = "loop" /\ wpc' = [wpc EXCEPT ![w] = "invoke"] /\ UNCHANGED <<exit, thread, xpc>>
    BY <1>5 DEF DequeueMessage
  <2> QED BY <1>1, <2>2, <2>3 DEF WorkerInv
<1>6. ASSUME NEW w \in Workers, DequeueExit(w) PROVE WakeInv'
  <2>1. Head(normal) = ExitMsg /\ normal # <<>> => Holds(normal, ExitMsg) /\ Tail(normal) = <<>>
    BY <1>1, PopHolds DEF LaneTypes, ExitMsgInv
  <2>2. exit /\ Empty'
    BY <1>6, <2>1 DEF DequeueExit, ExitMsgInv
  <2>3. wpc[w] = "loop" /\ wpc' = [wpc EXCEPT ![w] = "exited"] /\ UNCHANGED <<exit, thread, xpc>>
    BY <1>6 DEF DequeueExit
  <2> QED BY <1>1, <2>2, <2>3 DEF WorkerInv
<1>7. ASSUME NEW w \in Workers, InvokeReturns(w) PROVE WakeInv'
  BY <1>1, <1>7 DEF InvokeReturns, InHandler, WorkerInv
<1>8. ASSUME NEW a \in Exiters, NEW exitPolicy \in {"DRAIN", "DISCARD"}, ExitBegin(a, exitPolicy)
      PROVE  WakeInv'
  <2>1. wpc[thread] # "exited" /\ thread \in Workers
    BY <1>1, <1>8 DEF ExitBegin, LifeInv
  <2>2. Holds(PushBack(normal, ExitMsg), ExitMsg) /\ Holds(<<ExitMsg>>, ExitMsg)
    BY <1>1, PushHolds, SwappedHolds DEF LaneTypes
  <2>3. Holds(normal', ExitMsg)
    BY <1>8, <2>2 DEF ExitBegin, SwapLanes
  <2>4. wpc' = WakeWorker /\ thread' = thread
    BY <1>8 DEF ExitBegin
  <2> QED BY <1>1, <2>1, <2>3, <2>4 DEF WakeWorker
<1>9. ASSUME NEW a \in Exiters, ExitCancel(a) \/ ExitJoin(a) \/ ExitDetach(a) \/ ExitCleanup(a)
      PROVE  WakeInv'
  BY <1>1, <1>9 DEF ExitCancel, ExitJoin, ExitDetach, ExitCleanup
<1>10. ASSUME NEW a \in Exiters, ExitReset(a) PROVE WakeInv'
  BY <1>1, <1>10 DEF ExitReset, SwapLanes, LifeInv, Exiting
<1>11. CASE CreateBegin
  BY <1>1, <1>11 DEF CreateBegin
<1>12. CASE CreateEmplace
  BY <1>1, <1>12 DEF CreateEmplace, LifeInv, Exiting
<1> QED
  BY <1>2, <1>3, <1>4, <1>5, <1>6, <1>7, <1>8, <1>9, <1>10, <1>11, <1>12
     DEF Next, Step, vars, DispatchDelegate, DispatchStep, DispatchCheckThread,
         DispatchRejected, DispatchDropped, DispatchFaults, DispatchBlocks, DispatchExpires,
         DispatchTimedOut, WorkerStep, InvokeThrows, ExitStep, CreateStep, CreateReturns

\* A push looks at the limit under the lock it pushes under; ExitThread() adds its
\* message at most once.
LEMMA CapacityStep ==
    TypeOK /\ LifeInv /\ DispatchInv /\ ExitMsgInv /\ CapacityBound /\ [Next]_vars => CapacityBound'
<1> SUFFICES ASSUME TypeOK, LifeInv, DispatchInv, ExitMsgInv, CapacityBound, [Next]_vars
             PROVE  CapacityBound'
  OBVIOUS
<1>1. LaneTypes /\ MessageTypes /\ MaxQueueSize \in Nat
  BY TypeParts, ThreadAssumption DEF ThreadAssumption
<1>2. Len(high) \in Nat /\ Len(normal) \in Nat
  BY <1>1 DEF LaneTypes
<1> DEFINE Limit(lane) == MaxQueueSize + (IF Holds(lane, ExitMsg) THEN 1 ELSE 0)
<1>3. CapacityBound <=> Len(high) + Len(normal) <= Limit(normal)
  BY DEF CapacityBound, ExitQueued, Holds
<1>4. CapacityBound' <=> Len(high') + Len(normal') <= Limit(normal')
  BY DEF CapacityBound, ExitQueued, Holds
<1>5. ASSUME NEW a \in Actors, DispatchPush(a) PROVE CapacityBound'
  <2>1. dmsg[a] \in Messages
    BY <1>1, <1>5 DEF DispatchPush, HoldsLock, DispatchInv, MessageTypes
  <2>2. /\ Len(PushBack(high, dmsg[a])) = Len(high) + 1
        /\ Len(PushBack(normal, dmsg[a])) = Len(normal) + 1
    BY <1>1, <2>1, PushLengths
  <2>3. \/ high' = PushBack(high, dmsg[a]) /\ normal' = normal
        \/ high' = high /\ normal' = PushBack(normal, dmsg[a])
    BY <1>5 DEF DispatchPush
  <2>4. Len(high) + Len(normal) < MaxQueueSize
    BY <1>1, <1>2, <1>5 DEF DispatchPush, MayPush, Full
  <2>5. Len(high') + Len(normal') <= MaxQueueSize
    BY <1>1, <1>2, <2>2, <2>3, <2>4
  <2>6. Len(high') + Len(normal') \in Nat
    BY <1>2, <2>2, <2>3
  <2> QED BY <1>1, <1>4, <2>5, <2>6
<1>6. ASSUME NEW w \in Workers, DequeueMessage(w) PROVE CapacityBound'
  <2>1. high # <<>> => Len(Tail(high)) = Len(high) - 1
    BY <1>1, LaneOps DEF LaneTypes
  <2>2. normal # <<>> => /\ Len(Tail(normal)) = Len(normal) - 1
                         /\ Head(normal) # ExitMsg => (Holds(Tail(normal), ExitMsg) <=> Holds(normal, ExitMsg))
    <3>1. normal # <<>> => Len(Tail(normal)) = Len(normal) - 1
      BY <1>1, LaneOps DEF LaneTypes
    <3>2. normal # <<>> => \A x : Holds(normal, x) <=> Holds(Tail(normal), x) \/ x = Head(normal)
      BY <1>1, PopHolds DEF LaneTypes
    <3> QED BY <3>1, <3>2
  <2>3. \/ high # <<>> /\ high' = Tail(high) /\ normal' = normal
        \/ normal # <<>> /\ Head(normal) # ExitMsg /\ normal' = Tail(normal) /\ high' = high
    BY <1>6 DEF DequeueMessage, HighFirst, IsDelegateMsg
  <2> QED BY <1>1, <1>2, <1>3, <1>4, <2>1, <2>2, <2>3
<1>7. ASSUME NEW w \in Workers, DequeueExit(w) PROVE CapacityBound'
  <2>1. normal # <<>> => Len(Tail(normal)) = Len(normal) - 1
    BY <1>1, LaneOps DEF LaneTypes
  <2>2. \/ UNCHANGED <<high, normal>>
        \/ normal # <<>> /\ high' = high /\ normal' = Tail(normal)
    BY <1>7 DEF DequeueExit
  <2>3. CASE UNCHANGED <<high, normal>>
    BY <1>3, <1>4, <2>3
  <2>4. CASE normal # <<>> /\ high' = high /\ normal' = Tail(normal)
    BY <1>1, <1>2, <1>3, <1>4, <2>1, <2>4
  <2> QED BY <2>2, <2>3, <2>4
<1>8. ASSUME NEW a \in Exiters, NEW exitPolicy \in {"DRAIN", "DISCARD"}, ExitBegin(a, exitPolicy)
      PROVE  CapacityBound'
  <2>1. ~Holds(normal, ExitMsg)
    BY <1>8 DEF ExitBegin, LifeInv, ExitMsgInv
  <2>2. Len(PushBack(normal, ExitMsg)) = Len(normal) + 1 /\ Holds(PushBack(normal, ExitMsg), ExitMsg)
    BY <1>1, LaneOps, PushHolds DEF LaneTypes
  <2>3. Len(<<>>) = 0 /\ Len(<<ExitMsg>>) = 1 /\ Holds(<<ExitMsg>>, ExitMsg)
    BY SwappedHolds
  <2>4. \/ high' = high /\ normal' = PushBack(normal, ExitMsg)
        \/ high' = <<>> /\ normal' = <<ExitMsg>>
    BY <1>8 DEF ExitBegin, SwapLanes
  <2>5. CASE high' = high /\ normal' = PushBack(normal, ExitMsg)
    BY <1>1, <1>2, <1>3, <1>4, <2>1, <2>2, <2>5
  <2>6. CASE high' = <<>> /\ normal' = <<ExitMsg>>
    BY <1>1, <1>4, <2>3, <2>6
  <2> QED BY <2>4, <2>5, <2>6
<1>9. ASSUME NEW a \in Exiters, ExitReset(a) PROVE CapacityBound'
  <2>1. high' = <<>> /\ normal' = <<>> /\ Len(<<>>) = 0
    BY <1>9 DEF ExitReset, SwapLanes
  <2> QED BY <1>1, <1>4, <2>1
<1>10. CASE UNCHANGED <<high, normal>>
  BY <1>3, <1>4, <1>10
<1> QED
  BY <1>5, <1>6, <1>7, <1>8, <1>9, <1>10, LaneSteps DEF LaneStep

\* The callers inside DispatchDelegate() are finitely many at any time, however
\* many there may be; nobody waits for a slot during an exit; and otherwise every
\* free slot has a notified producer on its way.
Inside == {a \in Actors : dpc[a] # "ready"}
SlotInv == IsFiniteSet(Inside) /\ (exit => Blocked = {}) /\ NoStrandedProducer

\* The notified callers are among those inside, so that they can be counted.
LEMMA WokenFinite == IsFiniteSet(Inside) => IsFiniteSet(Woken) /\ Cardinality(Woken) \in Nat
<1>1. Woken \subseteq Inside
  BY DEF Woken, Inside
<1> QED BY <1>1, FS_Subset, FS_CardinalityType

\* Of one caller that goes on: to a point that is neither, or to one of the two.
Leaves(a) == Inside' \subseteq Inside \cup {a} /\ Woken' = Woken \ {a} /\ Blocked' = Blocked \ {a}
IsWoken(a) == Inside' \subseteq Inside \cup {a} /\ Woken' = Woken \cup {a} /\ Blocked' \subseteq Blocked

LEMMA OneCaller ==
    ASSUME MessageTypes, NEW a \in Actors
    PROVE  /\ dpc' = [dpc EXCEPT ![a] = "ready"] => Leaves(a)
           /\ dpc' = [dpc EXCEPT ![a] = "checked"] => Leaves(a)
           /\ dpc' = [dpc EXCEPT ![a] = "entering"] => Leaves(a)
           /\ dpc' = [dpc EXCEPT ![a] = "expired"] => Leaves(a)
           /\ dpc' = [dpc EXCEPT ![a] = "woken"] => IsWoken(a)
  BY DEF MessageTypes, Inside, Woken, Blocked, Leaves, IsWoken

\* No step leaves more room than there are notified producers while one waits.
LEMMA SlotStep == TypeOK /\ DispatchInv /\ ExitMsgInv /\ SlotInv /\ [Next]_vars => SlotInv'
<1> SUFFICES ASSUME TypeOK, DispatchInv, ExitMsgInv, SlotInv, [Next]_vars PROVE SlotInv'
  OBVIOUS
<1>1. LaneTypes /\ MessageTypes /\ MaxQueueSize \in Nat
  BY TypeParts, ThreadAssumption DEF ThreadAssumption
<1> DEFINE length == Len(high) + Len(normal)
           woken == Cardinality(Woken)
<1>2. /\ Len(high) \in Nat /\ Len(normal) \in Nat /\ length \in Nat /\ woken \in Nat
      /\ IsFiniteSet(Inside) /\ IsFiniteSet(Woken)
      /\ exit => Blocked = {}
      /\ Blocked # {} => length + woken >= MaxQueueSize
      /\ Full <=> length >= MaxQueueSize
  BY <1>1, WokenFinite DEF LaneTypes, SlotInv, NoStrandedProducer, Full
<1>3. SlotInv' <=> /\ IsFiniteSet(Inside') /\ (exit' => Blocked' = {})
                   /\ Blocked' # {} => length' + woken' >= MaxQueueSize
  BY DEF SlotInv, NoStrandedProducer
<1> HIDE DEF length, woken
<1>4. \A x, y, z \in Nat : x >= z => x + y >= z
  OBVIOUS
<1>5. \A x, y, v, z \in Nat : x + y >= z /\ v >= y - 1 => (x + 1) + v >= z
  OBVIOUS
<1>6. ASSUME NEW a \in Actors, Leaves(a)
      PROVE  /\ IsFiniteSet(Inside') /\ woken' \in Nat /\ woken' >= woken - 1
             /\ a \notin Woken => woken' = woken
             /\ Blocked' \subseteq Blocked
  <2>1. IsFiniteSet(Inside') /\ Blocked' \subseteq Blocked /\ Woken' = Woken \ {a}
    BY <1>2, <1>6, FS_AddElement, FS_Subset DEF Leaves
  <2>2. /\ IsFiniteSet(Woken')
        /\ Cardinality(Woken') = IF a \in Woken THEN Cardinality(Woken) - 1 ELSE Cardinality(Woken)
    BY <1>2, <2>1, FS_RemoveElement
  <2>3. Cardinality(Woken') \in Nat
    BY <2>2, FS_CardinalityType
  <2> QED BY <1>2, <2>1, <2>2, <2>3 DEF woken
<1>7. ASSUME NEW a \in Actors \ Woken, IsWoken(a)
       PROVE  IsFiniteSet(Inside') /\ woken' = woken + 1 /\ Blocked' \subseteq Blocked
  <2>1. IsFiniteSet(Inside') /\ Blocked' \subseteq Blocked /\ Woken' = Woken \cup {a}
    BY <1>2, <1>7, FS_AddElement, FS_Subset DEF IsWoken
  <2>2. Cardinality(Woken') = Cardinality(Woken) + 1
    BY <1>2, <2>1, FS_AddElement
  <2> QED BY <2>1, <2>2 DEF woken
<1>8. ASSUME dpc' = WakeProducers PROVE SlotInv'
  <2>1. Inside' = Inside /\ Blocked' = {}
    BY <1>8 DEF WakeProducers, Inside, Blocked
  <2> QED BY <1>2, <1>3, <2>1
<1>9. ASSUME UNCHANGED <<high, normal, dpc>>, exit' => exit PROVE SlotInv'
  BY <1>9 DEF SlotInv, NoStrandedProducer, Inside, Woken, Blocked
<1>10. ASSUME NEW a \in Actors, Leaves(a), UNCHANGED <<high, normal, exit>>,
             Full \/ a \notin Woken \/ exit
      PROVE  SlotInv'
  <2>1. length' = length
    BY <1>10 DEF length
  <2>2. /\ IsFiniteSet(Inside') /\ woken' \in Nat /\ (a \notin Woken => woken' = woken)
        /\ Blocked' \subseteq Blocked
    BY <1>6, <1>10
  <2>3. exit' => Blocked' = {}
    BY <1>2, <1>10, <2>2
  <2>4. ASSUME Blocked' # {} PROVE length' + woken' >= MaxQueueSize
    <3>1. Blocked # {} /\ ~exit
      BY <1>2, <2>2, <2>4
    <3>2. CASE Full
      <4>1. length >= MaxQueueSize
        BY <1>2, <3>2
      <4> QED BY <1>1, <1>2, <1>4, <2>1, <2>2, <4>1
    <3>3. CASE a \notin Woken
      BY <1>2, <2>1, <2>2, <3>1, <3>3
    <3> QED BY <1>10, <3>1, <3>2, <3>3
  <2> QED BY <1>3, <2>2, <2>3, <2>4
<1>11. ASSUME NEW a \in Actors, NEW m \in Messages, DispatchDelegate(a, m) PROVE SlotInv'
  <2>1. Leaves(a)
    BY <1>1, <1>11, OneCaller DEF DispatchDelegate, Return
  <2>2. UNCHANGED <<high, normal, exit>> /\ a \notin Woken
    BY <1>11 DEF DispatchDelegate, MayDispatch, Woken, queueVars, lifeVars
  <2> QED BY <1>10, <2>1, <2>2
<1>12. ASSUME NEW a \in Actors, DispatchPush(a) PROVE SlotInv'
  <2>1. /\ dpc' = [dpc EXCEPT ![a] = "ready"] /\ exit' = exit /\ ~exit
    BY <1>12 DEF DispatchPush, MayPush, Return, lifeVars
  <2>2. length' = length + 1
    <3>1. dmsg[a] \in Messages
      BY <1>1, <1>12 DEF DispatchPush, HoldsLock, DispatchInv, MessageTypes
    <3>2. /\ Len(PushBack(high, dmsg[a])) = Len(high) + 1
          /\ Len(PushBack(normal, dmsg[a])) = Len(normal) + 1
      BY <1>1, <3>1, PushLengths
    <3>3. \/ high' = PushBack(high, dmsg[a]) /\ normal' = normal
          \/ high' = high /\ normal' = PushBack(normal, dmsg[a])
      BY <1>12 DEF DispatchPush
    <3> QED BY <1>2, <3>2, <3>3 DEF length
  <2>3. /\ IsFiniteSet(Inside') /\ woken' \in Nat /\ woken' >= woken - 1
        /\ Blocked' \subseteq Blocked
    BY <1>1, <1>6, <2>1, OneCaller
  <2>4. ASSUME Blocked' # {} PROVE length' + woken' >= MaxQueueSize
    <3>1. length + woken >= MaxQueueSize /\ length \in Nat /\ woken \in Nat
      BY <1>2, <2>3, <2>4
    <3>2. (length + 1) + woken' >= MaxQueueSize
      BY <1>1, <1>5, <2>3, <3>1
    <3> QED BY <2>2, <3>2
  <2> QED BY <1>3, <2>1, <2>3, <2>4
<1>13. ASSUME NEW a \in Actors, DispatchBlocks(a) PROVE SlotInv'
  <2>1. /\ dpc' = [dpc EXCEPT ![a] = "blocked"] /\ Full /\ ~exit /\ UNCHANGED <<high, normal, exit>>
    BY <1>13 DEF DispatchBlocks, queueVars, lifeVars
  <2>2. Inside' \subseteq Inside \cup {a} /\ Woken' \subseteq Woken
    BY <1>1, <2>1 DEF MessageTypes, Inside, Woken
  <2>3. IsFiniteSet(Inside') /\ IsFiniteSet(Woken')
    BY <1>2, <2>2, FS_AddElement, FS_Subset
  <2>4. woken' \in Nat /\ length' = length
    BY <2>1, <2>3, FS_CardinalityType DEF length, woken
  <2>5. length >= MaxQueueSize /\ length \in Nat
    BY <1>2, <2>1
  <2>6. length' + woken' >= MaxQueueSize
    BY <1>1, <1>4, <2>4, <2>5
  <2> QED BY <1>3, <2>1, <2>3, <2>6
<1>14. ASSUME NEW a \in Actors, DispatchStep(a), ~DispatchPush(a), ~DispatchBlocks(a) PROVE SlotInv'
  <2>1. UNCHANGED <<high, normal, exit>>
    BY <1>14 DEF DispatchStep, DispatchCheckThread, DispatchRejected, DispatchDropped, DispatchFaults,
           DispatchExpires, DispatchTimedOut, queueVars, lifeVars
  <2>2. CASE DispatchFaults(a)
    BY <1>9, <2>1, <2>2 DEF DispatchFaults, dispatchVars
  <2>3. CASE ~DispatchFaults(a)
    <3>1. Leaves(a)
      BY <1>1, <1>14, <2>3, OneCaller
         DEF DispatchStep, DispatchCheckThread, DispatchRejected, DispatchDropped, DispatchExpires, DispatchTimedOut, Return
    <3>2. Full \/ a \notin Woken \/ exit
      BY <1>14, <2>3 DEF DispatchStep, DispatchCheckThread, DispatchRejected, DispatchDropped,
             DispatchExpires, DispatchTimedOut, Woken
    <3> QED BY <1>10, <2>1, <3>1, <3>2
  <2> QED BY <2>2, <2>3
<1>15. ASSUME NEW w \in Workers, DequeueMessage(w) PROVE SlotInv'
  <2>1. length' = length - 1 /\ exit' = exit
    <3>1. high # <<>> => Len(Tail(high)) = Len(high) - 1
      BY <1>1, LaneOps DEF LaneTypes
    <3>2. normal # <<>> => Len(Tail(normal)) = Len(normal) - 1
      BY <1>1, LaneOps DEF LaneTypes
    <3>3. \/ high # <<>> /\ high' = Tail(high) /\ normal' = normal
          \/ normal # <<>> /\ normal' = Tail(normal) /\ high' = high
      BY <1>15 DEF DequeueMessage, HighFirst
    <3>4. exit' = exit
      BY <1>15 DEF DequeueMessage, lifeVars
    <3> QED BY <1>2, <3>1, <3>2, <3>3, <3>4 DEF length
  <2>2. NotifyNotFull
    BY <1>15 DEF DequeueMessage
  <2>3. CASE Blocked = {}
    <3>1. Blocked' = {} /\ Inside' = Inside
      BY <2>2, <2>3 DEF NotifyNotFull, Blocked, Inside
    <3> QED BY <1>2, <1>3, <3>1
  <2>4. CASE Blocked # {}
    <3>1. PICK a \in Blocked : dpc' = [dpc EXCEPT ![a] = "woken"]
      BY <2>2, <2>4 DEF NotifyNotFull
    <3>2. a \in Actors \ Woken
      BY <3>1 DEF Blocked, Woken
    <3>3. IsFiniteSet(Inside') /\ woken' = woken + 1 /\ Blocked' \subseteq Blocked
      BY <1>1, <1>7, <3>1, <3>2, OneCaller
    <3>4. length' + woken' >= MaxQueueSize
      BY <1>1, <1>2, <2>1, <2>4, <3>3
    <3> QED BY <1>2, <1>3, <2>1, <3>3, <3>4
  <2> QED BY <2>3, <2>4
<1>16. ASSUME NEW w \in Workers, DequeueExit(w) PROVE SlotInv'
  <2>1. exit /\ exit' = exit
    <3>1. normal # <<>> => Holds(normal, Head(normal))
      BY <1>1, PopHolds DEF LaneTypes
    <3> QED BY <1>16, <3>1 DEF DequeueExit, ExitMsgInv, lifeVars
  <2>2. dpc' = dpc /\ Blocked = {}
    BY <1>2, <1>16, <2>1 DEF DequeueExit, NotifyNotFull
  <2>3. Blocked' = {} /\ Inside' = Inside
    BY <2>2 DEF Blocked, Inside
  <2> QED BY <1>2, <1>3, <2>3
<1>17. ASSUME NEW w \in Workers, WorkerStep(w), ~DequeueMessage(w), ~DequeueExit(w) PROVE SlotInv'
  BY <1>9, <1>17
     DEF WorkerStep, Started, Sleep, IdleDue, RunIdle, InvokeReturns, InvokeThrows, queueVars,
         dispatchVars, lifeVars
<1>18. ASSUME NEW a \in Exiters, NEW exitPolicy \in {"DRAIN", "DISCARD"}, ExitBegin(a, exitPolicy)
       PROVE  SlotInv'
  BY <1>8, <1>18 DEF ExitBegin
<1>19. ASSUME NEW a \in Exiters, ExitStep(a) PROVE SlotInv'
  BY <1>8, <1>9, <1>19
     DEF ExitStep, ExitCancel, ExitJoin, ExitDetach, ExitReset, ExitCleanup, queueVars, dispatchVars
<1>20. CASE CreateBegin \/ CreateStep
  BY <1>9, <1>20 DEF CreateBegin, CreateStep, CreateEmplace, CreateReturns, queueVars, dispatchVars
<1>21. CASE UNCHANGED vars
  BY <1>9, <1>21 DEF vars, queueVars, dispatchVars, lifeVars
<1> QED
  BY <1>11, <1>12, <1>13, <1>14, <1>15, <1>16, <1>17, <1>18, <1>19, <1>20, <1>21 DEF Next, Step

-----------------------------------------------------------------------------
(* The inductive invariant, and what follows from it.                      *)

IInv ==
    TypeOK /\ LifeInv /\ WorkerInv /\ FateInv /\ ExitMsgInv /\ WakeInv /\ CapacityBound /\ SlotInv

\* IInv holds in the initial states.
LEMMA IInvInit == Init => IInv
<1> SUFFICES ASSUME Init PROVE IInv
  OBVIOUS
<1>1. TypeOK
  BY TypeInit
<1>2. LifeInv /\ WorkerInv
  BY ThreadAssumption DEF Init, LifeInv, WorkerInv, Exiting, ExitIdle, Exiters, ThreadAssumption
<1>3. FateInv
  BY SwappedHolds DEF Init, FateInv, DispatchInv, QueuedInv, RunningInv
<1>4. ExitMsgInv
  BY SwappedHolds DEF Init, ExitMsgInv
<1>5. WakeInv
  BY DEF Init, WakeInv
<1>6. CapacityBound
  <2>1. Len(high) = 0 /\ Len(normal) = 0 /\ MaxQueueSize \in Nat
    BY ThreadAssumption DEF Init, ThreadAssumption
  <2> QED BY <2>1 DEF CapacityBound
<1>7. SlotInv
  <2>1. Inside = {} /\ Blocked = {}
    BY DEF Init, Inside, Blocked
  <2> QED BY <2>1, FS_EmptySet DEF SlotInv, NoStrandedProducer
<1> QED BY <1>1, <1>2, <1>3, <1>4, <1>5, <1>6, <1>7 DEF IInv

\* IInv is preserved by every step of every actor.
LEMMA IInvStep == IInv /\ [Next]_vars => IInv'
  BY TypeStep, LifeStep, WorkerInvStep, FateStep, ExitMsgStep, WakeStep, CapacityStep, SlotStep
  DEF IInv, FateInv

\* IInv is an invariant of the specification.
LEMMA Invariance == Spec => []IInv
  BY IInvInit, IInvStep, PTL DEF Spec

\* Every variable of the thread keeps its type, for every queue limit, number of
\* producers, messages and threads.
THEOREM TypeCorrect == Spec => []TypeOK
<1>1. IInv => TypeOK
  BY DEF IInv
<1> QED BY Invariance, <1>1, PTL

\* No message is lost, doubled or put in the wrong lane by DispatchDelegate(),
\* Process() or ExitThread(), in whatever order their critical sections come.
THEOREM NoMessageLost == Spec => []MessagesAccounted
<1>1. IInv => MessagesAccounted
  <2> SUFFICES ASSUME IInv PROVE MessagesAccounted
    OBVIOUS
  <2>1. LaneTypes /\ QueuedInv
    BY TypeParts DEF IInv, FateInv
  <2>2. /\ \A i \in DOMAIN high : high[i] \in Messages /\ Holds(high, high[i])
        /\ \A i \in DOMAIN normal : Holds(normal, normal[i])
    BY <2>1 DEF LaneTypes, Holds
  <2> QED
    BY <2>1, <2>2 DEF QueuedInv, MessagesAccounted, InHigh, InNormal, Holds, Distinct
<1> QED BY Invariance, <1>1, PTL

\* MAX_QUEUE_SIZE is respected by all producers together, and the exit message of
\* ExitThread() is the only one that may exceed it.
THEOREM QueueBounded == Spec => []CapacityBound
<1>1. IInv => CapacityBound
  BY DEF IInv
<1> QED BY Invariance, <1>1, PTL

\* While a producer waits for a slot in m_cvNotFull, every free slot has a notified
\* producer on its way to it: notify_one() for each slot is enough.
THEOREM NoProducerStranded == Spec => []NoStrandedProducer
<1>1. IInv => NoStrandedProducer
  BY DEF IInv, SlotInv
<1> QED BY Invariance, <1>1, PTL

\* The worker of StdlibThread never sleeps through a notification of m_cv.
THEOREM WorkerWakes == Spec => []NoLostWakeup
<1>1. IInv => NoLostWakeup
  BY DEF IInv, WorkerInv, WakeInv, NoLostWakeup
<1> QED BY Invariance, <1>1, PTL

\* The join() of ExitThread() waits for a worker that has the exit message ahead of
\* it or has returned, and no exit message outlives its exit.
THEOREM ExitFindsWorker == Spec => []ExitMsgPending
<1>1. IInv => ExitMsgPending
  <2> SUFFICES ASSUME IInv PROVE ExitMsgPending
    OBVIOUS
  <2>1. Holds(normal, ExitMsg) <=> ExitQueued
    BY DEF Holds, ExitQueued
  <2>2. \A i \in DOMAIN normal : normal[i] = ExitMsg => exit /\ thread # NoThread /\ i = Len(normal)
    BY DEF IInv, ExitMsgInv, Holds, OnlyLast
  <2>3. \A a \in Exiters :
           xpc[a] \in {"cancelling", "joining"} =>
               exit /\ thread # NoThread /\ (wpc[thread] = "exited" \/ ExitQueued)
    BY <2>1 DEF IInv, LifeInv, Exiting, WakeInv
  <2> QED BY <2>2, <2>3 DEF ExitMsgPending
<1> QED BY Invariance, <1>1, PTL

\* What ExitThread() finds in the queues after join() is nothing: with DRAIN every
\* message queued before the exit was invoked.
THEOREM JoinFindsEmptyQueues == Spec => []DrainedAtJoin
<1>1. IInv => DrainedAtJoin
  BY DEF IInv, LifeInv, Exiting, WorkerInv, WakeInv, DrainedAtJoin
<1> QED BY Invariance, <1>1, PTL

\* Two handlers run at the same time only when one of them has exited its thread.
THEOREM HandlersSerial == Spec => []SerialInvoke
<1>1. IInv => SerialInvoke
  BY DEF IInv, WorkerInv, SerialInvoke
<1> QED BY Invariance, <1>1, PTL

-----------------------------------------------------------------------------
(***************************************************************************)
(* DelegateThread implements Mailbox: a thread keeps the promise of the    *)
(* Priority contract.                                                      *)
(*                                                                         *)
(* Mailbox has no lanes, only tickets.  What connects the two is OrderInv: *)
(* a lane holds its messages in the order of their tickets, so that the    *)
(* front of the HIGH lane, or of the NORMAL one when the other is empty,   *)
(* precedes everything that waits.                                         *)
(***************************************************************************)

\* First come first served within a lane; the exit message has no ticket.
Sorted(lane, tick) ==
    \A i, j \in DOMAIN lane :
        i < j /\ lane[i] \in Messages /\ lane[j] \in Messages => tick[lane[i]] < tick[lane[j]]

OrderInv ==
    /\ \A m \in Messages : ticket[m] < nextTicket
    /\ Sorted(high, ticket) /\ Sorted(normal, ticket)

-----------------------------------------------------------------------------
(* The lanes stay sorted.                                                  *)

\* A lane sorted by the old tickets takes a message with a higher one.
LEMMA PushSorted ==
    ASSUME NEW S, NEW lane \in Seq(S), NEW m \in S \cap Messages, NEW tick, NEW tick2,
           Sorted(lane, tick), ~Holds(lane, m),
           \A n \in Messages \ {m} : tick2[n] = tick[n] /\ tick[n] < tick2[m]
    PROVE  Sorted(PushBack(lane, m), tick2)
<1> DEFINE pushed == PushBack(lane, m)
<1>1. /\ Len(pushed) = Len(lane) + 1 /\ Len(lane) \in Nat
      /\ \A i \in 1 .. Len(lane) : pushed[i] = lane[i]
      /\ pushed[Len(lane) + 1] = m
      /\ DOMAIN lane = 1 .. Len(lane) /\ DOMAIN pushed = 1 .. Len(lane) + 1
  BY AppendProperties DEF PushBack
<1> HIDE DEF pushed
<1>2. \A i \in DOMAIN lane : lane[i] # m
  BY DEF Holds
<1>3. ASSUME NEW i \in DOMAIN pushed, NEW j \in DOMAIN pushed, i < j,
             pushed[i] \in Messages, pushed[j] \in Messages
      PROVE  tick2[pushed[i]] < tick2[pushed[j]]
  <2>1. i \in DOMAIN lane /\ pushed[i] = lane[i]
    BY ONLY <1>1, <1>3
  <2>2. pushed[i] # m
    BY <1>2, <2>1
  <2>3. CASE j \in DOMAIN lane
    <3>1. pushed[j] = lane[j] /\ pushed[j] # m
      BY <1>1, <1>2, <2>3
    <3>2. tick[pushed[i]] < tick[pushed[j]]
      BY <1>3, <2>1, <2>3, <3>1 DEF Sorted
    <3> QED BY <1>3, <2>2, <3>1, <3>2
  <2>4. CASE j \notin DOMAIN lane
    <3>1. pushed[j] = m
      BY ONLY <1>1, <1>3, <2>4
    <3> QED BY <1>3, <2>2, <3>1
  <2> QED BY <2>3, <2>4
<1>4. Sorted(pushed, tick2)
  BY <1>3 DEF Sorted
<1> QED BY <1>4 DEF pushed

\* The exit message may be pushed behind anything.
LEMMA PushExitSorted ==
    ASSUME NEW S, NEW lane \in Seq(S), ExitMsg \in S, NEW tick, Sorted(lane, tick)
    PROVE  Sorted(PushBack(lane, ExitMsg), tick)
<1> DEFINE pushed == PushBack(lane, ExitMsg)
<1>1. /\ Len(pushed) = Len(lane) + 1 /\ Len(lane) \in Nat
      /\ \A i \in 1 .. Len(lane) : pushed[i] = lane[i]
      /\ pushed[Len(lane) + 1] = ExitMsg
      /\ DOMAIN lane = 1 .. Len(lane) /\ DOMAIN pushed = 1 .. Len(lane) + 1
  BY AppendProperties DEF PushBack
<1> HIDE DEF pushed
<1>2. \A i \in DOMAIN pushed : pushed[i] \in Messages => i \in DOMAIN lane /\ pushed[i] = lane[i]
  BY <1>1, Constants
<1>3. Sorted(pushed, tick)
  BY <1>2 DEF Sorted
<1> QED BY <1>3 DEF pushed

\* A pop leaves a sorted lane sorted, and takes the smallest ticket.
LEMMA PopSorted ==
    ASSUME NEW S, NEW lane \in Seq(S), lane # <<>>, NEW tick, Sorted(lane, tick)
    PROVE  /\ Sorted(Tail(lane), tick)
           /\ \A m \in Messages : Holds(Tail(lane), m) /\ Head(lane) \in Messages =>
                  tick[Head(lane)] < tick[m]
<1> DEFINE rest == Tail(lane)
<1>1. /\ Len(rest) = Len(lane) - 1 /\ Len(lane) \in Nat /\ Len(lane) > 0
      /\ \A i \in 1 .. Len(rest) : rest[i] = lane[i + 1]
      /\ lane[1] = Head(lane)
      /\ DOMAIN lane = 1 .. Len(lane) /\ DOMAIN rest = 1 .. Len(rest)
  BY HeadTailProperties, EmptySeq
<1> HIDE DEF rest
<1>2. \A i \in DOMAIN rest : i + 1 \in DOMAIN lane /\ 1 < i + 1 /\ rest[i] = lane[i + 1]
  BY ONLY <1>1
<1>3. 1 \in DOMAIN lane
  BY ONLY <1>1
<1>4. \A i, j \in DOMAIN rest : i < j => i + 1 < j + 1
  BY ONLY <1>1
<1>5. Sorted(rest, tick)
  BY <1>2, <1>4 DEF Sorted
<1>6. ASSUME NEW m \in Messages, Holds(rest, m), Head(lane) \in Messages
      PROVE  tick[Head(lane)] < tick[m]
  <2>1. PICK i \in DOMAIN rest : rest[i] = m
    BY <1>6 DEF Holds
  <2>2. lane[i + 1] = m /\ lane[1] = Head(lane)
    BY <1>1, <1>2, <2>1
  <2> QED BY <1>2, <1>3, <1>6, <2>1, <2>2 DEF Sorted
<1> QED BY <1>5, <1>6 DEF rest

-----------------------------------------------------------------------------
(* OrderInv is inductive, relative to IInv.                                *)

\* Only a push gives a ticket.
LEMMA TicketSteps ==
    [Next]_vars => (\E a \in Actors : DispatchPush(a)) \/ UNCHANGED <<ticket, nextTicket>>
  BY DEF Next, Step, vars, history, DispatchDelegate, DispatchStep, DispatchCheckThread,
         DispatchRejected, DispatchDropped, DispatchFaults, DispatchBlocks, DispatchExpires,
         DispatchTimedOut, WorkerStep, Started, Sleep, IdleDue, RunIdle, DequeueMessage,
         DequeueExit, InvokeReturns, InvokeThrows, ExitBegin, ExitStep, ExitCancel, ExitJoin,
         ExitDetach, ExitReset, ExitCleanup, CreateBegin, CreateStep, CreateEmplace, CreateReturns

\* What DispatchDelegate() pushes: a message that is in no lane.
LEMMA PushedMessage ==
    ASSUME IInv, NEW a \in Actors, DispatchPush(a)
    PROVE  dmsg[a] \in Messages /\ fate[dmsg[a]] = "offered"
           /\ ~Holds(high, dmsg[a]) /\ ~Holds(normal, dmsg[a])
<1>1. MessageTypes
  BY TypeParts DEF IInv
<1>2. dmsg[a] \in Messages /\ fate[dmsg[a]] = "offered"
  BY <1>1 DEF DispatchPush, HoldsLock, IInv, FateInv, DispatchInv, MessageTypes
<1> QED BY <1>2 DEF IInv, FateInv, QueuedInv

\* A push gets the next ticket and goes to the back of its lane.
LEMMA OrderPush ==
    ASSUME IInv, OrderInv, NEW a \in Actors, DispatchPush(a)
    PROVE  OrderInv'
<1> DEFINE m == dmsg[a]
<1>1. /\ m \in Messages /\ ~Holds(high, m) /\ ~Holds(normal, m)
      /\ high \in Seq(Messages) /\ normal \in Seq(Messages \cup {ExitMsg})
      /\ ticket \in [Messages -> Nat] /\ nextTicket \in Nat
  BY PushedMessage, TypeParts DEF IInv, LaneTypes, MessageTypes
<1>2. ticket' = [ticket EXCEPT ![m] = nextTicket] /\ nextTicket' = nextTicket + 1
  BY DEF DispatchPush
<1>3. /\ \A n \in Messages : ticket[n] \in Nat /\ ticket[n] < nextTicket
      /\ \A n \in Messages \ {m} : ticket'[n] = ticket[n]
      /\ ticket'[m] = nextTicket
  BY <1>1, <1>2 DEF OrderInv
<1>4. \/ high' = PushBack(high, m) /\ normal' = normal
      \/ normal' = PushBack(normal, m) /\ high' = high
  BY DEF DispatchPush
<1> HIDE DEF m
<1>5. \A n \in Messages : ticket'[n] < nextTicket'
  BY ONLY <1>1, <1>2, <1>3
<1>6. /\ \A n \in Messages \ {m} : ticket'[n] = ticket[n] /\ ticket[n] < ticket'[m]
      /\ Sorted(high, ticket) /\ Sorted(normal, ticket)
  BY <1>3 DEF OrderInv
<1>7. ASSUME NEW S, NEW lane \in Seq(S), Sorted(lane, ticket), ~Holds(lane, m)
      PROVE  Sorted(lane, ticket')
  BY <1>6, <1>7 DEF Sorted, Holds
<1>8. Sorted(high, ticket') /\ Sorted(normal, ticket')
  BY <1>1, <1>6, <1>7
<1>9. Sorted(PushBack(high, m), ticket') /\ Sorted(PushBack(normal, m), ticket')
  <2>1. Sorted(PushBack(high, m), ticket')
    <3>1. m \in Messages \cap Messages
      BY <1>1
    <3> QED BY <1>1, <1>6, <3>1, PushSorted
  <2>2. Sorted(PushBack(normal, m), ticket')
    <3>1. m \in (Messages \cup {ExitMsg}) \cap Messages
      BY <1>1
    <3> QED BY <1>1, <1>6, <3>1, PushSorted
  <2> QED BY <2>1, <2>2
<1>10. Sorted(high', ticket') /\ Sorted(normal', ticket')
  BY <1>4, <1>8, <1>9
<1> QED BY <1>5, <1>10 DEF OrderInv

\* No step brings a lane out of order.
LEMMA OrderStep == IInv /\ OrderInv /\ [Next]_vars => OrderInv'
<1> SUFFICES ASSUME IInv, OrderInv, [Next]_vars PROVE OrderInv'
  OBVIOUS
<1>1. high \in Seq(Messages) /\ normal \in Seq(Messages \cup {ExitMsg})
  BY TypeParts DEF IInv, LaneTypes
<1>2. Sorted(<<>>, ticket) /\ Sorted(<<ExitMsg>>, ticket)
  BY Constants DEF Sorted
<1>3. /\ high # <<>> => Sorted(Tail(high), ticket)
      /\ normal # <<>> => Sorted(Tail(normal), ticket)
  BY <1>1, PopSorted DEF OrderInv
<1>4. Sorted(PushBack(normal, ExitMsg), ticket)
  BY <1>1, PushExitSorted DEF OrderInv
<1>5. CASE \E a \in Actors : DispatchPush(a)
  BY <1>5, OrderPush
<1>6. CASE UNCHANGED <<ticket, nextTicket>>
  <2>1. ASSUME NEW w \in Workers, DequeueMessage(w) \/ DequeueExit(w)
        PROVE  Sorted(high', ticket) /\ Sorted(normal', ticket)
    BY <1>3, <2>1 DEF DequeueMessage, DequeueExit, HighFirst, OrderInv
  <2>2. ASSUME NEW a \in Exiters, ExitReset(a)
        PROVE  Sorted(high', ticket) /\ Sorted(normal', ticket)
    BY <1>2, <2>2 DEF ExitReset, SwapLanes
  <2>3. ASSUME NEW a \in Exiters, NEW exitPolicy \in {"DRAIN", "DISCARD"}, ExitBegin(a, exitPolicy)
        PROVE  Sorted(high', ticket) /\ Sorted(normal', ticket)
    BY <1>2, <1>4, <2>3 DEF ExitBegin, SwapLanes, OrderInv
  <2>4. Sorted(high', ticket) /\ Sorted(normal', ticket)
    <3>1. CASE UNCHANGED <<high, normal>>
      BY <3>1 DEF OrderInv
    <3>2. ASSUME NEW a \in Actors, DispatchPush(a), nextTicket' = nextTicket PROVE FALSE
      <4>1. nextTicket' = nextTicket + 1 /\ nextTicket \in Nat
        BY <3>2, TypeParts DEF DispatchPush, IInv, MessageTypes
      <4> QED BY <3>2, <4>1
    <3> QED BY <1>6, <2>1, <2>2, <2>3, <3>1, <3>2, LaneSteps DEF LaneStep
  <2> QED BY <1>6, <2>4 DEF OrderInv
<1> QED BY <1>5, <1>6, TicketSteps

-----------------------------------------------------------------------------
(* Every step of the thread is a step of Mailbox, or none.                 *)

\* A step that moves a set of messages does the same to Mailbox's view of them.
LEMMA AbstractMove ==
    ASSUME NEW S \in SUBSET Messages, NEW to, to # "offered", SetFate(S, to),
           UNCHANGED <<ticket, nextTicket>>
    PROVE  Abstract!Move(S, to)
  BY DEF SetFate, Abstract!Move

\* A step that changes no fate is invisible to Mailbox.
LEMMA AbstractStutter ==
    ASSUME UNCHANGED <<ticket, nextTicket>>, UNCHANGED fate
    PROVE  UNCHANGED Abstract!vars
  BY DEF Abstract!vars

\* DispatchDelegate() turns a caller away: Mailbox refuses the message.
LEMMA AbstractRefuse ==
    ASSUME NEW m \in Messages, fate[m] \in {"new", "offered"}, SetFate({m}, "refused"),
           UNCHANGED <<ticket, nextTicket>>
    PROVE  Abstract!Refuse(m)
<1>1. Abstract!Move({m}, "refused")
  BY AbstractMove
<1> QED BY <1>1 DEF Abstract!Refuse

\* DispatchDelegate() takes the message at the door: Mailbox has not seen it yet.
LEMMA AbstractOffer ==
    ASSUME NEW m \in Messages, fate[m] = "new", SetFate({m}, "offered"),
           UNCHANGED <<ticket, nextTicket>>
    PROVE  UNCHANGED Abstract!vars
  BY DEF SetFate, Abstract!vars

\* The push under the lock is Mailbox's acceptance.
LEMMA AbstractAccept ==
    ASSUME NEW m \in Messages, fate[m] = "offered", SetFate({m}, "queued"),
           ticket' = [ticket EXCEPT ![m] = nextTicket], nextTicket' = nextTicket + 1
    PROVE  Abstract!Accept(m)
  BY DEF SetFate, Abstract!Accept

\* What DISCARD and the cleanup swap out is everything that waits, or nothing.
LEMMA AbstractDiscard ==
    ASSUME SetFate(WithFate("queued"), "discarded"), UNCHANGED <<ticket, nextTicket>>,
           fate \in [Messages -> Fates]
    PROVE  Abstract!Discard \/ UNCHANGED Abstract!vars
<1>1. Abstract!Pending = WithFate("queued")
  BY DEF Abstract!Pending, WithFate
<1>2. CASE WithFate("queued") = {}
  <2>1. UNCHANGED fate
    BY <1>2 DEF SetFate
  <2> QED BY <2>1, AbstractStutter
<1>3. CASE WithFate("queued") # {}
  <2>1. Abstract!Move(WithFate("queued"), "discarded")
    BY AbstractMove DEF WithFate
  <2> QED BY <1>1, <1>3, <2>1 DEF Abstract!Discard
<1> QED BY <1>2, <1>3

\* CancelAll() cancels everything that was thrown away, or nothing.
LEMMA AbstractCancel ==
    ASSUME CancelAll, UNCHANGED <<ticket, nextTicket>>, fate \in [Messages -> Fates]
    PROVE  Abstract!Cancel \/ UNCHANGED Abstract!vars
<1>1. Abstract!Discarded = WithFate("discarded")
  BY DEF Abstract!Discarded, WithFate
<1>2. CASE WithFate("discarded") = {}
  <2>1. UNCHANGED fate
    BY <1>2 DEF CancelAll, SetFate
  <2> QED BY <2>1, AbstractStutter
<1>3. CASE WithFate("discarded") # {}
  <2>1. Abstract!Move(WithFate("discarded"), "cancelled")
    BY AbstractMove DEF CancelAll, WithFate
  <2> QED BY <1>1, <1>3, <2>1 DEF Abstract!Cancel
<1> QED BY <1>2, <1>3

\* What Process() takes precedes everything else that waits.
LEMMA AbstractDeliver ==
    ASSUME IInv, OrderInv, NEW w \in Workers, DequeueMessage(w)
    PROVE  \E m \in Messages : Abstract!Deliver(m)
<1>1. /\ high \in Seq(Messages) /\ normal \in Seq(Messages \cup {ExitMsg})
      /\ wmsg \in [Workers -> Messages \cup {NoMsg}]
      /\ Sorted(high, ticket) /\ Sorted(normal, ticket)
      /\ \A m \in Messages : fate[m] = "queued" <=> Holds(high, m) \/ Holds(normal, m)
      /\ \A m \in Messages : Holds(high, m) => m \in HighMsgs
      /\ \A m \in HighMsgs : ~Holds(normal, m)
  BY TypeParts DEF IInv, LaneTypes, MessageTypes, OrderInv, FateInv, QueuedInv
<1>2. Abstract!Pending = {m \in Messages : Holds(high, m) \/ Holds(normal, m)}
  BY <1>1 DEF Abstract!Pending
<1>3. ASSUME NEW m \in Messages, wmsg'[w] = m, m \in Abstract!Pending,
             \A n \in Abstract!Pending \ {m} : Abstract!Precedes(m, n)
      PROVE  Abstract!Deliver(m)
  <2>1. Abstract!Move({m}, "running")
    BY <1>3, AbstractMove DEF DequeueMessage
  <2> QED BY <1>3, <2>1 DEF Abstract!Deliver
<1>4. CASE HighFirst
  <2> DEFINE m == Head(high)
  <2>1. high # <<>> /\ m \in Messages /\ wmsg'[w] = m
    BY <1>1, <1>4, LaneOps DEF DequeueMessage, HighFirst
  <2>2. /\ Holds(high, m)
        /\ \A n \in Messages : Holds(high, n) => n = m \/ ticket[m] < ticket[n]
    <3>1. \A n : Holds(high, n) <=> Holds(Tail(high), n) \/ n = Head(high)
      BY <1>1, <2>1, PopHolds
    <3> QED BY <1>1, <2>1, <3>1, PopSorted
  <2> HIDE DEF m
  <2>3. \A n \in Abstract!Pending \ {m} : Abstract!Precedes(m, n)
    BY <1>1, <1>2, <2>1, <2>2 DEF Abstract!Precedes
  <2> QED BY <1>2, <1>3, <2>1, <2>2, <2>3
<1>5. CASE ~HighFirst
  <2> DEFINE m == Head(normal)
  <2>1. high = <<>> /\ normal # <<>> /\ m \in Messages /\ wmsg'[w] = m
    <3>1. high = <<>> /\ normal # <<>> /\ m # ExitMsg /\ wmsg' = [wmsg EXCEPT ![w] = m]
      BY <1>5 DEF DequeueMessage, HighFirst, IsDelegateMsg
    <3>2. m \in Messages \cup {ExitMsg}
      BY <1>1, <3>1, LaneOps
    <3> QED BY <1>1, <3>1, <3>2
  <2>2. /\ Holds(normal, m)
        /\ \A n \in Messages : Holds(normal, n) => n = m \/ ticket[m] < ticket[n]
    <3>1. \A n : Holds(normal, n) <=> Holds(Tail(normal), n) \/ n = Head(normal)
      BY <1>1, <2>1, PopHolds
    <3> QED BY <1>1, <2>1, <3>1, PopSorted
  <2>3. \A n : ~Holds(high, n)
    BY <2>1, SwappedHolds
  <2> HIDE DEF m
  <2>4. \A n \in Abstract!Pending \ {m} : Abstract!Precedes(m, n)
    BY <1>1, <1>2, <2>1, <2>2, <2>3 DEF Abstract!Precedes
  <2> QED BY <1>2, <1>3, <2>1, <2>2, <2>4
<1> QED BY <1>4, <1>5

\* A handler that returns completes its message.
LEMMA AbstractComplete ==
    ASSUME IInv, NEW w \in Workers, InvokeReturns(w)
    PROVE  \E m \in Messages : Abstract!Complete(m)
<1>1. PICK m \in Messages : m = wmsg[w] /\ fate[m] = "running"
  BY TypeParts DEF IInv, MessageTypes, FateInv, RunningInv, InvokeReturns, InHandler
<1>2. Abstract!Move({m}, "invoked")
  BY <1>1, AbstractMove DEF InvokeReturns
<1> QED BY <1>1, <1>2 DEF Abstract!Complete

\* A step of a caller is a step of Mailbox for its message, or none.
LEMMA AbstractDispatch ==
    ASSUME IInv, NEW a \in Actors,
           DispatchStep(a) \/ \E m \in Messages : DispatchDelegate(a, m)
    PROVE  (\E m \in Messages : Abstract!Accept(m) \/ Abstract!Refuse(m)) \/ UNCHANGED Abstract!vars
<1>1. dpc[a] # "ready" => dmsg[a] \in Messages /\ fate[dmsg[a]] = "offered"
  BY TypeParts DEF IInv, MessageTypes, FateInv, DispatchInv
<1>2. ASSUME NEW m \in Messages, DispatchDelegate(a, m)
      PROVE  Abstract!Refuse(m) \/ UNCHANGED Abstract!vars
  <2>1. CASE exit
    <3>1. fate[m] = "new" /\ SetFate({m}, "refused") /\ UNCHANGED <<ticket, nextTicket>>
      BY <1>2, <2>1 DEF DispatchDelegate, Return
    <3> QED BY <3>1, AbstractRefuse
  <2>2. CASE ~exit
    <3>1. fate[m] = "new" /\ SetFate({m}, "offered") /\ UNCHANGED <<ticket, nextTicket>>
      BY <1>2, <2>2 DEF DispatchDelegate
    <3> QED BY <3>1, AbstractOffer
  <2> QED BY <2>1, <2>2
<1>3. ASSUME dpc[a] # "ready", SetFate({dmsg[a]}, "refused"), UNCHANGED <<ticket, nextTicket>>
      PROVE  \E m \in Messages : Abstract!Refuse(m)
  BY <1>1, <1>3, AbstractRefuse
<1>4. CASE DispatchPush(a)
  <2> DEFINE m == dmsg[a]
  <2>1. /\ m \in Messages /\ fate[m] = "offered" /\ SetFate({m}, "queued")
        /\ ticket' = [ticket EXCEPT ![m] = nextTicket] /\ nextTicket' = nextTicket + 1
    BY <1>1, <1>4 DEF DispatchPush, HoldsLock, Return
  <2> HIDE DEF m
  <2> QED BY <2>1, AbstractAccept
<1>5. CASE DispatchCheckThread(a)
  <2>1. CASE thread = NoThread
    BY <1>3, <1>5, <2>1 DEF DispatchCheckThread, Return
  <2>2. CASE thread # NoThread
    BY <1>5, <2>2, AbstractStutter DEF DispatchCheckThread
  <2> QED BY <2>1, <2>2
<1>6. CASE DispatchRejected(a) \/ DispatchDropped(a) \/ DispatchTimedOut(a)
  BY <1>3, <1>6 DEF DispatchRejected, DispatchDropped, DispatchTimedOut, HoldsLock, Return
<1>7. CASE DispatchFaults(a) \/ DispatchBlocks(a) \/ DispatchExpires(a)
  BY <1>7, AbstractStutter DEF DispatchFaults, DispatchBlocks, DispatchExpires, history
<1> QED BY <1>2, <1>4, <1>5, <1>6, <1>7 DEF DispatchStep

\* A step of a worker delivers or completes a message, or is invisible.
LEMMA AbstractWorker ==
    ASSUME IInv, OrderInv, NEW w \in Workers, WorkerStep(w)
    PROVE  (\E m \in Messages : Abstract!Deliver(m) \/ Abstract!Complete(m)) \/ UNCHANGED Abstract!vars
<1>1. CASE DequeueMessage(w)
  BY <1>1, AbstractDeliver
<1>2. CASE InvokeReturns(w)
  BY <1>2, AbstractComplete
<1>3. CASE Started(w) \/ Sleep(w) \/ IdleDue(w) \/ RunIdle(w) \/ DequeueExit(w) \/ InvokeThrows(w)
  BY <1>3, AbstractStutter DEF Started, Sleep, IdleDue, RunIdle, DequeueExit, InvokeThrows, history
<1> QED BY <1>1, <1>2, <1>3 DEF WorkerStep

\* A step of ExitThread() throws away or cancels all it should, or is invisible.
LEMMA AbstractExit ==
    ASSUME IInv, NEW a \in Exiters,
           ExitStep(a) \/ \E exitPolicy \in {"DRAIN", "DISCARD"} : ExitBegin(a, exitPolicy)
    PROVE  Abstract!Discard \/ Abstract!Cancel \/ UNCHANGED Abstract!vars
<1>1. fate \in [Messages -> Fates]
  BY TypeParts DEF IInv, MessageTypes
<1>2. ASSUME NEW exitPolicy \in {"DRAIN", "DISCARD"}, ExitBegin(a, exitPolicy)
      PROVE  Abstract!Discard \/ UNCHANGED Abstract!vars
  <2>1. CASE exitPolicy = "DISCARD"
    BY <1>1, <1>2, <2>1, AbstractDiscard DEF ExitBegin, SwapLanes
  <2>2. CASE exitPolicy # "DISCARD"
    BY <1>2, <2>2, AbstractStutter DEF ExitBegin
  <2> QED BY <2>1, <2>2
<1>3. CASE ExitReset(a)
  BY <1>1, <1>3, AbstractDiscard DEF ExitReset, SwapLanes
<1>4. CASE ExitCancel(a) \/ ExitCleanup(a)
  BY <1>1, <1>4, AbstractCancel DEF ExitCancel, ExitCleanup
<1>5. CASE ExitJoin(a) \/ ExitDetach(a)
  BY <1>5, AbstractStutter DEF ExitJoin, ExitDetach, history
<1> QED BY <1>2, <1>3, <1>4, <1>5 DEF ExitStep

\* Together: every step of the thread is a step of Mailbox or leaves it alone.
LEMMA AbstractStep == IInv /\ OrderInv /\ [Next]_vars => [Abstract!Next]_(Abstract!vars)
<1> SUFFICES ASSUME IInv, OrderInv, [Next]_vars PROVE [Abstract!Next]_(Abstract!vars)
  OBVIOUS
<1>1. CASE CreateBegin \/ CreateStep
  BY <1>1, AbstractStutter
  DEF CreateBegin, CreateStep, CreateEmplace, CreateReturns, history
<1>2. CASE UNCHANGED vars
  BY <1>2, AbstractStutter DEF vars, history
<1> QED
  BY <1>1, <1>2, AbstractDispatch, AbstractWorker, AbstractExit DEF Next, Step, Abstract!Next

\* A StdlibThread, with its two lanes, its full-queue policies, its exits and its
\* re-creations, does with the messages what Mailbox says: it takes HIGH ahead of
\* NORMAL and first come first served within a priority, runs each accepted message
\* at most once, and throws away, then cancels, all that waits or nothing.
THEOREM RefinesMailbox == Spec => ImplementsMailbox
<1>1. Init => Abstract!Init
  BY DEF Init, Abstract!Init
<1>2. Init => OrderInv
  BY DEF Init, OrderInv, Sorted
<1> QED BY <1>1, <1>2, Invariance, OrderStep, AbstractStep, PTL
     DEF Spec, ImplementsMailbox, Abstract!Spec
=============================================================================

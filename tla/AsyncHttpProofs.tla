-------------------------- MODULE AsyncHttpProofs --------------------------
(***************************************************************************)
(* Proofs about AsyncHttp, for any clients, requests and handles.          *)
(***************************************************************************)
EXTENDS AsyncHttp, SequenceTheorems, FiniteSetTheorems, TLAPS

Busy == {"loop", "transfer", "callback", "nested"}
ShuttingDown == {"await", "exit", "join"}

\* A running client has its thread, which serves it until it is joined; m_exit is
\* set from there to the join and at no other time of a running client; and
\* the cleanup call is there from its push to the join.
LifeOK(i) ==
    /\ hasThread[i] = running[i]
    /\ wpc[i] \in Busy => running[i]
    /\ running[i] => wpc[i] \in Busy \/ (opc[i] = "join" /\ wpc[i] = "none")
    /\ opc[i] \in ShuttingDown => running[i]
    /\ opc[i] \in {"makeHandle", "startThread", "release"} => ~running[i]
    /\ running[i] => (exit[i] <=> opc[i] = "join")
    /\ cleanup[i] = "none" <=> opc[i] \notin ShuttingDown
    /\ opc[i] = "await" => cleanup[i] \in {"queued", "ran"}
    /\ opc[i] \in {"exit", "join"} => cleanup[i] \in {"ran", "withdrawn"}
    /\ wpc[i] \in {"transfer", "callback", "nested"} => task[i] \in Requests

LifeInv == \A i \in Clients : LifeOK(i)

\* What queue q of client i may hold: the exit message at its end and only while
\* the thread is joined, the cleanup message once and only until it has run, and
\* behind it no request that was accepted before shutdown() began.
QueueOK(i, q) ==
    /\ \A a \in 1 .. Len(q) :
          /\ q[a] = ExitMsg => opc[i] = "join" /\ a = Len(q)
          /\ q[a] = Cleanup => cleanup[i] \in {"queued", "withdrawn"}
          /\ q[a] \in Requests => outcome[q[a]] # "new"
          /\ q[a] \in Requests /\ inTime[q[a]] => cleanup[i] # "ran"
    /\ \A a, b \in 1 .. Len(q) :
          q[a] = Cleanup /\ (q[b] = Cleanup \/ (q[b] \in Requests /\ inTime[q[b]])) => b <= a

QueueInv ==
    \A i \in Clients : QueueOK(i, queue[i]) /\ (wpc[i] \notin Busy => queue[i] = <<>>)

\* A running client has a handle until its cleanup has run; one that is not
\* running has none, unless it missed a cleanup.
HandleOK(i) ==
    /\ opc[i] = "startThread" \/ (running[i] /\ cleanup[i] # "ran") => curl[i] # Null
    /\ cleanup[i] = "ran" => curl[i] = Null
    /\ cleanup[i] = "withdrawn" => missed[i]
    /\ ~running[i] /\ opc[i] # "startThread" => curl[i] = Null \/ missed[i]
    /\ Transferring(i) => curl[i] # Null

\* A handle that is pointed to is open, and pointed to by one client.
PointsTo ==
    /\ \A i \in Clients : curl[i] # Null => curl[i] \in live
    /\ \A i, j \in Clients : curl[i] = curl[j] /\ curl[i] # Null => i = j

NoneLost == live \subseteq {curl[i] : i \in Clients} \/ \E i \in Clients : missed[i]

HandleInv == (\A i \in Clients : HandleOK(i)) /\ PointsTo /\ NoneLost

Holders == {i \in Clients : Holds(i)}

\* The set of those that hold a reference stays finite, whatever Clients is.
CountInv == IsFiniteSet(Holders) /\ RefCountExact

IInv ==
    /\ TypeOK /\ LifeInv /\ QueueInv /\ HandleInv /\ ServedBeforeCleanup
    /\ StrictShutdown => CountInv

-----------------------------------------------------------------------------
(* Type correctness, by the kind of state.                                 *)

CurlTypes ==
    /\ refCount \in Nat /\ orphans \in Nat /\ curlUp \in BOOLEAN
    /\ live \subseteq made /\ made \subseteq Handles
    /\ curl \in [Clients -> Handles \cup {Null}]

ClientTypes ==
    /\ running \in [Clients -> BOOLEAN]
    /\ hasThread \in [Clients -> BOOLEAN] /\ exit \in [Clients -> BOOLEAN]
    /\ wpc \in [Clients -> {"none", "loop", "transfer", "callback", "nested", "leaving"}]
    /\ task \in [Clients -> Requests \cup {Null}]
    /\ opc \in [Clients -> {"ready", "makeHandle", "startThread", "await", "exit", "join", "release"}]
    /\ cleanup \in [Clients -> {"none", "queued", "ran", "withdrawn"}]
    /\ missed \in [Clients -> BOOLEAN]

RequestTypes ==
    /\ outcome \in [Requests -> {"new", "pending"} \cup Answers \cup Refusals]
    /\ client \in [Requests -> Clients \cup {Null}]
    /\ inTime \in [Requests -> BOOLEAN]

QueueTypes == queue \in [Clients -> Seq(Tasks)]

\* TypeOK is the four together.
LEMMA TypeParts == TypeOK <=> CurlTypes /\ ClientTypes /\ RequestTypes /\ QueueTypes
  BY DEF TypeOK, CurlTypes, ClientTypes, RequestTypes, QueueTypes

LEMMA TypePartsNext == TypeOK' <=> (CurlTypes /\ ClientTypes /\ RequestTypes /\ QueueTypes)'
  BY DEF TypeOK, CurlTypes, ClientTypes, RequestTypes, QueueTypes

\* An operation of the owner or a step of the worker is a step of one client.
ClientStep(i) ==
    \/ AddRef(i) \/ Shutdown(i) \/ OwnerStep(i)
    \/ WorkerStep(i) \/ CallbackReturns(i) \/ NestedTransfer(i) \/ ShutdownInCallback(i)
    \/ \E r \in Requests : Request(r, i)

LEMMA StepCases ==
    [Next]_vars => \/ \E i \in Clients : ClientStep(i)
                   \/ \E r \in Requests : RequestTimesOut(r)
                   \/ UNCHANGED vars
  BY DEF Next, Step, ClientStep

\* The process-wide state and the handles.
LEMMA CurlTypesStep == CurlTypes /\ [Next]_vars => CurlTypes'
<1> SUFFICES ASSUME CurlTypes, [Next]_vars PROVE CurlTypes'
  OBVIOUS
<1> USE DEF CurlTypes, curlVars
<1>1. ASSUME NEW i \in Clients, AddRef(i) \/ MakeHandle(i) \/ MakeHandleFails(i) PROVE CurlTypes'
  <2>1. CASE AddRef(i)
    BY <2>1 DEF AddRef
  <2>3. CASE MakeHandleFails(i)
    BY <2>3 DEF MakeHandleFails
  <2>2. CASE MakeHandle(i)
    <3>1. PICK h \in Handles \ made :
            /\ curl' = [curl EXCEPT ![i] = h]
            /\ live' = live \cup {h} /\ made' = made \cup {h}
      BY <2>2 DEF MakeHandle
    <3>2. UNCHANGED <<refCount, orphans, curlUp>>
      BY <2>2 DEF MakeHandle
    <3> QED BY <3>1, <3>2
  <2> QED BY <1>1, <2>1, <2>2, <2>3
<1>2. ASSUME NEW i \in Clients, Release(i) PROVE CurlTypes'
  BY <1>2 DEF Release, GlobalRelease
<1>3. ASSUME NEW i \in Clients, RunCleanup(i) PROVE CurlTypes'
  BY <1>3 DEF RunCleanup, ClearHandle
<1>4. CASE UNCHANGED curlVars
  BY <1>4
<1> QED
  BY <1>1, <1>2, <1>3, <1>4, StepCases
     DEF vars, ClientStep, OwnerStep, WorkerStep, StartThread, Shutdown, CleanupDone,
         CleanupTimesOut, BeginExit, JoinThread, Request, RequestTimesOut, SkipRequest,
         NotInitialized, BeginTransfer, EndTransfer, NestedTransfer, CallbackReturns, RunExit,
         ShutdownInCallback

\* Where owners and workers are.
LEMMA ClientTypesStep == ClientTypes /\ [Next]_vars => ClientTypes'
<1> SUFFICES ASSUME ClientTypes, [Next]_vars PROVE ClientTypes'
  OBVIOUS
<1> USE DEF ClientTypes, workerVars, ownerVars, threadVars
<1>1. ASSUME NEW i \in Clients, AddRef(i) \/ Shutdown(i) PROVE ClientTypes'
  BY <1>1 DEF AddRef, Shutdown
<1>2. ASSUME NEW i \in Clients, OwnerStep(i) PROVE ClientTypes'
  BY <1>2 DEF OwnerStep, MakeHandle, MakeHandleFails, StartThread, CleanupDone, CleanupTimesOut,
              BeginExit, JoinThread, Release
<1>3. ASSUME NEW i \in Clients, WorkerStep(i) PROVE ClientTypes'
  BY <1>3 DEF WorkerStep, SkipRequest, NotInitialized, BeginTransfer, EndTransfer, RunCleanup,
              RunExit, AfterAnswer
<1>4. ASSUME NEW i \in Clients, CallbackReturns(i) \/ NestedTransfer(i) \/ ShutdownInCallback(i)
      PROVE  ClientTypes'
  BY <1>4 DEF CallbackReturns, NestedTransfer, ShutdownInCallback
<1>5. ASSUME NEW r \in Requests, RequestTimesOut(r) \/ \E i \in Clients : Request(r, i)
      PROVE  ClientTypes'
  BY <1>5 DEF RequestTimesOut, Request
<1>6. CASE UNCHANGED vars
  BY <1>6 DEF vars
<1> QED BY <1>1, <1>2, <1>3, <1>4, <1>5, <1>6, StepCases DEF ClientStep

\* What a refused caller gets.
LEMMA RefusedType == \A r \in Requests : Refused(r) \in Refusals
<1> SUFFICES ASSUME NEW r \in Requests PROVE Refused(r) \in Refusals
  OBVIOUS
<1>1. CASE r \in WaitRequests
  BY <1>1, HttpAssumption, Zenon DEF Refused, Refusals
<1>2. CASE r \in CallbackRequests
  BY <1>2, HttpAssumption, Zenon DEF Refused, Refusals
<1>3. CASE r \in FutureRequests
  BY <1>3, HttpAssumption, Zenon DEF Refused, Refusals
<1> QED BY <1>1, <1>2, <1>3 DEF Requests

\* What the callers have got.
LEMMA RequestTypesStep == RequestTypes /\ [Next]_vars => RequestTypes'
<1> SUFFICES ASSUME RequestTypes, [Next]_vars PROVE RequestTypes'
  OBVIOUS
<1> USE DEF RequestTypes, requestVars, Answers, Refusals
<1>1. ASSUME NEW i \in Clients, NEW r \in Requests, Request(r, i) PROVE RequestTypes'
  BY <1>1, RefusedType DEF Request
<1>2. ASSUME NEW r \in Requests, RequestTimesOut(r) PROVE RequestTypes'
  BY <1>2 DEF RequestTimesOut
<1>3. ASSUME NEW i \in Clients, NotInitialized(i) \/ EndTransfer(i) PROVE RequestTypes'
  BY <1>3 DEF NotInitialized, EndTransfer, Answer
<1>4. ASSUME NEW i \in Clients, ShutdownInCallback(i) PROVE RequestTypes'
  BY <1>4, RefusedType DEF ShutdownInCallback, CancelQueued
<1>5. CASE UNCHANGED requestVars
  BY <1>5
<1> QED
  BY <1>1, <1>2, <1>3, <1>4, <1>5, StepCases
     DEF vars, ClientStep, AddRef, OwnerStep, MakeHandle, MakeHandleFails, StartThread, Shutdown,
         CleanupDone, CleanupTimesOut, BeginExit, JoinThread, Release, WorkerStep, SkipRequest,
         BeginTransfer, RunCleanup, RunExit, NestedTransfer, CallbackReturns

\* Push and Pop keep the queues sequences of tasks.
LEMMA QueueTypesStep == QueueTypes /\ [Next]_vars => QueueTypes'
<1> SUFFICES ASSUME QueueTypes, [Next]_vars PROVE QueueTypes'
  OBVIOUS
<1> USE DEF QueueTypes
<1>1. ASSUME NEW i \in Clients, NEW t \in Tasks, queue' = Push(i, t) PROVE QueueTypes'
  <2>1. Append(queue[i], t) \in Seq(Tasks)
    BY AppendProperties
  <2> QED BY <1>1, <2>1 DEF Push
<1>2. ASSUME NEW i \in Clients, NEW t, AtHead(i, t), queue' = Pop(i) PROVE QueueTypes'
  <2>1. Tail(queue[i]) \in Seq(Tasks)
    BY <1>2, HeadTailProperties DEF AtHead
  <2> QED BY <1>2, <2>1 DEF Pop
<1>3. ASSUME NEW i \in Clients, ShutdownInCallback(i) PROVE QueueTypes'
  BY <1>3 DEF ShutdownInCallback
<1>4. CASE UNCHANGED queue
  BY <1>4
<1>5. Cleanup \in Tasks /\ ExitMsg \in Tasks /\ Requests \subseteq Tasks
  BY DEF Tasks
<1>6. ASSUME NEW i \in Clients, Shutdown(i) \/ BeginExit(i) PROVE QueueTypes'
  BY <1>1, <1>4, <1>5, <1>6 DEF Shutdown, BeginExit, PushCleanup
<1>7. ASSUME NEW i \in Clients, NEW r \in Requests, Request(r, i) PROVE QueueTypes'
  BY <1>1, <1>4, <1>5, <1>7 DEF Request
<1>8. ASSUME NEW i \in Clients, WorkerStep(i) PROVE QueueTypes'
  BY <1>2, <1>4, <1>8
     DEF WorkerStep, SkipRequest, NotInitialized, BeginTransfer, EndTransfer, RunCleanup, RunExit,
         threadVars
<1> QED
  BY <1>3, <1>4, <1>6, <1>7, <1>8, StepCases
     DEF vars, threadVars, ClientStep, AddRef, OwnerStep, MakeHandle, MakeHandleFails, StartThread,
         CleanupDone, CleanupTimesOut, JoinThread, Release, NestedTransfer, CallbackReturns,
         RequestTimesOut

\* TypeOK is inductive as it stands.
LEMMA TypeStep == TypeOK /\ [Next]_vars => TypeOK'
  BY TypeParts, TypePartsNext, CurlTypesStep, ClientTypesStep, RequestTypesStep, QueueTypesStep

-----------------------------------------------------------------------------
(* The life of a client and of its thread.                                 *)

\* The exit message is run while the thread is joined, and is the last.
LEMMA ExitIsLast ==
    ASSUME TypeOK, QueueInv, NEW i \in Clients, AtHead(i, ExitMsg)
    PROVE  opc[i] = "join" /\ Tail(queue[i]) = <<>>
<1> DEFINE q == queue[i]
           rest == Tail(q)
<1>1. q \in Seq(Tasks) /\ q # <<>> /\ Head(q) = ExitMsg
  BY DEF TypeOK, AtHead
<1>2. /\ Len(q) \in Nat /\ Len(q) > 0 /\ q[1] = ExitMsg
      /\ rest \in Seq(Tasks) /\ Len(rest) = Len(q) - 1
  BY <1>1, HeadTailProperties, EmptySeq
<1>3. \A a \in 1 .. Len(q) : q[a] = ExitMsg => opc[i] = "join" /\ a = Len(q)
  BY DEF QueueInv, QueueOK
<1> HIDE DEF q, rest
<1>4. opc[i] = "join" /\ Len(q) = 1
  BY <1>2, <1>3
<1>5. Len(rest) = 0
  BY <1>2, <1>4
<1>6. rest = <<>>
  BY <1>2, <1>5, EmptySeq
<1> QED BY <1>4, <1>6 DEF q, rest

\* A step of one client leaves the others where they are.
SameClient(j) ==
    /\ curl'[j] = curl[j] /\ running'[j] = running[j] /\ queue'[j] = queue[j]
    /\ hasThread'[j] = hasThread[j] /\ exit'[j] = exit[j] /\ task'[j] = task[j]
    /\ wpc'[j] = wpc[j] /\ opc'[j] = opc[j] /\ cleanup'[j] = cleanup[j] /\ missed'[j] = missed[j]

LEMMA OneClient ==
    ASSUME TypeOK, NEW i \in Clients, ClientStep(i), NEW j \in Clients \ {i}
    PROVE  SameClient(j)
<1>0. CurlTypes /\ ClientTypes /\ QueueTypes
  BY TypeParts
<1> USE <1>0 DEF SameClient, CurlTypes, ClientTypes, QueueTypes, curlVars, threadVars, workerVars, ownerVars
<1>1. CASE AddRef(i) \/ Shutdown(i)
  BY <1>1 DEF AddRef, Shutdown, PushCleanup, Push
<1>2. CASE OwnerStep(i)
  BY <1>2 DEF OwnerStep, MakeHandle, MakeHandleFails, StartThread, CleanupDone, CleanupTimesOut,
              BeginExit, JoinThread, Release, Push
<1>3. CASE WorkerStep(i)
  BY <1>3 DEF WorkerStep, SkipRequest, NotInitialized, BeginTransfer, EndTransfer, RunCleanup, RunExit,
              AfterAnswer, ClearHandle, Pop
<1>4. CASE CallbackReturns(i) \/ NestedTransfer(i)
  BY <1>4 DEF CallbackReturns, NestedTransfer
<1>5. CASE ShutdownInCallback(i)
  BY <1>5 DEF ShutdownInCallback
<1>6. CASE \E r \in Requests : Request(r, i)
  BY <1>6 DEF Request, Push
<1> QED BY <1>1, <1>2, <1>3, <1>4, <1>5, <1>6 DEF ClientStep

\* Each step leaves a client at a point that fits its thread, its flags and its
\* cleanup call.
LEMMA LifeOKStep ==
    ASSUME TypeOK, LifeInv, QueueInv, NEW i \in Clients, ClientStep(i)
    PROVE  LifeOK(i)'
<1>0. ClientTypes /\ LifeOK(i)
  BY TypeParts DEF LifeInv
<1> USE <1>0 DEF ClientTypes, LifeOK, Busy, ShuttingDown, workerVars, ownerVars, threadVars
<1>1. CASE AddRef(i)
  BY <1>1 DEF AddRef
<1>2. CASE Shutdown(i)
  BY <1>2 DEF Shutdown
<1>3. CASE MakeHandle(i)
  BY <1>3 DEF MakeHandle
<1>4. CASE MakeHandleFails(i)
  BY <1>4 DEF MakeHandleFails
<1>5. CASE StartThread(i)
  BY <1>5 DEF StartThread
<1>6. CASE CleanupDone(i)
  BY <1>6 DEF CleanupDone
<1>7. CASE CleanupTimesOut(i)
  BY <1>7 DEF CleanupTimesOut
<1>8. CASE BeginExit(i)
  BY <1>8 DEF BeginExit
<1>9. CASE JoinThread(i)
  BY <1>9 DEF JoinThread
<1>10. CASE Release(i)
  BY <1>10 DEF Release
<1>11. CASE SkipRequest(i)
  BY <1>11 DEF SkipRequest, AtHead
<1>12. CASE NotInitialized(i)
  BY <1>12 DEF NotInitialized, AfterAnswer, AtHead
<1>13. CASE BeginTransfer(i)
  BY <1>13 DEF BeginTransfer, AtHead
<1>14. CASE EndTransfer(i)
  BY <1>14 DEF EndTransfer, AfterAnswer
<1>15. CASE RunCleanup(i)
  BY <1>15 DEF RunCleanup, AtHead
<1>16. CASE RunExit(i)
  BY <1>16, ExitIsLast DEF RunExit, AtHead
<1>17. CASE CallbackReturns(i)
  BY <1>17 DEF CallbackReturns
<1>18. CASE NestedTransfer(i)
  BY <1>18 DEF NestedTransfer
<1>19. CASE ShutdownInCallback(i)
  BY <1>19 DEF ShutdownInCallback
<1>20. CASE \E r \in Requests : Request(r, i)
  BY <1>20 DEF Request
<1> QED
  BY <1>1, <1>2, <1>3, <1>4, <1>5, <1>6, <1>7, <1>8, <1>9, <1>10, <1>11,
     <1>12, <1>13, <1>14, <1>15, <1>16, <1>17, <1>18, <1>19, <1>20
  DEF ClientStep, OwnerStep, WorkerStep

\* LifeInv is inductive, relative to the queues.
LEMMA LifeStep == TypeOK /\ LifeInv /\ QueueInv /\ [Next]_vars => LifeInv'
<1> SUFFICES ASSUME TypeOK, LifeInv, QueueInv, [Next]_vars, NEW j \in Clients PROVE LifeOK(j)'
  BY DEF LifeInv
<1>1. SameClient(j) => LifeOK(j)'
  BY DEF LifeInv, LifeOK, SameClient, Busy, ShuttingDown
<1>2. ASSUME NEW i \in Clients, ClientStep(i) PROVE LifeOK(j)'
  BY <1>1, <1>2, LifeOKStep, OneClient
<1>3. CASE UNCHANGED vars \/ \E r \in Requests : RequestTimesOut(r)
  BY <1>1, <1>3 DEF vars, RequestTimesOut, SameClient, curlVars, threadVars, workerVars, ownerVars
<1> QED BY <1>2, <1>3, StepCases

-----------------------------------------------------------------------------
(* The queues.                                                             *)

\* A push adds one task at the end of one queue ...
LEMMA Pushed ==
    ASSUME TypeOK, NEW i \in Clients, NEW t \in Tasks, queue' = Push(i, t)
    PROVE  /\ \A j \in Clients \ {i} : queue'[j] = queue[j]
           /\ Len(queue[i]) \in Nat /\ Len(queue'[i]) = Len(queue[i]) + 1
           /\ \A a \in 1 .. Len(queue[i]) : queue'[i][a] = queue[i][a]
           /\ queue'[i][Len(queue[i]) + 1] = t
<1>1. queue[i] \in Seq(Tasks) /\ queue'[i] = Append(queue[i], t)
  BY DEF TypeOK, Push
<1>2. \A j \in Clients \ {i} : queue'[j] = queue[j]
  BY DEF TypeOK, Push
<1> QED BY <1>1, <1>2, AppendProperties, LenProperties

\* ... and a pop takes the first one away.
LEMMA Popped ==
    ASSUME TypeOK, NEW i \in Clients, NEW t, AtHead(i, t), queue' = Pop(i)
    PROVE  /\ \A j \in Clients \ {i} : queue'[j] = queue[j]
           /\ Len(queue[i]) \in Nat \ {0} /\ Len(queue'[i]) = Len(queue[i]) - 1
           /\ \A a \in 1 .. Len(queue[i]) - 1 : queue'[i][a] = queue[i][a + 1]
           /\ queue[i][1] = t
<1>1. queue[i] \in Seq(Tasks) /\ queue'[i] = Tail(queue[i]) /\ queue[i] # <<>> /\ Head(queue[i]) = t
  BY DEF TypeOK, Pop, AtHead
<1>2. \A j \in Clients \ {i} : queue'[j] = queue[j]
  BY DEF TypeOK, Pop
<1>3. Len(queue[i]) \in Nat \ {0} /\ queue[i][1] = t
  BY <1>1, EmptySeq
<1> QED BY <1>1, <1>2, <1>3, HeadTailProperties

\* A request that was made once is made for good, and so is its time.
MadeForGood == \A r \in Requests : outcome[r] # "new" => outcome'[r] # "new" /\ inTime'[r] = inTime[r]

LEMMA RequestsStep == TypeOK /\ [Next]_vars => MadeForGood
<1> SUFFICES ASSUME TypeOK, [Next]_vars PROVE MadeForGood
  OBVIOUS
<1>0. RequestTypes
  BY TypeParts
<1> USE <1>0 DEF RequestTypes, MadeForGood, requestVars, Answers, Refusals
<1>1. ASSUME NEW i \in Clients, NEW r \in Requests, Request(r, i) PROVE MadeForGood
  BY <1>1 DEF Request
<1>2. ASSUME NEW r \in Requests, RequestTimesOut(r) PROVE MadeForGood
  BY <1>2 DEF RequestTimesOut
<1>3. ASSUME NEW i \in Clients, NotInitialized(i) \/ EndTransfer(i) PROVE MadeForGood
  BY <1>3 DEF NotInitialized, EndTransfer, Answer
<1>4. ASSUME NEW i \in Clients, ShutdownInCallback(i) PROVE MadeForGood
  BY <1>4, RefusedType DEF ShutdownInCallback, CancelQueued
<1>5. CASE UNCHANGED requestVars
  BY <1>5
<1> QED
  BY <1>1, <1>2, <1>3, <1>4, <1>5, StepCases
     DEF vars, ClientStep, AddRef, OwnerStep, MakeHandle, MakeHandleFails, StartThread, Shutdown,
         CleanupDone, CleanupTimesOut, BeginExit, JoinThread, Release, WorkerStep, SkipRequest,
         BeginTransfer, RunCleanup, RunExit, NestedTransfer, CallbackReturns

\* What QueueOK says of client i depends on opc[i] and cleanup[i] only; a queue
\* that is kept, or loses its first task, stays well-formed while they do not
\* go back.
QueueKept(i) ==
    /\ opc[i] = "join" => opc'[i] = "join"
    /\ cleanup[i] \in {"queued", "withdrawn"} => cleanup'[i] \in {"queued", "withdrawn"}
    /\ cleanup'[i] = "ran" => cleanup[i] = "ran"

LEMMA KeptQueueOK ==
    ASSUME QueueInv, MadeForGood, NEW i \in Clients, queue'[i] = queue[i], QueueKept(i)
    PROVE  QueueOK(i, queue[i])'
<1> DEFINE q == queue[i]
<1>1. QueueOK(i, q)
  BY DEF QueueInv
<1>2. \A a \in 1 .. Len(q) :
          /\ q[a] = ExitMsg => opc'[i] = "join" /\ a = Len(q)
          /\ q[a] = Cleanup => cleanup'[i] \in {"queued", "withdrawn"}
          /\ q[a] \in Requests => outcome'[q[a]] # "new" /\ inTime'[q[a]] = inTime[q[a]]
          /\ q[a] \in Requests /\ inTime'[q[a]] => cleanup'[i] # "ran"
  BY <1>1 DEF QueueOK, QueueKept, MadeForGood
<1>3. \A a, b \in 1 .. Len(q) :
          q[a] = Cleanup /\ (q[b] = Cleanup \/ (q[b] \in Requests /\ inTime'[q[b]])) => b <= a
  BY <1>1, <1>2 DEF QueueOK
<1> QED BY <1>2, <1>3 DEF QueueOK

LEMMA PoppedQueueOK ==
    ASSUME TypeOK, QueueInv, MadeForGood, NEW i \in Clients, NEW t, AtHead(i, t), queue' = Pop(i),
           QueueKept(i) \/ (t = Cleanup /\ UNCHANGED opc)
    PROVE  QueueOK(i, queue[i])'
<1> DEFINE q == queue[i]
           rest == queue'[i]
<1>1. /\ Len(q) \in Nat \ {0} /\ Len(rest) = Len(q) - 1
      /\ \A a \in 1 .. Len(q) - 1 : rest[a] = q[a + 1]
      /\ q[1] = t
  BY Popped
<1>2. QueueOK(i, q)
  BY DEF QueueInv
<1> HIDE DEF q, rest
<1>3. \A a \in 1 .. Len(rest) : a + 1 \in 1 .. Len(q) /\ 1 \in 1 .. Len(q) /\ rest[a] = q[a + 1]
  BY <1>1
<1>4. t = Cleanup => \A a \in 1 .. Len(rest) :
          rest[a] # Cleanup /\ ~(rest[a] \in Requests /\ inTime[rest[a]])
  BY <1>1, <1>2, <1>3 DEF QueueOK
<1>5. \A a \in 1 .. Len(rest) :
          /\ rest[a] = ExitMsg => opc[i] = "join" /\ a = Len(rest)
          /\ rest[a] = Cleanup => cleanup[i] \in {"queued", "withdrawn"}
          /\ rest[a] \in Requests => outcome'[rest[a]] # "new" /\ inTime'[rest[a]] = inTime[rest[a]]
          /\ rest[a] \in Requests /\ inTime[rest[a]] => cleanup[i] # "ran"
  BY <1>1, <1>2, <1>3 DEF QueueOK, MadeForGood
<1>6. \A a, b \in 1 .. Len(rest) :
          rest[a] = Cleanup /\ (rest[b] = Cleanup \/ (rest[b] \in Requests /\ inTime[rest[b]])) => b <= a
  BY <1>1, <1>2, <1>3 DEF QueueOK
<1>7. CASE QueueKept(i)
  <2>1. \A a \in 1 .. Len(rest) :
          /\ rest[a] = ExitMsg => opc'[i] = "join" /\ a = Len(rest)
          /\ rest[a] = Cleanup => cleanup'[i] \in {"queued", "withdrawn"}
          /\ rest[a] \in Requests => outcome'[rest[a]] # "new"
          /\ rest[a] \in Requests /\ inTime'[rest[a]] => cleanup'[i] # "ran"
    BY <1>5, <1>7 DEF QueueKept
  <2>2. \A a, b \in 1 .. Len(rest) :
          rest[a] = Cleanup /\ (rest[b] = Cleanup \/ (rest[b] \in Requests /\ inTime'[rest[b]])) => b <= a
    BY <1>5, <1>6
  <2> QED BY <2>1, <2>2 DEF QueueOK, rest
<1>8. CASE t = Cleanup /\ UNCHANGED opc
  <2>1. \A a \in 1 .. Len(rest) :
          /\ rest[a] = ExitMsg => opc'[i] = "join" /\ a = Len(rest)
          /\ rest[a] # Cleanup
          /\ rest[a] \in Requests => outcome'[rest[a]] # "new" /\ ~inTime'[rest[a]]
    BY <1>4, <1>5, <1>8
  <2> QED BY <2>1 DEF QueueOK, rest
<1> QED BY <1>7, <1>8

\* An empty queue is well-formed.
LEMMA EmptyQueueOK == ASSUME NEW i \in Clients, queue'[i] = <<>> PROVE QueueOK(i, queue[i])'
  BY DEF QueueOK

\* A queue to which one task is pushed is, if that task may be its last.
LEMMA PushedQueueOK ==
    ASSUME TypeOK, QueueInv, MadeForGood, NEW i \in Clients, NEW t \in Tasks,
           queue' = Push(i, t), opc[i] # "join", cleanup'[i] # "ran" \/ UNCHANGED cleanup,
           UNCHANGED cleanup \/ cleanup[i] = "none",
           t = ExitMsg => opc'[i] = "join",
           t = Cleanup => cleanup[i] = "none" /\ cleanup'[i] = "queued",
           t \in Requests => outcome'[t] # "new"
                             /\ (inTime'[t] => cleanup[i] = "none" /\ UNCHANGED cleanup)
    PROVE  QueueOK(i, queue[i])'
<1> DEFINE q == queue[i]
           longer == queue'[i]
<1>1. /\ Len(q) \in Nat /\ Len(longer) = Len(q) + 1
      /\ \A a \in 1 .. Len(q) : longer[a] = q[a]
      /\ longer[Len(q) + 1] = t
  BY Pushed
<1>2. QueueOK(i, q)
  BY DEF QueueInv
<1> HIDE DEF q, longer
<1>3. \A a \in 1 .. Len(longer) :
          (a \in 1 .. Len(q) /\ longer[a] = q[a]) \/ (a = Len(longer) /\ longer[a] = t)
  BY <1>1
<1>4. Cleanup \notin Requests /\ ExitMsg \notin Requests /\ Cleanup # ExitMsg
  BY HttpAssumption
<1>5. \A a \in 1 .. Len(q) :
          /\ q[a] # ExitMsg
          /\ q[a] = Cleanup => cleanup[i] # "none" /\ cleanup'[i] \in {"queued", "withdrawn"}
          /\ q[a] \in Requests => outcome'[q[a]] # "new" /\ inTime'[q[a]] = inTime[q[a]]
          /\ q[a] \in Requests /\ inTime'[q[a]] => cleanup'[i] # "ran"
  BY <1>2 DEF QueueOK, MadeForGood
<1>6. \A a \in 1 .. Len(longer) :
          /\ longer[a] = ExitMsg => opc'[i] = "join" /\ a = Len(longer)
          /\ longer[a] = Cleanup => cleanup'[i] \in {"queued", "withdrawn"}
          /\ longer[a] \in Requests => outcome'[longer[a]] # "new"
          /\ longer[a] \in Requests /\ inTime'[longer[a]] => cleanup'[i] # "ran"
  BY <1>3, <1>4, <1>5
<1>7. ASSUME NEW a \in 1 .. Len(longer), NEW b \in 1 .. Len(longer), longer[a] = Cleanup,
             longer[b] = Cleanup \/ (longer[b] \in Requests /\ inTime'[longer[b]])
      PROVE  b <= a
  <2>1. CASE a = Len(longer)
    BY <1>1, <2>1
  <2>2. CASE a # Len(longer)
    <3>1. a \in 1 .. Len(q) /\ q[a] = Cleanup
      BY <1>3, <1>7, <2>2
    <3>2. cleanup[i] # "none"
      BY <1>5, <3>1
    <3>3. b \in 1 .. Len(q) /\ longer[b] = q[b]
      BY <1>3, <1>4, <1>7, <3>2
    <3> QED BY <1>2, <1>5, <1>7, <3>1, <3>3 DEF QueueOK
  <2> QED BY <2>1, <2>2
<1> QED BY <1>6, <1>7 DEF QueueOK, longer

\* Every queue stays well-formed, and empty where there is no worker.
LEMMA QueueStep == TypeOK /\ LifeInv /\ QueueInv /\ [Next]_vars => QueueInv'
<1> SUFFICES ASSUME TypeOK, LifeInv, QueueInv, [Next]_vars
             PROVE  QueueInv'
  OBVIOUS
<1>0. ClientTypes /\ MadeForGood /\ LifeInv'
  BY TypeParts, RequestsStep, LifeStep
<1>1. ASSUME NEW j \in Clients, queue'[j] = queue[j], QueueKept(j), wpc'[j] \notin Busy => wpc[j] \notin Busy
      PROVE  QueueOK(j, queue[j])' /\ (wpc'[j] \notin Busy => queue'[j] = <<>>)
  BY <1>0, <1>1, KeptQueueOK DEF QueueInv
<1>2. ASSUME NEW i \in Clients, ClientStep(i),
             QueueOK(i, queue[i])' /\ (wpc'[i] \notin Busy => queue'[i] = <<>>)
      PROVE  QueueInv'
  <2> SUFFICES ASSUME NEW j \in Clients \ {i}
               PROVE  QueueOK(j, queue[j])' /\ (wpc'[j] \notin Busy => queue'[j] = <<>>)
    BY <1>2 DEF QueueInv, Busy
  <2>1. SameClient(j)
    BY <1>2, OneClient
  <2> QED BY <1>1, <2>1 DEF SameClient, QueueKept
<1>3. CASE UNCHANGED vars \/ \E r \in Requests : RequestTimesOut(r)
  <2>1. UNCHANGED <<queue, opc, cleanup, wpc>>
    BY <1>3 DEF vars, threadVars, ownerVars, workerVars, RequestTimesOut
  <2> QED BY <1>1, <2>1 DEF QueueInv, QueueKept, Busy
<1>4. ASSUME NEW i \in Clients, ClientStep(i) PROVE QueueInv'
  <2> SUFFICES QueueOK(i, queue[i])' /\ (wpc'[i] \notin Busy => queue'[i] = <<>>)
    BY <1>2, <1>4
  <2> USE DEF threadVars, workerVars, ownerVars
  <2>1. CASE AddRef(i) \/ MakeHandle(i) \/ MakeHandleFails(i) \/ StartThread(i) \/ CleanupDone(i)
             \/ CleanupTimesOut(i) \/ Release(i) \/ (Shutdown(i) /\ ~running[i])
    <3>1. UNCHANGED queue /\ QueueKept(i) /\ (wpc'[i] \notin Busy => wpc[i] \notin Busy)
      BY <1>0, <2>1 DEF AddRef, MakeHandle, MakeHandleFails, StartThread, CleanupDone, CleanupTimesOut,
                Release, Shutdown, ClientTypes, Busy, QueueKept
    <3> QED BY <1>1, <3>1
  <2>2. CASE Shutdown(i) /\ running[i]
    <3>1. /\ queue' = Push(i, Cleanup) /\ Cleanup \in Tasks
          /\ opc[i] # "join" /\ cleanup[i] = "none" /\ cleanup'[i] = "queued"
          /\ Cleanup # ExitMsg /\ Cleanup \notin Requests
      BY <1>0, <2>2, HttpAssumption
         DEF Shutdown, PushCleanup, ClientTypes, LifeInv, LifeOK, ShuttingDown, Tasks
    <3>2. wpc'[i] \in Busy
      BY <1>0, <2>2 DEF Shutdown, LifeInv, LifeOK
    <3> QED BY <1>0, <3>1, <3>2, PushedQueueOK
  <2>3. CASE BeginExit(i)
    <3>1. /\ queue' = Push(i, ExitMsg) /\ ExitMsg \in Tasks
          /\ opc[i] # "join" /\ UNCHANGED cleanup /\ opc'[i] = "join"
          /\ Cleanup # ExitMsg /\ ExitMsg \notin Requests
      BY <1>0, <2>3, HttpAssumption DEF BeginExit, ClientTypes, Tasks
    <3>2. wpc'[i] \in Busy
      BY <1>0, <2>3 DEF BeginExit, LifeInv, LifeOK, ShuttingDown
    <3> QED BY <1>0, <3>1, <3>2, PushedQueueOK
  <2>4. CASE JoinThread(i) \/ ShutdownInCallback(i)
    <3>1. queue'[i] = <<>>
      BY <1>0, <2>4, TypeParts DEF JoinThread, ShutdownInCallback, QueueInv, Busy, QueueTypes
    <3> QED BY <3>1, EmptyQueueOK
  <2>5. CASE SkipRequest(i) \/ NotInitialized(i) \/ BeginTransfer(i)
    <3>1. PICK r \in Requests : AtHead(i, r)
      BY <2>5 DEF SkipRequest, NotInitialized, BeginTransfer, Requests
    <3>2. queue' = Pop(i) /\ QueueKept(i) /\ wpc'[i] \in Busy
      BY <1>0, <2>5 DEF SkipRequest, NotInitialized, BeginTransfer, AtHead, AfterAnswer, QueueKept, Busy,
                ClientTypes
    <3> QED BY <1>0, <3>1, <3>2, PoppedQueueOK
  <2>6. CASE EndTransfer(i) \/ NestedTransfer(i) \/ CallbackReturns(i)
    <3>1. UNCHANGED queue /\ QueueKept(i) /\ (wpc'[i] \notin Busy => wpc[i] \notin Busy)
      BY <1>0, <2>6 DEF EndTransfer, NestedTransfer, CallbackReturns, AfterAnswer, QueueKept, Busy,
                ClientTypes
    <3> QED BY <1>1, <3>1
  <2>7. CASE RunCleanup(i)
    <3>1. AtHead(i, Cleanup) /\ queue' = Pop(i) /\ UNCHANGED opc /\ wpc'[i] \in Busy
      BY <2>7 DEF RunCleanup, AtHead, Busy
    <3> QED BY <1>0, <3>1, PoppedQueueOK
  <2>8. CASE RunExit(i)
    <3>1. queue'[i] = <<>>
      BY <2>8, ExitIsLast, TypeParts DEF RunExit, Pop, QueueTypes
    <3> QED BY <3>1, EmptyQueueOK
  <2>9. CASE \E r \in Requests : Request(r, i)
    <3>1. PICK r \in Requests : Request(r, i)
      BY <2>9
    <3>2. CASE UNCHANGED queue
      BY <1>1, <3>1, <3>2 DEF Request, QueueKept
    <3>3. CASE queue # queue'
      <4>1. /\ queue' = Push(i, r) /\ hasThread[i] /\ ~exit[i]
            /\ outcome'[r] # "new" /\ inTime'[r] = (opc[i] = "ready")
            /\ UNCHANGED <<opc, cleanup, wpc>>
        BY <3>1, <3>3, TypeParts DEF Request, Throws, RequestTypes
      <4>2. opc[i] # "join" /\ wpc[i] \in Busy /\ (opc[i] = "ready" => cleanup[i] = "none")
        BY <4>1 DEF LifeInv, LifeOK, ShuttingDown
      <4>3. r \in Tasks /\ r # Cleanup /\ r # ExitMsg
        BY HttpAssumption DEF Tasks
      <4> QED BY <1>0, <4>1, <4>2, <4>3, PushedQueueOK
    <3> QED BY <3>2, <3>3
  <2> QED
    BY <1>4, <2>1, <2>2, <2>3, <2>4, <2>5, <2>6, <2>7, <2>8, <2>9
       DEF ClientStep, OwnerStep, WorkerStep
<1> QED BY <1>3, <1>4, StepCases

-----------------------------------------------------------------------------
(* The handles.                                                            *)

\* The other clients' handles.
LEMMA SameHandleOK ==
    ASSUME NEW j \in Clients, HandleOK(j), SameClient(j)
    PROVE  HandleOK(j)'
  BY DEF HandleOK, SameClient, Transferring

\* A client is given a handle before it runs, and its handle is cleaned up before
\* its thread is joined, unless the cleanup is missed.
LEMMA HandleOKStep ==
    ASSUME TypeOK, LifeInv, HandleInv, NEW i \in Clients, ClientStep(i)
    PROVE  HandleOK(i)'
<1>0. CurlTypes /\ ClientTypes /\ HandleOK(i)
  BY TypeParts DEF HandleInv
<1>1. Null \notin Handles
  BY HttpAssumption
<1> USE <1>0, <1>1 DEF CurlTypes, ClientTypes, HandleOK, Transferring, LifeInv, LifeOK, Busy,
        ShuttingDown, curlVars, workerVars, ownerVars, threadVars
<1>2. CASE AddRef(i) \/ Shutdown(i)
  BY <1>2 DEF AddRef, Shutdown
<1>3. CASE MakeHandle(i) \/ MakeHandleFails(i)
  BY <1>3 DEF MakeHandle, MakeHandleFails
<1>4. CASE StartThread(i)
  BY <1>4 DEF StartThread
<1>5. CASE CleanupDone(i) \/ CleanupTimesOut(i) \/ BeginExit(i)
  BY <1>5 DEF CleanupDone, CleanupTimesOut, BeginExit
<1>6. CASE JoinThread(i) \/ Release(i)
  BY <1>6 DEF JoinThread, Release
<1>7. CASE SkipRequest(i) \/ NotInitialized(i) \/ BeginTransfer(i) \/ EndTransfer(i)
  BY <1>7 DEF SkipRequest, NotInitialized, BeginTransfer, EndTransfer, AfterAnswer, AtHead
<1>8. CASE RunCleanup(i) \/ RunExit(i)
  BY <1>8 DEF RunCleanup, RunExit, AtHead, ClearHandle
<1>9. CASE CallbackReturns(i) \/ NestedTransfer(i)
  BY <1>9 DEF CallbackReturns, NestedTransfer
<1>10. CASE ShutdownInCallback(i)
  BY <1>10 DEF ShutdownInCallback
<1>11. CASE \E r \in Requests : Request(r, i)
  BY <1>11 DEF Request
<1> QED
  BY <1>2, <1>3, <1>4, <1>5, <1>6, <1>7, <1>8, <1>9, <1>10, <1>11 DEF ClientStep, OwnerStep, WorkerStep

\* The steps that touch a handle.
LEMMA HandleSteps ==
    [Next]_vars => \/ \E i \in Clients : MakeHandle(i) \/ MakeHandleFails(i) \/ RunCleanup(i)
                   \/ UNCHANGED <<curl, live>>
  BY StepCases
     DEF vars, curlVars, ClientStep, OwnerStep, WorkerStep, AddRef, Shutdown, StartThread, CleanupDone,
         CleanupTimesOut, BeginExit, JoinThread, Release, SkipRequest, NotInitialized, BeginTransfer,
         EndTransfer, RunExit, CallbackReturns, NestedTransfer, ShutdownInCallback, Request, RequestTimesOut

\* A new handle is nobody's, and the handle that is cleaned up nobody else's.
LEMMA PointsToStep == TypeOK /\ PointsTo /\ [Next]_vars => PointsTo'
<1> SUFFICES ASSUME TypeOK, PointsTo, [Next]_vars PROVE PointsTo'
  OBVIOUS
<1>0. CurlTypes /\ Null \notin Handles
  BY TypeParts, HttpAssumption
<1> USE <1>0 DEF CurlTypes, PointsTo
<1>1. ASSUME NEW i \in Clients, MakeHandle(i) PROVE PointsTo'
  <2>1. PICK h \in Handles \ made : curl' = [curl EXCEPT ![i] = h] /\ live' = live \cup {h}
    BY <1>1 DEF MakeHandle
  <2>2. \A j \in Clients : curl[j] # h
    BY <2>1
  <2> QED BY <2>1, <2>2
<1>2. ASSUME NEW i \in Clients, MakeHandleFails(i) PROVE PointsTo'
  BY <1>2 DEF MakeHandleFails
<1>3. ASSUME NEW i \in Clients, RunCleanup(i) PROVE PointsTo'
  <2>1. UNCHANGED <<curl, live>> \/ (curl' = [curl EXCEPT ![i] = Null] /\ live' = live \ {curl[i]})
    BY <1>3 DEF RunCleanup, ClearHandle
  <2> QED BY <2>1
<1>4. CASE UNCHANGED <<curl, live>>
  BY <1>4
<1> QED BY <1>1, <1>2, <1>3, <1>4, HandleSteps

\* m_curl is overwritten only where it points to nothing or a cleanup was missed,
\* and a missed cleanup is never undone.
LEMMA NoneLostStep ==
    TypeOK /\ LifeInv /\ HandleInv /\ (\A i \in Clients : missed[i] => missed'[i]) /\ [Next]_vars => NoneLost'
<1> SUFFICES ASSUME TypeOK, LifeInv, HandleInv, \A i \in Clients : missed[i] => missed'[i], [Next]_vars,
                    \A i \in Clients : ~missed[i],
                    NEW h \in live', \A i \in Clients : h # curl'[i]
             PROVE  FALSE
  BY DEF HandleInv, NoneLost
<1>0. /\ CurlTypes /\ Null \notin Handles
      /\ live \subseteq {curl[i] : i \in Clients}
  BY TypeParts, HttpAssumption DEF HandleInv, NoneLost
<1> USE <1>0 DEF CurlTypes
<1>1. ASSUME NEW i \in Clients, MakeHandle(i) PROVE FALSE
  <2>1. PICK g \in Handles \ made : curl' = [curl EXCEPT ![i] = g] /\ live' = live \cup {g}
    BY <1>1 DEF MakeHandle
  <2>2. curl[i] = Null
    BY <1>1 DEF MakeHandle, LifeInv, LifeOK, HandleInv, HandleOK
  <2>3. h \in live /\ h # Null
    BY <2>1
  <2>4. PICK j \in Clients : h = curl[j]
    BY <2>3
  <2> QED BY <2>1, <2>2, <2>3, <2>4
<1>2. ASSUME NEW i \in Clients, MakeHandleFails(i) PROVE FALSE
  <2>1. curl' = [curl EXCEPT ![i] = Null] /\ live' = live
    BY <1>2 DEF MakeHandleFails
  <2>2. curl[i] = Null
    BY <1>2 DEF MakeHandleFails, LifeInv, LifeOK, HandleInv, HandleOK
  <2>3. PICK j \in Clients : h = curl[j]
    BY <2>1
  <2> QED BY <2>1, <2>2, <2>3
<1>3. ASSUME NEW i \in Clients, RunCleanup(i) PROVE FALSE
  <2>1. UNCHANGED <<curl, live>> \/ (curl' = [curl EXCEPT ![i] = Null] /\ live' = live \ {curl[i]})
    BY <1>3 DEF RunCleanup, ClearHandle
  <2>2. PICK j \in Clients : h = curl[j]
    BY <2>1
  <2> QED BY <2>1, <2>2
<1>4. CASE UNCHANGED <<curl, live>>
  <2>1. PICK j \in Clients : h = curl[j]
    BY <1>4
  <2> QED BY <1>4, <2>1
<1> QED BY <1>1, <1>2, <1>3, <1>4, HandleSteps

\* missed is history: it is only ever set.
LEMMA MissedStep == TypeOK /\ [Next]_vars => \A i \in Clients : missed[i] => missed'[i]
<1> SUFFICES ASSUME ClientTypes, [Next]_vars PROVE \A i \in Clients : missed[i] => missed'[i]
  BY TypeParts
<1>1. ASSUME NEW i \in Clients, CleanupTimesOut(i) \/ ShutdownInCallback(i)
      PROVE  missed' = [missed EXCEPT ![i] = TRUE]
  BY <1>1 DEF CleanupTimesOut, ShutdownInCallback
<1>2. (\E i \in Clients : CleanupTimesOut(i) \/ ShutdownInCallback(i)) \/ UNCHANGED missed
  BY StepCases
     DEF vars, ownerVars, ClientStep, OwnerStep, WorkerStep, AddRef, MakeHandle, MakeHandleFails, Shutdown,
         StartThread, CleanupDone, BeginExit, JoinThread, Release, SkipRequest, NotInitialized,
         BeginTransfer, EndTransfer, RunCleanup, RunExit, CallbackReturns, NestedTransfer, Request,
         RequestTimesOut
<1> QED BY <1>1, <1>2 DEF ClientTypes

\* HandleInv is inductive, relative to the life cycle.
LEMMA HandleStep == TypeOK /\ LifeInv /\ HandleInv /\ [Next]_vars => HandleInv'
<1> SUFFICES ASSUME TypeOK, LifeInv, HandleInv, [Next]_vars PROVE HandleInv'
  OBVIOUS
<1>1. PointsTo' /\ NoneLost'
  BY PointsToStep, NoneLostStep, MissedStep DEF HandleInv
<1>2. ASSUME NEW i \in Clients, ClientStep(i), NEW j \in Clients PROVE HandleOK(j)'
  <2>1. CASE i = j
    BY <1>2, <2>1, HandleOKStep
  <2>2. CASE i # j
    BY <1>2, <2>2, OneClient, SameHandleOK DEF HandleInv
  <2> QED BY <2>1, <2>2
<1>3. ASSUME UNCHANGED vars \/ \E r \in Requests : RequestTimesOut(r), NEW j \in Clients PROVE HandleOK(j)'
  <2>1. SameClient(j)
    BY <1>3 DEF vars, RequestTimesOut, SameClient, curlVars, threadVars, workerVars, ownerVars
  <2> QED BY <2>1, SameHandleOK DEF HandleInv
<1>4. \A j \in Clients : HandleOK(j)'
  BY <1>2, <1>3, StepCases
<1> QED BY <1>1, <1>4 DEF HandleInv

-----------------------------------------------------------------------------
(* Requests and the cleanup.                                               *)

\* A request that finds no handle is behind the cleanup in its queue, or alone
\* after it: it was not accepted in time.
LEMMA ServedStep ==
    TypeOK /\ LifeInv /\ QueueInv /\ HandleInv /\ ServedBeforeCleanup /\ [Next]_vars => ServedBeforeCleanup'
<1> SUFFICES ASSUME TypeOK, LifeInv, QueueInv, HandleInv, ServedBeforeCleanup, [Next]_vars,
                    NEW s \in Requests, outcome'[s] = "notInitialized"
             PROVE  ~inTime'[s]
  BY DEF ServedBeforeCleanup
<1>0. RequestTypes /\ MadeForGood
  BY TypeParts, RequestsStep
<1> USE <1>0 DEF RequestTypes
<1>1. ASSUME outcome[s] = outcome'[s] PROVE ~inTime'[s]
  BY <1>1 DEF MadeForGood, ServedBeforeCleanup
<1>2. ASSUME NEW i \in Clients, NotInitialized(i) PROVE ~inTime'[s]
  <2>1. PICK r \in Requests : /\ AtHead(i, r) /\ outcome[r] = "pending" /\ curl[i] = Null
                              /\ Answer(r, "notInitialized")
    BY <1>2 DEF NotInitialized
  <2>2. CASE s # r
    BY <1>1, <2>1, <2>2 DEF Answer
  <2>3. CASE s = r
    <3>1. cleanup[i] = "ran"
      BY <2>1 DEF AtHead, LifeInv, LifeOK, Busy, HandleInv, HandleOK
    <3>2. Len(queue[i]) \in Nat \ {0} /\ queue[i][1] = r
      BY <2>1, EmptySeq DEF AtHead, TypeOK
    <3>3. 1 \in 1 .. Len(queue[i])
      BY <3>2
    <3>4. ~inTime[r]
      BY <3>1, <3>2, <3>3 DEF QueueInv, QueueOK
    <3> QED BY <2>1, <2>3, <3>4 DEF MadeForGood
  <2> QED BY <2>2, <2>3
<1>3. ASSUME NEW i \in Clients, EndTransfer(i) PROVE ~inTime'[s]
  BY <1>1, <1>3 DEF EndTransfer, Answer
<1>4. ASSUME NEW i \in Clients, ShutdownInCallback(i) PROVE ~inTime'[s]
  BY <1>1, <1>4, RefusedType DEF ShutdownInCallback, CancelQueued, Refusals
<1>5. ASSUME NEW i \in Clients, NEW r \in Requests, Request(r, i) PROVE ~inTime'[s]
  BY <1>1, <1>5, RefusedType DEF Request, Refusals
<1>6. ASSUME NEW r \in Requests, RequestTimesOut(r) PROVE ~inTime'[s]
  BY <1>1, <1>6 DEF RequestTimesOut
<1>7. CASE UNCHANGED outcome
  BY <1>1, <1>7
<1> QED
  BY <1>2, <1>3, <1>4, <1>5, <1>6, <1>7, StepCases
     DEF vars, requestVars, ClientStep, AddRef, OwnerStep, MakeHandle, MakeHandleFails, StartThread, Shutdown,
         CleanupDone, CleanupTimesOut, BeginExit, JoinThread, Release, WorkerStep, SkipRequest,
         BeginTransfer, RunCleanup, RunExit, NestedTransfer, CallbackReturns

-----------------------------------------------------------------------------
(* The reference count.                                                    *)

\* A step of a client may make it a holder, or stop it from being one, but no
\* other client.
LEMMA HoldersStep ==
    ASSUME TypeOK, NEW i \in Clients, ClientStep(i)
    PROVE  Holders' = IF Holds(i)' THEN Holders \cup {i} ELSE Holders \ {i}
<1>1. \A j \in Clients \ {i} : Holds(j)' <=> Holds(j)
  BY OneClient DEF SameClient, Holds
<1> QED BY <1>1 DEF Holders

\* What the count is after a step that changes refCount, curlUp or orphans as the
\* step does, or that leaves the three and the holders alone.
LEMMA CountStep ==
    TypeOK /\ LifeInv /\ StrictShutdown /\ CountInv /\ [Next]_vars => CountInv'
<1> SUFFICES ASSUME TypeOK, LifeInv, StrictShutdown, CountInv, [Next]_vars PROVE CountInv'
  OBVIOUS
<1>0. CurlTypes /\ ClientTypes
  BY TypeParts
<1>1. /\ IsFiniteSet(Holders) /\ Cardinality(Holders) \in Nat
      /\ refCount = Cardinality(Holders) + orphans
      /\ curlUp <=> refCount > 0
      /\ refCount \in Nat /\ orphans \in Nat /\ curlUp \in BOOLEAN
  BY <1>0, FS_CardinalityType DEF CountInv, RefCountExact, Holders, CurlTypes
<1>2. ASSUME UNCHANGED <<refCount, curlUp, orphans, Holders>> PROVE CountInv'
  BY <1>1, <1>2 DEF CountInv, RefCountExact, Holders
<1>3. ASSUME NEW i \in Clients, AddRef(i) PROVE CountInv'
  <2>1. ~Holds(i) /\ Holds(i)'
    BY <1>0, <1>3 DEF AddRef, Holds, ClientTypes
  <2>2. Holders' = Holders \cup {i} /\ i \notin Holders
    BY <1>3, <2>1, HoldersStep DEF ClientStep, Holders
  <2>3. IsFiniteSet(Holders') /\ Cardinality(Holders') = Cardinality(Holders) + 1
    BY <1>1, <2>2, FS_AddElement
  <2>4. refCount' = refCount + 1 /\ curlUp' = TRUE /\ orphans' = orphans
    BY <1>3 DEF AddRef
  <2>5. refCount' = Cardinality(Holders') + orphans' /\ (curlUp' <=> refCount' > 0)
    BY <1>1, <2>3, <2>4
  <2> QED BY <2>3, <2>5 DEF CountInv, RefCountExact, Holders
<1>4. ASSUME NEW i \in Clients, Holds(i), ~Holds(i)', ClientStep(i)
      PROVE  IsFiniteSet(Holders') /\ Cardinality(Holders') = Cardinality(Holders) - 1
             /\ Cardinality(Holders') \in Nat
  <2>1. Holders' = Holders \ {i} /\ i \in Holders
    BY <1>4, HoldersStep DEF Holders
  <2> QED BY <1>1, <2>1, FS_RemoveElement, FS_CardinalityType
<1>5. ASSUME NEW i \in Clients, MakeHandleFails(i) PROVE CountInv'
  <2>1. Holds(i) /\ ~Holds(i)' /\ ClientStep(i)
    BY <1>0, <1>5 DEF MakeHandleFails, Holds, ClientTypes, LifeInv, LifeOK, ClientStep, OwnerStep
  <2>2. refCount' = refCount /\ curlUp' = curlUp /\ orphans' = orphans + 1
    BY <1>5 DEF MakeHandleFails
  <2>3. refCount' = Cardinality(Holders') + orphans' /\ (curlUp' <=> refCount' > 0)
    BY <1>1, <1>4, <2>1, <2>2
  <2> QED BY <1>4, <2>1, <2>3 DEF CountInv, RefCountExact, Holders
<1>6. ASSUME NEW i \in Clients, Release(i) PROVE CountInv'
  <2>1. Holds(i) /\ ~Holds(i)' /\ ClientStep(i)
    BY <1>0, <1>6 DEF Release, Holds, ClientTypes, LifeInv, LifeOK, ClientStep, OwnerStep
  <2>2. /\ refCount' = (IF refCount > 0 THEN refCount - 1 ELSE 0)
        /\ curlUp' = (curlUp /\ refCount # 1)
        /\ orphans' = orphans
    BY <1>6 DEF Release, GlobalRelease
  <2>3. Cardinality(Holders') \in Nat /\ Cardinality(Holders') = Cardinality(Holders) - 1
    BY <1>4, <2>1
  <2>4. refCount > 0 /\ refCount = Cardinality(Holders') + 1 + orphans
    BY <1>1, <2>3
  <2>5. refCount' = refCount - 1
    BY <1>1, <2>2, <2>4
  <2>6. orphans' = orphans /\ orphans \in Nat
    BY <1>1, <2>2
  <2>7. refCount' = Cardinality(Holders') + orphans' /\ (refCount # 1 <=> refCount' > 0)
    BY ONLY <2>3, <2>4, <2>5, <2>6
  <2>8. curlUp' <=> refCount' > 0
    BY <1>1, <2>2, <2>7, <2>4, Zenon
  <2>9. refCount' = Cardinality(Holders') + orphans' /\ (curlUp' <=> refCount' > 0)
    BY <2>7, <2>8
  <2> QED BY <1>4, <2>1, <2>9 DEF CountInv, RefCountExact, Holders
<1>7. ASSUME NEW i \in Clients, ClientStep(i), ~AddRef(i), ~MakeHandleFails(i), ~Release(i) PROVE CountInv'
  <2>1. UNCHANGED <<refCount, curlUp, orphans>>
    BY <1>7 DEF ClientStep, OwnerStep, WorkerStep, MakeHandle, StartThread, Shutdown, CleanupDone,
           CleanupTimesOut, BeginExit, JoinThread, Request, SkipRequest, NotInitialized,
           BeginTransfer, EndTransfer, RunCleanup, RunExit, NestedTransfer, CallbackReturns,
           ShutdownInCallback, curlVars
  <2>2. Holds(i)' <=> Holds(i)
    <3> USE <1>0 DEF Holds, ClientTypes, LifeInv, LifeOK, ShuttingDown, ownerVars, threadVars
    <3>1. CASE Shutdown(i) \/ MakeHandle(i) \/ StartThread(i)
      BY <3>1 DEF Shutdown, MakeHandle, StartThread
    <3>2. CASE CleanupDone(i) \/ CleanupTimesOut(i) \/ BeginExit(i) \/ JoinThread(i)
      BY <3>2 DEF CleanupDone, CleanupTimesOut, BeginExit, JoinThread
    <3>3. CASE WorkerStep(i)
      BY <3>3 DEF WorkerStep, SkipRequest, NotInitialized, BeginTransfer, EndTransfer, RunCleanup, RunExit
    <3>4. CASE CallbackReturns(i) \/ NestedTransfer(i) \/ ShutdownInCallback(i)
               \/ \E r \in Requests : Request(r, i)
      BY <3>4 DEF CallbackReturns, NestedTransfer, ShutdownInCallback, Request
    <3> QED BY <1>7, <3>1, <3>2, <3>3, <3>4 DEF ClientStep, OwnerStep
  <2>3. Holders' = Holders
    BY <1>7, <2>2, HoldersStep DEF Holders
  <2> QED BY <1>2, <2>1, <2>3
<1>8. CASE UNCHANGED vars \/ \E r \in Requests : RequestTimesOut(r)
  BY <1>2, <1>8 DEF vars, RequestTimesOut, curlVars, ownerVars, Holders, Holds
<1> QED BY <1>3, <1>5, <1>6, <1>7, <1>8, StepCases

-----------------------------------------------------------------------------
(* The theorems.                                                           *)

\* The initial state has no client and no reference.
LEMMA IInvInit == Init => IInv
<1> SUFFICES ASSUME Init PROVE IInv
  OBVIOUS
<1>1. TypeOK
  <2>1. CurlTypes /\ ClientTypes
    BY DEF Init, CurlTypes, ClientTypes
  <2>2. RequestTypes
    BY DEF Init, RequestTypes
  <2>3. QueueTypes
    BY DEF Init, QueueTypes
  <2> QED BY <2>1, <2>2, <2>3, TypeParts
<1>2. LifeInv
  BY DEF Init, LifeInv, LifeOK, Busy, ShuttingDown
<1>3. QueueInv
  BY DEF Init, QueueInv, QueueOK, Busy
<1>4. HandleInv
  BY DEF Init, HandleInv, HandleOK, PointsTo, NoneLost, Transferring
<1>5. ServedBeforeCleanup
  BY DEF Init, ServedBeforeCleanup
<1>6. CountInv
  <2>1. Holders = {}
    BY DEF Init, Holders, Holds
  <2>2. IsFiniteSet(Holders) /\ Cardinality(Holders) = 0
    BY <2>1, FS_EmptySet
  <2> QED BY <2>2 DEF Init, CountInv, RefCountExact, Holders
<1> QED BY <1>1, <1>2, <1>3, <1>4, <1>5, <1>6 DEF IInv

\* Every step keeps the whole of it.
LEMMA IInvStep == IInv /\ [Next]_vars => IInv'
  BY TypeStep, LifeStep, QueueStep, HandleStep, ServedStep, CountStep DEF IInv

\* The inductive invariant holds in every reachable state.
LEMMA HttpInvariance == Spec => []IInv
  BY IInvInit, IInvStep, PTL DEF Spec

\* Every variable of the clients keeps its type.
THEOREM TypeCorrect == Spec => []TypeOK
<1>1. IInv => TypeOK
  BY DEF IInv
<1> QED BY <1>1, HttpInvariance, PTL

\* A client that is shut down has no handle left, and none is lost, unless the
\* cleanup of one of its shutdowns did not run.
THEOREM HandlesComeBack == Spec => []NothingLeaks
<1>1. IInv => NothingLeaks
  BY DEF IInv, HandleInv, HandleOK, NoneLost, NothingLeaks
<1> QED BY <1>1, HttpInvariance, PTL

\* No request that was accepted before shutdown() began finds the handle gone.
THEOREM AcceptedIsServed == Spec => []ServedBeforeCleanup
<1>1. IInv => ServedBeforeCleanup
  BY DEF IInv
<1> QED BY <1>1, HttpInvariance, PTL

\* While shutdown() is called on running clients only, the reference count of
\* libcurl is the number of clients that took a reference and did not give it back,
\* and the failed inits.
THEOREM CountIsExact == ASSUME StrictShutdown PROVE Spec => []RefCountExact
<1>1. IInv => RefCountExact
  BY StrictShutdown DEF IInv, CountInv
<1> QED BY <1>1, HttpInvariance, PTL

\* Under the same condition a transfer has an open handle and an initialised
\* libcurl under it for as long as it lasts.
THEOREM TransfersAreSafe == ASSUME StrictShutdown PROVE Spec => []TransferIsSafe
<1>1. IInv => TransferIsSafe
  <2> SUFFICES ASSUME IInv, NEW i \in Clients, Transferring(i)
               PROVE  curlUp /\ curl[i] \in live
    BY DEF TransferIsSafe
  <2>1. curl[i] \in live
    BY DEF IInv, HandleInv, HandleOK, PointsTo
  <2>2. i \in Holders
    BY DEF IInv, LifeInv, LifeOK, Busy, Transferring, Holders, Holds
  <2>3. IsFiniteSet(Holders) /\ refCount = Cardinality(Holders) + orphans /\ (curlUp <=> refCount > 0)
        /\ orphans \in Nat
    BY DEF IInv, CountInv, RefCountExact, Holders, TypeOK
  <2>4. Cardinality(Holders) \in Nat /\ Cardinality(Holders) # 0
    BY <2>2, <2>3, FS_EmptySet, FS_CardinalityType
  <2>5. curlUp
    BY <2>3, <2>4
  <2> QED BY <2>1, <2>5
<1> QED BY <1>1, HttpInvariance, PTL
=============================================================================

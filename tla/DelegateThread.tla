--------------------------- MODULE DelegateThread ---------------------------
(***************************************************************************)
(* StdlibThread (DelegateMQ/port/os/stdlib/StdlibThread.cpp), the worker   *)
(* thread of the desktop build: two message lanes under m_mutex, the       *)
(* condition variables m_cv (worker) and m_cvNotFull (blocked producers),  *)
(* and the CreateThread / ExitThread life cycle.                           *)
(*                                                                         *)
(* One action is one critical section of m_mutex, or one unlocked read or  *)
(* write of shared state.  A producer, the owner of the thread object and  *)
(* the message handlers run by the worker take these steps in any order.   *)
(*                                                                         *)
(* ExitThread and CreateThread test and reset m_thread without a lock, so  *)
(* two of them at once would be a data race on a std::thread: the model    *)
(* has its callers take turns, as the API asks ("called once").            *)
(***************************************************************************)
EXTENDS Naturals, Sequences, FiniteSets

CONSTANTS
    Messages, HighMsgs,     \* messages dispatched, and those of Priority::HIGH
    Producers,              \* threads that call DispatchDelegate
    Owner,                  \* the thread that calls CreateThread and ExitThread
    Workers,                \* one std::thread for each CreateThread that makes one
    MaxQueueSize,           \* MAX_QUEUE_SIZE, never 0: the constructor replaces a 0
    FullPolicies,           \* values of FULL_POLICY the constructor is called with
    HasIdleHandler,         \* whether an idle handler is set
    ExitMsg, NoMsg, NoThread

Actors == Producers \cup Workers      \* who may call DispatchDelegate
Exiters == {Owner} \cup Workers       \* who may call ExitThread

ASSUME ThreadAssumption ==
    /\ HighMsgs \subseteq Messages
    /\ ExitMsg \notin Messages /\ NoMsg \notin Messages
    /\ NoThread \notin Workers /\ Owner \notin Workers
    /\ Producers \cap Workers = {}
    /\ MaxQueueSize \in Nat \ {0}
    /\ FullPolicies \subseteq {"DROP", "FAULT", "TIMEOUT"}
    /\ HasIdleHandler \in BOOLEAN

VARIABLES
    policy,     \* FULL_POLICY, fixed by the constructor
    exit,       \* m_exit
    thread,     \* m_thread: the std::thread it holds, or NoThread
    high,       \* m_highQueue
    normal,     \* m_normalQueue
    wpc,        \* where each worker is in Process()
    wmsg,       \* the message a worker is invoking
    selfExit,   \* Process()'s flag, set when its handler exits its own thread
    dpc,        \* where each caller is in DispatchDelegate()
    dmsg,       \* the message it dispatches
    xpc,        \* where each caller is in ExitThread()
    cpc,        \* where the owner is in CreateThread()
    fault,      \* DMQ_ASSERT ended the process
    fate,       \* history: what has become of each message
    ticket,     \* history: the order of acceptance
    nextTicket

queueVars == <<high, normal>>
workerVars == <<wpc, wmsg, selfExit>>
dispatchVars == <<dpc, dmsg>>
lifeVars == <<policy, exit, thread, xpc, cpc>>
history == <<fate, ticket, nextTicket>>
vars == <<queueVars, workerVars, dispatchVars, lifeVars, fault, history>>

Fates == {"new", "offered", "refused", "queued", "running", "invoked",
          "discarded", "cancelled"}

TypeOK ==
    /\ policy \in FullPolicies
    /\ exit \in BOOLEAN /\ fault \in BOOLEAN
    /\ thread \in Workers \cup {NoThread}
    /\ high \in Seq(Messages)
    /\ normal \in Seq(Messages \cup {ExitMsg})
    /\ wpc \in [Workers -> {"unborn", "starting", "loop", "asleep", "idle", "invoke", "exited"}]
    /\ wmsg \in [Workers -> Messages \cup {NoMsg}]
    /\ selfExit \in [Workers -> BOOLEAN]
    /\ dpc \in [Actors -> {"ready", "checked", "entering", "blocked", "woken", "expired"}]
    /\ dmsg \in [Actors -> Messages \cup {NoMsg}]
    /\ xpc \in [Exiters -> {"ready", "cancelling", "joining", "resetting", "cleanup"}]
    /\ cpc \in {"ready", "emplace", "await"}
    /\ fate \in [Messages -> Fates]
    /\ ticket \in [Messages -> Nat]
    /\ nextTicket \in Nat \ {0}

Init ==
    /\ policy \in FullPolicies
    /\ exit = FALSE /\ thread = NoThread /\ fault = FALSE
    /\ high = <<>> /\ normal = <<>>
    /\ wpc = [w \in Workers |-> "unborn"]
    /\ wmsg = [w \in Workers |-> NoMsg]
    /\ selfExit = [w \in Workers |-> FALSE]
    /\ dpc = [a \in Actors |-> "ready"]
    /\ dmsg = [a \in Actors |-> NoMsg]
    /\ xpc = [a \in Exiters |-> "ready"]
    /\ cpc = "ready"
    /\ fate = [m \in Messages |-> "new"]
    /\ ticket = [m \in Messages |-> 0]
    /\ nextTicket = 1

-----------------------------------------------------------------------------
Empty == high = <<>> /\ normal = <<>>

\* Mutant: a queue that holds MaxQueueSize messages still takes one.
FullOffByOne == Len(high) + Len(normal) > MaxQueueSize

Full == Len(high) + Len(normal) >= MaxQueueSize

SetFate(S, to) == fate' = [m \in Messages |-> IF m \in S THEN to ELSE fate[m]]
WithFate(f) == {m \in Messages : fate[m] = f}

\* Mutant: a "send to front" queue, which turns the lane into a stack.
PushFront(lane, m) == <<m>> \o lane

PushBack(lane, m) == Append(lane, m)

\* Mutant: the HIGH lane is cancelled but not emptied.
SwapNormalOnly(rest) ==
    /\ normal' = rest /\ UNCHANGED high
    /\ SetFate(WithFate("queued"), "discarded")

\* Both lanes are swapped out, under the lock; rest is what stays queued.
SwapLanes(rest) ==
    /\ high' = <<>> /\ normal' = rest
    /\ SetFate(WithFate("queued"), "discarded")

\* Mutant: the messages swapped out are destroyed without Cancel().
CancelNone == UNCHANGED fate

\* CancelAll(), outside the lock, on what was swapped out.
CancelAll == SetFate(WithFate("discarded"), "cancelled")

\* Mutant: no notification after a push.
WakeNobody == wpc

\* m_cv.notify_one(): only the worker of m_thread ever waits on m_cv.
WakeWorker == [w \in Workers |-> IF wpc[w] = "asleep" THEN "loop" ELSE wpc[w]]

Blocked == {a \in Actors : dpc[a] = "blocked"}
Woken == {a \in Actors : dpc[a] = "woken"}

\* Mutant: a slot is freed and no producer hears of it.
NotifyNotFullMissing == dpc' = dpc

\* m_cvNotFull.notify_one(): one of the blocked producers, if there is one.
NotifyNotFull ==
    IF Blocked = {} THEN dpc' = dpc
    ELSE \E a \in Blocked : dpc' = [dpc EXCEPT ![a] = "woken"]

\* m_cvNotFull.notify_all()
WakeProducers == [a \in Actors |-> IF dpc[a] = "blocked" THEN "woken" ELSE dpc[a]]

-----------------------------------------------------------------------------
(* DispatchDelegate, on the thread of a caller a                           *)

\* A handler dispatches from inside the message the worker is invoking.
MayDispatch(a) ==
    /\ dpc[a] = "ready"
    /\ a \in Workers => wpc[a] = "invoke" /\ xpc[a] = "ready"

Return(a, m, f) ==
    /\ dpc' = [dpc EXCEPT ![a] = "ready"]
    /\ dmsg' = [dmsg EXCEPT ![a] = NoMsg]
    /\ SetFate({m}, f)

\* The early, unlocked read of m_exit.
DispatchDelegate(a, m) ==
    /\ MayDispatch(a)
    /\ fate[m] = "new"
    /\ IF exit
         THEN Return(a, m, "refused")
         ELSE /\ dpc' = [dpc EXCEPT ![a] = "checked"]
              /\ dmsg' = [dmsg EXCEPT ![a] = m]
              /\ SetFate({m}, "offered")
    /\ UNCHANGED <<queueVars, workerVars, lifeVars, fault, ticket, nextTicket>>

\* The unlocked test of m_thread: without a thread the call throws.
DispatchCheckThread(a) ==
    /\ dpc[a] = "checked"
    /\ IF thread = NoThread
         THEN Return(a, dmsg[a], "refused")
         ELSE dpc' = [dpc EXCEPT ![a] = "entering"] /\ UNCHANGED <<dmsg, fate>>
    /\ UNCHANGED <<queueVars, workerVars, lifeVars, fault, ticket, nextTicket>>

HoldsLock(a) == dpc[a] \in {"entering", "woken", "expired"}

\* Mutant: m_exit is not read again after the wait for the lock.
HasSpaceOnly == ~Full

MayPush == ~Full /\ ~exit

\* Push to the back of the lane of its priority and notify the worker.
DispatchPush(a) ==
    /\ HoldsLock(a)
    /\ MayPush
    /\ LET m == dmsg[a] IN
         /\ IF m \in HighMsgs
              THEN high' = PushBack(high, m) /\ UNCHANGED normal
              ELSE normal' = PushBack(normal, m) /\ UNCHANGED high
         /\ Return(a, m, "queued")
         /\ ticket' = [ticket EXCEPT ![m] = nextTicket]
    /\ nextTicket' = nextTicket + 1
    /\ wpc' = WakeWorker
    /\ UNCHANGED <<wmsg, selfExit, lifeVars, fault>>

\* m_exit seen under the lock.  A full queue is looked at first, and only the
\* TIMEOUT policy gets from there to the second test of m_exit.
DispatchRejected(a) ==
    /\ HoldsLock(a)
    /\ exit
    /\ Full => policy = "TIMEOUT"
    /\ Return(a, dmsg[a], "refused")
    /\ UNCHANGED <<queueVars, workerVars, lifeVars, fault, ticket, nextTicket>>

DispatchDropped(a) ==
    /\ HoldsLock(a)
    /\ Full /\ policy = "DROP"
    /\ Return(a, dmsg[a], "refused")
    /\ UNCHANGED <<queueVars, workerVars, lifeVars, fault, ticket, nextTicket>>

DispatchFaults(a) ==
    /\ HoldsLock(a)
    /\ Full /\ policy = "FAULT"
    /\ fault' = TRUE
    /\ UNCHANGED <<queueVars, workerVars, dispatchVars, lifeVars, history>>

\* m_cvNotFull.wait_for(): its predicate is false, so the caller blocks.
DispatchBlocks(a) ==
    /\ dpc[a] \in {"entering", "woken"}
    /\ Full /\ ~exit /\ policy = "TIMEOUT"
    /\ dpc' = [dpc EXCEPT ![a] = "blocked"]
    /\ UNCHANGED <<queueVars, workerVars, dmsg, lifeVars, fault, history>>

\* Mutant: wait() in place of wait_for().
DispatchWaitsForever(a) == FALSE /\ UNCHANGED vars

\* m_dispatchTimeout elapses; the caller re-acquires the lock before it decides.
DispatchExpires(a) ==
    /\ dpc[a] = "blocked"
    /\ dpc' = [dpc EXCEPT ![a] = "expired"]
    /\ UNCHANGED <<queueVars, workerVars, dmsg, lifeVars, fault, history>>

DispatchTimedOut(a) ==
    /\ dpc[a] = "expired"
    /\ Full /\ ~exit
    /\ Return(a, dmsg[a], "refused")
    /\ UNCHANGED <<queueVars, workerVars, lifeVars, fault, ticket, nextTicket>>

DispatchStep(a) ==
    \/ DispatchCheckThread(a) \/ DispatchPush(a) \/ DispatchRejected(a)
    \/ DispatchDropped(a) \/ DispatchFaults(a)
    \/ DispatchBlocks(a) \/ DispatchExpires(a) \/ DispatchTimedOut(a)

-----------------------------------------------------------------------------
(* Process, on the worker w                                                *)

\* The start handler returns and the promise CreateThread waits for is set.
Started(w) ==
    /\ wpc[w] = "starting"
    /\ wpc' = [wpc EXCEPT ![w] = "loop"]
    /\ UNCHANGED <<queueVars, wmsg, selfExit, dispatchVars, lifeVars, fault, history>>

Sleep(w) ==
    /\ wpc[w] = "loop"
    /\ Empty /\ ~exit
    /\ wpc' = [wpc EXCEPT ![w] = "asleep"]
    /\ UNCHANGED <<queueVars, wmsg, selfExit, dispatchVars, lifeVars, fault, history>>

\* The timed wait ends with nothing queued and the idle handler due.
IdleDue(w) ==
    /\ HasIdleHandler
    /\ wpc[w] \in {"loop", "asleep"}
    /\ Empty /\ ~exit
    /\ wpc' = [wpc EXCEPT ![w] = "idle"]
    /\ UNCHANGED <<queueVars, wmsg, selfExit, dispatchVars, lifeVars, fault, history>>

\* The idle handler runs after m_mutex is released.
RunIdle(w) ==
    /\ wpc[w] = "idle"
    /\ wpc' = [wpc EXCEPT ![w] = "loop"]
    /\ UNCHANGED <<queueVars, wmsg, selfExit, dispatchVars, lifeVars, fault, history>>

\* Mutant: the NORMAL lane is served first.
NormalFirst == high # <<>> /\ normal = <<>>

HighFirst == high # <<>>

\* Mutant: the id of a message is not looked at.
AnyMsg(msg) == TRUE

\* MSG_DISPATCH_DELEGATE
IsDelegateMsg(msg) == msg # ExitMsg

\* Take the front of the HIGH lane, else of the NORMAL lane.
DequeueMessage(w) ==
    /\ wpc[w] = "loop"
    /\ \/ /\ HighFirst
          /\ wmsg' = [wmsg EXCEPT ![w] = Head(high)]
          /\ high' = Tail(high) /\ UNCHANGED normal
       \/ /\ ~HighFirst /\ normal # <<>>
          /\ IsDelegateMsg(Head(normal))
          /\ wmsg' = [wmsg EXCEPT ![w] = Head(normal)]
          /\ normal' = Tail(normal) /\ UNCHANGED high
    /\ wpc' = [wpc EXCEPT ![w] = "invoke"]
    /\ SetFate({wmsg'[w]}, "running")
    /\ NotifyNotFull
    /\ UNCHANGED <<selfExit, dmsg, lifeVars, fault, ticket, nextTicket>>

\* MSG_EXIT_THREAD is at the front, or the queue is empty and m_exit is set.
DequeueExit(w) ==
    /\ wpc[w] = "loop"
    /\ high = <<>>
    /\ IF normal = <<>>
         THEN exit /\ UNCHANGED <<normal, dpc>>
         ELSE Head(normal) = ExitMsg /\ normal' = Tail(normal) /\ NotifyNotFull
    /\ wpc' = [wpc EXCEPT ![w] = "exited"]
    /\ UNCHANGED <<high, wmsg, selfExit, dmsg, lifeVars, fault, history>>

\* The handler is between two calls of its own.
InHandler(w) == wpc[w] = "invoke" /\ dpc[w] = "ready" /\ xpc[w] = "ready"

InvokeReturns(w) ==
    /\ InHandler(w)
    /\ SetFate({wmsg[w]}, "invoked")
    /\ wmsg' = [wmsg EXCEPT ![w] = NoMsg]
    /\ wpc' = [wpc EXCEPT ![w] = IF selfExit[w] THEN "exited" ELSE "loop"]
    /\ UNCHANGED <<queueVars, selfExit, dispatchVars, lifeVars, fault, ticket, nextTicket>>

\* An exception that leaves the handler is caught by Process(), which faults.
InvokeThrows(w) ==
    /\ InHandler(w)
    /\ fault' = TRUE
    /\ UNCHANGED <<queueVars, workerVars, dispatchVars, lifeVars, history>>

WorkerStep(w) ==
    \/ Started(w) \/ Sleep(w) \/ IdleDue(w) \/ RunIdle(w)
    \/ DequeueMessage(w) \/ DequeueExit(w) \/ InvokeReturns(w) \/ InvokeThrows(w)

-----------------------------------------------------------------------------
(* ExitThread, on the owner or inside a handler                            *)

ExitIdle == \A a \in Exiters : xpc[a] = "ready"

ExitBegin(a, exitPolicy) ==
    /\ ExitIdle
    /\ thread # NoThread
    /\ IF a = Owner THEN cpc = "ready" ELSE InHandler(a)
    /\ exit' = TRUE
    /\ IF exitPolicy = "DISCARD"
         THEN SwapLanes(<<ExitMsg>>)
         ELSE /\ normal' = PushBack(normal, ExitMsg)
              /\ UNCHANGED <<high, fate>>
    /\ wpc' = WakeWorker
    /\ dpc' = WakeProducers
    /\ xpc' = [xpc EXCEPT ![a] = "cancelling"]
    /\ UNCHANGED <<wmsg, selfExit, dmsg, policy, thread, cpc, fault, ticket, nextTicket>>

\* CancelAll() on what DISCARD took off the queues, before the join.
ExitCancel(a) ==
    /\ xpc[a] = "cancelling"
    /\ CancelAll
    /\ xpc' = [xpc EXCEPT ![a] = "joining"]
    /\ UNCHANGED <<queueVars, workerVars, dispatchVars, policy, exit, thread, cpc, fault, ticket, nextTicket>>

\* Mutant: detach where the code joins.
ExitJoinless(a) ==
    /\ xpc[a] = "joining"
    /\ thread # a
    /\ xpc' = [xpc EXCEPT ![a] = "resetting"]
    /\ UNCHANGED <<queueVars, workerVars, dispatchVars, policy, exit, thread, cpc, fault, history>>

ExitJoin(a) ==
    /\ xpc[a] = "joining"
    /\ thread # a
    /\ wpc[thread] = "exited"
    /\ xpc' = [xpc EXCEPT ![a] = "resetting"]
    /\ UNCHANGED <<queueVars, workerVars, dispatchVars, policy, exit, thread, cpc, fault, history>>

\* A handler exits its own thread: detach, and tell Process() to return.
ExitDetach(a) ==
    /\ xpc[a] = "joining"
    /\ thread = a
    /\ selfExit' = [selfExit EXCEPT ![a] = TRUE]
    /\ xpc' = [xpc EXCEPT ![a] = "resetting"]
    /\ UNCHANGED <<queueVars, wpc, wmsg, dispatchVars, policy, exit, thread, cpc, fault, history>>

ExitReset(a) ==
    /\ xpc[a] = "resetting"
    /\ thread' = NoThread
    /\ SwapLanes(<<>>)
    /\ dpc' = WakeProducers
    /\ xpc' = [xpc EXCEPT ![a] = "cleanup"]
    /\ UNCHANGED <<workerVars, dmsg, policy, exit, cpc, fault, ticket, nextTicket>>

ExitCleanup(a) ==
    /\ xpc[a] = "cleanup"
    /\ CancelAll
    /\ xpc' = [xpc EXCEPT ![a] = "ready"]
    /\ UNCHANGED <<queueVars, workerVars, dispatchVars, policy, exit, thread, cpc, fault, ticket, nextTicket>>

ExitStep(a) ==
    ExitCancel(a) \/ ExitJoin(a) \/ ExitDetach(a) \/ ExitReset(a) \/ ExitCleanup(a)

-----------------------------------------------------------------------------
(* CreateThread, on the owner                                              *)

\* m_exit is cleared before the lock is taken and the thread exists.
CreateBegin ==
    /\ cpc = "ready" /\ xpc[Owner] = "ready"
    /\ thread = NoThread
    /\ \E w \in Workers : wpc[w] = "unborn"
    /\ exit' = FALSE
    /\ cpc' = "emplace"
    /\ UNCHANGED <<queueVars, workerVars, dispatchVars, policy, thread, xpc, fault, history>>

CreateEmplace ==
    /\ cpc = "emplace"
    /\ \E w \in Workers :
         /\ wpc[w] = "unborn"
         /\ thread' = w
         /\ wpc' = [wpc EXCEPT ![w] = "starting"]
    /\ cpc' = "await"
    /\ UNCHANGED <<queueVars, wmsg, selfExit, dispatchVars, policy, exit, xpc, fault, history>>

\* m_threadStartFuture->get()
CreateReturns ==
    /\ cpc = "await"
    /\ \A w \in Workers : wpc[w] # "starting"
    /\ cpc' = "ready"
    /\ UNCHANGED <<queueVars, workerVars, dispatchVars, policy, exit, thread, xpc, fault, history>>

CreateStep == CreateEmplace \/ CreateReturns

-----------------------------------------------------------------------------
Step ==
    \/ \E a \in Actors : DispatchStep(a) \/ \E m \in Messages : DispatchDelegate(a, m)
    \/ \E w \in Workers : WorkerStep(w)
    \/ \E a \in Exiters : ExitStep(a) \/ \E exitPolicy \in {"DRAIN", "DISCARD"} : ExitBegin(a, exitPolicy)
    \/ CreateBegin
    \/ CreateStep

\* The process has faulted, or everybody is done and no thread is left to create.
Over ==
    \/ fault
    \/ /\ \A a \in Actors : dpc[a] = "ready"
       /\ \A m \in Messages : fate[m] \in {"refused", "invoked", "cancelled"}
       /\ \A w \in Workers : wpc[w] = "exited"
       /\ ExitIdle /\ cpc = "ready" /\ thread = NoThread

Next == (~fault /\ Step) \/ (Over /\ UNCHANGED vars)

\* The scheduler runs every thread that can run, clocks advance and handlers
\* return.  Nobody has to start a dispatch, an exit or a new thread.
Fairness ==
    /\ \A a \in Actors : WF_vars(~fault /\ DispatchStep(a))
    /\ \A w \in Workers : WF_vars(~fault /\ WorkerStep(w))
    /\ \A a \in Exiters : WF_vars(~fault /\ ExitStep(a))
    /\ WF_vars(~fault /\ CreateStep)

Spec == Init /\ [][Next]_vars
FairSpec == Spec /\ Fairness

-----------------------------------------------------------------------------
(* Safety                                                                  *)

InHigh(m) == \E i \in DOMAIN high : high[i] = m
InNormal(m) == \E i \in DOMAIN normal : normal[i] = m
ExitQueued == \E i \in DOMAIN normal : normal[i] = ExitMsg

\* A message DispatchDelegate() accepted and that is still waiting is in exactly
\* one place of the lane of its priority, and in no other case in any lane: none
\* is lost, doubled or put in the wrong lane by a push, a pop or the swaps of
\* ExitThread().
MessagesAccounted ==
    /\ \A m \in Messages : fate[m] = "queued" <=> InHigh(m) \/ InNormal(m)
    /\ \A i \in DOMAIN high : high[i] \in HighMsgs
    /\ \A i \in DOMAIN normal : normal[i] \notin HighMsgs
    /\ \A i, j \in DOMAIN high : high[i] = high[j] => i = j
    /\ \A i, j \in DOMAIN normal : normal[i] = normal[j] => i = j

\* The queues never hold more than MAX_QUEUE_SIZE messages, whatever the policy
\* and however many producers wait for a slot; only the exit message, which
\* ExitThread() pushes without looking at the limit, may come on top of them.
CapacityBound ==
    Len(high) + Len(normal) <= MaxQueueSize + (IF ExitQueued THEN 1 ELSE 0)

\* The worker never sleeps in m_cv.wait() on a notification that was already
\* given: while it sleeps there is nothing to take and no exit was requested.
NoLostWakeup ==
    \A w \in Workers : wpc[w] = "asleep" => thread = w /\ Empty /\ ~exit

\* A producer blocked in m_cvNotFull.wait_for() is not left behind while there is
\* room: every free slot has a notified producer on its way to it, although
\* notify_one() wakes a single one and newcomers may take the slot first.
NoStrandedProducer ==
    Blocked # {} => Len(high) + Len(normal) + Cardinality(Woken) >= MaxQueueSize

\* While ExitThread() waits in join(), the worker still has the exit message to
\* find, or has returned; nothing is queued behind that message, and none is left
\* over for the worker of a later CreateThread().
ExitMsgPending ==
    /\ \A a \in Exiters :
          xpc[a] \in {"cancelling", "joining"} =>
              /\ exit /\ thread # NoThread
              /\ wpc[thread] = "exited" \/ ExitQueued
    /\ \A i \in DOMAIN normal :
          normal[i] = ExitMsg => exit /\ thread # NoThread /\ i = Len(normal)

\* "Normally empty", says ExitThread() of the queues it swaps out after join():
\* when the worker has returned both lanes are empty, so an exit with DRAIN has
\* invoked every message queued before it.  Only an exit from inside a handler
\* finds messages there.
DrainedAtJoin ==
    \A a \in Exiters : xpc[a] = "resetting" /\ thread # a => Empty

\* Messages are invoked one at a time: a second handler runs at the same time
\* only beside one that has exited its own thread and is about to return.
SerialInvoke ==
    \A v, w \in Workers :
        v # w /\ wpc[v] = "invoke" /\ wpc[w] = "invoke" => selfExit[v] \/ selfExit[w]

\* The Priority contract and the fate of every message, as Mailbox states them:
\* HIGH ahead of NORMAL, first come first served within a lane, each message
\* delivered or cancelled at most once, and never both.
Abstract == INSTANCE Mailbox WITH
    fate <- [m \in Messages |-> IF fate[m] = "offered" THEN "new" ELSE fate[m]]
ImplementsMailbox == Abstract!Spec

-----------------------------------------------------------------------------
(* Liveness, under the fairness of FairSpec                                *)

\* An accepted message is invoked or cancelled in the end, also when the thread
\* exits, exits itself, or is created again: it is never forgotten in a lane.
AcceptedSettles ==
    \A m \in Messages : fate[m] = "queued" ~> fate[m] \in {"invoked", "cancelled"} \/ fault

\* ExitThread() returns: its join() never waits for a worker that waits for it.
ExitReturns ==
    \A a \in Exiters : xpc[a] # "ready" ~> xpc[a] = "ready" \/ fault

\* DispatchDelegate() returns, also for a handler that posts to its own full
\* queue and for producers that are blocked while the thread exits.
DispatchReturns ==
    \A a \in Actors : dpc[a] # "ready" ~> dpc[a] = "ready" \/ fault
=============================================================================

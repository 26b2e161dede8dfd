# TLA+ models of Async-HTTP and the DelegateMQ core under it

This directory holds TLA+ specifications of the Async-HTTP client and of the
DelegateMQ machinery it runs on, the TLC configurations that check them on small
instances, and proofs checked by TLAPS. Paths below are relative to the root of
the repository (under `src/` in `PROJECT.json`, which maps every definition to
the lines it translates).

    tlc -workers 2 -config ThreadSafety.cfg MCDelegateThread
    tlapm AsyncWaitProofs.tla

## 1. The system

`HTTP/async_http.cpp` gives each `AsyncHttp` object one worker thread and one
libcurl easy handle. Requests are delegates, dispatched to the worker as
messages: `GetWait` blocks on the answer, `Get` calls a callback on the worker,
`Get_future` returns a `std::future`. Everything else is DelegateMQ.

    caller --- DelegateAsync / DelegateAsyncWait ---> StdlibThread --- Invoke ---> HttpGet, HttpPost, HttpCleanup
       ^                    |                          two lanes,                        |
       +---- semaphore -----+                          m_mutex, 2 condvars         libcurl (one easy handle each,
       +---- callback / promise <------------------------------------------------- one process-wide init count)

### Inventory

| Part | State | Operations | What is hard | What makes it correct |
|---|---|---|---|---|
| `StdlibThread` (`DelegateMQ/port/os/stdlib`) | `m_highQueue`, `m_normalQueue`, `m_exit`, `m_thread`, two condition variables | `CreateThread`, `ExitThread(DRAIN/DISCARD)`, `DispatchDelegate`, `Process` | producers, handlers, worker and owner interleave; exit from inside a handler; full queue; re-creation | no lost wakeup, no lost or doubled message, priority order, bounded queue, every call returns |
| Async-wait delegates, `Semaphore` (`DelegateMQ/delegate`) | `m_invokerWaiting`, `m_invokeSucceeded`, `m_signaled`, `m_lock` | `operator()`, `DispatchAsyncWait`, `Invoke`, `Cancel` | timeout against a running target, exceptions, discarded messages, a call to one's own thread | the target never outlives the call, success is exact, every call returns |
| Async delegates | none | `DispatchAsync` | a refusal is only logged | what is lost is what the thread refused |
| `AsyncHttp` (`HTTP`) | `m_curl`, `m_running`, `g_curlRefCount` | `init`, `shutdown`, three request styles | several clients share libcurl; shutdown with requests queued, running, or from a callback | safe transfers, exact count, no leak, every request settles |
| `Signal`, multicast delegates | list of delegates under a recursive mutex | connect, disconnect, emit | disconnect while a snapshot is being invoked | a disconnected slot is called at most for an emit that had begun |
| `Timer` (`extras/util`) | intrusive list, `m_enabled`, `m_timerStopped` | `Start`, `Stop`, destructor, `ProcessTimers` | stop from a callback, batches | every expiry signalled once, none after a stop that preceded the pass |
| `TransportMonitor`, `RetryMonitor`, `ReliableTransport` | pending map with a limit, retry store | send, acknowledge, `Process` | lost, late and duplicate acknowledgements; timeout during the first send | each message ends as acknowledged or failed exactly once, no entry leaks |
| `DataBus`, `Participant`, `NetworkNode` | subscriptions, last-value cache, duplicate history | publish, subscribe, `ProcessIncoming` | cached value against a live one; duplicates; the acknowledgement comes before the filter | a subscriber with a guard sees values in order; only duplicates are filtered |
| Remote delegates, RPC | endpoint tables, pending calls | `RemoteInvokeWait`, `RecvThread`, `Incoming` | a status before its sequence number; calls dropped after their acknowledgement | status goes to its call |
| RTOS, POSIX, Win32, Qt ports | the state of `StdlibThread`, with other primitives | same as `StdlibThread` | two queues and a doorbell semaphore in place of one lock | the same `Mailbox` contract |
| Allocator, serializers, transports, examples | - | - | pointer code, I/O | not modelled |

`PROJECT.json` lists every part with its status and all hazards with their lines.

## 2. Modules

| Module | What it is |
|---|---|
| `Mailbox` | what a DelegateMQ thread promises about messages: refused or accepted, delivered in the order of the `Priority` contract (`DelegateMsg.h`), or discarded and cancelled together |
| `DelegateThread` | `StdlibThread`; implements `Mailbox` |
| `BlockingCall` | what a blocking call promises its caller |
| `AsyncWait` | the async-wait hand-shake over a `Mailbox`; implements `BlockingCall` |
| `AsyncHttp` | any number of HTTP clients and the libcurl reference count |
| `ReliableLink` | `TransportMonitor`, `RetryMonitor` and `ReliableTransport` over a lossy network, up to the receiver's transport, which acknowledges |
| `Participant` | `Participant::ProcessIncoming` at the end of a `ReliableLink`: look-up, duplicate filter, run |
| `RemoteInvoke` | `RemoteDispatcher::RemoteInvokeWait`, a blocking remote call over a `ReliableLink`, and the receive thread of the remote |
| `TimerService` | `Timer`, `TimerDelegate`, and the receive timer of `NetworkNode` |
| `DataBus` | publish, subscribe and Last Value Cache of one topic, `Signal`, `MonotonicGuard` |
| `AsyncWaitProofs` | theorems about `AsyncWait` |
| `DelegateThreadProofs` | theorems about `DelegateThread`, among them that it implements `Mailbox` |
| `AsyncHttpProofs` | theorems about `AsyncHttp` |
| `ReliableLinkProofs` | theorems about `ReliableLink` |
| `ParticipantProofs` | theorems about `Participant`, over those about its link |
| `RemoteInvokeProofs` | theorems about `RemoteInvoke`, over those about its link |
| `TimerServiceProofs` | theorems about `TimerService` |
| `DataBusProofs` | theorems about `DataBus` |
| `MCDelegateThread`, `MCAsyncWait`, `MCAsyncHttp`, `MCParticipant`, `MCRemoteInvoke`, `MCTimerService`, `MCDataBus` | constants for TLC |

The layers are composed by contract. `DelegateThread` is shown to implement
`Mailbox`; `AsyncWait` instantiates `Mailbox` as its destination thread and takes
the mailbox's own actions as parts of its actions; `AsyncHttp` uses, for each
client, what these two establish (one lane in order, an exit message behind
everything accepted, a blocking call withdrawn at its timeout unless its target
runs). The composition by contract keeps each state space small. `RemoteInvoke`
and `Participant` are composed with `ReliableLink` directly: they extend the module
and take its actions as parts of their own. They are two different receivers: the
link itself ends where the transport has acknowledged a datagram.

### DelegateThread

| Code | Model |
|---|---|
| `m_exit`, `m_thread`, `m_highQueue`, `m_normalQueue` | `exit`, `thread`, `high`, `normal` |
| position of a caller in `DispatchDelegate` | `dpc`: `checked` after the first test of `m_exit`, `entering` when it wants the lock, `blocked`, `woken` or `expired` in `m_cvNotFull.wait_for` |
| position of a worker in `Process` | `wpc`; `asleep` is `m_cv.wait` |
| position in `ExitThread`, `CreateThread` | `xpc`, `cpc` |
| `t_self_exit` | `selfExit` |
| `DMQ_ASSERT` | `fault`, after which nothing happens |

One action is one critical section of `m_mutex` or one unlocked access. A handler
is the worker in `invoke`; it may dispatch to its own thread and call
`ExitThread`. `fate` and `ticket` are history variables; they are also the
refinement mapping to `Mailbox`.

Modelling decisions:
- `ExitThread` and `CreateThread` read and write the plain member `m_thread`
  outside any lock. Two of them at once on one object are a data race the API
  excludes ("Called once"), so their callers take turns (`ExitIdle`, `cpc`). All
  interleavings with dispatches, handlers and the worker remain.
- Spurious wakeups and the watchdog's periodic wakeups re-evaluate a predicate and
  go back to sleep; they are left out. A wait with a time limit is the choice
  between being notified and expiring.
- The start handler belongs to `Started`; the exit handler runs before the worker
  counts as `exited`.

### AsyncWait

A call and its message share a name. `Finish` is the locked section at the end of
`DispatchAsyncWait`; `locked` is the mutex while `Invoke` holds it, which is for
as long as the target runs. `NestedCalls` are made by a target on the destination
thread itself, which therefore cannot do anything else until they return. The
destination may refuse a message, discard those queued and cancel them
(`Discard`, `Cancel` are two steps, as in `ExitThread`). Every wait can time out;
`WAIT_INFINITE` is a long timeout.

### AsyncHttp

`opc` is the position of the one caller of `init` or `shutdown`, `wpc` of the
worker. The blocking `HttpCleanup` call is `cleanup`: queued, run or withdrawn.
Requests come from any thread at any time and their callers get one of the
outcomes of the code: a response, a curl error, "Not initialized", "Request timed
out", a broken promise, a callback never called, or an exception from
`GetThreadId`. A callback may call `GetWait` (`NestedTransfer`) and `shutdown`
(`ShutdownInCallback`). The latter is one step, although the code waits in it for
its cleanup to time out: the worker is the caller and does nothing else, so
requests that come in meanwhile are those that came in just before.

Modelling decisions:
- `m_running` and `m_curl` are plain members, so `init` and `shutdown` of one
  client have one caller at a time; different clients are concurrent.
- The 1000-message limit of the queue is not reached; `DelegateThread` has the
  full queue.
- `StartThread` waits for a worker that is leaving after a self-exit.
  `DelegateThread` has both workers at once.
- A failing `curl_global_init` leaves everything as it was and is not an action.
- `missed`, `inTime` and `orphans` are history. `orphans` counts references kept
  by an `init` that failed in `curl_easy_init`.

### ReliableLink

| Code | Model |
|---|---|
| `m_retryStore`, `attemptsRemaining`, `isSent` | `stored`, `left`, `isSent` |
| `m_pending`, entries older than `TRANSPORT_TIMEOUT` | `pending`, `expired` |
| `m_expiredItems`, `expiredCount == MAX_TIMER_EXPIRED` | `batch`, `full` |
| place in `SendWithRetry` / in `Process` and `OnStatusChanged` / between the halves of `Remove` | `spc` / `npc`, `cur` / `ackCur` |
| `LinuxUdpTransport::Receive`, which acknowledges before it returns | `Receive` |

An action is one critical section of `m_lock` (of either class), one `Send`, or
one datagram received. `wire` and `acks` hold every datagram and every
acknowledgement ever sent; the network
delivers any of them at any time, any number of times or never, which is loss,
duplication, reordering and delay in one. `tx`, `outcome` and `untracked` are
history.

Modelling decisions:
- One remote id, and a sequence number per message: the counter does not wrap.
- Which of too many expired entries a pass takes depends on their keys: any.
  An entry expires at any time after its `Add`.
- An erasure and the `OnDeliveryFailed` behind it are one step: nothing reads the
  store in between but for the same key.
- `AcksOnNet` and `SendsOnNet` tell the two users apart: `NetworkNode` receives
  acknowledgements on the thread that runs `Process`; `RemoteDispatcher` has a
  receive thread, and queues its sends to the thread of `Process`.

### Participant

| Code | Model |
|---|---|
| `ProcessIncoming` between `Receive` and the lock of `m_mutex` | `hand` |
| whether `m_channels` has the remote id | `registered` |
| `SeqHistory` | `buffer`, `head` |
| duplicate dropped / channel invoked / `ERR_NO_DISPATCHER` | `DropDuplicate` / `InvokeChannel` / `NoDispatcher` |

`Arrive` is `Receive`, acknowledgement included. What happens to the message is
decided by a later step, between which and the first the handler may be
registered, the sender hear its success, or retry. A message that finds no channel
is not remembered by the filter and is lost although it was acknowledged
(`unheard`). So `OutcomeIsTrue` does not say that a success has run. It says that
it reached the receiver and has run, is still in its hand, or found no channel: the
filter, which also drops what it takes for a duplicate without a word, is not where
an acknowledged message is lost. `executed`, `since` and `unheard` are history.
The look-up and the invocation outside the lock are one step: there is one receive
thread, a channel is never removed, and nobody else uses the filter.

### RemoteInvoke

`cpc` is where a caller of `RemoteInvokeWait` is: queued on the network thread,
sending there, waiting on the semaphore of its `InvokeWaitState`, done. `netTold`
and `ackTold` are a status that `OnSendStatus` has given to `RetryMonitor`'s slot
and not yet to the caller's: the slots of a `Signal` run in the order of their
connections. On the remote, the transport acknowledges and the receive thread hands
the message to the network thread (`RemoteReceives`, `inbox`) and waits for it; there
it runs (`Incoming`), or it is lost (`RemoteLoses`): the queue is full and drops,
`INVOKE_TIMEOUT` withdraws it, or nobody has registered its id. Nothing filters
duplicates: a retransmission runs again. `executed` and `lost` are history.
Every message of the link is one call. Arguments serialize (see
section 5), and the caller is not the network thread, where the call sends and
returns at once.

### TimerService

`list` is the intrusive list (`Keep` is what a loop that unlinks leaves of it),
`batch` the snapshots of one pass, `full` the
condition of the loop of `ProcessTimers`. Timers but one are started, stopped and
destroyed by any thread at any time, also between two snapshots; their slots are
called in place, and what a slot does to timers is what any thread may do. The
slot of `NodeTimer` is a `TimerDelegate` whose ticks are `queued` to, or `running`
on, the thread of a `NetworkNode`; `owner` is where that node is in `Stop`. The
weak token of `PacedDispatch` is alive as long as its message: `CanFire`.
The node has one life: `Start` once, `Stop` once.

### DataBus

`pub` and `sub` are the places in `InternalPublish` and `InternalSubscribe`. A step
is one critical section of the bus mutex or of the `Signal`, or one slot called
outside them. An asynchronous slot is dispatched to `inbox`, the queue of the
subscriber's thread (one NORMAL lane of `DelegateThread`), or refused by it
(`Dispatch`): others fill that queue too, so it may be full under DROP or TIMEOUT, or
the thread may be exiting, at any time. `DispatchAsync` only logs a refusal and the
value is lost (`refused`, history); a
synchronous one runs on the publisher's thread, two publishers at once if need be,
so only asynchronous subscribers have a `MonotonicGuard` (it is not thread-safe).
Messages are numbered before `Publish` is called, so two publishers may publish
out of order. `HalfRange` is half the range of the sequence number, 2^(w-1) for a
number of w bits; at most that many messages are published, the limit `MonotonicGuard.h:41` gives.

The end of `InternalPublish`, the dispatch to remote participants and the
notification of an unhandled topic, changes nothing in this module's state and is
part of `PublishReturns`. Filters, rate limits, life spans, the type registry and
the monitor signal are left out.

## 3. Runs

| Run | Question | Result |
|---|---|---|
| `thread_safety` | Are messages, wakeups and the exit message handled right in every interleaving, and is `Mailbox` implemented? | holds |
| `thread_liveness` | Do dispatches and exits return, and accepted messages settle? | holds |
| `async_wait` | Does the hand-shake implement `BlockingCall`, and does every call return? | holds |
| `async_wait_timeout_doc` | Does an expired timeout mean that the target was not invoked? | violated |
| `http_safety` | Are transfers, handles and the reference count safe when only running clients are shut down? | holds |
| `http_liveness` | Does every request settle, and do `init` and `shutdown` return? | holds |
| `http_shutdown_twice` | Are several clients safe when `shutdown` is also called on one that is not running? | violated |
| `http_shutdown_timeout_doc` | Does the timeout of `shutdown` bound it? | violated |
| `reliable_link` | Is every message settled, with one outcome that is true of the receiver, and is the duplicate filter exact, over a network that may do anything? | holds |
| `remote_invoke` | Does a blocking remote call return, true only if it was acknowledged, whichever of acknowledgement, timeout and sequence number is first? | holds |
| `timer_service` | Do timers keep their rate, does a pass leave none behind, and is a `TimerDelegate` alive while a tick refers to it? | holds |
| `data_bus` | Does a Last Value Cache subscriber miss nothing but what its own thread refuses, and does the guard hide what the bus reorders? | holds |

Each property has a comment with its meaning beside its definition. Most are
about hazards a test hardly reaches: `NoLostWakeup` and `NoStrandedProducer`
about the two condition variables, `ExitMsgPending` and `DrainedAtJoin` about the
exit protocol, `SerialInvoke` about a thread created again while its old worker
is still in a handler, `NoUseAfterReturn` about a timeout while the target works
on the caller's stack, `RefCountExact` and `TransferIsSafe` about libcurl shared
by several clients, `Tracked` and `OutcomeIsTrue` about timeouts that meet late
acknowledgements and failing retries, `AnswerIsRight` about a status that is known
before its sequence number, `RateBound` and `TargetSafe` about timers touched
while their snapshots wait, `CaughtUp` and `GuardKeepsNewest` about a subscription
that interleaves with publishes.

### Bounds

- `thread_safety`: four messages (two HIGH), two producers, two workers (so one
  re-creation), a queue of two, all three policies, idle handler set. Two
  producers are needed to compete for a slot, two messages per lane to show its
  order, two workers to overlap, and four messages to fill a queue of two with one
  message in the handler and one at the door.
- `thread_liveness`: three messages, one producer beside the handlers, a queue of
  one, TIMEOUT only: the policy that blocks.
- `async_wait`: two callers and a nested call; every path of the hand-shake
  involves at most the message that runs, one that waits and one inside.
- `http_*`: two clients in the safety runs, one where liveness is about one; one
  request of each style; `Handles` (two) bounds the number of inits,
  `MaxFailedInits` (one) those that fail.

- `reliable_link`: two messages that are sent, and a third whose sender has given up
  while the network still holds its datagrams (`LateInit`, a state the link
  reaches); one pending entry, one retry, batches of one and a history of two: the
  second message finds the map full, and with the late one three messages pass a
  filter that remembers two. With one pending entry no batch leaves anything
  behind; the proof of `Tracked` covers all limits.
- `remote_invoke`: two calls, one pending entry: the second call meets the first's
  entry, and either may be refused, retried, acknowledged late or lost by the remote.
- `timer_service`: the node's timer and two more, batches of two, a clock that
  stops at 3 (`MaxTime`, the one cap), period 1: a batch overflows, a timer falls
  behind by two periods, and everything is started, stopped or destroyed at every
  point of a pass.
- `data_bus`: two publishers, a synchronous and an asynchronous subscriber, three
  messages numbered 6, 7, 0 on three bits (`HalfRange` 4): the rollover is between the second and
  the third.

The messages, requests, calls and handles are finite in number because each is
used once; the clock of `TimerService` is the only counter with a cap.

### Fairness

Weak fairness for each thread of its own steps: the operating system runs a
thread that can run, clocks advance, and handlers, targets and transfers return
(`CURLOPT_TIMEOUT` bounds the latter). Nobody is forced to start a dispatch, a
request, an exit or a new thread. `AsyncHttp` needs strong fairness of
`CallbackReturns`: a callback that makes requests of its own returns after
finitely many. `StuckCallbackSpec` leaves that out, and only
`http_shutdown_timeout_doc` uses it.

In `Participant` the threads of the sender run: publishers, the net thread and the
status callbacks; and
entries expire (a clock advances and `Process` is called periodically). Nothing is
assumed of the network or the receiver, so `Settles` holds when every datagram is lost.
`RemoteInvoke` does not even assume that `RECV_TIMEOUT` expires: `CallAnswered`
shows that a status always reaches the caller.

### What the violated runs show

1. `TimeoutMeansNotInvoked`. `DelegateAsyncWait.h:26-27` says that the target is not
   invoked when the caller's timeout expires. If it expires while the target runs,
   the caller waits for the mutex until the target is done and then reports a
   failure. A caller that retries may execute its request twice.
2. `TransferIsSafe` with `StrictShutdown = FALSE`. `shutdown()` calls
   `curl_global_release()` also when the client is not running. A second call
   takes away the reference of another client, and `curl_global_cleanup()` runs
   under its transfer; `async_http.cpp:19-20` calls the count safe for several
   clients. The destructor tests `m_running` first and is not affected.
3. `TimeoutEndsShutdown`. `async_http.h:84` says that `shutdown` blocks until the
   worker exits or the timeout expires. The timeout bounds only the cleanup call;
   the join has no limit.

## 4. Proofs

`AsyncWaitProofs` proves, for any sets of calls, HIGH calls and nested calls:

- `TypeCorrect`, `ArgumentsOutliveTarget` (`NoUseAfterReturn`), `FailuresExplained`
  (`FailureHasReason`), `ExitReleasesCallers` (`CancelReleases`);
- `BlockingCallImplemented`: every behaviour of `Spec` is one of `BlockingCall`.

The only assumption is `CallAssumption`. None of the invariants is inductive by
itself. `IInv` adds where the destination thread stands with the call it invokes
(`WorkerInv`: from the start of the target to the release of the mutex it holds
the mutex of a call whose caller is still inside), what the fields of a message say
about its call (`CallInv`: the waiting flag is exactly "the caller is inside", a
held mutex belongs to the running call, a target that has begun belongs to a
message that was delivered) and what a signal stands for (`OutcomeInv`). With
them, the caller's last step needs the mutex, so it cannot be taken while the
target runs; and a target runs only for a message whose flag was seen with the
mutex held.

`DelegateThreadProofs` proves, for any messages and priorities, any number of
producers and successive threads, any queue limit and any set of policies, every
safety invariant of `DelegateThread`:

- `TypeCorrect`; `NoMessageLost` (`MessagesAccounted`); `QueueBounded`
  (`CapacityBound`); `WorkerWakes` (`NoLostWakeup`); `ExitFindsWorker`
  (`ExitMsgPending`); `JoinFindsEmptyQueues` (`DrainedAtJoin`); `HandlersSerial`
  (`SerialInvoke`); `NoProducerStranded` (`NoStrandedProducer`).

The only assumption is `ThreadAssumption`. The eight come from one inductive
invariant, `IInv`, whose parts lean on each other:

- `LifeInv`: one caller at a time is in `ExitThread`; until it resets `m_thread`
  the thread is there and `m_exit` is set, and `m_exit` is set on a live thread at
  no other time. Hence nobody starts a second exit of the same thread.
- `WorkerInv`: a worker in its loop is the one `m_thread` holds, and one that is
  no longer has exited its own thread and is in its handler, or has returned.
- `ExitMsgInv`: the exit message is in the queue only during an exit, with nothing
  behind it. It is the guard `~exit` of the push, evaluated under the lock, and the
  two swaps of `ExitThread` that make this so.
- `WakeInv`: a worker that has returned has left both lanes empty, one that sleeps
  has nothing to do, and one that is being joined has the exit message ahead of it.
- `FateInv`: a queued message is in one lane, once; a running one in the hands of
  one worker; an offered one in those of one caller (`QueuedInv`, `RunningInv`,
  `DispatchInv`). `MessagesAccounted` alone is not inductive: that a pushed message
  is in no lane yet needs `DispatchInv`, and that a message is not finished twice
  needs `RunningInv`.

The lanes enter these proofs only through `PushHolds`, `PopHolds` and
`SwappedHolds`, which say what a push, a pop and a swap do to the set of messages
a lane holds.

`NoProducerStranded` counts, so it needs two facts more (`SlotInv`): the callers
inside `DispatchDelegate` are finitely many, although the set of callers need not
be, and nobody is left blocked during an exit. Then each pop frees one slot and
notifies one producer, a woken producer leaves the count only by
taking a slot or by giving up, and a newcomer that takes a free slot lengthens a
lane.

It also proves `RefinesMailbox`: every
behaviour of `Spec` is one of `Mailbox` (`ImplementsMailbox`), step by step. `Mailbox`
orders messages by tickets, `StdlibThread` by two queues; `OrderInv` connects
them: tickets handed out are below the next one, and along each lane they grow.
With `FateInv` the message at the front of a lane is then the one `Mailbox` would
deliver, and the swap of an exit throws away exactly what `Mailbox` holds queued.

`AsyncHttpProofs` proves, for any clients, callers and requests, from
`HttpAssumption`:

- `TypeCorrect`; `HandlesComeBack` (`NothingLeaks`); `AcceptedIsServed`
  (`ServedBeforeCleanup`);
- under `StrictShutdown`, `CountIsExact` (`RefCountExact`) and `TransfersAreSafe`
  (`TransferIsSafe`).

`StrictShutdown` says that `shutdown()` is called on running clients only. Without
it the last two are false: the run `http_shutdown_twice` shows that a second
`shutdown()` gives back a reference its client does not have. The others hold with
and without. `LifeInv` says where the owner of a client and its worker stand with
each other and with the cleanup message; `QueueInv` that the cleanup is in the queue
once, with no request behind it that was accepted before `shutdown()` began;
`HandleInv` that a client has a handle from `init` until its cleanup has run, and
that two clients never share one. So a transfer, which runs on the worker whose
cleanup is still to come, has its handle; and because its client holds a reference
until the join is over, `CountInv` gives it an initialised libcurl.

`ReliableLinkProofs` proves, for any messages, number of retries and limits of the
pending map and of a batch, from `LinkAssumption`, `TypeCorrect` and `NothingForgotten`
(`Tracked`). `IInv` says where the publisher of a message and the net thread stand
(`PublisherInv`, `NetInv`: a message is in the pending map, in the batch or in the
net thread's hands, never in two of them), that what was sent, what is left and
the retransmission being made add up (`BudgetInv`), and that only what was sent is
acknowledged (`AckInv`). `OutcomeInv`, which holds if acknowledgements are taken on the
net thread, says what each outcome stands for, a success for an acknowledgement. It
needs one more fact, and it is the one the receive thread of `RemoteDispatcher`
breaks: what was sent and is still held by somebody has its entry.

`ParticipantProofs` proves, for any messages and any sizes, from `LinkAssumption` and
`HistoryAssumption`:

- `ReceiverUsesTheLink`: `DeliverySpec => Spec`, so what is proved of `ReliableLink`
  holds with this receiver;
- `DeliveryTypeCorrect` (`DeliveryTypeOK`); `FilterIsExact` (`RingIsRecent`);
  `OneTrueOutcome` (`OutcomeIsTrue`, if acknowledgements are taken on the net thread).

`RingInv` says that a slot of the ring holds the message that ran as long ago as its
distance from the head, so that what the filter drops has run. `HandledInv` follows
an acknowledged message: it is in the receiver's hand, has run, or found no channel;
it holds across `DropDuplicate` because of `RingInv`, and `OutcomeInv` of the link,
which ends at the acknowledgement, carries it to the outcome.

`DataBusProofs` proves, for any publishers, subscribers and messages, and any
start of the counter, from `RangeAssumption` and `SubscribersAssumption`:

- `TypeCorrect`; `NoUpdateMissed` (`CaughtUp`); `GuardIsMonotonic`
  (`GuardKeepsNewest`).

`CaughtUp` speaks of a subscriber that is done; its inductive form, `DeliveryInv`,
speaks of one that has just copied the cache: the cached value is the copy, or
was offered to the subscriber, whose thread has queued or refused it, or a publisher
will still offer it, because that publisher has
yet to copy the slots or has this one in its copy. `GuardInv` ties the stamp of the
guard to the last message it let through; `SignedDiffOrders` shows that the signed
difference of two stamps is the difference of their messages, which is where
`RangeAssumption` is used.

`RemoteInvokeProofs` proves, for any calls and from `LinkAssumption`:

- `CallsUseTheLink`: `InvokeSpec => Spec`, the calls use the link by its own
  operations only, so what is proved of `ReliableLink` holds under them;
- `InvokeTypeCorrect` (`InvokeTypeOK`); `AnswersAreRight` (`AnswerIsRight`).

`RemoteInv` says that an acknowledged call has run, is on its way to `Incoming`, or
was lost by the remote; more is not true of the code. `TruthInv` carries the
acknowledgement along the way of a status, from the link's `OnSendStatus`
over the callback to the sets `success` and `early`; `CallInv`
follows one call: before its sequence number is known its first status waits in
`early`, and after that in the call's own state, so that it is neither lost nor
overtaken between the two.

`TimerServiceProofs` proves, for any timers, periods, batch size and bound of
the clock:

- `TickTargetLives` (`TargetSafe`), without an assumption, from `NodeInv`: ticks are
  accepted only between `Start` and the exit of the thread, and a tick queued
  excludes another;
- `TypeCorrect`; `NeverTooOften` (`RateBound`); `NoneLeftBehind` (`DrainedOnReturn`),
  from `TimerAssumption` and `TimerInv`.

`RateInv` is what makes `RateBound` inductive: start, the periods that have passed
and, while the timer is running, one period more come to no later than the next
expiration. An expiration uses up that period, and `NextExpiration` leaves another,
also when it starts from now because it was behind. `DueInv` says that what a call
found due stays enabled and expired until a pass that is not full has taken it;
such a pass takes everything that is expired (`ScanItems`), and that everything is
on the list is `ListInv`. What unlinking does to the list follows from `KeepItems`:
`Keep` gives each element its rank among those that stay, and `Ranks` shows by
counting, without induction, that the ranks are 1, 2, ... with no gap. This is why
the model does not use `SelectSeq`, whose recursive definition the provers cannot
use; a run of both gives the same states.

Only model-checked: the liveness properties `AcceptedSettles`, `ExitReturns`,
`DispatchReturns`, `CallReturns`, `RequestSettles`, `OwnerReturns`, `Settles` and
`CallAnswered`, because fairness is out of the prover's reach. Every invariant and
both refinements that the passing runs check are theorems.

## 5. Known limits, what is not modelled, and the plan

What the properties do not claim:

- An acknowledgement is not a run. `LinuxUdpTransport::Receive` acknowledges before
  anybody looks at the message; a `Participant` without a channel for it reports
  `ERR_NO_DISPATCHER` on the receiving side only, and a `RemoteDispatcher` may drop
  the call (`RemoteDispatcher.cpp:15`, `:152`) or ignore its id. `OutcomeIsTrue` and
  `AnswerIsRight` say "acknowledged" and what follows from it.
- A remote call may run more than once: `RemoteDispatcher` has no duplicate filter.
- `CaughtUp` excepts a value the subscriber's own thread refused (`refused`).
- `NothingLeaks` excepts clients whose cleanup did not run (`missed`), and
  `RefCountExact` counts references a failed `init` keeps (`orphans`): these two leaks
  are the code's.
- `Tracked` and `Settles` except a refused re-registration (`untracked`, below).
- `GuardKeepsNewest` stays below half the range (`RangeAssumption`).
- `TargetSafe` is about the order of `NetworkNode::Stop`, not that of `RemoteDispatcher`.
- `ExitReturns` is about one caller of `ExitThread` at a time.

Met while modelling:

- `RetryMonitor.h:250` ignores the result of the re-registration. With the pending
  map full the message is neither retried nor reported; `Tracked` and `Settles`
  except exactly that case (`untracked`).
- `RetryMonitor`'s slot of `OnSendStatus` is connected first, so the last TIMEOUT
  status of a message reaches the application after `OnDeliveryFailed`, whose
  comment (`RetryMonitor.h:52-57`) announces no further status callbacks.
- With acknowledgements on a thread of their own (`RemoteDispatcher`) a late
  acknowledgement that meets a failing retry is reported as well as
  `OnDeliveryFailed`. `OutcomeIsTrue` is claimed for `NetworkNode` only.
- A wrap of the 16-bit counter: `SendWithRetry` stores its entry before `Add` sees
  the collision, and the refusal erases the old message's entry; an
  acknowledgement names no remote id (`TransportMonitor.h:124`). The duplicate
  filter is kept per remote id, not per sender (`Participant.h:99`): two senders of
  one id may collide, and the later message is acknowledged and dropped.
- `RemoteDispatcher.h:348` reads the sequence number of the previous message when
  the arguments could not be serialized; `m_error` is only cleared by `GetError`.
- `RemoteDispatcher.cpp:98-99` frees its `TimerDelegate` on the network thread, where a
  tick may be queued behind `Stop`; `NetworkNode` joins the thread first.
- A `NetworkNode` started again while `ProcessTimers` still holds a snapshot of its
  last life gets a tick whose `TimerDelegate` is freed with that snapshot.
- Slow slots of periodic timers may keep the drain loop of `ProcessTimers` full.
- A topic with a `Signal` but no subscriber left is not reported as unhandled.

Not modelled by choice: the watchdog list, statistics, the allocator, marshalling,
serializers, the other transports (pure I/O), registries of types and errors,
`DeadlineSubscription`, example programs.

In the order planned:
1. The two-queue ports (FreeRTOS, ThreadX) as another implementation of `Mailbox`.
2. Several buses connected by participants: incoming and relay topics.
3. Proofs: what calls and threads keep when they are composed (`AsyncWait` over a
   `DelegateThread` in the place of its `Mailbox`); action properties of the link
   and of the timers, such as a last outcome that is never revised.

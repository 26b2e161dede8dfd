------------------------------ MODULE AsyncHttp ------------------------------
(***************************************************************************)
(* The HTTP client (HTTP/async_http.cpp): any number of AsyncHttp objects, *)
(* each with a worker thread and a curl easy handle of its own, and the    *)
(* reference count of the process-wide libcurl state that they share.      *)
(*                                                                         *)
(* A client's thread appears by what DelegateThread and AsyncWait show of  *)
(* it: one NORMAL lane served in order, an exit message behind everything  *)
(* accepted before it, and blocking calls that are withdrawn when they     *)
(* time out, unless their target is already running.                       *)
(*                                                                         *)
(* Init() and shutdown() of one client have one caller at a time           *)
(* (m_running and m_curl are plain members); requests come from any        *)
(* thread, at any time.                                                    *)
(***************************************************************************)
EXTENDS Naturals, Sequences, FiniteSets

CONSTANTS
    Clients,            \* the AsyncHttp objects
    WaitRequests,       \* GetWait() and PostWait() calls
    CallbackRequests,   \* Get() and Post() calls
    FutureRequests,     \* Get_future() and Post_future() calls
    Handles,            \* results of curl_easy_init(); also bounds the inits
    MaxFailedInits,     \* bound on the inits that fail in curl_easy_init()
    StrictShutdown,     \* shutdown() is called only on a running client, as the destructor does
    Null, Cleanup, ExitMsg

Requests == WaitRequests \cup CallbackRequests \cup FutureRequests
Tasks == Requests \cup {Cleanup, ExitMsg}

ASSUME HttpAssumption ==
    /\ WaitRequests \cap CallbackRequests = {}
    /\ WaitRequests \cap FutureRequests = {}
    /\ CallbackRequests \cap FutureRequests = {}
    /\ Null \notin Handles \cup Tasks \cup Clients
    /\ Cleanup \notin Requests /\ ExitMsg \notin Requests /\ Cleanup # ExitMsg
    /\ StrictShutdown \in BOOLEAN
    /\ MaxFailedInits \in Nat

VARIABLES
    refCount, curlUp,   \* g_curlRefCount; curl_global_init() is in effect
    live, made,         \* easy handles not cleaned up; easy handles ever made
    curl,               \* m_curl of each client
    running,            \* m_running
    hasThread, exit,    \* m_thread.m_thread has a value; m_thread.m_exit
    queue,              \* the queue of m_thread
    wpc, task,          \* where the worker is, and the task it runs
    opc,                \* where the caller of init() or shutdown() is
    cleanup,            \* the blocking HttpCleanup() call of shutdown()
    outcome,            \* what the caller of each request got
    client,             \* the client it was given to
    inTime,             \* history: accepted before shutdown() began
    missed,             \* history: a shutdown() whose cleanup did not run
    orphans             \* history: references kept by an init() that failed

curlVars == <<refCount, curlUp, live, made, curl, orphans>>
threadVars == <<hasThread, exit, queue>>
workerVars == <<wpc, task>>
ownerVars == <<running, opc, cleanup, missed>>
requestVars == <<outcome, client, inTime>>
vars == <<curlVars, threadVars, workerVars, ownerVars, requestVars>>

Answers == {"response", "curlError", "notInitialized"}
Refusals == {"timedOut", "noCallback", "brokenPromise", "threw"}

TypeOK ==
    /\ refCount \in Nat /\ orphans \in Nat /\ curlUp \in BOOLEAN
    /\ live \subseteq made /\ made \subseteq Handles
    /\ curl \in [Clients -> Handles \cup {Null}]
    /\ running \in [Clients -> BOOLEAN]
    /\ hasThread \in [Clients -> BOOLEAN] /\ exit \in [Clients -> BOOLEAN]
    /\ queue \in [Clients -> Seq(Tasks)]
    /\ wpc \in [Clients -> {"none", "loop", "transfer", "callback", "nested", "leaving"}]
    /\ task \in [Clients -> Requests \cup {Null}]
    /\ opc \in [Clients -> {"ready", "makeHandle", "startThread", "await", "exit", "join", "release"}]
    /\ cleanup \in [Clients -> {"none", "queued", "ran", "withdrawn"}]
    /\ outcome \in [Requests -> {"new", "pending"} \cup Answers \cup Refusals]
    /\ client \in [Requests -> Clients \cup {Null}]
    /\ inTime \in [Requests -> BOOLEAN]
    /\ missed \in [Clients -> BOOLEAN]

Init ==
    /\ refCount = 0 /\ orphans = 0 /\ curlUp = FALSE
    /\ live = {} /\ made = {}
    /\ curl = [i \in Clients |-> Null]
    /\ running = [i \in Clients |-> FALSE]
    /\ hasThread = [i \in Clients |-> FALSE] /\ exit = [i \in Clients |-> FALSE]
    /\ queue = [i \in Clients |-> <<>>]
    /\ wpc = [i \in Clients |-> "none"]
    /\ task = [i \in Clients |-> Null]
    /\ opc = [i \in Clients |-> "ready"]
    /\ cleanup = [i \in Clients |-> "none"]
    /\ outcome = [r \in Requests |-> "new"]
    /\ client = [r \in Requests |-> Null]
    /\ inTime = [r \in Requests |-> FALSE]
    /\ missed = [i \in Clients |-> FALSE]

-----------------------------------------------------------------------------
(* init()                                                                  *)

\* Bound: every init() under way can still be given a handle.
MayInit == Cardinality(made) + Cardinality({i \in Clients : opc[i] = "makeHandle"}) < Cardinality(Handles)

\* curl_global_addref().  When curl_global_init() fails nothing is changed.
AddRef(i) ==
    /\ opc[i] = "ready" /\ ~running[i]
    /\ MayInit
    /\ curlUp' = TRUE
    /\ refCount' = refCount + 1
    /\ opc' = [opc EXCEPT ![i] = "makeHandle"]
    /\ UNCHANGED <<live, made, curl, orphans, threadVars, workerVars, running, cleanup, missed, requestVars>>

\* m_curl is assigned whatever it held before.
MakeHandle(i) ==
    /\ opc[i] = "makeHandle"
    /\ \E h \in Handles \ made :
         /\ curl' = [curl EXCEPT ![i] = h]
         /\ live' = live \cup {h}
         /\ made' = made \cup {h}
    /\ opc' = [opc EXCEPT ![i] = "startThread"]
    /\ UNCHANGED <<refCount, curlUp, orphans, threadVars, workerVars, running, cleanup, missed, requestVars>>

\* Mutant: the null that curl_easy_init() returned is taken for a handle.
MakeHandleUnchecked(i) ==
    /\ opc[i] = "makeHandle"
    /\ orphans < MaxFailedInits
    /\ curl' = [curl EXCEPT ![i] = Null]
    /\ live' = live \cup {Null}
    /\ opc' = [opc EXCEPT ![i] = "startThread"]
    /\ UNCHANGED <<refCount, curlUp, made, orphans, threadVars, workerVars, running, cleanup, missed, requestVars>>

\* curl_easy_init() fails: init() returns -1 and keeps the reference it took.
MakeHandleFails(i) ==
    /\ opc[i] = "makeHandle"
    /\ orphans < MaxFailedInits
    /\ curl' = [curl EXCEPT ![i] = Null]
    /\ orphans' = orphans + 1
    /\ opc' = [opc EXCEPT ![i] = "ready"]
    /\ UNCHANGED <<refCount, curlUp, live, made, threadVars, workerVars, running, cleanup, missed, requestVars>>

\* CreateThread().  A worker that is leaving after an exit of its own is given
\* the time to do so; DelegateThread has the two side by side.
StartThread(i) ==
    /\ opc[i] = "startThread"
    /\ wpc[i] = "none"
    /\ exit' = [exit EXCEPT ![i] = FALSE]
    /\ hasThread' = [hasThread EXCEPT ![i] = TRUE]
    /\ wpc' = [wpc EXCEPT ![i] = "loop"]
    /\ running' = [running EXCEPT ![i] = TRUE]
    /\ opc' = [opc EXCEPT ![i] = "ready"]
    /\ UNCHANGED <<curlVars, queue, task, cleanup, missed, requestVars>>

-----------------------------------------------------------------------------
(* shutdown(), on a thread that is not the worker                          *)

Push(i, t) == [queue EXCEPT ![i] = Append(@, t)]

\* Mutant: the cleanup call has Priority::HIGH.
PushUrgent(i) == [queue EXCEPT ![i] = <<Cleanup>> \o @]

PushCleanup(i) == Push(i, Cleanup)

\* The blocking HttpCleanup() call is queued; nothing of it if m_running is false.
Shutdown(i) ==
    /\ opc[i] = "ready"
    /\ StrictShutdown => running[i]
    /\ IF running[i]
         THEN /\ queue' = PushCleanup(i)
              /\ cleanup' = [cleanup EXCEPT ![i] = "queued"]
              /\ opc' = [opc EXCEPT ![i] = "await"]
         ELSE /\ opc' = [opc EXCEPT ![i] = "release"]
              /\ UNCHANGED <<queue, cleanup>>
    /\ UNCHANGED <<curlVars, hasThread, exit, workerVars, running, missed, requestVars>>

CleanupDone(i) ==
    /\ opc[i] = "await" /\ cleanup[i] = "ran"
    /\ opc' = [opc EXCEPT ![i] = "exit"]
    /\ UNCHANGED <<curlVars, threadVars, workerVars, running, cleanup, missed, requestVars>>

\* The timeout elapses while earlier requests keep the worker busy.  The result of
\* the call is not looked at.
CleanupTimesOut(i) ==
    /\ opc[i] = "await" /\ cleanup[i] = "queued"
    /\ cleanup' = [cleanup EXCEPT ![i] = "withdrawn"]
    /\ missed' = [missed EXCEPT ![i] = TRUE]
    /\ opc' = [opc EXCEPT ![i] = "exit"]
    /\ UNCHANGED <<curlVars, threadVars, workerVars, running, requestVars>>

\* Mutant: m_exit is set but no exit message is queued.
BeginExitSilently(i) ==
    /\ opc[i] = "exit"
    /\ exit' = [exit EXCEPT ![i] = TRUE]
    /\ opc' = [opc EXCEPT ![i] = "join"]
    /\ UNCHANGED <<curlVars, hasThread, queue, workerVars, running, cleanup, missed, requestVars>>

\* ExitThread(): refuse what comes from now on, drain, join, reset.
BeginExit(i) ==
    /\ opc[i] = "exit"
    /\ exit' = [exit EXCEPT ![i] = TRUE]
    /\ queue' = Push(i, ExitMsg)
    /\ opc' = [opc EXCEPT ![i] = "join"]
    /\ UNCHANGED <<curlVars, hasThread, workerVars, running, cleanup, missed, requestVars>>

JoinThread(i) ==
    /\ opc[i] = "join" /\ wpc[i] = "none"
    /\ hasThread' = [hasThread EXCEPT ![i] = FALSE]
    /\ running' = [running EXCEPT ![i] = FALSE]
    /\ cleanup' = [cleanup EXCEPT ![i] = "none"]
    /\ opc' = [opc EXCEPT ![i] = "release"]
    /\ UNCHANGED <<curlVars, exit, queue, workerVars, missed, requestVars>>

\* Mutant: the last one out does not turn the light off.
NeverCleanUp ==
    /\ refCount' = IF refCount > 0 THEN refCount - 1 ELSE 0
    /\ UNCHANGED curlUp

\* Mutant: curl_global_cleanup() on every release.
AlwaysCleanUp ==
    /\ refCount' = IF refCount > 0 THEN refCount - 1 ELSE 0
    /\ curlUp' = FALSE

\* curl_global_release()
GlobalRelease ==
    /\ refCount' = IF refCount > 0 THEN refCount - 1 ELSE 0
    /\ curlUp' = (curlUp /\ refCount # 1)

\* shutdown() gives a reference back whether or not the client was running.
Release(i) ==
    /\ opc[i] = "release"
    /\ GlobalRelease
    /\ opc' = [opc EXCEPT ![i] = "ready"]
    /\ UNCHANGED <<live, made, curl, orphans, threadVars, workerVars, running, cleanup, missed, requestVars>>

-----------------------------------------------------------------------------
(* Requests, from any thread but the worker                                *)

\* What a caller gets whose message DispatchDelegate() refuses, or ExitThread()
\* throws away.
Refused(r) ==
    CASE r \in WaitRequests -> "timedOut"
      [] r \in CallbackRequests -> "noCallback"
      [] r \in FutureRequests -> "brokenPromise"

\* GetWait() and Get_future() ask for the thread's id first, and DispatchDelegate()
\* for m_exit before it looks for the thread.
Throws(r, i) == ~hasThread[i] /\ (r \in CallbackRequests => ~exit[i])

Request(r, i) ==
    /\ outcome[r] = "new"
    /\ client' = [client EXCEPT ![r] = i]
    /\ \/ /\ Throws(r, i)
          /\ outcome' = [outcome EXCEPT ![r] = "threw"]
          /\ UNCHANGED <<queue, inTime>>
       \/ /\ ~Throws(r, i) /\ exit[i]
          /\ outcome' = [outcome EXCEPT ![r] = Refused(r)]
          /\ UNCHANGED <<queue, inTime>>
       \/ /\ ~Throws(r, i) /\ ~exit[i]
          /\ outcome' = [outcome EXCEPT ![r] = "pending"]
          /\ queue' = Push(i, r)
          /\ inTime' = [inTime EXCEPT ![r] = opc[i] = "ready"]
    /\ UNCHANGED <<curlVars, hasThread, exit, workerVars, ownerVars>>

\* The caller of GetWait() stops waiting before the worker gets to its request.
RequestTimesOut(r) ==
    /\ r \in WaitRequests
    /\ outcome[r] = "pending" /\ task[client[r]] # r
    /\ outcome' = [outcome EXCEPT ![r] = "timedOut"]
    /\ UNCHANGED <<curlVars, threadVars, workerVars, ownerVars, client, inTime>>

-----------------------------------------------------------------------------
(* The worker                                                              *)

AtHead(i, t) == wpc[i] = "loop" /\ queue[i] # <<>> /\ Head(queue[i]) = t
Pop(i) == [queue EXCEPT ![i] = Tail(@)]

\* A request whose caller has withdrawn is not run.
SkipRequest(i) ==
    /\ \E r \in WaitRequests : AtHead(i, r) /\ outcome[r] = "timedOut"
    /\ queue' = Pop(i)
    /\ UNCHANGED <<curlVars, hasThread, exit, workerVars, ownerVars, requestVars>>

\* The caller gets the answer; for a callback request that is when the callback
\* is called.  A caller that timed out meanwhile reports that all the same.
Answer(r, a) ==
    \E o \in {a} \cup (IF r \in WaitRequests THEN {"timedOut"} ELSE {}) :
        outcome' = [outcome EXCEPT ![r] = o]

AfterAnswer(i, r) ==
    IF r \in CallbackRequests
      THEN wpc' = [wpc EXCEPT ![i] = "callback"] /\ task' = [task EXCEPT ![i] = r]
      ELSE wpc' = [wpc EXCEPT ![i] = "loop"] /\ task' = [task EXCEPT ![i] = Null]

\* HttpGet() or HttpPost() finds no handle ...
NotInitialized(i) ==
    /\ \E r \in Requests :
         /\ AtHead(i, r) /\ outcome[r] = "pending"
         /\ curl[i] = Null
         /\ Answer(r, "notInitialized")
         /\ AfterAnswer(i, r)
    /\ queue' = Pop(i)
    /\ UNCHANGED <<curlVars, hasThread, exit, ownerVars, client, inTime>>

\* ... or enters curl_easy_perform().
BeginTransfer(i) ==
    /\ \E r \in Requests :
         /\ AtHead(i, r) /\ outcome[r] = "pending"
         /\ curl[i] # Null
         /\ task' = [task EXCEPT ![i] = r]
    /\ wpc' = [wpc EXCEPT ![i] = "transfer"]
    /\ queue' = Pop(i)
    /\ UNCHANGED <<curlVars, hasThread, exit, ownerVars, requestVars>>

EndTransfer(i) ==
    /\ wpc[i] = "transfer"
    /\ \E a \in {"response", "curlError"} : Answer(task[i], a)
    /\ AfterAnswer(i, task[i])
    /\ UNCHANGED <<curlVars, threadVars, ownerVars, client, inTime>>

\* A callback on the worker makes a GetWait() of its own, which runs in place.
NestedTransfer(i) ==
    /\ \/ wpc[i] = "callback" /\ curl[i] # Null /\ wpc' = [wpc EXCEPT ![i] = "nested"]
       \/ wpc[i] = "nested" /\ wpc' = [wpc EXCEPT ![i] = "callback"]
    /\ UNCHANGED <<curlVars, threadVars, task, ownerVars, requestVars>>

\* After a shutdown from the callback the worker returns without another message.
CallbackReturns(i) ==
    /\ wpc[i] = "callback" \/ (wpc[i] = "leaving" /\ opc[i] # "release")
    /\ wpc' = [wpc EXCEPT ![i] = IF @ = "leaving" THEN "none" ELSE "loop"]
    /\ task' = [task EXCEPT ![i] = Null]
    /\ UNCHANGED <<curlVars, threadVars, ownerVars, requestVars>>

\* Mutant: the handle is released but still pointed to.
FreeOnly(i) == curl

ClearHandle(i) == [curl EXCEPT ![i] = Null]

\* HttpCleanup(), unless the call was withdrawn.
RunCleanup(i) ==
    /\ AtHead(i, Cleanup)
    /\ queue' = Pop(i)
    /\ IF cleanup[i] = "queued"
         THEN /\ live' = live \ {curl[i]}
              /\ curl' = ClearHandle(i)
              /\ cleanup' = [cleanup EXCEPT ![i] = "ran"]
         ELSE UNCHANGED <<live, curl, cleanup>>
    /\ UNCHANGED <<refCount, curlUp, made, orphans, hasThread, exit, workerVars, running, opc, missed, requestVars>>

RunExit(i) ==
    /\ AtHead(i, ExitMsg)
    /\ queue' = Pop(i)
    /\ wpc' = [wpc EXCEPT ![i] = "none"]
    /\ UNCHANGED <<curlVars, hasThread, exit, task, ownerVars, requestVars>>

\* Mutant: what a self-exit leaves queued is destroyed without Cancel().
AbandonQueued(i) == UNCHANGED outcome

\* The messages left in the queue are thrown away and their callers released.
CancelQueued(i) ==
    outcome' = [r \in Requests |->
        IF outcome[r] = "pending" /\ client[r] = i /\ task[i] # r THEN Refused(r) ELSE outcome[r]]

\* shutdown() from a callback on the worker: the cleanup call it queues to its own
\* thread can only time out, and ExitThread() is an exit of the thread by itself.
ShutdownInCallback(i) ==
    /\ wpc[i] = "callback"
    /\ opc[i] = "ready" /\ running[i]
    /\ exit' = [exit EXCEPT ![i] = TRUE]
    /\ hasThread' = [hasThread EXCEPT ![i] = FALSE]
    /\ queue' = [queue EXCEPT ![i] = <<>>]
    /\ CancelQueued(i)
    /\ missed' = [missed EXCEPT ![i] = TRUE]
    /\ running' = [running EXCEPT ![i] = FALSE]
    /\ wpc' = [wpc EXCEPT ![i] = "leaving"]
    /\ opc' = [opc EXCEPT ![i] = "release"]
    /\ UNCHANGED <<curlVars, task, cleanup, client, inTime>>

-----------------------------------------------------------------------------
OwnerStep(i) ==
    \/ MakeHandle(i) \/ MakeHandleFails(i) \/ StartThread(i)
    \/ CleanupDone(i) \/ CleanupTimesOut(i) \/ BeginExit(i) \/ JoinThread(i) \/ Release(i)

WorkerStep(i) ==
    \/ SkipRequest(i) \/ NotInitialized(i) \/ BeginTransfer(i) \/ EndTransfer(i)
    \/ RunCleanup(i) \/ RunExit(i)

Step ==
    \/ \E i \in Clients :
          \/ AddRef(i) \/ Shutdown(i) \/ OwnerStep(i)
          \/ WorkerStep(i) \/ CallbackReturns(i) \/ NestedTransfer(i) \/ ShutdownInCallback(i)
          \/ \E r \in Requests : Request(r, i)
    \/ \E r \in Requests : RequestTimesOut(r)

\* Every request is settled, every client shut down, and no handle is left to make.
Over ==
    /\ \A r \in Requests : outcome[r] \notin {"new", "pending"}
    /\ \A i \in Clients : opc[i] = "ready" /\ wpc[i] = "none"
    /\ made = Handles

Next == Step \/ (Over /\ UNCHANGED vars)

\* Transfers end (CURLOPT_TIMEOUT), and a caller in init() or shutdown() goes on.
SystemFairness ==
    \A i \in Clients :
        /\ WF_vars(OwnerStep(i))
        /\ WF_vars(WorkerStep(i))
        /\ WF_vars(wpc[i] = "nested" /\ NestedTransfer(i))

\* Callbacks return, after finitely many requests of their own.
CallbackFairness == \A i \in Clients : SF_vars(CallbackReturns(i))

Spec == Init /\ [][Next]_vars
FairSpec == Spec /\ SystemFairness /\ CallbackFairness

\* A callback may block for ever.
StuckCallbackSpec == Spec /\ SystemFairness

-----------------------------------------------------------------------------
Transferring(i) == wpc[i] \in {"transfer", "nested"}

\* A transfer has an open handle and an initialised libcurl under it for as long
\* as it lasts, whatever the other clients and the caller of shutdown() do: the
\* comment "safe for multiple AsyncHttp instances in the same process".
TransferIsSafe == \A i \in Clients : Transferring(i) => curlUp /\ curl[i] \in live

\* A client that is not running has no handle left, and no handle is lost by
\* overwriting m_curl, unless the cleanup of one of its shutdowns did not run.
NothingLeaks ==
    /\ \A i \in Clients :
          ~running[i] /\ opc[i] = "ready" /\ curl[i] # Null => missed[i]
    /\ live \subseteq {curl[i] : i \in Clients} \/ \E i \in Clients : missed[i]

\* The reference count is the number of clients that took a reference and did not
\* give it back, and those of failed inits; libcurl is up while it is not zero.
Holds(i) == running[i] \/ opc[i] \in {"makeHandle", "startThread", "release"}
RefCountExact ==
    /\ refCount = Cardinality({i \in Clients : Holds(i)}) + orphans
    /\ curlUp <=> refCount > 0

\* A request accepted before shutdown() began is served before the handle is
\* released: only requests that come during the shutdown see "Not initialized".
ServedBeforeCleanup ==
    \A r \in Requests : outcome[r] = "notInitialized" => ~inTime[r]

\* Every request is answered or refused in the end: no caller of GetWait(), no
\* holder of a future hangs, and every accepted callback is called or given up.
RequestSettles == \A r \in Requests : outcome[r] = "pending" ~> outcome[r] # "pending"

\* init() and shutdown() return, with a worker that is busy, idle or leaving.
OwnerReturns == \A i \in Clients : opc[i] # "ready" ~> opc[i] = "ready"

\* "Blocks until the worker thread exits or timeout expires" (async_http.h, on
\* shutdown): once its timeout has expired, shutdown() returns.
TimeoutEndsShutdown ==
    \A i \in Clients : opc[i] = "exit" /\ cleanup[i] = "withdrawn" ~> opc[i] = "ready"
=============================================================================

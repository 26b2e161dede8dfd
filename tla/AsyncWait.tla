------------------------------ MODULE AsyncWait ------------------------------
(***************************************************************************)
(* The hand-shake of a blocking delegate call                              *)
(* (DelegateMQ/delegate/DelegateAsyncWait.h and Semaphore.h).              *)
(*                                                                         *)
(* The calling thread dispatches a message, waits on the semaphore in it   *)
(* for a limited time, then takes the mutex in it to read the outcome and  *)
(* to withdraw.  The destination thread takes the same mutex for the whole *)
(* run of the target.  The destination is a Mailbox: DelegateThread shows  *)
(* that StdlibThread implements one, SerialInvoke that it runs one message *)
(* at a time.                                                              *)
(*                                                                         *)
(* Every call has a message and a calling thread of its own, except that   *)
(* the NestedCalls are made by a target, on the destination thread itself. *)
(***************************************************************************)
EXTENDS Naturals, FiniteSets

CONSTANTS
    Calls,          \* calls made; a call and its message have one name
    HighCalls,      \* those of Priority::HIGH
    NestedCalls,    \* those made from inside a target
    NoCall

ASSUME CallAssumption ==
    /\ HighCalls \subseteq Calls
    /\ NestedCalls \subseteq Calls
    /\ NoCall \notin Calls

VARIABLES
    fate, ticket, nextTicket,   \* the destination's Mailbox
    cpc,                \* where each calling thread is in DispatchAsyncWait()
    waited,             \* the local of that name: Wait() was signaled
    invokerWaiting,     \* m_invokerWaiting of each message
    invokeSucceeded,    \* m_invokeSucceeded
    signaled,           \* Semaphore::m_signaled
    locked,             \* whether Invoke() holds m_lock of the message
    wpc, wcall,         \* where the destination thread is in Invoke(), and of which call
    target,             \* history: what became of the target of each call
    fault               \* an exception reached Process(), which ended the process

mailVars == <<fate, ticket, nextTicket>>
callerVars == <<cpc, waited>>
msgVars == <<invokerWaiting, invokeSucceeded, signaled, locked>>
workerVars == <<wpc, wcall, target, fault>>
vars == <<mailVars, callerVars, msgVars, workerVars>>

Destination == INSTANCE Mailbox WITH Messages <- Calls, HighMsgs <- HighCalls

\* The types of all variables; Invoke() holds the lock of no message but its own.
TypeOK ==
    /\ fate \in [Calls -> Destination!Fates]
    /\ ticket \in [Calls -> Nat] /\ nextTicket \in Nat
    /\ cpc \in [Calls -> {"idle", "dispatch", "wait", "finish", "succeeded", "failed"}]
    /\ waited \in [Calls -> BOOLEAN]
    /\ invokerWaiting \in [Calls -> BOOLEAN]
    /\ invokeSucceeded \in [Calls -> BOOLEAN]
    /\ signaled \in [Calls -> BOOLEAN]
    /\ locked \in [Calls -> BOOLEAN] /\ \A c \in Calls : locked[c] => c = wcall
    /\ wpc \in {"idle", "enter", "target", "leave", "unwind", "thrown"}
    /\ wcall \in Calls \cup {NoCall}
    /\ target \in [Calls -> {"notRun", "running", "ran", "threw"}]
    /\ fault \in BOOLEAN

Init ==
    /\ Destination!Init
    /\ cpc = [c \in Calls |-> "idle"]
    /\ waited = [c \in Calls |-> FALSE]
    /\ invokerWaiting = [c \in Calls |-> FALSE]
    /\ invokeSucceeded = [c \in Calls |-> FALSE]
    /\ signaled = [c \in Calls |-> FALSE]
    /\ locked = [c \in Calls |-> FALSE]
    /\ wpc = "idle" /\ wcall = NoCall
    /\ target = [c \in Calls |-> "notRun"]
    /\ fault = FALSE

-----------------------------------------------------------------------------
(* The calling thread: operator() and DispatchAsyncWait                    *)

InCall(c) == cpc[c] \in {"dispatch", "wait", "finish"}

\* A nested call is made while a target runs and keeps the destination busy.
Busy == \E c \in NestedCalls : InCall(c)

Call(c) ==
    /\ cpc[c] = "idle"
    /\ c \in NestedCalls => wpc = "target" /\ ~Busy
    /\ invokerWaiting' = [invokerWaiting EXCEPT ![c] = TRUE]
    /\ cpc' = [cpc EXCEPT ![c] = "dispatch"]
    /\ UNCHANGED <<mailVars, waited, invokeSucceeded, signaled, locked, workerVars>>

Accepted(c) ==
    /\ cpc[c] = "dispatch"
    /\ Destination!Accept(c)
    /\ cpc' = [cpc EXCEPT ![c] = "wait"]
    /\ UNCHANGED <<waited, msgVars, workerVars>>

\* DispatchDelegate() returns false: full queue or exiting thread.
Rejected(c) ==
    /\ cpc[c] = "dispatch"
    /\ Destination!Refuse(c)
    /\ cpc' = [cpc EXCEPT ![c] = "finish"]
    /\ UNCHANGED <<waited, msgVars, workerVars>>

\* Semaphore::Wait() returns true and takes the signal with it.
WaitSignaled(c) ==
    /\ cpc[c] = "wait" /\ signaled[c]
    /\ signaled' = [signaled EXCEPT ![c] = FALSE]
    /\ waited' = [waited EXCEPT ![c] = TRUE]
    /\ cpc' = [cpc EXCEPT ![c] = "finish"]
    /\ UNCHANGED <<mailVars, invokerWaiting, invokeSucceeded, locked, workerVars>>

\* The timeout elapses first.
WaitTimedOut(c) ==
    /\ cpc[c] = "wait" /\ ~signaled[c]
    /\ cpc' = [cpc EXCEPT ![c] = "finish"]
    /\ UNCHANGED <<mailVars, waited, msgVars, workerVars>>

\* Mutant: the caller withdraws without the mutex.
LockNotTaken(c) == TRUE

CallerGetsLock(c) == ~locked[c]

Success(c) == waited[c] /\ invokeSucceeded[c]

\* The locked section at the end of DispatchAsyncWait(), and the return.
Finish(c) ==
    /\ cpc[c] = "finish"
    /\ CallerGetsLock(c)
    /\ invokerWaiting' = [invokerWaiting EXCEPT ![c] = FALSE]
    /\ cpc' = [cpc EXCEPT ![c] = IF Success(c) THEN "succeeded" ELSE "failed"]
    /\ UNCHANGED <<mailVars, waited, invokeSucceeded, signaled, locked, workerVars>>

-----------------------------------------------------------------------------
(* The destination thread: Invoke                                          *)

Deliver(c) ==
    /\ wpc = "idle"
    /\ Destination!Deliver(c)
    /\ wpc' = "enter" /\ wcall' = c
    /\ UNCHANGED <<callerVars, msgVars, target, fault>>

\* Mutant: a message whose caller has withdrawn is run all the same.
WaitingNotAsked(c) == TRUE

InvokerIsWaiting(c) == invokerWaiting[c]

\* Invoke() gets m_lock while nobody waits any more: nothing is run.  Between two
\* critical sections of the caller m_lock is free, so the test is one step.
InvokeSkips ==
    /\ wpc = "enter" /\ ~InvokerIsWaiting(wcall)
    /\ Destination!Complete(wcall)
    /\ wpc' = "idle" /\ wcall' = NoCall
    /\ UNCHANGED <<callerVars, msgVars, target, fault>>

InvokeTarget ==
    /\ wpc = "enter" /\ InvokerIsWaiting(wcall)
    /\ locked' = [locked EXCEPT ![wcall] = TRUE]
    /\ target' = [target EXCEPT ![wcall] = "running"]
    /\ wpc' = "target"
    /\ UNCHANGED <<mailVars, callerVars, invokerWaiting, invokeSucceeded, signaled, wcall, fault>>

\* Semaphore::Signal()
Signal(c) == [signaled EXCEPT ![c] = TRUE]

\* Mutant: the invoke is not marked as succeeded.
MarkMissing(c) == invokeSucceeded

MarkSucceeded(c) == [invokeSucceeded EXCEPT ![c] = TRUE]

\* The target returns: SetInvokeSucceeded(), then ~SemaSignalGuard().
TargetReturns ==
    /\ wpc = "target" /\ ~Busy
    /\ target' = [target EXCEPT ![wcall] = "ran"]
    /\ invokeSucceeded' = MarkSucceeded(wcall)
    /\ signaled' = Signal(wcall)
    /\ wpc' = "leave"
    /\ UNCHANGED <<mailVars, callerVars, invokerWaiting, locked, wcall, fault>>

\* The guard releases the caller also when an exception leaves the target.
TargetThrows ==
    /\ wpc = "target" /\ ~Busy
    /\ target' = [target EXCEPT ![wcall] = "threw"]
    /\ signaled' = Signal(wcall)
    /\ wpc' = "unwind"
    /\ UNCHANGED <<mailVars, callerVars, invokerWaiting, invokeSucceeded, locked, wcall, fault>>

\* Mutant: m_lock stays with the destination thread.
KeepLock(c) == locked

Unlock(c) == [locked EXCEPT ![c] = FALSE]

\* m_lock is released last.
InvokeReturns ==
    /\ wpc = "leave"
    /\ locked' = Unlock(wcall)
    /\ Destination!Complete(wcall)
    /\ wpc' = "idle" /\ wcall' = NoCall
    /\ UNCHANGED <<callerVars, invokerWaiting, invokeSucceeded, signaled, target, fault>>

Unwind ==
    /\ wpc = "unwind"
    /\ locked' = Unlock(wcall)
    /\ wpc' = "thrown"
    /\ UNCHANGED <<mailVars, callerVars, invokerWaiting, invokeSucceeded, signaled, wcall, target, fault>>

\* Process() catches the exception and faults.
Fault ==
    /\ wpc = "thrown"
    /\ fault' = TRUE
    /\ UNCHANGED <<mailVars, callerVars, msgVars, wpc, wcall, target>>

-----------------------------------------------------------------------------
(* ExitThread on the destination                                           *)

\* The messages still queued are taken off the lanes ...
Discard ==
    /\ Destination!Discard
    /\ UNCHANGED <<callerVars, msgVars, workerVars>>

\* Mutant: DelegateMsg::Cancel() is not overridden.
CancelSignalsNobody == signaled

CancelSignals == [c \in Calls |-> signaled[c] \/ fate[c] = "discarded"]

\* ... and their callers released by DelegateAsyncWaitMsg::Cancel().
Cancel ==
    /\ Destination!Cancel
    /\ signaled' = CancelSignals
    /\ UNCHANGED <<callerVars, invokerWaiting, invokeSucceeded, locked, workerVars>>

-----------------------------------------------------------------------------
CallerStep(c) ==
    Accepted(c) \/ Rejected(c) \/ WaitSignaled(c) \/ WaitTimedOut(c) \/ Finish(c)

WorkerStep ==
    \/ \E c \in Calls : Deliver(c)
    \/ InvokeSkips \/ InvokeTarget \/ TargetReturns \/ TargetThrows
    \/ InvokeReturns \/ Unwind \/ Fault

Step ==
    \/ \E c \in Calls : Call(c) \/ CallerStep(c)
    \/ WorkerStep
    \/ Discard
    \/ Cancel

Over ==
    \/ fault
    \/ wpc = "idle" /\ \A c \in Calls :
            \/ cpc[c] \in {"succeeded", "failed"} /\ fate[c] \in {"refused", "invoked", "cancelled"}
            \/ cpc[c] = "idle" /\ c \in NestedCalls

Next == (~fault /\ Step) \/ (Over /\ UNCHANGED vars)

\* Threads that can run do run, clocks advance, and targets return.
Fairness ==
    /\ \A c \in Calls : WF_vars(~fault /\ CallerStep(c))
    /\ WF_vars(~fault /\ WorkerStep)

Spec == Init /\ [][Next]_vars
FairSpec == Spec /\ Fairness

-----------------------------------------------------------------------------
Returned(c) == cpc[c] \in {"succeeded", "failed"}

\* The target runs on references into the caller's stack frame, so the caller is
\* in the call for as long as it runs, whatever its timeout.
NoUseAfterReturn == \A c \in Calls : target[c] = "running" => InCall(c)

\* A call fails only for a reason: it was refused, its wait timed out, its message
\* was discarded, or its target threw.  The signal of a target that returned is
\* never read as a failure.
FailureHasReason ==
    \A c \in Calls : cpc[c] = "failed" =>
        \/ fate[c] \in {"refused", "cancelled"}
        \/ ~waited[c]
        \/ target[c] = "threw"

\* A discarded message releases its caller: it cannot wait out its timeout for a
\* target that will never run.
CancelReleases ==
    \A c \in Calls : fate[c] = "cancelled" /\ cpc[c] = "wait" => signaled[c]

\* Success means that the target ran to its end inside the call, exactly once; a
\* call that has returned, with success or not, is never run later.
Abstract == INSTANCE BlockingCall WITH
    call <- [c \in Calls |-> IF InCall(c) THEN "open" ELSE cpc[c]]
ImplementsBlockingCall == Abstract!Spec

\* Every call returns: also one made by a target to its own busy thread, and one
\* whose message is discarded.
CallReturns == \A c \in Calls : InCall(c) ~> Returned(c) \/ fault

\* "If the caller timeout expires, the target function is not invoked"
\* (DelegateAsyncWait.h, the description of the AsyncWait classes).
TimeoutMeansNotInvoked ==
    \A c \in Calls :
        cpc[c] = "failed" /\ ~waited[c] => target[c] = "notRun"
=============================================================================

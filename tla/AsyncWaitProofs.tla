--------------------------- MODULE AsyncWaitProofs ---------------------------
(***************************************************************************)
(* Proofs about AsyncWait, for any number of callers, nested calls,        *)
(* priorities, time-outs, refusals, discards and exceptions.               *)
(***************************************************************************)
EXTENDS AsyncWait, TLAPS

\* Where the destination thread stands with the call it invokes.
WorkerInv ==
    /\ wpc = "idle" <=> wcall = NoCall
    /\ wpc # "idle" => fate[wcall] = "running"
    /\ wpc = "enter" => target[wcall] = "notRun"
    /\ wpc = "target" => target[wcall] = "running"
    /\ wpc \in {"target", "leave", "unwind"} => locked[wcall] /\ InCall(wcall)

\* What the fields of a message say about its call.
CallInv ==
    \A c \in Calls :
        /\ invokerWaiting[c] <=> InCall(c)
        /\ locked[c] => wcall = c /\ wpc \in {"target", "leave", "unwind"}
        /\ target[c] = "running" => wcall = c /\ wpc = "target"
        /\ invokeSucceeded[c] => target[c] = "ran"
        /\ target[c] # "notRun" => fate[c] \in {"running", "invoked"}

\* What a signal stands for, and who has been released.
OutcomeInv ==
    \A c \in Calls :
        /\ signaled[c] \/ waited[c] =>
              \/ target[c] = "ran" /\ invokeSucceeded[c]
              \/ target[c] = "threw"
              \/ fate[c] = "cancelled"
        /\ cpc[c] = "failed" =>
              fate[c] \in {"refused", "cancelled"} \/ ~waited[c] \/ target[c] = "threw"
        /\ fate[c] = "cancelled" /\ cpc[c] = "wait" => signaled[c]

IInv == TypeOK /\ WorkerInv /\ CallInv /\ OutcomeInv

-----------------------------------------------------------------------------
\* The hand-shake starts with nothing dispatched, locked or run.
LEMMA InitIInv == Init => IInv
<1> SUFFICES ASSUME Init PROVE IInv
  OBVIOUS
<1>1. TypeOK
  BY DEF Init, TypeOK, Destination!Init, Destination!Fates
<1>2. WorkerInv
  BY DEF Init, WorkerInv
<1>3. CallInv
  BY Zenon DEF Init, CallInv, InCall
<1>4. OutcomeInv
  BY Zenon DEF Init, OutcomeInv, Destination!Init
<1> QED BY <1>1, <1>2, <1>3, <1>4 DEF IInv

\* A step of a calling thread leaves the invariant true.
LEMMA CallerKeepsIInv ==
    ASSUME IInv, NEW c \in Calls, Call(c) \/ CallerStep(c)
    PROVE  IInv'
<1> USE CallAssumption DEF IInv, TypeOK, WorkerInv, CallInv, OutcomeInv, InCall, Destination!Fates
<1>1. CASE Call(c)
  BY <1>1 DEF Call, mailVars, workerVars
<1>2. CASE Accepted(c)
  BY <1>2 DEF Accepted, Destination!Accept, msgVars, workerVars
<1>3. CASE Rejected(c)
  BY <1>3 DEF Rejected, Destination!Refuse, Destination!Move, msgVars, workerVars
<1>4. CASE WaitSignaled(c)
  BY <1>4 DEF WaitSignaled, mailVars, workerVars
<1>5. CASE WaitTimedOut(c)
  BY <1>5 DEF WaitTimedOut, mailVars, msgVars, workerVars
<1>6. CASE Finish(c)
  BY <1>6 DEF Finish, CallerGetsLock, Success, mailVars, workerVars
<1> QED
  BY <1>1, <1>2, <1>3, <1>4, <1>5, <1>6 DEF CallerStep

\* A step of the destination thread leaves the invariant true.
LEMMA WorkerKeepsIInv ==
    ASSUME IInv, WorkerStep
    PROVE  IInv'
<1> USE CallAssumption DEF IInv, TypeOK, WorkerInv, CallInv, OutcomeInv, InCall, Destination!Fates
<1>1. ASSUME NEW c \in Calls, Deliver(c) PROVE IInv'
  BY <1>1 DEF Deliver, Destination!Deliver, Destination!Pending, Destination!Move, callerVars, msgVars
<1>2. CASE InvokeSkips
  BY <1>2 DEF InvokeSkips, Destination!Complete, Destination!Move, callerVars, msgVars
<1>3. CASE InvokeTarget
  BY <1>3 DEF InvokeTarget, InvokerIsWaiting, mailVars, callerVars
<1>4. CASE TargetReturns
  BY <1>4 DEF TargetReturns, MarkSucceeded, Signal, mailVars, callerVars
<1>5. CASE TargetThrows
  BY <1>5 DEF TargetThrows, Signal, mailVars, callerVars
<1>6. CASE InvokeReturns
  BY <1>6 DEF InvokeReturns, Unlock, Destination!Complete, Destination!Move, callerVars
<1>7. CASE Unwind
  BY <1>7 DEF Unwind, Unlock, mailVars, callerVars
<1>8. CASE Fault
  BY <1>8 DEF Fault, mailVars, callerVars, msgVars
<1> QED
  BY <1>1, <1>2, <1>3, <1>4, <1>5, <1>6, <1>7, <1>8 DEF WorkerStep

\* So does an exit of the destination, which drops only messages nobody runs.
LEMMA ExitKeepsIInv ==
    ASSUME IInv, Discard \/ Cancel
    PROVE  IInv'
<1> USE CallAssumption DEF IInv, TypeOK, WorkerInv, CallInv, OutcomeInv, InCall, Destination!Fates
<1>1. CASE Discard
  BY <1>1 DEF Discard, Destination!Discard, Destination!Pending, Destination!Move,
              callerVars, msgVars, workerVars
<1>2. CASE Cancel
  BY <1>2 DEF Cancel, CancelSignals, Destination!Cancel, Destination!Discarded, Destination!Move,
              callerVars, workerVars
<1> QED BY <1>1, <1>2

\* Every step of a caller, of the destination thread and of its exit preserves IInv.
LEMMA StepKeepsIInv == IInv /\ [Next]_vars => IInv'
<1> SUFFICES ASSUME IInv, [Next]_vars PROVE IInv'
  OBVIOUS
<1>1. CASE Step
  BY <1>1, CallerKeepsIInv, WorkerKeepsIInv, ExitKeepsIInv DEF Step
<1>2. CASE UNCHANGED vars
  BY <1>2 DEF vars, mailVars, callerVars, msgVars, workerVars, IInv, TypeOK, WorkerInv, CallInv,
              OutcomeInv, InCall, Destination!Fates
<1> QED BY <1>1, <1>2 DEF Next

\* The inductive invariant holds in every state.
THEOREM Invariant == Spec => []IInv
  BY InitIInv, StepKeepsIInv, PTL DEF Spec

-----------------------------------------------------------------------------
\* Every variable keeps its type.
THEOREM TypeCorrect == Spec => []TypeOK
  BY Invariant, PTL DEF IInv

\* The target of a call runs only while its caller is in the call, so that the
\* arguments it refers to on the caller's stack are alive.
THEOREM ArgumentsOutliveTarget == Spec => []NoUseAfterReturn
<1>1. IInv => NoUseAfterReturn
  BY DEF IInv, WorkerInv, CallInv, NoUseAfterReturn
<1> QED BY <1>1, Invariant, PTL

\* A call that fails was refused, timed out, was discarded or threw: the signal of
\* a target that returned is never read as a failure.
THEOREM FailuresExplained == Spec => []FailureHasReason
<1>1. IInv => FailureHasReason
  BY DEF IInv, OutcomeInv, FailureHasReason
<1> QED BY <1>1, Invariant, PTL

\* Whoever waits for a message that an exit has thrown away has been signaled.
THEOREM ExitReleasesCallers == Spec => []CancelReleases
<1>1. IInv => CancelReleases
  BY DEF IInv, OutcomeInv, CancelReleases
<1> QED BY <1>1, Invariant, PTL

-----------------------------------------------------------------------------
\* The hand-shake implements BlockingCall: success means that the target ran to
\* its end during the call, and a call that has returned is never run later.
THEOREM BlockingCallImplemented == Spec => ImplementsBlockingCall
<1>1. Init => Abstract!Init
  BY DEF Init, InCall, Abstract!Init
<1>2. IInv /\ [Next]_vars => [Abstract!Next]_(Abstract!vars)
  <2> SUFFICES ASSUME IInv, [Next]_vars
               PROVE  [Abstract!Next]_(Abstract!vars)
    OBVIOUS
  <2> USE DEF IInv, TypeOK, InCall
  <2>1. ASSUME NEW c \in Calls, Call(c)
        PROVE  Abstract!Open(c)
    BY <2>1 DEF Call, Abstract!Open, workerVars
  <2>2. ASSUME NEW c \in Calls, Accepted(c) \/ Rejected(c) \/ WaitSignaled(c) \/ WaitTimedOut(c)
        PROVE  UNCHANGED Abstract!vars
    BY <2>2 DEF Accepted, Rejected, WaitSignaled, WaitTimedOut, Abstract!vars, workerVars
  <2>3. ASSUME NEW c \in Calls, Finish(c)
        PROVE  Abstract!Succeed(c) \/ Abstract!Fail(c)
    BY <2>3 DEF Finish, CallerGetsLock, Success, WorkerInv, CallInv,
                Abstract!Succeed, Abstract!Fail, workerVars
  <2>4. ASSUME NEW c \in Calls, Deliver(c)
        PROVE  UNCHANGED Abstract!vars
    BY <2>4 DEF Deliver, Abstract!vars, callerVars
  <2>5. CASE InvokeTarget
    <3>1. wcall \in Calls
      BY <2>5 DEF InvokeTarget, WorkerInv
    <3>2. Abstract!RunTarget(wcall)
      BY <2>5, <3>1 DEF InvokeTarget, InvokerIsWaiting, WorkerInv, CallInv, Abstract!RunTarget, callerVars
    <3> QED BY <3>1, <3>2 DEF Abstract!Next
  <2>6. CASE TargetReturns \/ TargetThrows
    <3>1. wcall \in Calls
      BY <2>6 DEF TargetReturns, TargetThrows, WorkerInv
    <3>2. Abstract!EndTarget(wcall)
      BY <2>6, <3>1 DEF TargetReturns, TargetThrows, WorkerInv, Abstract!EndTarget, callerVars
    <3> QED BY <3>1, <3>2 DEF Abstract!Next
  <2>7. CASE InvokeSkips \/ InvokeReturns \/ Unwind \/ Fault
    BY <2>7 DEF InvokeSkips, InvokeReturns, Unwind, Fault, Abstract!vars, callerVars
  <2>8. CASE Discard \/ Cancel
    BY <2>8 DEF Discard, Cancel, Abstract!vars, callerVars, workerVars
  <2>9. CASE UNCHANGED vars
    BY <2>9 DEF vars, Abstract!vars, callerVars, workerVars
  <2> QED
    BY <2>1, <2>2, <2>3, <2>4, <2>5, <2>6, <2>7, <2>8, <2>9
    DEF Next, Step, CallerStep, WorkerStep, Abstract!Next
<1> QED
  BY <1>1, <1>2, Invariant, PTL DEF Spec, ImplementsBlockingCall, Abstract!Spec
=============================================================================

---------------------------- MODULE BlockingCall ----------------------------
(***************************************************************************)
(* What a blocking call through a DelegateMQ async-wait delegate promises  *)
(* its caller, without semaphore, mutex, queue or timeout.                 *)
(*                                                                         *)
(* The target runs at most once and only between the start of the call and *)
(* its return, because it works on arguments that live on the caller's     *)
(* stack.  A call that succeeds has run its target to the end; a call that *)
(* fails may have run it or not.  AsyncWait implements this module.        *)
(***************************************************************************)
CONSTANT Calls

VARIABLES call, target

vars == <<call, target>>

Init ==
    /\ call = [c \in Calls |-> "idle"]
    /\ target = [c \in Calls |-> "notRun"]

Open(c) ==
    /\ call[c] = "idle"
    /\ call' = [call EXCEPT ![c] = "open"]
    /\ UNCHANGED target

RunTarget(c) ==
    /\ call[c] = "open" /\ target[c] = "notRun"
    /\ target' = [target EXCEPT ![c] = "running"]
    /\ UNCHANGED call

EndTarget(c) ==
    /\ call[c] = "open" /\ target[c] = "running"
    /\ \E end \in {"ran", "threw"} : target' = [target EXCEPT ![c] = end]
    /\ UNCHANGED call

Succeed(c) ==
    /\ call[c] = "open" /\ target[c] = "ran"
    /\ call' = [call EXCEPT ![c] = "succeeded"]
    /\ UNCHANGED target

Fail(c) ==
    /\ call[c] = "open" /\ target[c] # "running"
    /\ call' = [call EXCEPT ![c] = "failed"]
    /\ UNCHANGED target

Next == \E c \in Calls :
    Open(c) \/ RunTarget(c) \/ EndTarget(c) \/ Succeed(c) \/ Fail(c)

Spec == Init /\ [][Next]_vars
=============================================================================

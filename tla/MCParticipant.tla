--------------------------- MODULE MCParticipant ---------------------------
(* A small instance of Participant for TLC: two messages to send, and one  *)
(* whose sender has given up while the network still has its datagrams.    *)
EXTENDS Participant

CONSTANTS m1, m2, late

MC_Msgs == {m1, m2, late}

\* The late message was sent as often as it could be and reported as exhausted;
\* none of its datagrams has arrived yet.
LateInit ==
    /\ stored = {} /\ isSent = {late} /\ left = [m \in Msgs |-> 0]
    /\ pending = {} /\ expired = {}
    /\ spc = [m \in Msgs |-> IF m = late THEN "done" ELSE "new"]
    /\ npc = "idle" /\ cur = NoMsg /\ batch = {} /\ full = FALSE
    /\ ackCur = NoMsg
    /\ wire = {late} /\ acks = {}
    /\ tx = [m \in Msgs |-> IF m = late THEN MaxRetries + 1 ELSE 0]
    /\ outcome = [m \in Msgs |-> IF m = late THEN {"exhausted"} ELSE {}]
    /\ untracked = {}
    /\ ReceiverInit

LateSpec == LateInit /\ [][DeliveryNext]_deliveryVars /\ Fairness
=============================================================================

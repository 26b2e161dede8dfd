--------------------------- MODULE MCRemoteInvoke ---------------------------
(* A small instance of RemoteInvoke for TLC: two callers. *)
EXTENDS RemoteInvoke

CONSTANTS m1, m2

MC_Msgs == {m1, m2}
=============================================================================

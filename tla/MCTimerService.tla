--------------------------- MODULE MCTimerService ---------------------------
(* A small instance of TimerService for TLC: the node's timer and two others. *)
EXTENDS TimerService, TLC

CONSTANTS n, t1, t2

MC_Timers == {n, t1, t2}
MC_Periods == {1}
Symmetry == Permutations({t1, t2})
=============================================================================

----------------------------- MODULE MCAsyncWait -----------------------------
(* A small instance of AsyncWait for TLC: two callers and one nested call. *)
EXTENDS AsyncWait

CONSTANTS c1, c2, c3

MC_Calls == {c1, c2, c3}
MC_High == {c2}
MC_Nested == {c3}
=============================================================================

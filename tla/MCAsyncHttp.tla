----------------------------- MODULE MCAsyncHttp -----------------------------
(* Two clients, a request of each kind and two handles, for TLC. *)
EXTENDS AsyncHttp, TLC

CONSTANTS A, B, wait, callback, future, h1, h2

MC_Clients == {A, B}
MC_OneClient == {A}
MC_Wait == {wait}
MC_Callback == {callback}
MC_Future == {future}
MC_Handles == {h1, h2}

\* Clients are alike, and so are handles.
Symmetry == Permutations({A, B}) \cup Permutations({h1, h2})
=============================================================================

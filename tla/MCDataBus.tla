----------------------------- MODULE MCDataBus -----------------------------
(* A small instance of DataBus: the publishers are interchangeable, the    *)
(* subscribers are not.                                                    *)
EXTENDS DataBus, TLC

CONSTANTS p1, p2, async, sync

MC_Publishers       == {p1, p2}
MC_Subscribers      == {async, sync}
MC_LvcSubscribers   == {async, sync}
MC_AsyncSubscribers == {async}

Symmetry == Permutations(MC_Publishers)
=============================================================================

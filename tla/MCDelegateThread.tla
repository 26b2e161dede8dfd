-------------------------- MODULE MCDelegateThread --------------------------
(* Small instances of DelegateThread for TLC. *)
EXTENDS DelegateThread, TLC

CONSTANTS m1, m2, m3, m4, p1, p2, w1, w2

MC_Messages3 == {m1, m2, m3}
MC_Messages4 == {m1, m2, m3, m4}
MC_High == {m1, m2}
MC_Producers == {p1, p2}
MC_OneProducer == {p1}
MC_Workers == {w1, w2}
AllPolicies == {"DROP", "FAULT", "TIMEOUT"}
TimeoutOnly == {"TIMEOUT"}

\* Producers, and messages of one priority, are interchangeable; workers too.
Symmetry ==
    Permutations({p1, p2}) \cup Permutations({w1, w2})
        \cup Permutations({m1, m2}) \cup Permutations({m3, m4})
=============================================================================

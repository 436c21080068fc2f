-------------------------- MODULE MCSuperuserFloor --------------------------
(* Small instances of SuperuserFloor for TLC.                              *)
EXTENDS SuperuserFloor, TLC

CONSTANTS u1, u2, u3, r1, r2

TwoUsers == {u1, u2}
ThreeUsers == {u1, u2, u3}
TwoRequests == {r1, r2}

\* A demotion and a deactivation.
Lowering == {p \in Patch : p.is_active # TRUE /\ p.is_superuser # TRUE
                              /\ None \in {p.is_active, p.is_superuser}} \ {NoPatch}

\* For instances in which the users with two-factor authentication start alike.
Symmetry == Permutations(WithTotp) \cup Permutations(Requests)
=============================================================================

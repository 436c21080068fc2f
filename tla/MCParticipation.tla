-------------------------- MODULE MCParticipation --------------------------
(* Small instances of Participation for TLC.                               *)
EXTENDS Participation, TLC

CONSTANTS t1, t2, r1, r2, r3, l1, a1, s1, s2, d1, d2

TwoTokens == {t1, t2}
TwoRequests == {r1, r2}
ThreeRequests == {r1, r2, r3}
OneLink == {l1}
CapacityOne == [l \in {l1} |-> 1]
OnlyNoAnswers == {NoAnswers}
TwoAnswers == {NoAnswers, a1}
OneSort == {s1}
OneDraft == {d1}
TwoDrafts == {d1, d2}

Symmetry == Permutations(Requests) \cup Permutations(Tokens) \cup Permutations(Drafts)
=============================================================================

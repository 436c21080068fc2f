---------------------------- MODULE MCRecordings ----------------------------
(* Small instances of Recordings for TLC.                                  *)
EXTENDS Recordings, TLC

CONSTANTS q1, q2, r1, r2, r3, r4

OneQuestion == {q1}
TwoQuestions == {q1, q2}
TwoRequests == {r1, r2}
FourRequests == {r1, r2, r3, r4}

Symmetric == Permutations(Requests) \cup Permutations(Questions)
=============================================================================

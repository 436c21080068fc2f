----------------------------- MODULE MCDraftSync -----------------------------
(* Small instances of DraftSync for TLC.                                   *)
EXTENDS DraftSync

CONSTANTS p1, p2

OnePage == {p1}
TwoPages == {p1, p2}
=============================================================================

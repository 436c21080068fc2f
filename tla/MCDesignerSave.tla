--------------------------- MODULE MCDesignerSave ---------------------------
(* Small instances of DesignerSave for TLC: one field on the studies row   *)
(* and one in child rows.                                                  *)
EXTENDS DesignerSave, TLC

CONSTANTS e1, e2, r1, r2, r3, config, texts

TwoEditors == {e1, e2}
TwoFields == {config, texts}
OneColumn == {config}
TwoRequests == {r1, r2}
ThreeRequests == {r1, r2, r3}

Symmetry == Permutations(Editors) \cup Permutations(Requests)
=============================================================================

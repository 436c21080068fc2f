---------------------------- MODULE SessionRules ----------------------------
(***************************************************************************)
(* The pure rules of a participant session: which persistence steps a      *)
(* study has, when reported progress is recorded, what becomes of a draft  *)
(* that carries a revision, and which columns of a row an ORM flush writes.*)
(***************************************************************************)
EXTENDS Naturals

CONSTANT None        \* SQL NULL / a missing field

ASSUME NoneIsNoNumber == None \notin Nat

(***************************************************************************)
(* Steps: 1 consent, 2 presort, 3 rough sort, 4 fine sort, 5 post-sort.    *)
(***************************************************************************)
enabled_steps(rough_sort_enabled) ==
    IF rough_sort_enabled THEN 1..5 ELSE {1, 2, 4, 5}

\* Faulty: whatever step is reported is recorded.
BugAdvanceAlways(last_step_reached, step) == TRUE

should_advance(last_step_reached, step) ==
    last_step_reached = None \/ step > last_step_reached

step_transition_allowed(current_step, target_step, rough_sort_enabled) ==
    \/ target_step <= current_step
    \/ target_step \in enabled_steps(rough_sort_enabled)

(***************************************************************************)
(* What save_draft does with revision rev and content draft against the    *)
(* stored pair. A row without a stored revision (legacy client) accepts    *)
(* anything; a retry of the stored save is acknowledged and writes nothing;*)
(* everything else at or below the watermark is refused.                   *)
(***************************************************************************)
\* Faulty: a second save may carry the revision of the first.
BugVerdictEqual(storedRev, storedDraft, rev, draft) ==
    IF storedRev = None THEN "accept"
    ELSE IF rev # None /\ rev >= storedRev THEN "accept" ELSE "conflict"

\* Faulty: no watermark.
BugVerdictAccept(storedRev, storedDraft, rev, draft) == "accept"

DraftVerdict(storedRev, storedDraft, rev, draft) ==
    IF storedRev = None THEN "accept"
    ELSE IF rev # None /\ rev > storedRev THEN "accept"
    ELSE IF rev = storedRev /\ draft = storedDraft THEN "same"
    ELSE "conflict"

(***************************************************************************)
(* A SQLAlchemy flush writes a column only when the value assigned differs *)
(* from the value the session LOADED, which need not be the committed one. *)
(***************************************************************************)
FlushedColumn(committed, loaded, assigned) ==
    IF assigned = loaded THEN committed ELSE assigned
=============================================================================

---------------------------- MODULE DraftKeeping ----------------------------
(***************************************************************************)
(* What saving drafts promises, whatever the network does: every page's    *)
(* answers reach the server in the order they were given, some of them may *)
(* be skipped, and the draft on the server is the last one that arrived    *)
(* from some page, or none.                                                *)
(***************************************************************************)
EXTENDS Naturals

CONSTANTS None, Pages, First     \* First: the page the session began in

VARIABLES
    latest,     \* latest[p]: the answers on page p; numbered as they are given
    kept,       \* kept[p]: the last of them that arrived at the server
    draft       \* the draft on the server

vars == <<latest, kept, draft>>

Init ==
    /\ latest = [p \in Pages |-> 0]
    /\ kept = [p \in Pages |-> 0]
    /\ draft = None

Answer(p) ==
    /\ latest' \in [Pages -> Nat]
    /\ latest' = [latest EXCEPT ![p] = latest'[p]]
    /\ \A q \in Pages : latest'[p] > latest[q]
    /\ UNCHANGED <<kept, draft>>

\* Answers at least as new as those that arrived before.
Keep(p) ==
    /\ \E n \in kept[p]..latest[p] :
          /\ kept' = [kept EXCEPT ![p] = n]
          /\ draft' = n
    /\ UNCHANGED latest

\* Withdrawn or submitted.
Clear == draft' = None /\ UNCHANGED <<latest, kept>>

\* Another page resumes the session: it starts from the draft.
Resume(p) ==
    /\ p # First /\ latest[p] = 0
    /\ LET n == IF draft = None THEN 0 ELSE draft IN
       /\ latest' = [latest EXCEPT ![p] = n]
       /\ kept' = [kept EXCEPT ![p] = n]
    /\ UNCHANGED draft

Next ==
    \/ \E p \in Pages : Answer(p) \/ Keep(p) \/ Resume(p)
    \/ Clear

Spec == Init /\ [][Next]_vars
=============================================================================

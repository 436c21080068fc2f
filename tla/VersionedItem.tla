--------------------------- MODULE VersionedItem ---------------------------
(***************************************************************************)
(* What editing an item of a concourse promises, however many researchers  *)
(* edit it at once: every change that is asked for takes effect at most    *)
(* once and in one step, on the newest version there is; it adds a version *)
(* which differs from that one in what was asked and in nothing else.      *)
(***************************************************************************)
EXTENDS Naturals

CONSTANTS Editors, Languages, Statuses, FirstStatus, Requests, None

VARIABLES
    versions,   \* every version of the item, or {} once it is deleted
    asked       \* asked[r]: the change under way in request r, or None

vars == <<versions, asked>>

\* A new text in one language or a new status.
Changes == [editor : Editors, lang : Languages \cup {None}, status : Statuses \cup {None}]

Init ==
    /\ versions = {[version |-> 1, text |-> [l \in Languages |-> None],
                    status |-> FirstStatus]}
    /\ asked = [r \in Requests |-> None]

Ask(r) ==
    /\ asked[r] = None
    /\ asked'[r] \in Changes /\ asked' = [asked EXCEPT ![r] = asked'[r]]
    /\ UNCHANGED versions

Newest(v) == \A u \in versions : u.version <= v.version

Changed(v, c) ==
    [version |-> v.version + 1,
     text |-> IF c.lang = None THEN v.text ELSE [v.text EXCEPT ![c.lang] = c.editor],
     status |-> IF c.status = None THEN v.status ELSE c.status]

Over(r) == asked[r] # None /\ asked' = [asked EXCEPT ![r] = None]

Change(r) ==
    /\ Over(r)
    /\ \E v \in versions :
         Newest(v) /\ versions' = versions \cup {Changed(v, asked[r])}

\* Refused or lost.
Drop(r) == Over(r) /\ UNCHANGED versions

Delete ==
    /\ versions # {} /\ versions' = {}
    /\ UNCHANGED asked

Next ==
    \/ \E r \in Requests : Ask(r) \/ Change(r) \/ Drop(r)
    \/ Delete

Spec == Init /\ [][Next]_vars
=============================================================================

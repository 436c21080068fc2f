---------------------------- MODULE DesignerSave ----------------------------
(***************************************************************************)
(* Researchers edit one study in the designer, each in a tab of his own:   *)
(* the store's draft and original (useStudyDesigner), the manual save with *)
(* its three-way merge (useStudyPersistence, mergeStudy), the study query  *)
(* that refetches underneath it (useStudyDesignPage), and the PATCH with   *)
(* its optimistic lock (StudyService.update_study, the studies router).    *)
(*                                                                         *)
(* One study in state draft. Values are abstract: an edit types a value    *)
(* nobody has typed before, so a value tells who typed it. Columns are the *)
(* fields kept on the studies row; the other fields are child rows         *)
(* (translations, statements), whose writes leave studies.updated_at alone.*)
(***************************************************************************)
EXTENDS Naturals

CONSTANTS
    Editors,        \* one open designer tab each
    Fields,         \* the fields a merge compares
    Columns,        \* those stored on the studies row
    Requests,       \* PATCH requests ever sent
    None,
    MaxEdits,       \* bound: edits of one field in one tab
    MaxWrites       \* bound: PATCH transactions that pass the lock

ASSUME DesignerAssumption ==
    /\ Columns \subseteq Fields
    /\ None \notin Editors
    /\ MaxEdits \in Nat /\ MaxWrites \in Nat

VARIABLES
    server,         \* the committed study
    clock,          \* the start of the latest transaction that passed the lock
    tab,            \* tab[e]: the designer of editor e
    fetched,        \* fetched[e]: the answer to e's study query on its way, or None
    request,        \* request[r]: the PATCH r, or None
    typed,          \* history: the last value e typed into f
    stored          \* history: the values f has had on the server

vars == <<server, clock, tab, fetched, request, typed, stored>>

Blank == <<None, 0>>
Values == (Editors \X (1..MaxEdits)) \cup {Blank}

\* A study as a tab or a request holds it: its content and updated_at, which
\* a draft carries as last_updated_at.
Contents == [Fields -> Values]
Docs == [val : Contents, at : Nat]

ASSUME NoneIsNoContents == None \notin Contents

\* saved is lastSavedDraftRef, cache what the study query last returned.
Tabs == [draft : Docs, original : Docs, cache : Docs,
         saved : Contents \cup {None},
         status : {"synced", "modified", "saving", "error"}]

\* base is the original when Save was pressed, snap the row the server loaded,
\* stamp the start of its transaction. A stage forgets what no later step uses.
Patches == [tab : Editors, sent : Docs, base : Docs,
            stage : {"sent", "loaded", "ok", "conflict"},
            snap : Docs, stamp : Nat]

ASSUME NoneIsNoPatch == None \notin Patches

TypeOK ==
    /\ server \in Docs
    /\ clock \in Nat
    /\ tab \in [Editors -> Tabs]
    /\ fetched \in [Editors -> Docs \cup {None}]
    /\ request \in [Requests -> Patches \cup {None}]
    /\ typed \in [Editors -> Contents]
    /\ stored \in [Fields -> SUBSET Values]

NewStudy == [val |-> [f \in Fields |-> Blank], at |-> 0]

Init ==
    /\ server = NewStudy
    /\ clock = 0
    /\ tab = [e \in Editors |->
                [draft |-> NewStudy, original |-> NewStudy, cache |-> NewStudy,
                 saved |-> None, status |-> "synced"]]
    /\ fetched = [e \in Editors |-> None]
    /\ request = [r \in Requests |-> None]
    /\ typed = [e \in Editors |-> NewStudy.val]
    /\ stored = [f \in Fields |-> {Blank}]

-----------------------------------------------------------------------------
(* The three-way merge and the status the designer shows.                  *)

\* A field only the server changed takes the server's value; every other one
\* stays as it is in the draft.
mergeStudyUpdates(local, theirs, base) ==
    [val |-> [f \in Fields |->
                IF theirs.val[f] # base.val[f] /\ local.val[f] = base.val[f]
                THEN theirs.val[f] ELSE local.val[f]],
     at |-> theirs.at]

isDraftInSync(t) == t.draft.val = t.original.val \/ t.draft.val = t.saved

\* The effect that runs whenever draft, original or status has changed.
Settled(t) ==
    IF isDraftInSync(t)
    THEN IF t.status = "saving" THEN t ELSE [t EXCEPT !.status = "synced"]
    ELSE IF t.status \in {"saving", "error"} THEN t ELSE [t EXCEPT !.status = "modified"]

\* The effect that runs when the study query returns another document, and
\* when the page mounts: the original becomes that document; the draft, and
\* with it the status, only when nothing in it differs.
StudyEffect(t, doc) ==
    [t EXCEPT !.original = doc, !.cache = doc,
              !.draft = IF @.val = doc.val THEN doc ELSE @,
              !.status = IF t.draft.val = doc.val THEN "synced" ELSE @]

Becomes(e, t) == tab' = [tab EXCEPT ![e] = Settled(t)]

-----------------------------------------------------------------------------
(* What an editor does.                                                    *)

Edit(e, f) ==
    LET value == <<e, typed[e][f][2] + 1>> IN
    /\ typed[e][f][2] < MaxEdits
    /\ typed' = [typed EXCEPT ![e][f] = value]
    /\ Becomes(e, [tab[e] EXCEPT !.draft.val[f] = value])
    /\ UNCHANGED <<server, clock, fetched, request, stored>>

Save(e, r) ==
    /\ tab[e].status # "saving"
    /\ request[r] = None
    /\ request' = [request EXCEPT ![r] =
            [tab |-> e, sent |-> tab[e].draft, base |-> tab[e].original,
             stage |-> "sent", snap |-> NewStudy, stamp |-> 0]]
    /\ Becomes(e, [tab[e] EXCEPT !.status = "saving"])
    /\ UNCHANGED <<server, clock, fetched, typed, stored>>

\* The query refetches after a reconnect or an invalidation. An answer equal
\* to the cached document is the cached document: no effect runs.
Fetch(e) ==
    /\ fetched[e] = None /\ server # tab[e].cache
    /\ fetched' = [fetched EXCEPT ![e] = server]
    /\ UNCHANGED <<server, clock, tab, request, typed, stored>>

Deliver(e) ==
    /\ fetched[e] # None
    /\ fetched' = [fetched EXCEPT ![e] = None]
    /\ Becomes(e, StudyEffect(tab[e], fetched[e]))
    /\ UNCHANGED <<server, clock, request, typed, stored>>

\* The page is left and entered again with the query still cached. The store
\* outlives the page, the ref does not.
Remount(e) ==
    /\ ~ \E r \in Requests : request[r] # None /\ request[r].tab = e
    /\ Becomes(e, [StudyEffect(tab[e], tab[e].cache) EXCEPT !.saved = None])
    /\ UNCHANGED <<server, clock, fetched, request, typed, stored>>

-----------------------------------------------------------------------------
(* The PATCH on the server: it loads the study, checks the lock against    *)
(* what it loaded, and flushes what differs from it.                       *)

At(r, stage) == request[r] # None /\ request[r].stage = stage

\* updated_at > last_updated_at: nothing is written, the study as loaded goes
\* back under details.server_state.
Conflicts(doc, sent) == doc.at > sent.at

Refuse(r) ==
    /\ At(r, "sent") /\ Conflicts(server, request[r].sent)
    /\ request' = [request EXCEPT ![r] =
            [@ EXCEPT !.stage = "conflict", !.snap = server, !.sent = NewStudy]]
    /\ UNCHANGED <<server, clock, tab, fetched, typed, stored>>

Load(r) ==
    /\ At(r, "sent") /\ ~Conflicts(server, request[r].sent)
    /\ clock < MaxWrites
    /\ clock' = clock + 1
    /\ request' = [request EXCEPT ![r] =
            [@ EXCEPT !.stage = "loaded", !.snap = server, !.stamp = clock + 1,
                      !.base = NewStudy]]
    /\ UNCHANGED <<server, tab, fetched, typed, stored>>

Flushed(q) == {f \in Fields : q.sent.val[f] # q.snap.val[f]}

\* The row as it is after the commit of q. onupdate sets updated_at to now(),
\* the start of the transaction, when the row itself is updated.
Committed(q) ==
    [val |-> [f \in Fields |-> IF f \in Flushed(q) THEN q.sent.val[f] ELSE server.val[f]],
     at |-> IF Flushed(q) \cap Columns = {} THEN server.at ELSE q.stamp]

\* The response is the session's own copy of the study, with updated_at read back.
Commit(r) ==
    LET q == request[r]
        row == Committed(q) IN
    /\ At(r, "loaded")
    /\ server' = row
    /\ stored' = [f \in Fields |-> stored[f] \cup {row.val[f]}]
    /\ request' = [request EXCEPT ![r] =
            [@ EXCEPT !.stage = "ok", !.snap = [val |-> q.sent.val, at |-> row.at],
                      !.stamp = 0]]
    /\ UNCHANGED <<clock, tab, fetched, typed>>

-----------------------------------------------------------------------------
(* The answer reaches the tab: save's continuation and its catch block.    *)

Answered(r, t) ==
    /\ request' = [request EXCEPT ![r] = None]
    /\ Becomes(request[r].tab, t)
    /\ UNCHANGED <<server, clock, fetched, typed, stored>>

\* Faulty: the acknowledged study replaces the draft, whatever was typed since.
BugNoRebase(q, t) ==
    [t EXCEPT !.saved = q.sent.val, !.draft = q.snap, !.original = q.snap,
              !.status = "synced"]

\* Faulty: the rebased draft is reported as saved, too.
BugRebasedSynced(q, t) ==
    [t EXCEPT !.saved = t.draft.val, !.original = q.snap,
              !.draft = mergeStudyUpdates(t.draft, q.snap, q.sent), !.status = "synced"]

\* Faulty: the reference keeps the stamp, which areStudiesEqual ignores.
BugSavedWhole(q, t) == [t EXCEPT !.saved = q.sent, !.original = q.snap, !.draft = q.snap,
                                 !.status = "synced"]

\* Edits made during the request are rebased on the acknowledged snapshot.
Acknowledge(q, t) ==
    IF t.draft # q.sent
    THEN [t EXCEPT !.saved = q.sent.val, !.original = q.snap,
                   !.draft = mergeStudyUpdates(t.draft, q.snap, q.sent),
                   !.status = "modified"]
    ELSE [t EXCEPT !.saved = q.sent.val, !.original = q.snap, !.draft = q.snap,
                   !.status = "synced"]

\* Faulty: the status is left at saving after a merge.
BugStillSaving(q, t) ==
    [t EXCEPT !.draft = mergeStudyUpdates(t.draft, q.snap, q.base),
              !.original = q.snap, !.saved = None]

\* 409: the current draft is merged with server_state over the original of
\* the moment Save was pressed.
applyConflict(q, t) ==
    [t EXCEPT !.draft = mergeStudyUpdates(t.draft, q.snap, q.base),
              !.original = q.snap, !.saved = None, !.status = "modified"]

Saved(r) ==
    LET q == request[r] IN At(r, "ok") /\ Answered(r, Acknowledge(q, tab[q.tab]))

Merged(r) ==
    LET q == request[r] IN At(r, "conflict") /\ Answered(r, applyConflict(q, tab[q.tab]))

Failed(t) == [t EXCEPT !.status = "error"]

\* The request or its answer is lost, or the server refuses it otherwise.
SaveFailed(r) ==
    /\ At(r, "sent") \/ At(r, "ok") \/ At(r, "conflict")
    /\ Answered(r, Failed(tab[request[r].tab]))

-----------------------------------------------------------------------------
Next ==
    \/ \E e \in Editors :
         \/ \E f \in Fields : Edit(e, f)
         \/ \E r \in Requests : Save(e, r)
         \/ Fetch(e) \/ Deliver(e) \/ Remount(e)
    \/ \E r \in Requests :
         \/ Load(r) \/ Refuse(r) \/ Commit(r)
         \/ Saved(r) \/ Merged(r) \/ SaveFailed(r)

Spec == Init /\ [][Next]_vars

-----------------------------------------------------------------------------
(* Properties.                                                             *)

Unsaved(e, f) == typed[e][f] \notin stored[f]

\* What a researcher typed and the server has never had is still in his
\* draft: no merge, acknowledgement, refetch or remount drops it (the rebase
\* in save and "keep the draft as-is" in useStudyDesignPage are for this).
UnsavedKept ==
    \A e \in Editors, f \in Fields :
        Unsaved(e, f) => tab[e].draft.val[f] = typed[e][f]

\* A tab with work the server never had does not show "synced": the unload
\* guard and the navigation blocker, which ask hasUnsavedWork(status), engage.
UnsavedGuarded ==
    \A e \in Editors :
        tab[e].status = "synced" => \A f \in Fields : ~Unsaved(e, f)

\* Save is disabled only while an answer is still to come: whatever becomes
\* of a request, its tab never stays at "saving", where save returns at once.
SavingEnds ==
    \A e \in Editors :
        tab[e].status = "saving" =>
            \E r \in Requests : request[r] # None /\ request[r].tab = e

\* Even when no two saves overlap, a save changes a field of the study only to
\* what its own researcher typed (study_service.py: a client is told when the
\* row moved underneath it, so the designer can merge instead of overwrite).
\* The code does not keep this: see the run silent_overwrite.
OthersKept ==
    [][\A r \in Requests, f \in Fields :
         Commit(r) /\ request[r].snap = server /\ server'.val[f] # server.val[f]
             => server'.val[f][1] = request[r].tab]_vars
=============================================================================

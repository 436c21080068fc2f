----------------------------- MODULE Concourse -----------------------------
(***************************************************************************)
(* One item of a concourse, edited by several researchers, each on a page  *)
(* of his own (useConcourseDetailPage), through the PATCH with optimistic  *)
(* lock and version history (ConcourseService.update_item), and copied     *)
(* into a study in state draft (import_to_study,                           *)
(* sync_statement_from_concourse), which later asks whether its copy is    *)
(* stale (check_stale_statements).                                         *)
(*                                                                         *)
(* An item is its text in each language and its status. Code, source and   *)
(* tags are fields of the edit form and go the way of the text. A text is  *)
(* named by the editor who typed it last. A deleted item does not come     *)
(* back.                                                                   *)
(***************************************************************************)
EXTENDS Naturals, FiniteSets

CONSTANTS
    Editors,        \* one open concourse page each
    Languages,
    Statuses,
    FirstStatus,    \* the status the item was created with
    Requests,       \* PATCH requests under way
    None,
    MaxClock        \* bound: PATCH transactions

ASSUME ConcourseAssumption ==
    /\ FirstStatus \in Statuses /\ None \notin Statuses
    /\ None \notin Languages /\ None \notin Editors
    /\ MaxClock \in Nat

VARIABLES
    item,           \* the committed item, or None once it is deleted
    history,        \* its rows in concourse_item_versions
    clock,          \* the start of the latest PATCH transaction
    page,           \* page[e]: the concourse page of editor e
    request,        \* request[r]: the PATCH r, or None
    imported,       \* source_imported_at of its copy in the study, or None
    copy,           \* the same of an import or sync under way, or None
    past            \* history: every version the item has had

vars == <<item, history, clock, page, request, imported, copy, past>>

Texts == [Languages -> Editors \cup {None}]

\* A version of the item: what history keeps of it.
Versions == [version : Nat, text : Texts, status : Statuses]
Items == [version : Nat, text : Texts, status : Statuses, updated_at : Nat]

\* seen is the version the open form was filled from, which the code does not
\* keep (a history variable), and 0 while no form is open; the page is closing
\* while it awaits the refetch that follows an answer.
Pages == [cache : Items \cup {None}, seen : Nat, closing : BOOLEAN]

\* lang is the language of an edit, None for a change of status; row and texts
\* are what update_item has loaded for the version snapshot.
Patches == [editor : Editors, version : Nat, lang : Languages \cup {None},
            text : Texts, status : Statuses \cup {None}, seen : Nat,
            stage : {"sent", "row", "loaded"},
            started : Nat, row : Versions, texts : Texts]

\* What the answer makes the page do: close its form, or nothing.
Answers == [stage : {"answered"}, editor : Editors, closes : BOOLEAN]

ASSUME NoneIsNoItem == None \notin Nat \cup Items \cup Patches \cup Answers

NewText == [l \in Languages |-> None]
NewVersion == [version |-> 1, text |-> NewText, status |-> FirstStatus]
NewItem == [version |-> 1, text |-> NewText, status |-> FirstStatus, updated_at |-> 0]

TypeOK ==
    /\ item \in Items \cup {None}
    /\ history \subseteq Versions
    /\ clock \in Nat
    /\ page \in [Editors -> Pages]
    /\ request \in [Requests -> Patches \cup Answers \cup {None}]
    /\ imported \in Nat \cup {None}
    /\ copy \in Nat \cup {None}
    /\ past \subseteq Versions

Init ==
    /\ item = NewItem
    /\ history = {}
    /\ clock = 0
    /\ page = [e \in Editors |-> [cache |-> NewItem, seen |-> 0, closing |-> FALSE]]
    /\ request = [r \in Requests |-> None]
    /\ imported = None
    /\ copy = None
    /\ past = {NewVersion}

VersionOf(i) == [version |-> i.version, text |-> i.text, status |-> i.status]

-----------------------------------------------------------------------------
(* The page of an editor.                                                  *)

Shows(e, p) ==
    /\ page' = [page EXCEPT ![e] = p]
    /\ UNCHANGED <<item, history, clock, imported, copy, past>>

\* The query refetches every 15 seconds, and after a save, which then closes
\* the form whether or not the refetch succeeded. An open form keeps its text.
\* One fetch is under way at a time, so that an answer is never overtaken.
Refetch(e) ==
    /\ \E i \in {item, page[e].cache} :
         Shows(e, [cache |-> i, seen |-> IF page[e].closing THEN 0 ELSE page[e].seen,
                   closing |-> FALSE])
    /\ UNCHANGED request

startEdit(e) ==
    /\ page[e].cache # None /\ page[e].seen = 0
    /\ Shows(e, [page[e] EXCEPT !.seen = page[e].cache.version])
    /\ UNCHANGED request

CancelEdit(e) ==
    /\ page[e].seen # 0
    /\ Shows(e, [page[e] EXCEPT !.seen = 0])
    /\ UNCHANGED request

At(r, stage) == request[r] # None /\ request[r].stage = stage

\* Bound: no more requests than MaxClock lets begin.
Send(e, r, lang, text, status) ==
    /\ request[r] = None /\ page[e].cache # None
    /\ clock + Cardinality({q \in Requests : At(q, "sent")}) < MaxClock
    /\ request' = [request EXCEPT ![r] =
            [editor |-> e, version |-> page[e].cache.version, lang |-> lang, text |-> text,
             status |-> status,
             seen |-> IF lang = None THEN 0 ELSE page[e].seen, stage |-> "sent", started |-> 0,
             row |-> NewVersion, texts |-> NewText]]
    /\ UNCHANGED <<item, history, clock, page, imported, copy, past>>

\* Mutant: the form's text stands for every language.
BugMergesNothing(e, l) == [k \in Languages |-> e]

\* The item as fetched last, with the form's text in the active language.
mergedTranslations(e, l) == [page[e].cache.text EXCEPT ![l] = e]

\* In the language active at the click: the language buttons stay enabled while
\* a form is open. Save is disabled while the page's latest PATCH is pending,
\* which may be that of another item, so that an earlier one may be too.
saveEdit(e, r, l) ==
    /\ page[e].seen # 0 /\ page[e].cache # None
    /\ Send(e, r, l, mergedTranslations(e, l), None)

\* The status of an item that is not in a form; nothing disables it.
changeStatus(e, r, s) ==
    /\ page[e].seen = 0 /\ page[e].cache # None
    /\ s # page[e].cache.status
    /\ Send(e, r, None, NewText, s)

\* The same for every item selected, in a form or not, with the status or not.
handleBulkStatusChange(e, r, s) ==
    /\ page[e].cache # None
    /\ Send(e, r, None, NewText, s)

-----------------------------------------------------------------------------
(* update_item: its snapshot reads the row and the translations with one   *)
(* SELECT each; the UPDATE names the version the client sent.              *)

Stays == UNCHANGED <<page, imported, copy>>

\* now() is the start of the transaction.
LoadRow(r) ==
    /\ At(r, "sent") /\ item # None
    /\ clock' = clock + 1
    /\ request' = [request EXCEPT ![r] = [request[r] EXCEPT
            !.stage = "row", !.started = clock + 1, !.row = VersionOf(item)]]
    /\ Stays /\ UNCHANGED <<item, history, past>>

LoadTexts(r) ==
    /\ At(r, "row")
    /\ request' = [request EXCEPT ![r] = [request[r] EXCEPT
            !.stage = "loaded", !.texts = IF item = None THEN NewText ELSE item.text]]
    /\ Stays /\ UNCHANGED <<item, history, clock, past>>

\* Mutant: the last writer wins.
BugIgnoresVersion(q) == item # None

\* Mutant: the version is compared in Python, with the row as loaded.
BugComparesLoaded(q) == item # None /\ q.row.version = q.version

\* WHERE id = item_id AND version = data.version, re-evaluated on the row as
\* it is once a concurrent UPDATE or DELETE has committed.
Matches(q) == item # None /\ item.version = q.version

\* Mutant: the snapshot is taken after the UPDATE.
BugSnapshotsNew(q) == [version |-> q.version, text |-> q.text, status |-> q.row.status]

Snapshot(q) == [version |-> q.row.version, text |-> q.texts, status |-> q.row.status]

\* Mutant: a status that was not sent is written too.
BugWritesEveryField(q) ==
    [version |-> q.version + 1, text |-> IF q.lang = None THEN item.text ELSE q.text,
     status |-> q.status, updated_at |-> q.started]

\* The row after the UPDATE and the INSERTs; onupdate sets updated_at.
Updated(q) ==
    [version |-> q.version + 1,
     text |-> IF q.lang = None THEN item.text ELSE q.text,
     status |-> IF q.status = None THEN item.status ELSE q.status,
     updated_at |-> q.started]

\* After an edit that was saved or met a conflict the page closes the form.
Answered(r) ==
    request' = [request EXCEPT ![r] = [stage |-> "answered", editor |-> request[r].editor,
                                       closes |-> request[r].lang # None]]

CommitUpdate(r) ==
    LET q == request[r] IN
    /\ At(r, "loaded") /\ Matches(q)
    /\ item' = Updated(q)
    /\ history' = history \cup {Snapshot(q)}
    /\ past' = past \cup {VersionOf(Updated(q))}
    /\ Answered(r)
    /\ Stays /\ UNCHANGED clock

\* 409; an item deleted since it was loaded is still in the session and gives
\* the same answer.
RefuseUpdate(r) ==
    /\ At(r, "loaded") /\ ~Matches(request[r])
    /\ Answered(r)
    /\ Stays /\ UNCHANGED <<item, history, clock, past>>

\* Translations, versions and comments go with the row.
delete_item ==
    /\ item # None
    /\ item' = None /\ history' = {} /\ past' = {}
    /\ Stays /\ UNCHANGED <<clock, request>>

\* The answer reaches the page, which refetches and then closes the form,
\* whichever form is open by then; a change of status leaves it alone.
Answer(r) ==
    LET e == request[r].editor IN
    /\ At(r, "answered")
    /\ request' = [request EXCEPT ![r] = None]
    /\ Shows(e, [page[e] EXCEPT !.closing = page[e].closing \/ request[r].closes])

\* The request finds no item, or it or its answer is lost: mutations are not
\* retried, and an error other than a conflict leaves the page as it is.
Fail(r) ==
    /\ At(r, "sent") \/ At(r, "answered")
    /\ request' = [request EXCEPT ![r] = None]
    /\ Stays /\ UNCHANGED <<item, history, clock, past>>

-----------------------------------------------------------------------------
(* The copy in a study. import_to_study and sync_statement_from_concourse   *)
(* read the item, take the time, and commit. Time passes when a PATCH       *)
(* transaction starts; the copy falls between the latest start and the next.*)

ReadSource ==
    /\ copy = None /\ item # None
    /\ copy' = clock
    /\ UNCHANGED <<item, history, clock, page, request, imported, past>>

CommitCopy ==
    /\ copy # None
    /\ imported' = copy
    /\ copy' = None
    /\ UNCHANGED <<item, history, clock, page, request, past>>

\* Reported by check_stale_statements, as changed or as deleted.
Stale == imported # None /\ (item = None \/ item.updated_at > imported)

-----------------------------------------------------------------------------
Next ==
    \/ \E e \in Editors :
         \/ Refetch(e) \/ startEdit(e) \/ CancelEdit(e)
         \/ \E r \in Requests, l \in Languages : saveEdit(e, r, l)
         \/ \E r \in Requests, s \in Statuses :
              changeStatus(e, r, s) \/ handleBulkStatusChange(e, r, s)
    \/ \E r \in Requests :
         \/ LoadRow(r) \/ LoadTexts(r) \/ CommitUpdate(r) \/ RefuseUpdate(r)
         \/ Answer(r) \/ Fail(r)
    \/ delete_item \/ ReadSource \/ CommitCopy

Spec == Init /\ [][Next]_vars

-----------------------------------------------------------------------------
(* Properties.                                                             *)

\* The version history is complete and true: together with the item it holds
\* every version there has been, once, with the texts and status it had,
\* though the snapshot is read in two SELECTs, without a lock, before the
\* UPDATE that decides (update_item). Nothing a researcher saved is lost.
HistoryComplete ==
    item # None =>
        /\ history \cup {VersionOf(item)} = past
        /\ \A h \in past : h.version \in 1..item.version
        /\ \A g, h \in past : g.version = h.version => g = h

\* An edit in one language leaves the others as they are committed, though
\* the PATCH replaces all translations by what the page had fetched
\* (mergedTranslations, the DELETE and INSERTs of update_item).
OtherLanguagesKept ==
    [][\A r \in Requests, l \in Languages :
         CommitUpdate(r) /\ request[r].lang # l => item'.text[l] = item.text[l]]_vars

\* A statement reported as stale stays reported until it is copied again:
\* updated_at, the start of an edit's transaction, never goes back.
StaleStaysReported ==
    [][Stale /\ imported' = imported => Stale']_vars

\* The versions that can be read, in the item and its history.
Recorded == IF item = None THEN {} ELSE history \cup {VersionOf(item)}

\* What the requests not yet answered ask for.
Asked == [r \in Requests |->
            IF request[r] # None /\ request[r].stage # "answered"
            THEN [editor |-> request[r].editor, lang |-> request[r].lang,
                  status |-> request[r].status]
            ELSE None]

\* Edits are as atomic as if the server did each in one step, though the page
\* merges the texts, three statements read and write the item, and answers are
\* lost (update_item, mergedTranslations): VersionedItem's promise is kept.
Promise == INSTANCE VersionedItem WITH versions <- Recorded, asked <- Asked

EditsAreAtomic == Promise!Spec

\* What tells a request that asks from one that does not.
ASSUME NoneIsNoChange == None \notin Promise!Changes

\* An edit replaces no text of a colleague that its form was not opened on
\* (update_item: "Update an item with optimistic locking", "Item was modified by
\* another user. Refresh and retry."). The code does not keep this: the run
\* concourse_overwrite.
EditsWhatWasSeen ==
    [][\A r \in Requests :
         CommitUpdate(r) /\ request[r].lang # None
         /\ item.text[request[r].lang] # request[r].editor =>
            \E v \in past : /\ v.version = request[r].seen
                            /\ v.text[request[r].lang] = item.text[request[r].lang]]_vars
=============================================================================

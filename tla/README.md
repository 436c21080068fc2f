# A TLA+ verification of Qualis

Qualis runs Q-methodology studies: researchers design a study, participants
consent, sort statements, answer questions, record audio, and submit. The
backend is FastAPI over PostgreSQL (SQLAlchemy async sessions, READ COMMITTED)
with an S3 object store for audio. The participant's browser keeps its state in
zustand stores persisted in localStorage and saves drafts in the background;
researchers work in pages that cache what they fetched and refetch it.

This directory models the parts in which steps of several actors meet, or in
which a long chain of legal steps has to keep an order: requests on the same
rows, a browser and a server over a network, a database and an object store,
tabs that edit one document, a participant's hands on a grid. Paths below are
relative to `src/src/backend/app/` unless they start with `frontend/`, which
stands for `src/src/frontend/src/`.

## 1. Inventory

| Component | State it keeps | Operations | Correct when |
|---|---|---|---|
| Participant session (`services/submission_service.py`, `services/participant_session_service.py`, `routers/participants.py`, `routers/submissions.py`) | `participants`, `qsort_entries` | consent, submit, save draft, progress, withdraw, resume, self-erase | consent is recorded once and before completion; a completed session stays completed; the draft revision is a watermark; progress goes forward |
| Recruitment links (`services/recruitment_service.py`, `routers/admin/recruitment.py`) | `recruitment_links.usage_count`, `capacity` | validate, count a use, revoke | nobody is counted who did not get in; not more get in than there is room for |
| Draft auto-save (`frontend/hooks/study/useDraftAutoSave.ts`, `frontend/store/useSessionStore.ts`, `frontend/hooks/participant/useResumeSession.ts`, `frontend/hooks/useSubmitStudy.ts`) | response store, `draftRevision`, a debounce timer, `pendingRef` | answer, timer, flush, online event, reload, resume | the server's draft never goes back in time; no failed save is forgotten |
| Audio recordings (`services/audio_service.py`, `services/storage_service.py`) | `audio_recordings` rows, objects | upload (replace), delete, playback | no row without its object, no object that nobody knows of |
| Erasure (`services/study_data_service.py`, its callers in `routers/participants.py`, `routers/admin/studies_participants.py`, `routers/admin/lifecycle.py`) | `participants`, rows and objects | anonymise one, in bulk, reset a study | nothing personal is left afterwards |
| User administration (`services/admin_user_service.py`, `routers/admin/users.py`) | `users.is_superuser`, `is_active` | patch, delete | one active superuser at all times |
| Sorting interface (`frontend/store/useResponseStore.ts`, `frontend/hooks/participant/useRoughSort.ts`, `useFineSort.ts`, `frontend/hooks/useGridPlacement.ts`, `useGridSanity.ts`, `useFineSortDrag.ts`, `frontend/components/GridSort.tsx`, `CardStack.tsx`, the stage guards) | piles, history, deck, placed cards; votes being animated | swipe, undo, place, move, swap, drop back, reset, change of stage | no card is lost, doubled or hidden; a stage opens when the one before is complete |
| Study designer (`frontend/hooks/useStudyPersistence.ts`, `frontend/utils/mergeStudy.ts`, `frontend/store/useStudyDesigner.ts`, `frontend/hooks/admin/useStudyDesignPage.ts`) | `draft`, `original`, `syncStatus`, `lastSavedDraftRef`, the query's cache | edit, save, rebase, merge after a 409, refetch | no unsaved edit is lost or shown as saved |
| Study design and lifecycle (`services/study_service.py`, `routers/admin/studies.py`, `routers/admin/studies_import_export.py`) | `studies`, `statements`, translations | create, update, change state, import, delete | nobody's saved work is overwritten unseen; the design is frozen once somebody participates |
| Concourses (`services/concourse_service.py`, `models/concourse.py`, `frontend/hooks/admin/useConcourseDetailPage.ts`) | items, translations, versions, tags; the page's cache and edit form | edit with optimistic lock, delete, import, sync, staleness | no lost edit; the history is complete; stale statements are reported |
| Audio recorder (`frontend/hooks/participant/useAudioRecorder.ts`) | phase, blob, upload status | record, upload, retry, delete | what is shown is what is stored |
| Authentication (`routers/auth.py`, `services/email_token_consume_service.py`, `services/email_change_service.py`) | `users`, consumed token ids | login, TOTP, reset, e-mail change | a token is used once |
| Projects, invitations, memos | members, invitations, memo entries | membership, comments | an owner remains |
| Analysis and export (`services/analysis_service.py`, `services/analysis_run_service.py`, `services/export_service.py`) | analysis runs | numerical work, files | numerical |

How they interact. Consent calls the recruitment service inside its own
transaction. Drafts, progress, submission, withdrawal and erasure meet on the
participant's row: some lock it (`SELECT ... FOR UPDATE`), erasure does not.
Uploads and erasure meet on the rows of `audio_recordings` and, outside any
transaction, in the object store. The sorting pages, the auto-save and the final
submission of one page share the response and session stores; resuming replaces
them. Designer tabs meet in `update_study`, concourse pages in `update_item`;
an import or sync reads a concourse item and writes statements of a study.

What makes this hard:

- **A lock does not refresh what is loaded.** A SQLAlchemy session keeps one
  object per row. A second SELECT, `FOR UPDATE` or not, waits for the lock and
  then returns the object that is already there with its old attributes, as no
  query here asks for `populate_existing`. Locking after reading is therefore
  not the same as reading under the lock. Both `process_submission` and
  `increment_usage` read first.
- **A flush writes differences.** It writes the columns whose assigned value
  differs from the one *loaded*; a column assigned what it held when it was
  loaded stays as others committed it (`FlushedColumn` in `SessionRules`,
  `Flushed` in `DesignerSave`).
- **A stamp sees only its own row.** `updated_at` moves when its row is updated,
  not when a child row is, and it is the start of the transaction, not its
  commit.
- **Saves overtake each other.** Auto-saves are fire-and-forget; they carry a
  revision that the server compares with a stored watermark.
- **Two stores.** Object store calls sit inside or after a database transaction,
  and each may be the last one that succeeds.
- **Pages move on while they wait.** A refetch, a further edit or another page
  of the app comes between a request and its answer, or between a swipe and the
  end of its animation.

`PROJECT.json` lists the hazards one by one, each at its line.

## 2. Modules

| Module | Models |
|---|---|
| `SessionRules` | pure rules: enabled steps, `should_advance`, the verdict on a draft revision, what a flush writes |
| `Participation` | one study's participant rows, recruitment links and the concurrent requests on them |
| `DraftKeeping` | what saving drafts promises (abstract) |
| `DraftSync` | pages, network and server of one session's draft; implements `DraftKeeping` |
| `Recordings` | one participant's recordings, personal answers and erasure |
| `SuperuserFloor` | accounts and concurrent administration requests |
| `DesignerSave` | designer tabs on one study, the PATCH and its optimistic lock |
| `Sorting` | one participant's cards, the stages and the study they belong to |
| `VersionedItem` | what editing a concourse item promises (abstract) |
| `Concourse` | one concourse item, its editors' pages, its version history and its copy in a study; implements `VersionedItem` |
| `ParticipationProofs`, `SessionProofs`, `DraftSyncProofs`, `RecordingsProofs`, `SuperuserFloorProofs`, `DesignerSaveProofs`, `SortingProofs`, `ConcourseProofs` | theorems about them |
| `MC...` | small instances for TLC |

Operators whose name begins with `Bug`, or that are commented as faulty, are
variants of the definition that follows them: a dropped guard, a stale read, a
missing step. No specification uses them. Each property is known to fail when
the matching definition is replaced by its faulty variant, so the property
depends on it.

### Participation

`row[t]` is the committed row of session token `t` (`status`, `consent` for
`consented_at` with `consent_hash`, `presort` for `presort_answers` with the
recruitment token in it, `sort` for the Q-sort entries, `step`, `draft`, `rev`).
`rowLock`, `usage` and `linkLive` are the row locks, the usage counts, and
whether a link's row exists. `tx[r]` is a request: where it is, its body, and
what its session has loaded.

Steps are cut where another transaction can come in between: at an unlocked
SELECT, at a wait for a lock, at COMMIT. From the lock a request's outcome
depends on up to its COMMIT nobody can observe it, so that stretch is one
action.

| Action | Code |
|---|---|
| `SendConsent`, `ConsentLock`, `ConsentWrongPassword` | `record_consent`: look up and lock, password |
| `ValidateLink`, `ConsentRefusedByLink` | `validate_link_token`, `increment_usage` |
| `ConsentCommit`, `ConsentCollision`, `ConsentRetry` | INSERT or UPDATE and COMMIT; the INSERT race |
| `SendSubmit` | the unlocked look-up of `process_submission` |
| `SubmitApply`, `SubmitRejected` | locked look-up, consent check, update, Q-sort, COMMIT |
| `SaveDraft`, `UpdateProgress`, `WithdrawDraft` | one locked read and write each |
| `RevokeLink` | `revoke_recruitment_link` |
| `Abort` | a dropped connection, a timeout, no free resume code |

Left out: several studies (a token of another study is refused), the resume code
itself, languages and hashes, link expiry (a link that no longer validates
behaves as a revoked one), `start_count`. The study is read once per request,
and the requests here are those that went on from there.

### DraftSync

A page is one load of the study in a browser: `answers` (the last answer given;
answers are numbered), `draftRevision`, `timer`, `pending` (`pendingRef`),
`isSubmitting`. `saves` are the requests and replies under way. `accepted` is a
history variable. `Timer`, `GoOnline`, `Hide` and `Reload` are the timer, the
`online` event, the flush on `beforeunload`, `pagehide` or unmount, and a new
load; `Settle` is the `then`/`catch` of `sendDraft`; `Deliver` is `save_draft`;
`Lose` is a request or a reply taken by an outage; `Withdraw` is
`withdraw_draft`, which clients call over the API; `Resume` is another page that
takes the session over; `BeginSubmit` and `EndSubmit` are the completion guard
of `useSubmitStudy` around the final submission.

`DraftKeeping` is the promise: the draft on the server is the newest answer that
arrived from some page, and of each page answers only ever arrive in the order
they were given. `InOrder` is `Keeping!Spec` under the mapping
`latest <- answers`, `kept <- accepted`, `draft <- stored.draft`.

### Recordings

`recording[q]` is the committed row of question `q`: the key of its object, which
is named for the request that uploaded it. `rowLock[q]` is a delete not yet
committed. `objects` is the store. `person` holds what erasure clears. An upload
goes find, free the slot, put the object, commit, refresh, delete the old object;
a deletion row first, object second; an erasure loads the participant, lists the
keys, deletes their objects one by one, finds the rows, deletes them and clears
the participant.

Whatever can fail, may: the put (`PutFails`), the COMMIT (`CommitFails`), each
deletion of an object (`delete_audio`, whose callers all go on after a failure;
`undeleted` is the history of the keys it failed for), and any request may die
between two steps (`Die`). `Abandoned` names the four ways in which an object is
then left without a row, and `NoOrphan` says there is no fifth. Assumed: a COMMIT
or a put that is reported as failed has not happened.

| Action | Code |
|---|---|
| `SendUpload`, `FindExisting`, `FreeSlot`, `PutObject`, `PutFails` | `upload`, `store_recording` up to the put |
| `CommitUpload`, `CommitFails`, `Cleanup` | COMMIT, or the `except` with `delete_audio` of the new object |
| `Refresh`, `Sweep` | `db.refresh`, which may raise; `delete_audio` of the old object |
| `SendDelete`, `DropRow`, `Sweep` | `delete_recording` |
| `SendErase`, `ListKeys`, `DeleteObject`, `FindRows`, `CommitErase` | `anonymise_participant` |
| `SaveDraft`, `Submit` | the participant's answers, one locked read and write each |

### SuperuserFloor

`user[u]` is the committed account, `tx[r]` a request with the target it loaded.
`BeginCount` starts `_count_active_superusers`; `CommitPatch` is the wait for its
locks, the recount and the commit. Under READ COMMITTED a row counts if it
matched when the statement began and still does once its lock is granted.
`CommitDelete` is `delete_user`, which refuses to delete oneself and counts
nobody.

### DesignerSave

`tab[e]` is the designer store and the hook's ref: `draft` and `original` with
their `last_updated_at`, `cache` (what the study query last returned), `saved`
(`lastSavedDraftRef`), `status` (`syncStatus`). A value names who typed it, so a
property can ask whose work it is. `typed` and `stored` are history.

| Action | Code |
|---|---|
| `Edit` | `updateDraft`, then the effect that sets the status (`Settled`) |
| `Save`, `Saved`, `Merged`, `SaveFailed` | `save`: the call, its continuation with the rebase, `applyConflict` with the three-way merge, the catch block |
| `Fetch`, `Deliver`, `Remount` | the study query and the effect of `useStudyDesignPage` on its result |
| `Load`, `Refuse`, `Commit` | the router's load, the check against `updated_at`, the flush of what differs from what was loaded |

`Fields` stands for the keys `mergeStudyUpdates` compares; those in `Columns` are
stored on the row of the study, and only they move `updated_at`. The strategy is
`local-wins`, so a merge always succeeds. Left out: normalisation of the draft,
switching between studies.

### Sorting

`answers` is the response store (piles, history, deck, placed cards), `page` the
stage that is shown, `swipes` the votes whose animation runs, `study` the
configuration. React runs the effects of the fine page after each change of the
store and before the next event, so a step there ends with `Settled`: the redirect
to the rough sort, the reset and the reconciliation, `useGridSanity`. The placed
cards are a set: where the code goes through them in their order, to vote the
strays neutral, any order may come (`Orders`).

| Action | Code |
|---|---|
| `Swipe`, `Vote`, `LoseSwipe` | `CardStack`: the animation begins, calls `onVoteComplete`, or is interrupted |
| `Undo` | `handleUndo`, `undoRoughSort` |
| `Place` | a drop on a slot or a tap: `handlePlacement` with `findClosestEmptyRow`, place, move, swap or displace |
| `Drop`, `Reset` | back to a pile; all off the grid |
| `Open`, `Leave`, `Resume` | the stages and their guards, closing the tab, `applyResumeSuccess` |
| `Redesign` | the same answers meet an edited study, in a test tab or when it is resumed |

Left out: focus and keyboard movement (they end in the same placements), zoom,
the questionnaires before and after, the completed session, whose guards do
nothing.

### Concourse

`item` is the committed row with its translations, `history` the rows of
`concourse_item_versions`, `clock` counts starts of PATCH transactions, which is
what `updated_at` holds. `page[e]` is a researcher's page: what its query holds,
and the version its open form was filled from. `request[r]` is a PATCH. `imported`
and `copy` are the statement made from the item, or the copy under way.

| Action | Code |
|---|---|
| `Refetch` | the query, every 15 s and after `invalidate` |
| `startEdit`, `CancelEdit`, `saveEdit` | the edit form; the texts of all languages go with it |
| `changeStatus`, `handleBulkStatusChange` | status alone, under the fetched version |
| `LoadRow`, `LoadTexts`, `CommitUpdate`, `RefuseUpdate` | `update_item`: two SELECTs, the UPDATE that names the version, the translations, the snapshot, COMMIT; or the 409 |
| `Answer`, `Fail` | the continuation of a page; an error answer, a lost connection |
| `delete_item` | `delete_item` |
| `ReadSource`, `CommitCopy`, `Stale` | `import_to_study` and `sync_statement_from_concourse`; `check_stale_statements` |

A text is named by its last author. Codes, sources and tags go the way of the
text. Time advances when a PATCH transaction starts; a copy is stamped between
two of them.

`VersionedItem` is the promise: every change that is asked for takes effect at
most once and in one step, on the newest version there is, and the version it
adds differs in what was asked only. Its `versions` are the history and the item
itself (`Recorded`), its `asked` the requests that are not yet answered
(`Asked`): a request leaves `asked` with the COMMIT of its UPDATE, with the 409,
or when it is lost; an answer on its way back asks for nothing. It does not
promise that the author of a change has seen that newest version; the run
`concourse_overwrite` is why.

## 3. Runs

Passing:

| Run | Instance | Shows |
|---|---|---|
| `participation` | 2 tokens, 3 requests of every kind, 1 link of capacity 1, 2 drafts, revisions to 1, no rough sort | consent, its password and the link's count stay right through collisions, refusals and aborts; completion is final; progress and the draft watermark only go forward; the inductive invariant of the proofs |
| `floor` | 3 founding superusers, 2 with two-factor authentication, 2 requests, every patch and deletion | no PATCH takes the last active superuser, whatever runs beside it, unless its target was promoted or reactivated after it was loaded |
| `drafts` | 2 pages, 2 answers, 2 flushes, reload, withdrawal, resumption | `DraftSync` implements `DraftKeeping` |
| `autosave` | 1 page, 2 answers, 1 flush, 2 outages, reload, submission | no save is forgotten; every answer settles |
| `recordings` | 2 questions, 4 requests; puts, deletes and commits that fail, requests that die | no row without its object, no orphan but in four named ways, a committed erasure leaves no listed row and no listed object but those whose delete failed |
| `designer` | 2 tabs, 2 saves under way, 1 edit of a field in a tab, 2 writes; 1 field on the row, 1 in child rows | unsaved work is kept in the draft and known as unsaved; a tab does not stay at `saving` |
| `sorting` | 3 statements on columns of 2 and 1 in each mode, 2 piles; a redesign to 2 statements on columns of 1 and 1; 2 swipes, 2 history entries, rows to 2 | no card is lost, doubled or hidden; no drop is refused; the post-sort is complete; only a full column displaces |
| `concourse` | 2 researchers, 2 requests, 2 languages, 2 statuses, 2 PATCH transactions | the history is complete, other languages are spared, a stale copy stays reported; `Concourse` implements `VersionedItem` |

Violations, where the code does something else than it says (`findings`):

| Run | Statement | What happens |
|---|---|---|
| `link_capacity` | concurrent requests cannot over-subscribe a link | both validate the link before either counts it; the lock returns the loaded object, both write 1, two get in on capacity 1 |
| `erasure` | draft, answers and recordings are cleared | the row is loaded unlocked: a draft saved since, in a column that was empty, is not written; an upload under way adds its row after the erasure's DELETE |
| `silent_overwrite` | a client is told when the row moved underneath it, so the designer can merge instead of overwrite | a save of texts leaves the study's `updated_at`; the next tab's save passes the check and replaces them |
| `concourse_overwrite` | updates take an optimistic lock: "Item was modified by another user. Refresh and retry." | the refetch renews the version under an open form; its save passes the lock and replaces a text its author never saw |

Why the bounds are enough. A race of the server is two requests on one row, seen
by a third: three requests, one or two tokens. Capacity 1 is where a link can be
exceeded soonest, revision 1 where a draft can be saved twice under one. Two
requests on three superusers are two that each count the other's target; the
third is what one of them leaves. Two answers are the least in which one save
overtakes another, and a second outage can take the save that was sent again
after the first; the second page and the second flush add a save under the same
revision from elsewhere. Two questions are the least with which an erasure lists
two keys and fails for one, and four requests the two uploads, the erasure, and
one more upload or deletion against it. Two tabs with a save each, typing before and after either, meet every
order of load, commit, conflict and refetch; a second edit of a field would be
another value of the same kind (`MaxEdits`), and a third write a later one of the
same kind (`MaxWrites`). On two columns a card can be placed, moved, swapped and
displaced between a full column and one with room, and the narrower design
leaves cards off its rows and off its list; a longer history only adds entries
that the stack skips (`MaxHistory`), a third animated vote would be one more for
the same top card (`MaxSwipes`), and row 2 is the first below every capacity
(`MaxRow`). Two PATCH transactions are one between
another's reads and its UPDATE; the third version is the one after both
(`MaxClock`; requests are sent only while one more may begin). `MaxAnswers`, `MaxHides`, `MaxOutages` and `MaxRevision` only limit
how often the environment acts. What these instances cannot show, larger ones
included, is what the theorems are for.

Symmetry is declared over values that nothing orders or names, and only in runs
without liveness properties. Runs without deadlock checking are those in which
every request is used up in the end.

Fairness is assumed in `autosave` only: a timer that was set fires, a request
that was sent is delivered or fails, its promise settles. That is what the event
loop and `fetch` guarantee. Nothing is assumed of the participant, of the network
coming back, or of the server's answer. A save under way while the page is
offline is one that an outage may have taken, so it fails in the end.

Exceptions written into the properties are the code's own. `NothingForgotten`
and `AnswersSettle` do not speak of a page that was left or reloaded (a flush
that fails is dropped, and the memory of an owed save is not persisted), nor of
a timer that fired, or an answer given, during a submission (`getDraftSaveToken`
skips those). `NoOrphan` leaves out four: a delete that failed, a request that
died, a new row that was gone before `db.refresh` read it, which makes
`store_recording` raise before it deletes the old object, and a row inserted
between an erasure's listing of keys and its DELETE. Each is needed: without any
one of them TLC finds an object left in that way. `PatchKeepsFloor` leaves out a target promoted or reactivated after
the request loaded it, for which the guard is skipped. `GridShown` leaves out the
flexible grid and `PostComplete` kept cards that the study no longer lists
(section 5). `ConfirmLeadsOn` speaks of studies whose grid has a slot per
statement, which is what `_check_grid_capacity` demands before a study is
activated; the test of a draft may lack it, and then the guard of the post-sort
and the Confirm button disagree.

## 4. Proofs

Each proof module strengthens the properties to an inductive invariant that TLC
checked first, shows that every action keeps it, and draws the properties from
it. With them every property of the passing runs but one, `AnswersSettle`, is a
theorem. Values of the constants are arbitrary: any number of participants, requests,
editors, fields, cards and rows.

**`ParticipationProofs`**: `Spec => []InductiveInv`, and from it `TypeCorrect`,
`NotOvercounted`, `WithinCapacity`, `ConsentBeforeCompletion`,
`PasswordBeforeConsent`, and `ConsentIsFinal` (an action property).
The invariant is needed because what a property says depends on what a session
has loaded. `LockHolder` says that between its look-up and its commit a consent
holds the lock of the row it loaded, so its copy is current; `SubmitSawConsent`
says that a submission which saw consent submits to a row that has it, so a
stale copy is harmless for `CompletedConsented`; `SeenNotOvercounted` says that
the stale count a consent writes back plus one is covered by participants
admitted, itself being one more, which is why a lost update makes the count too
small and never too large. The proof splits `InductiveInv` into a part per row,
a part per request and the counts (`InvSplit`, `InvJoin`); `StepOfRequest` shows
once that a step of request `r` that keeps a frame leaves the others' parts
alone; each action has one lemma.

**`SessionProofs`** goes on from there: `CompletionIsFinal`, `ProgressIsKept`,
`RevisionIsWatermark`. A submission may write from a copy older than the row.
`SubmissionInv` says that a submission under way was not answered from a
completed row and brings a Q-sort; `RowKept` is what the three properties say of
one change of a row, and `SubmitKept` shows it for a flush from any older copy:
the columns the copy would take back are not assigned, and so are not written.

**`DraftSyncProofs`**: `DraftsKeptInOrder` is the refinement `InOrder`, for any
pages, answers, flushes and outages. `Numbered` and `RevisionsOrder` say that of
two saves of one page the one with the later revision has the later answers;
`Acceptable` says that a save the server would accept is not older than what it
had from that page. Every step is then a step of `DraftKeeping` or a stutter.
`NoAnswerForgotten` needs a second invariant on top of that one, `OwedInv`. Two
pages carry the same answers only by way of the server (`Shared`), so what is
accepted from one page says something of the other's; a save answered "ok" has
arrived, it or a later one (`OkArrived`), so its page may forget it; the newest
save of a page carries what the page has unless a timer is set
(`NewestCurrent`), so that sending it again is enough; and only a live page
submits (`SubmitsLive`). The proof goes part by part and action by action. The
newest save that counts as owed is one of the page itself: with two pages a
later save of the other one is no promise. `OwedInv` was checked by TLC in the
instances of `drafts` and `autosave`, and once with two pages, an outage and a
submission (6.7 million states).

**`RecordingsProofs`**: `RowsHaveObjects`, `OrphansAreAccounted`,
`ErasureTakesWhatItCan`, with every failure the model has. `Final` and `KeysCommitted` say that a key in a row, or noted
by a request, belongs to an upload past its commit, so no object is put under it
again; `LockHolder` that a locked row is the one its holder found;
`SweptHasNoRow` that an object swept has no row; `NoOrphanYet` and
`ErasureProgress` follow an object, or a listed key, to whoever deletes it or
fails to; and an object once abandoned stays accounted for (`AbandonedStays`).

**`SuperuserFloorProofs`**: `PatchesSpareTheFloor` for every mix of patches and
deletions: the counted rows are locked to the commit, so more than one counted
leaves one besides the target. `FloorCannotBeRacedToZero` gives the floor itself
if requests only take flags away (`OnlyLowering`): then a loaded copy has every
flag the account still has (`FlagsOnlyFall`) and the guard never skips the count
wrongly. With deletions the floor does not hold.

**`DesignerSaveProofs`**: `UnsavedWorkIsKept`, `UnsavedWorkIsGuarded`.
`Provenance` says that whatever a tab, a cached document or a request holds from
the server consists of values the server has had, and that an acknowledged save
returns what was sent. A merge then replaces a draft's value only where it equals
the base, which is no unsaved one; and a tab at `synced` has a draft equal to
such a document (`SyncedInSync`). `DesignerTypes` is separate; `SavingAlwaysEnds`
is inductive on top of the types: only `Save` sets the status to `saving`
(`BecameSaving`), and each of the three ways a request ends sets another one,
which the effect that follows cannot set back (`AnsweredSaving`).

**`SortingProofs`**, for any configurations, cards, grids and modes:
`CardsStaySingle`, `StatementsStayAtHand`, `PlacedCardsAreShown`,
`PostSortIsComplete`, `DisplacementIsLocal`, `ConfirmIsNeverSentBack`,
`PilesAreRemembered`, `DropsAreMade`, `SortingTypes`. The invariant has the answers
single-valued and the rows of the grid finite and bounded at all times, and
*clean* while the fine page shows (every listed statement placed or at hand, no
card off the grid); lemmas show that `handlePlacement` keeps a slot per card
whatever branch it takes, that the effects of the page make answers clean, and
that a free grid renders the row below its last. Three arguments count.
`ConfirmIsNeverSentBack`: the places of a forced grid without strays inject into
its slots, so there are no more of them than statements; they surject onto the
statements once all are placed, so there are no fewer; the two lengths the guard
of the post-sort compares are then equal. `DropsAreMade`: in a forced column
whose cards all lie in its slots, a slot no other card has leaves the others
fewer than the capacity (`RoomInColumn`), so the store's own count never refuses
what `handlePlacement` has settled on. `SortingTypes`: a finite set of cards can
be listed in ascending order because ranks are a bijection (`ListOrderFound`);
nothing less shows that what the effects append to the history is a list.
`PilesAreRemembered` rests on `PlacementStays`: a placement on a rendered slot
makes no stray, so the effects take no card out of its pile.

**`ConcourseProofs`**: `HistoryIsComplete`, `MergeSparesLanguages`,
`StaleIsLasting`. What a page or a request knows under the item's own version is
what is committed (`PagesLag`, `RequestsLag`). So an UPDATE that names the
current version snapshots, merges and stamps from current values, though its
SELECTs take no lock. `ChangesAreAtomic`, the refinement of `VersionedItem`, is
one lemma for each kind of step: sending is `Ask`, the UPDATE is `Change` of the
newest version (`CommitRefines`, where the invariant is needed), a 409 or a lost
request is `Drop`, the two SELECTs and the answer are stutters.

Assumptions: only the named `ASSUME`s of the modules, evaluated in the runs: that
the special values (`None`) are none of the others, that bounds are numbers, and
that a configuration has finitely many statements and columns.

Model-checked only: the liveness property `AnswersSettle`, which the prover
cannot treat, and the four violations, which are facts about an instance.

## 5. Not modelled, and seen on the way

Analysis and export are numerical or read-only. Authentication, projects and
memos are mostly updates of a single row; study lifecycle and the recorder are in
the plan below. Configuration, logging, e-mail, rate limits, scripts and
deployment keep no state of their own that others depend on. Most of the
repository's lines are screens, generated API clients and numerical code, which
have little to check this way; the share of lines the definitions stand for is
small for that reason.

Observations without a run. Participation:

- A submission that looked the row up before it was completed finds its old
  object under the lock, passes the check for `completed` and replaces answers
  and Q-sort (`services/submission_service.py:475`), where
  `tests/security/wave_5/test_submission_idempotency.py` says a second submission
  does not touch the first.
- A consent that takes the update path through `Reconsented` stamps the row with
  its link after a collision took the counted use back: one participant with an
  uncounted link (`services/submission_service.py:160`). `UsageNotOvercounted` is
  an inequality for that reason.
- A `/submit` that looked the row up before consent writes its presort answers
  without the recruitment token that consent stamped meanwhile
  (`services/submission_service.py:487`).
- A save on its way with a revision above the watermark restores a withdrawn
  draft (`services/participant_session_service.py:196`).
- Two superusers who delete each other leave none: deletion counts nobody
  (`routers/admin/users.py:340`, against `services/admin_user_service.py:14-17`).

- A PATCH whose target was promoted or reactivated after it was loaded skips the
  count and may take the last active superuser
  (`services/admin_user_service.py:96`).

Recordings:

- `store_recording` says that "storage never holds an orphan the database does
  not know about" (`services/audio_service.py:162-164`). It may: after a failed
  delete, which is caught and logged, or after a `db.refresh` that raises. The
  docstring of `delete_recording` (276-277) admits "at worst an orphan object",
  and `services/study_data_service.py:124-125` leaves the rest to a periodic sweep
  by the operator (`docs/reference/gdpr-controls.md:365`), for which the
  repository has no code.
- The bytes of an erased recording stay in the store when their delete fails,
  and the rows that name them are gone then; only the log knows the key. The log
  of the erasure counts them as removed
  (`services/study_data_service.py:154-160`).

Drafts:

- A flush that fails is not resent on `online`, though the hook's docstring says
  "a failed save is resent" (`frontend/hooks/study/useDraftAutoSave.ts:125`).
- A flush takes a new revision even when nothing changed; one from a stale second
  device is accepted over the newer answers of another
  (`frontend/hooks/study/useDraftAutoSave.ts:117`). `DraftKeeping` promises order
  per page, not between pages.
- The draft on the server has no deck; a resumed session gets it back from the
  reconciliation only.

Sorting:

- Opening the fine sort with empty piles redirects to the rough sort, and the
  same pass of effects reconciles every card into the neutral pile: the rough
  sort then shows no card and the participant goes on without it
  (`frontend/hooks/participant/useFineSort.ts:211-220` and 341-352).
  `docs/contributing/coding-standards.md:50` says "Never let a participant skip
  a stage."
- A flexible grid renders its capacity only, while `useGridSanity` lets rows
  below it stand: cards kept from a free grid are out of sight
  (`frontend/components/GridSort.tsx:621-631`, `useGridSanity.ts:21-24`). Its
  test for two cards in a slot never fires while `OneSlotEach` holds.
- A card can have two history entries (two swipes of one card, or a drop from the
  grid). Undo then takes it out of its pile but leaves it off the stack, until
  the fine sort reconciles it (`frontend/store/useResponseStore.ts:191-209`).
- The guard of the post-sort compares lengths, so kept cards that the study no
  longer lists count. `ConfirmLeadsOn` needs a slot per statement in the forced
  grid, as validation demands.

Designer:

- A refetch while a save is under way that finds the draft equal sets `synced`
  and unblocks Save, so that saves of one tab can overlap; a refetch also sets
  `original`, which is the base of a later merge.
- Two overlapping transactions stamp their starts: the one that commits last may
  have the earlier stamp, and a client between the two is not told.
- Leaving for another study and coming back while a save is under way leaves the
  status at `saving`.
- The backup under `qualis-draft-backup-` is written and never read.

Concourse:

- Changing the language with a form open saves its text into the other language.
- An edit begun before a copy's stamp and committed after the copy's read is
  never reported as stale.
- The answer to a save may close a form that was opened again meanwhile.

Recorder (`frontend/hooks/participant/useAudioRecorder.ts`): `start` waits for
the microphone and goes on whatever happened meanwhile; an upload's answer may
come after `deleteRecording` and show the recording again; the blob kept for a
retry may be cleared by an earlier take; an error of the deletion is swallowed
in `Step2_Questionnaire.tsx:180-195`.

## 6. Plan

1. `StudyLifecycle`: state changes, the guards of `update_study`,
   `import_to_study` and `delete_study` against participants arriving between
   check and write; reset and deletion of a study against uploads, with the
   storage quota; composition with `Participation`.
2. `Recorder`: takes, uploads, retries and deletion of one page, against the
   rows of `Recordings`.
3. `Accounts`: one-time e-mail tokens, TOTP, e-mail change, session invalidation.
4. Concourse codes and imports: numbering under concurrent creation, replacement
   of a study's statements.
5. `validate_distribution` against a reference definition.
6. Proofs: what holds in place of the violated statements, for requests that do
   not overlap.

----------------------------- MODULE Recordings -----------------------------
(***************************************************************************)
(* The personal data of one participant: the free-text answers and draft   *)
(* on the row, the audio recordings, whose rows are in the database and    *)
(* whose bytes are objects in a store without transactions, and Art. 17    *)
(* erasure (audio_service, StudyDataService.anonymise_participant).        *)
(*                                                                         *)
(* Requests are concurrent READ COMMITTED transactions. A step ends where  *)
(* a request calls the object store, begins a statement that may wait for  *)
(* another transaction, or has read what it will act on later. Putting or  *)
(* deleting an object may fail, and so may a COMMIT; the process may die.  *)
(***************************************************************************)
EXTENDS SessionRules

CONSTANTS
    Questions,      \* questions with an audio answer
    Requests        \* requests ever sent; an upload's object is named for it

ASSUME RecordingsAssumption == None \notin Requests

VARIABLES
    person,         \* the participant row
    recording,      \* recording[q]: the s3_key of the committed row, or None
    rowLock,        \* rowLock[q]: the request that has deleted the row of q
                    \* and not yet committed, or None
    objects,        \* the objects in the store
    undeleted,      \* history: the keys whose DELETE failed
    tx              \* tx[r]: the request r

vars == <<person, recording, rowLock, objects, undeleted, tx>>

\* draft, answers: whether draft_responses, and presort_answers or
\* postsort_answers, hold anything. token: the session token is the
\* participant's still.
Person == [draft : BOOLEAN, answers : BOOLEAN, token : BOOLEAN,
           submitted : BOOLEAN, erased : BOOLEAN]

\* old is the key of the row found, keys and rows what an erasure listed and
\* what its DELETE found, left the keys it has not come to yet, snap the
\* participant loaded. A request that is done, has raised or died is over.
Tx == [pc : {"idle", "find", "free", "put", "commit", "cleanup", "refresh", "drop",
             "sweep", "list", "objects", "erase", "done", "raised", "died"},
       question : Questions \cup {None}, old : Requests \cup {None},
       keys : SUBSET Requests, left : SUBSET Requests, rows : SUBSET Requests,
       snap : Person]

NewPerson == [draft |-> FALSE, answers |-> FALSE, token |-> TRUE,
              submitted |-> FALSE, erased |-> FALSE]

IdleTx == [pc |-> "idle", question |-> None, old |-> None, keys |-> {},
           left |-> {}, rows |-> {}, snap |-> NewPerson]

TypeOK ==
    /\ person \in Person
    /\ recording \in [Questions -> Requests \cup {None}]
    /\ rowLock \in [Questions -> Requests \cup {None}]
    /\ objects \subseteq Requests
    /\ undeleted \subseteq Requests
    /\ tx \in [Requests -> Tx]

Init ==
    /\ person = NewPerson
    /\ recording = [q \in Questions |-> None]
    /\ rowLock = [q \in Questions |-> None]
    /\ objects = {}
    /\ undeleted = {}
    /\ tx = [r \in Requests |-> IdleTx]

At(r, pc) == tx[r].pc = pc
Goto(r, pc) == tx' = [tx EXCEPT ![r].pc = pc]
Released(r) == [q \in Questions |-> IF rowLock[q] = r THEN None ELSE rowLock[q]]

\* S3 refuses or cannot be reached: the error is logged, here or by the caller,
\* and the object stays.
delete_audio(key) ==
    \/ objects' = objects \ {key} /\ UNCHANGED undeleted
    \/ undeleted' = undeleted \cup {key} /\ UNCHANGED objects

-----------------------------------------------------------------------------
(* The participant answers: each one a locked read and a write.            *)

MayWrite == person.token /\ ~person.submitted

SaveDraft ==
    /\ MayWrite
    /\ person' = [person EXCEPT !.draft = TRUE]
    /\ UNCHANGED <<recording, rowLock, objects, undeleted, tx>>

Submit ==
    /\ MayWrite
    /\ person' = [person EXCEPT !.answers = TRUE, !.draft = FALSE, !.submitted = TRUE]
    /\ UNCHANGED <<recording, rowLock, objects, undeleted, tx>>

-----------------------------------------------------------------------------
(* upload: participant_and_study, assert_can_record, then store_recording  *)

SendUpload(r, q) ==
    /\ At(r, "idle") /\ MayWrite
    /\ tx' = [tx EXCEPT ![r] = [@ EXCEPT !.pc = "find", !.question = q]]
    /\ UNCHANGED <<person, recording, rowLock, objects, undeleted>>

FindExisting(r) ==
    LET old == recording[tx[r].question] IN
    /\ At(r, "find")
    /\ tx' = [tx EXCEPT ![r] = [@ EXCEPT !.old = old,
                                         !.pc = IF old = None THEN "put" ELSE "free"]]
    /\ UNCHANGED <<person, recording, rowLock, objects, undeleted>>

\* DELETE the row found and flush: it waits while another transaction has
\* deleted it too. A row that is gone by then is no error.
FreeSlot(r) ==
    LET q == tx[r].question IN
    /\ At(r, "free") /\ rowLock[q] = None
    /\ rowLock' = IF recording[q] = tx[r].old THEN [rowLock EXCEPT ![q] = r] ELSE rowLock
    /\ Goto(r, "put")
    /\ UNCHANGED <<person, recording, objects, undeleted>>

PutObject(r) ==
    /\ At(r, "put")
    /\ objects' = objects \cup {r}
    /\ Goto(r, "commit")
    /\ UNCHANGED <<person, recording, rowLock, undeleted>>

PutFails(r) ==
    /\ At(r, "put")
    /\ rowLock' = Released(r)
    /\ Goto(r, "done")
    /\ UNCHANGED <<person, recording, objects, undeleted>>

\* The unique slot of participant and question: free, or freed by r itself.
SlotFree(r) ==
    LET q == tx[r].question IN
    \/ rowLock[q] = r
    \/ rowLock[q] = None /\ recording[q] = None

\* INSERT the new row and COMMIT.
CommitUpload(r) ==
    /\ At(r, "commit") /\ SlotFree(r)
    /\ recording' = [recording EXCEPT ![tx[r].question] = r]
    /\ rowLock' = Released(r)
    /\ Goto(r, "refresh")
    /\ UNCHANGED <<person, objects, undeleted>>

\* The slot is taken, or the database fails: ROLLBACK.
CommitFails(r) ==
    /\ At(r, "commit")
    /\ rowLock' = Released(r)
    /\ Goto(r, "cleanup")
    /\ UNCHANGED <<person, recording, objects, undeleted>>

\* Faulty: the earlier object is deleted, which the row still points at.
BugUploaded(r) == tx[r].old

Uploaded(r) == r

\* The object of the upload that failed is deleted, or else the request raises
\* all the same.
Cleanup(r) ==
    /\ At(r, "cleanup")
    /\ delete_audio(Uploaded(r))
    /\ Goto(r, "done")
    /\ UNCHANGED <<person, recording, rowLock>>

\* db.refresh raises when the new row is gone already; the object of the row
\* that was replaced is not deleted then.
Refresh(r) ==
    /\ At(r, "refresh")
    /\ Goto(r, IF recording[tx[r].question] # r THEN "raised"
               ELSE IF tx[r].old = None THEN "done" ELSE "sweep")
    /\ UNCHANGED <<person, recording, rowLock, objects, undeleted>>

\* Faulty: the request's own object is deleted.
BugSwept(r) == r

Swept(r) == tx[r].old

\* The object of the row that was replaced or deleted goes last; the request
\* succeeds in any case.
Sweep(r) ==
    /\ At(r, "sweep")
    /\ delete_audio(Swept(r))
    /\ Goto(r, "done")
    /\ UNCHANGED <<person, recording, rowLock>>

-----------------------------------------------------------------------------
(* delete_recording                                                        *)

SendDelete(r, q) ==
    /\ At(r, "idle") /\ MayWrite /\ recording[q] # None
    /\ tx' = [tx EXCEPT ![r] = [@ EXCEPT !.pc = "drop", !.question = q,
                                         !.old = recording[q]]]
    /\ UNCHANGED <<person, recording, rowLock, objects, undeleted>>

DropRow(r) ==
    LET q == tx[r].question IN
    /\ At(r, "drop") /\ rowLock[q] = None
    /\ recording' = IF recording[q] = tx[r].old THEN [recording EXCEPT ![q] = None]
                                                ELSE recording
    /\ Goto(r, "sweep")
    /\ UNCHANGED <<person, rowLock, objects, undeleted>>

-----------------------------------------------------------------------------
(* anonymise_participant, for the participant, the researcher or in bulk   *)

\* The participant is loaded without a lock; erasing twice is a no-op.
SendErase(r) ==
    /\ At(r, "idle")
    /\ tx' = [tx EXCEPT ![r] = [@ EXCEPT !.snap = person,
                                         !.pc = IF person.erased THEN "done" ELSE "list"]]
    /\ UNCHANGED <<person, recording, rowLock, objects, undeleted>>

\* Faulty: a question without a recording is listed too.
BugRows == {recording[q] : q \in Questions}

Rows == {recording[q] : q \in Questions} \ {None}

ListKeys(r) ==
    /\ At(r, "list")
    /\ tx' = [tx EXCEPT ![r] = [@ EXCEPT !.keys = Rows, !.left = Rows, !.pc = "objects"]]
    /\ UNCHANGED <<person, recording, rowLock, objects, undeleted>>

\* One call per key; a failure does not stop the erasure.
DeleteObject(r) ==
    /\ At(r, "objects")
    /\ \E key \in tx[r].left :
          /\ delete_audio(key)
          /\ tx' = [tx EXCEPT ![r].left = @ \ {key}]
    /\ UNCHANGED <<person, recording, rowLock>>

\* DELETE FROM audio_recordings finds the rows committed when it begins ...
FindRows(r) ==
    /\ At(r, "objects") /\ tx[r].left = {}
    /\ tx' = [tx EXCEPT ![r] = [@ EXCEPT !.rows = Rows, !.pc = "erase"]]
    /\ UNCHANGED <<person, recording, rowLock, objects, undeleted>>

\* UPDATE participants: the columns in which the cleared participant differs
\* from the one loaded.
Erased(snap) ==
    [person EXCEPT !.draft = FlushedColumn(@, snap.draft, FALSE),
                   !.answers = FlushedColumn(@, snap.answers, FALSE),
                   !.token = FALSE, !.erased = TRUE]

\* Faulty: a row whose object could not be deleted stays, to point at it.
BugErasedRows(r) == tx[r].rows \ undeleted

ErasedRows(r) == tx[r].rows

\* ... and deletes those that are there still when it gets their locks.
CommitErase(r) ==
    /\ At(r, "erase")
    /\ \A q \in Questions : recording[q] \in ErasedRows(r) => rowLock[q] = None
    /\ recording' = [q \in Questions |->
                       IF recording[q] \in ErasedRows(r) THEN None ELSE recording[q]]
    /\ person' = Erased(tx[r].snap)
    /\ Goto(r, "done")
    /\ UNCHANGED <<rowLock, objects, undeleted>>

\* The process or its connection dies half way.
Die(r) ==
    /\ tx[r].pc \notin {"idle", "done", "raised", "died"}
    /\ rowLock' = Released(r)
    /\ Goto(r, "died")
    /\ UNCHANGED <<person, recording, objects, undeleted>>

Upload(r) ==
    \/ \E q \in Questions : SendUpload(r, q)
    \/ FindExisting(r) \/ FreeSlot(r)
    \/ PutObject(r) \/ PutFails(r)
    \/ CommitUpload(r) \/ CommitFails(r) \/ Cleanup(r)
    \/ Refresh(r) \/ Sweep(r)

Delete(r) == (\E q \in Questions : SendDelete(r, q)) \/ DropRow(r)

Erase(r) ==
    \/ SendErase(r) \/ ListKeys(r) \/ DeleteObject(r)
    \/ FindRows(r) \/ CommitErase(r)

Next ==
    \/ \E r \in Requests : Upload(r) \/ Delete(r) \/ Erase(r) \/ Die(r)
    \/ SaveDraft
    \/ Submit

Spec == Init /\ [][Next]_vars

-----------------------------------------------------------------------------
(* Properties                                                              *)

\* An erasure has deleted, or is about to delete, the object of this key.
ErasureHas(key) == \E r \in Requests : key \in tx[r].keys

\* "Never a row pointing at nothing": a committed row has its object, unless
\* an erasure took it and did not get to the row yet.
RowHasObject ==
    \A q \in Questions :
        recording[q] # None => recording[q] \in objects \/ ErasureHas(recording[q])

\* A request that still has to deal with the object of this key.
InHand(key) ==
    \/ tx[key].pc \in {"commit", "cleanup"}
    \/ \E r \in Requests :
          tx[r].old = key /\ tx[r].pc \in {"free", "put", "commit", "refresh", "sweep", "drop"}

\* How an object may be left that no row points at: its DELETE failed (the
\* docstring of delete_recording: "at worst an orphan object"); the upload that
\* wrote it, or the request that took its row, died; the upload that replaced
\* it found its own row gone and raised; or its row was inserted after an
\* erasure had listed the keys and before it deleted the rows.
Abandoned(key) ==
    \/ key \in undeleted
    \/ \E r \in Requests :
          \/ At(r, "died") /\ key \in {r, tx[r].old}
          \/ At(r, "raised") /\ key = tx[r].old
          \/ key \in tx[r].rows \ tx[r].keys

\* "Storage never holds an orphan the database does not know about" but in
\* those four ways: however uploads, deletions and erasures meet, every other
\* object belongs to a row or to a request that will delete it.
NoOrphan == \A key \in objects : key \in Rows \/ InHand(key) \/ Abandoned(key)

\* An erasure that committed leaves no row of the recordings it listed ("in
\* case S3 deletes failed we still want the DB rows gone"), and in the store
\* what could not be deleted only, whatever ran beside it.
ErasesWhatItListed ==
    \A r \in Requests :
        At(r, "done") => /\ tx[r].keys \cap Rows = {}
                         /\ tx[r].keys \cap objects \subseteq undeleted

\* After erasure no draft, no free-text answer and no recording is left ("all
\* audio recordings deleted from S3 and DB", "free-text answers cleared"), but
\* for the objects S3 would not delete. The code does not keep this: the run
\* erasure.
ErasedForGood ==
    person.erased =>
        /\ ~person.draft /\ ~person.answers
        /\ Rows = {}
        /\ \A key \in objects : InHand(key) \/ key \in undeleted

-----------------------------------------------------------------------------
(* The inductive invariant behind these properties                         *)

\* A request past the commit of its upload, or over: it puts no object and
\* inserts no row any more.
Final(r) == tx[r].pc \in {"refresh", "sweep", "done", "raised", "died"}

\* What each program point has established about its request.
ControlState ==
    \A r \in Requests :
        /\ tx[r].pc \in {"find", "free", "put", "commit", "cleanup", "refresh", "sweep", "drop"}
              => tx[r].question \in Questions
        /\ tx[r].pc \in {"free", "sweep", "drop"} => tx[r].old # None
        /\ tx[r].pc \in {"idle", "find"} => tx[r].old = None
        /\ tx[r].keys # {} => tx[r].pc \in {"objects", "erase", "done", "died"}
        /\ tx[r].left \subseteq tx[r].keys
        /\ tx[r].rows # {} => tx[r].pc \in {"erase", "done", "died"}

\* A key in a row, or noted by a request, is that of an upload that committed
\* for this question.
KeysCommitted ==
    /\ \A q \in Questions : recording[q] # None =>
          Final(recording[q]) /\ tx[recording[q]].question = q
    /\ \A r \in Requests :
          /\ tx[r].old # None => /\ tx[r].old # r
                                 /\ Final(tx[r].old)
                                 /\ tx[tx[r].old].question = tx[r].question
          /\ \A k \in tx[r].keys : Final(k)

\* An upload about to commit has its object in the store.
CommitsObject == \A r \in Requests : At(r, "commit") => r \in objects

\* A locked row is the one its holder found, and the holder is an upload.
LockHolder ==
    \A q \in Questions : rowLock[q] # None =>
        LET r == rowLock[q] IN
        /\ tx[r].pc \in {"put", "commit"}
        /\ tx[r].question = q
        /\ tx[r].old = recording[q]

\* What is swept has no row.
SweptHasNoRow == \A r \in Requests : At(r, "sweep") => tx[r].old \notin Rows

\* NoOrphan with the requests that can still lose an object only.
NoOrphanYet ==
    \A key \in objects :
        \/ key \in Rows
        \/ tx[key].pc \in {"commit", "cleanup"}
        \/ \E r \in Requests : tx[r].old = key /\ tx[r].pc \in {"refresh", "sweep"}
        \/ Abandoned(key)

\* How far an erasure has come with what it listed.
ErasureProgress ==
    \A r \in Requests :
        /\ At(r, "objects") => tx[r].keys \cap objects \subseteq undeleted \cup tx[r].left
        /\ tx[r].pc \in {"erase", "done"} => tx[r].keys \cap objects \subseteq undeleted
        /\ At(r, "erase") => tx[r].keys \cap Rows \subseteq tx[r].rows
        /\ At(r, "done") => tx[r].keys \cap Rows = {}

IInv ==
    /\ TypeOK
    /\ ControlState
    /\ KeysCommitted
    /\ CommitsObject
    /\ LockHolder
    /\ SweptHasNoRow
    /\ RowHasObject
    /\ NoOrphanYet
    /\ ErasureProgress
=============================================================================

--------------------------- MODULE Participation ---------------------------
(***************************************************************************)
(* The participant rows of one study and the concurrent HTTP requests on   *)
(* them: POST consent (record_consent), POST submit (process_submission),  *)
(* draft, progress and withdraw, together with the recruitment links that  *)
(* consent draws on.                                                       *)
(*                                                                         *)
(* Every request runs in a READ COMMITTED transaction of its own. An       *)
(* unlocked SELECT is a step of its own; from the moment a transaction     *)
(* holds the lock its outcome depends on until its COMMIT nobody can see   *)
(* or disturb it, so that stretch is one action, guarded by the lock being *)
(* free. What a session loaded it keeps: its identity map does not refresh *)
(* an object that a later SELECT ... FOR UPDATE returns again (no query    *)
(* asks for populate_existing), and a ROLLBACK is what expires it.         *)
(*                                                                         *)
(* The study is read once by each request, and a draft or a submission     *)
(* stops there unless it is active: the requests here are those that went  *)
(* on. Any of them may still stop half way (Abort).                        *)
(***************************************************************************)
EXTENDS SessionRules, FiniteSets

CONSTANTS
    Tokens,             \* session tokens, one per browser session
    Requests,           \* consent and submit requests ever sent
    Links,              \* recruitment links of the study
    Capacity,           \* Capacity[l]: a number, or None for a public link
    Answers,            \* payloads of presort_answers, without attribution
    NoAnswers,          \* the payload {}
    Sorts,              \* valid Q-sort payloads
    Drafts,             \* draft contents
    MaxRevision,        \* bound on the draft revisions clients send
    RoughSortEnabled,   \* study.rough_sort_enabled
    Kinds               \* the kinds of requests this instance sends

ASSUME ParticipationAssumption ==
    /\ IsFiniteSet(Tokens)
    /\ Capacity \in [Links -> Nat \cup {None}]
    /\ None \notin Requests \cup Links \cup Sorts \cup Drafts
    /\ NoAnswers \in Answers
    /\ MaxRevision \in Nat
    /\ RoughSortEnabled \in BOOLEAN
    /\ Kinds \subseteq {"consent", "submit", "draft", "progress", "withdraw",
                        "revoke"}

VARIABLES
    row,        \* row[t]: the committed participant row of token t
    rowLock,    \* rowLock[t]: the request holding the row FOR UPDATE, or None
    usage,      \* usage[l]: recruitment_links.usage_count
    linkLive,   \* linkLive[l]: the link's row has not been deleted
    tx          \* tx[r]: the transaction of request r

vars == <<row, rowLock, usage, linkLive, tx>>

-----------------------------------------------------------------------------
(* Rows. consent stands for consented_at and consent_hash (they are written*)
(* together): the request whose consent they record. presort is the JSON   *)
(* column presort_answers, which carries the _recruitment_token too. sort  *)
(* stands for the row's QSortEntry rows.                                   *)

Presort == [answers : Answers, link : Links \cup {None}]
Revisions == 0..MaxRevision

Row == [status  : {"absent", "started", "completed"},
        consent : Requests \cup {None},
        presort : Presort,
        sort    : Sorts \cup {None},
        step    : 1..5,
        draft   : Drafts \cup {None},
        rev     : Revisions \cup {None}]

NoPresort == [answers |-> NoAnswers, link |-> None]

\* No row with this token (or, in tx[r].snap: nothing loaded).
Absent == [status |-> "absent", consent |-> None, presort |-> NoPresort,
           sort |-> None, step |-> 1, draft |-> None, rev |-> None]

Exists(t) == row[t].status # "absent"

\* UPDATE participants: the columns in which obj differs from what was
\* loaded. The QSortEntry rows are another table, left alone.
FlushRow(committed, loaded, obj) ==
    [status  |-> FlushedColumn(committed.status, loaded.status, obj.status),
     consent |-> FlushedColumn(committed.consent, loaded.consent, obj.consent),
     presort |-> FlushedColumn(committed.presort, loaded.presort, obj.presort),
     sort    |-> committed.sort,
     step    |-> FlushedColumn(committed.step, loaded.step, obj.step),
     draft   |-> FlushedColumn(committed.draft, loaded.draft, obj.draft),
     rev     |-> FlushedColumn(committed.rev, loaded.rev, obj.rev)]

(* Transactions. token, link, pw (the right study password, or none needed)*)
(* final (status completed), answers and sort are the request; snap is the *)
(* participant object in the session, seen the link's loaded usage_count,  *)
(* claim whether a link is to be counted with this consent.                *)

Pc == {"idle", "consent", "link", "commit", "retry", "submit", "done"}

Tx == [pc : Pc, token : Tokens \cup {None}, link : Links \cup {None},
       pw : BOOLEAN, final : BOOLEAN, answers : Answers,
       sort : Sorts \cup {None}, snap : Row, seen : Nat, claim : BOOLEAN]

IdleTx == [pc |-> "idle", token |-> None, link |-> None, pw |-> FALSE,
           final |-> FALSE, answers |-> NoAnswers, sort |-> None,
           snap |-> Absent, seen |-> 0, claim |-> FALSE]

TypeOK ==
    /\ row \in [Tokens -> Row]
    /\ rowLock \in [Tokens -> Requests \cup {None}]
    /\ usage \in [Links -> Nat]
    /\ linkLive \in [Links -> BOOLEAN]
    /\ tx \in [Requests -> Tx]

Init ==
    /\ row = [t \in Tokens |-> Absent]
    /\ rowLock = [t \in Tokens |-> None]
    /\ usage = [l \in Links |-> 0]
    /\ linkLive = [l \in Links |-> TRUE]
    /\ tx = [r \in Requests |-> IdleTx]

\* Faulty: the lock outlives the transaction.
BugLockKept(r) == rowLock

\* The locks a request holds are released by its COMMIT or ROLLBACK.
Released(r) == [t \in Tokens |-> IF rowLock[t] = r THEN None ELSE rowLock[t]]

Free(t) == rowLock[t] = None

-----------------------------------------------------------------------------
(* record_consent                                                          *)

Refuse(r) ==
    /\ tx' = [tx EXCEPT ![r] = [IdleTx EXCEPT !.pc = "done"]]
    /\ rowLock' = Released(r)
    /\ UNCHANGED <<row, usage, linkLive>>

\* An answered request is done with its session; which link and password it
\* came with is kept for the properties to speak of.
Answered(r) == [IdleTx EXCEPT !.pc = "done", !.link = tx[r].link, !.pw = tx[r].pw]

SendConsent(r, t, l, pw) ==
    /\ "consent" \in Kinds
    /\ tx[r].pc = "idle"
    /\ tx' = [tx EXCEPT ![r] = [IdleTx EXCEPT !.pc = "consent", !.token = t,
                                              !.link = l, !.pw = pw]]
    /\ UNCHANGED <<row, rowLock, usage, linkLive>>

\* Faulty: the password is only asked of a session that has no row.
BugFirstByRow(r) == ~Exists(tx[r].token)

\* The access password is asked of every session that has not consented.
FirstConsent(r) == row[tx[r].token].consent = None

\* SELECT ... FOR UPDATE by session token: waits for the row's lock, and
\* takes it; finds nothing, and locks nothing, when there is no row yet.
ConsentLock(r) ==
    LET t == tx[r].token IN
    /\ tx[r].pc = "consent"
    /\ Exists(t) => Free(t)
    /\ FirstConsent(r) => tx[r].pw
    /\ tx' = [tx EXCEPT ![r] = [@ EXCEPT
                 !.snap = row[t],
                 !.pc = IF FirstConsent(r) /\ tx[r].link # None
                        THEN "link" ELSE "commit"]]
    /\ rowLock' = IF Exists(t) THEN [rowLock EXCEPT ![t] = r] ELSE rowLock
    /\ UNCHANGED <<row, usage, linkLive>>

ConsentWrongPassword(r) ==
    /\ tx[r].pc = "consent"
    /\ Exists(tx[r].token) => Free(tx[r].token)
    /\ FirstConsent(r) /\ ~tx[r].pw
    /\ Refuse(r)

\* validate_link_token: an unlocked read, which leaves the link object, and
\* the usage_count it had, in the session.
ValidateLink(r) ==
    /\ tx[r].pc = "link"
    /\ IF linkLive[tx[r].link]
       THEN /\ tx' = [tx EXCEPT ![r] = [@ EXCEPT
                        !.seen = usage[tx[r].link], !.pc = "commit", !.claim = TRUE]]
            /\ UNCHANGED <<row, rowLock, usage, linkLive>>
       ELSE Refuse(r)

\* Faulty: one use too many.
BugHasRoomForOneMore(r) ==
    /\ linkLive[tx[r].link]
    /\ Capacity[tx[r].link] # None => tx[r].seen <= Capacity[tx[r].link]

\* increment_usage selects the link FOR UPDATE, and gets back the object
\* validate_link_token loaded: the count it compares with the capacity, and
\* adds one to, is the one it saw then.
HasRoom(r) ==
    LET l == tx[r].link IN
    /\ linkLive[l]
    /\ Capacity[l] # None => tx[r].seen < Capacity[l]

\* Faulty: a repeated consent counts its link again.
BugCountsEveryConsent(r) ==
    IF tx[r].link # None THEN [usage EXCEPT ![tx[r].link] = tx[r].seen + 1] ELSE usage

ClaimedUsage(r) ==
    IF tx[r].claim THEN [usage EXCEPT ![tx[r].link] = tx[r].seen + 1] ELSE usage

ConsentRefusedByLink(r) ==
    /\ tx[r].pc = "commit"
    /\ tx[r].claim /\ ~HasRoom(r)
    /\ Refuse(r)

Consented(r) ==
    [Absent EXCEPT !.status = "started", !.consent = r,
                   !.presort = [answers |-> NoAnswers, link |-> tx[r].link]]

\* Faulty: the last consent wins.
BugReconsentedLast(r, loaded) ==
    [loaded EXCEPT
       !.consent = r,
       !.presort = [answers |-> loaded.presort.answers,
                    link |-> IF tx[r].link # None THEN tx[r].link
                                                  ELSE loaded.presort.link]]

\* The update path: first consent wins, and stamps the attribution.
Reconsented(r, loaded) ==
    IF loaded.consent # None THEN loaded
    ELSE [loaded EXCEPT
            !.consent = r,
            !.presort = [answers |-> loaded.presort.answers,
                         link |-> IF tx[r].link # None THEN tx[r].link
                                                       ELSE loaded.presort.link]]

\* INSERT the row, or UPDATE the one locked, and COMMIT.
ConsentCommit(r) ==
    LET t == tx[r].token
        loaded == tx[r].snap IN
    /\ tx[r].pc = "commit"
    /\ tx[r].claim => HasRoom(r)
    /\ IF loaded.status = "absent"
       THEN /\ ~Exists(t)
            /\ row' = [row EXCEPT ![t] = Consented(r)]
       ELSE row' = [row EXCEPT ![t] = FlushRow(row[t], loaded,
                                               Reconsented(r, loaded))]
    /\ usage' = ClaimedUsage(r)
    /\ rowLock' = Released(r)
    /\ tx' = [tx EXCEPT ![r] = Answered(r)]
    /\ UNCHANGED linkLive

\* The INSERT collides with a row committed since: ROLLBACK, which takes the
\* counted use of the link back, and look the row up again.
ConsentCollision(r) ==
    /\ tx[r].pc = "commit"
    /\ tx[r].claim => HasRoom(r)
    /\ tx[r].snap.status = "absent" /\ Exists(tx[r].token)
    /\ tx' = [tx EXCEPT ![r] = [@ EXCEPT !.pc = "retry", !.claim = FALSE,
                                         !.seen = 0]]
    /\ UNCHANGED <<row, rowLock, usage, linkLive>>

ConsentRetry(r) ==
    LET t == tx[r].token IN
    /\ tx[r].pc = "retry"
    /\ Free(t)
    /\ row' = [row EXCEPT ![t] = FlushRow(row[t], row[t], Reconsented(r, row[t]))]
    /\ tx' = [tx EXCEPT ![r] = Answered(r)]
    /\ UNCHANGED <<rowLock, usage, linkLive>>

-----------------------------------------------------------------------------
(* process_submission                                                      *)

SendSubmit(r, t, final, a, s) ==
    /\ "submit" \in Kinds
    /\ tx[r].pc = "idle"
    /\ tx' = [tx EXCEPT ![r] =
                IF row[t].status = "completed"
                THEN [IdleTx EXCEPT !.pc = "done"]    \* already_submitted
                ELSE [IdleTx EXCEPT !.pc = "submit", !.token = t,
                        !.final = final, !.answers = a, !.sort = s,
                        !.snap = row[t]]]
    /\ UNCHANGED <<row, rowLock, usage, linkLive>>

\* The participant object after SELECT ... FOR UPDATE: the one the unlocked
\* lookup already loaded, if it found one, else the row as it is now.
LockedObject(r) ==
    IF tx[r].snap.status # "absent" THEN tx[r].snap ELSE row[tx[r].token]

\* A row this request creates.
SubmittedNew(r) ==
    [Absent EXCEPT !.status = "started", !.sort = tx[r].sort,
                   !.presort = [answers |-> tx[r].answers, link |-> None]]

\* _update_existing_participant: the answers are replaced, the attribution
\* found on the object kept; completing ends the draft and the progress.
Submitted(r, obj) ==
    LET presort == [answers |-> tx[r].answers, link |-> obj.presort.link]
        answered == [obj EXCEPT !.presort = presort] IN
    IF tx[r].final
    THEN [answered EXCEPT !.status = "completed", !.step = 5, !.draft = None]
    ELSE answered

\* Faulty: completion does not ask for consent.
BugSubmitUnconsented(r) == LockedObject(r).status # "completed"

SubmitAccepted(r) ==
    LET obj == LockedObject(r) IN
    /\ obj.status # "completed"
    /\ tx[r].final => obj.consent # None

\* Lock (or insert) the row, flush, replace the Q-sort entries and COMMIT.
SubmitApply(r) ==
    LET t == tx[r].token
        obj == LockedObject(r) IN
    /\ tx[r].pc = "submit"
    /\ Free(t)
    /\ SubmitAccepted(r)
    /\ row' = [row EXCEPT ![t] =
                 IF Exists(t)
                 THEN [FlushRow(row[t], obj, Submitted(r, obj))
                         EXCEPT !.sort = tx[r].sort]
                 ELSE SubmittedNew(r)]
    /\ tx' = [tx EXCEPT ![r] = Answered(r)]
    /\ UNCHANGED <<rowLock, usage, linkLive>>

\* Completed since the first lookup (already_submitted), or no consent.
SubmitRejected(r) ==
    /\ tx[r].pc = "submit"
    /\ Free(tx[r].token)
    /\ ~SubmitAccepted(r)
    /\ Refuse(r)

\* A dropped connection, a statement timeout, an expired session or no free
\* resume code: the session closes and its transaction is rolled back.
Abort(r) ==
    /\ tx[r].pc \notin {"idle", "done"}
    /\ Refuse(r)

-----------------------------------------------------------------------------
(* Draft, progress and withdrawal: one locked read and one write each.     *)

\* Faulty: a completed session still takes writes.
BugOpenWhenCompleted(t) == Exists(t) /\ Free(t)

IsOpen(t) == row[t].status = "started" /\ Free(t)

SaveDraft(t, d, n) ==
    /\ "draft" \in Kinds
    /\ IsOpen(t)
    /\ DraftVerdict(row[t].rev, row[t].draft, n, d) = "accept"
    /\ row' = [row EXCEPT ![t] = [@ EXCEPT !.draft = d, !.rev = n]]
    /\ UNCHANGED <<rowLock, usage, linkLive, tx>>

UpdateProgress(t, step) ==
    /\ "progress" \in Kinds
    /\ Exists(t) /\ Free(t)
    /\ should_advance(row[t].step, step)
    /\ step_transition_allowed(row[t].step, step, RoughSortEnabled)
    /\ row' = [row EXCEPT ![t] = [@ EXCEPT !.step = step]]
    /\ UNCHANGED <<rowLock, usage, linkLive, tx>>

\* The draft and the progress go; the revision stays as a watermark.
Withdrawn(o) == [o EXCEPT !.draft = None, !.step = 1]

WithdrawDraft(t) ==
    /\ "withdraw" \in Kinds
    /\ IsOpen(t)
    /\ row' = [row EXCEPT ![t] = Withdrawn(@)]
    /\ UNCHANGED <<rowLock, usage, linkLive, tx>>

-----------------------------------------------------------------------------
(* The researcher's side.                                                  *)

RevokeLink(l) ==
    /\ "revoke" \in Kinds
    /\ linkLive[l]
    /\ linkLive' = [linkLive EXCEPT ![l] = FALSE]
    /\ UNCHANGED <<row, rowLock, usage, tx>>

Consent(r) ==
    \/ \E t \in Tokens, l \in Links \cup {None}, pw \in BOOLEAN :
            SendConsent(r, t, l, pw)
    \/ ConsentLock(r)
    \/ ConsentWrongPassword(r)
    \/ ValidateLink(r)
    \/ ConsentRefusedByLink(r)
    \/ ConsentCommit(r)
    \/ ConsentCollision(r)
    \/ ConsentRetry(r)

Submit(r) ==
    \/ \E t \in Tokens, final \in BOOLEAN, a \in Answers, s \in Sorts :
            SendSubmit(r, t, final, a, s)
    \/ SubmitApply(r)
    \/ SubmitRejected(r)

Next ==
    \/ \E r \in Requests : Consent(r) \/ Submit(r) \/ Abort(r)
    \/ \E t \in Tokens, d \in Drafts, n \in Revisions \cup {None} :
            SaveDraft(t, d, n)
    \/ \E t \in Tokens, step \in 1..5 : UpdateProgress(t, step)
    \/ \E t \in Tokens : WithdrawDraft(t)
    \/ \E l \in Links : RevokeLink(l)

Spec == Init /\ [][Next]_vars

-----------------------------------------------------------------------------
(* Properties                                                              *)

\* The participants whose consent came through link l.
Admitted(l) ==
    {t \in Tokens : row[t].consent # None /\ tx[row[t].consent].link = l}

\* No consent counts a link that it does not, in the end, consent through:
\* a refused, aborted or colliding consent gives the use back
\* (record_consent: "a wrong password must not consume link capacity").
UsageNotOvercounted ==
    \A l \in Links : usage[l] <= Cardinality(Admitted(l))

\* The stored usage_count never passes the capacity (increment_usage), stale
\* as the count compared with it may be.
UsageWithinCapacity ==
    \A l \in Links : Capacity[l] # None => usage[l] <= Capacity[l]

\* What the capacity is for: no more participants come in through a link
\* than it has room for, however the consents interleave (increment_usage,
\* "concurrent requests cannot over-subscribe a link").
AdmittedWithinCapacity ==
    \A l \in Links : Capacity[l] # None => Cardinality(Admitted(l)) <= Capacity[l]

\* A completed participant has consented: whatever the two lookups of a
\* submission saw, none completes a session without recorded consent.
CompletedConsented ==
    \A t \in Tokens : row[t].status = "completed" => row[t].consent # None

\* Whoever consented to a protected study knew its password, also when the
\* row was first created by a "started" /submit or by a racing consent.
ConsentKnewPassword ==
    \A t \in Tokens : row[t].consent # None => tx[row[t].consent].pw

\* First consent wins: once recorded, no later or concurrent request changes
\* the consent timestamp and hash.
FirstConsentWins ==
    [][\A t \in Tokens : row[t].consent # None
                              => row'[t].consent = row[t].consent]_vars

\* A completed session never reopens, never loses its Q-sort and leaves the
\* last step: no late "started" submission, withdrawal or progress report
\* takes it back.
CompletedForGood ==
    [][\A t \in Tokens :
         row[t].status = "completed" =>
            /\ row'[t].status = "completed"
            /\ row'[t].sort # None
            /\ row'[t].step >= row[t].step]_vars

\* Recorded progress goes back only together with the draft, and only for a
\* session that has not been submitted (update_progress, withdraw_draft).
ProgressForward ==
    [][\A t \in Tokens :
         row'[t].step < row[t].step =>
            row[t].status = "started" /\ row'[t].step = 1 /\ row'[t].draft = None]_vars

\* The draft revision is a watermark: it survives withdrawal and submission,
\* and once there is one the draft changes only under a newer revision or
\* by being cleared ("delayed older saves cannot restore the draft").
DraftWatermark ==
    [][\A t \in Tokens : row[t].rev # None =>
         /\ row'[t].rev # None /\ row'[t].rev >= row[t].rev
         /\ row'[t].draft \notin {row[t].draft, None} => row'[t].rev > row[t].rev]_vars

-----------------------------------------------------------------------------
(* The inductive invariant behind the state properties                     *)

\* A missing row carries nothing, in the table and in a session.
AbsentIsEmpty ==
    /\ \A t \in Tokens : ~Exists(t) => row[t] = Absent
    /\ \A r \in Requests : tx[r].snap.status = "absent" => tx[r].snap = Absent

\* What each program point has established about its request.
ControlState ==
    \A r \in Requests :
        /\ tx[r].pc \notin {"idle", "done"} => tx[r].token \in Tokens
        /\ tx[r].pc = "link" => tx[r].link \in Links /\ tx[r].snap.consent = None
        /\ tx[r].pc = "retry" => Exists(tx[r].token) /\ tx[r].snap.consent = None
        /\ tx[r].claim => /\ tx[r].pc = "commit"
                          /\ tx[r].link \in Links
                          /\ tx[r].snap.consent = None

\* A locked row is the one its holder loaded, and only consent holds a lock
\* from one step to the next.
LockHolder ==
    /\ \A t \in Tokens : rowLock[t] # None =>
          LET r == rowLock[t] IN
          /\ tx[r].pc \in {"link", "commit"}
          /\ tx[r].token = t
          /\ tx[r].snap.status # "absent"
          /\ Exists(t)
    /\ \A r \in Requests :
          tx[r].pc \in {"link", "commit"} /\ tx[r].snap.status # "absent" =>
             rowLock[tx[r].token] = r /\ tx[r].snap = row[tx[r].token]

\* A consent on record belongs to a request that is over; one on its way has
\* passed the password check if it is a first consent.
ConsentOnRecord ==
    /\ \A t \in Tokens : row[t].consent # None => tx[row[t].consent].pc = "done"
    /\ \A r \in Requests :
          tx[r].pc \in {"link", "commit", "retry"} /\ tx[r].snap.consent = None
             => tx[r].pw

\* The usage_count a session has in hand counts only consents on record.
SeenNotOvercounted ==
    \A r \in Requests, l \in Links :
        tx[r].claim /\ tx[r].link = l => tx[r].seen <= Cardinality(Admitted(l))

\* A submission that saw a consent submits to a row that has one.
SubmitSawConsent ==
    \A r \in Requests :
        tx[r].pc = "submit" /\ tx[r].snap.consent # None
            => row[tx[r].token].consent # None

\* The conjunction the proofs of the state properties carry from step to step.
InductiveInv ==
    /\ TypeOK
    /\ AbsentIsEmpty
    /\ ControlState
    /\ LockHolder
    /\ ConsentOnRecord
    /\ ConsentKnewPassword
    /\ SeenNotOvercounted
    /\ UsageNotOvercounted
    /\ UsageWithinCapacity
    /\ SubmitSawConsent
    /\ CompletedConsented
=============================================================================

---------------------------- MODULE SessionProofs ----------------------------
(***************************************************************************)
(* How a participant's row may change, for every set of tokens, requests   *)
(* and payloads: completion is final, progress does not go back, and the   *)
(* draft revision is a watermark, also next to submissions that work on a  *)
(* copy of the row they loaded before they locked it.                      *)
(***************************************************************************)
EXTENDS ParticipationProofs

\* A completed row has its Q-sort; a submission under way brings one, and was
\* not answered from a completed row.
SubmissionInv ==
    /\ \A t \in Tokens : row[t].status = "completed" => row[t].sort # None
    /\ \A r \in Requests : tx[r].pc = "submit" =>
          tx[r].sort \in Sorts /\ tx[r].snap.status # "completed"

\* What CompletedForGood, ProgressForward and DraftWatermark say of a row that
\* was old and is new.
RowKept(old, new) ==
    /\ old.status = "completed" =>
         new.status = "completed" /\ new.sort # None /\ new.step >= old.step
    /\ new.step < old.step =>
         old.status = "started" /\ new.step = 1 /\ new.draft = None
    /\ old.rev # None =>
         /\ new.rev # None /\ new.rev >= old.rev
         /\ new.draft \notin {old.draft, None} => new.rev > old.rev
    /\ new.status = "completed" => new.sort # None

\* The numbers of a row.
LEMMA RowNumbers ==
  ASSUME NEW o \in Row
  PROVE  o.step \in 1..5 /\ o.rev \in Nat \cup {None}
BY ParticipationAssumption DEF Row, Revisions

\* A row that stays as it is.
LEMMA SameRowKept ==
  ASSUME NEW o \in Row, o.status = "completed" => o.sort # None
  PROVE  RowKept(o, o)
BY RowNumbers, NoneDistinct DEF RowKept

\* A row inserted where there was none, by a consent or a submission.
LEMMA InsertKept ==
  ASSUME NEW n, n.status = "started", n.step = 1
  PROVE  RowKept(Absent, n)
BY DEF RowKept, Absent

\* Consent writes neither status, Q-sort, step, draft nor revision.
LEMMA ConsentKept ==
  ASSUME NEW r \in Requests, NEW o \in Row, o.status = "completed" => o.sort # None
  PROVE  RowKept(o, FlushRow(o, o, Reconsented(r, o)))
<1>. DEFINE n == FlushRow(o, o, Reconsented(r, o))
<1>1. ASSUME NEW p
      PROVE  LET x == [o EXCEPT !.consent = r, !.presort = p] IN
             /\ x.status = o.status /\ x.step = o.step
             /\ x.draft = o.draft /\ x.rev = o.rev
  BY DEF Row
<1>2. LET x == Reconsented(r, o) IN
      x.status = o.status /\ x.step = o.step /\ x.draft = o.draft /\ x.rev = o.rev
  BY <1>1 DEF Reconsented
<1>3. /\ n.status = o.status /\ n.step = o.step /\ n.sort = o.sort
      /\ n.draft = o.draft /\ n.rev = o.rev
  BY <1>2 DEF FlushRow, FlushedColumn
<1>. HIDE DEF n
<1>4. RowKept(o, n)
  BY <1>3, RowNumbers, NoneDistinct DEF RowKept
<1>. QED
  BY <1>4 DEF n

\* A submission that was not answered from a completed row, working on obj,
\* the row or a copy loaded earlier, writes over the row as it is by now.
LEMMA SubmitKept ==
  ASSUME NEW r \in Requests, NEW o \in Row, NEW obj \in Row, NEW s \in Sorts,
         obj.status # "completed"
  PROVE  RowKept(o, [FlushRow(o, obj, Submitted(r, obj)) EXCEPT !.sort = s])
<1>. DEFINE x == Submitted(r, obj)
            n == [FlushRow(o, obj, x) EXCEPT !.sort = s]
<1>1. ASSUME NEW p
      PROVE  LET a == [obj EXCEPT !.presort = p]
                 b == [a EXCEPT !.status = "completed", !.step = 5, !.draft = None] IN
             /\ a.status = obj.status /\ a.step = obj.step /\ a.draft = obj.draft
             /\ a.rev = obj.rev
             /\ b.status = "completed" /\ b.step = 5 /\ b.draft = None /\ b.rev = obj.rev
  BY DEF Row
<1>2. /\ x.rev = obj.rev
      /\ \/ x.status = obj.status /\ x.step = obj.step /\ x.draft = obj.draft
         \/ x.status = "completed" /\ x.step = 5 /\ x.draft = None
  BY <1>1 DEF Submitted
<1>. HIDE DEF x
<1>3. /\ n.status = FlushedColumn(o.status, obj.status, x.status)
      /\ n.step = FlushedColumn(o.step, obj.step, x.step)
      /\ n.draft = FlushedColumn(o.draft, obj.draft, x.draft)
      /\ n.rev = FlushedColumn(o.rev, obj.rev, x.rev)
      /\ n.sort = s
  BY DEF FlushRow
<1>. HIDE DEF n
<1>4. /\ n.status \in {o.status, "completed"} /\ n.step \in {o.step, 5}
      /\ n.draft \in {o.draft, None} /\ n.rev = o.rev
  BY <1>2, <1>3 DEF FlushedColumn
<1>5. n.sort # None
  BY <1>3, NoneDistinct
<1>6. RowKept(o, n)
  BY <1>4, <1>5, RowNumbers, NoneDistinct DEF RowKept
<1>. QED
  BY <1>6 DEF n, x

\* A step that changes at most the row of t, as RowKept allows, and starts no
\* submission.
LEMMA RowKeptStep ==
  ASSUME InductiveInv, SubmissionInv, NEW t \in Tokens,
         RowKept(row[t], row'[t]),
         \A u \in Tokens : u # t => row'[u] = row[u],
         \A r \in Requests : tx'[r] = tx[r] \/ tx'[r].pc # "submit"
  PROVE  SubmissionInv' /\ \A u \in Tokens : RowKept(row[u], row'[u])
<1>1. \A u \in Tokens : row[u] \in Row
  BY DEF InductiveInv, TypeOK
<1>2. \A u \in Tokens : RowKept(row[u], row'[u])
  BY <1>1, SameRowKept DEF SubmissionInv
<1>3. SubmissionInv'
  BY <1>2 DEF SubmissionInv, RowKept
<1>. QED
  BY <1>2, <1>3

\* A step that leaves the rows alone, and starts no submission.
LEMMA NoRowStep ==
  ASSUME InductiveInv, SubmissionInv, row' = row,
         \A r \in Requests : tx'[r] = tx[r] \/ tx'[r].pc # "submit"
  PROVE  SubmissionInv' /\ \A u \in Tokens : RowKept(row[u], row'[u])
<1>1. \A u \in Tokens : row[u] \in Row
  BY DEF InductiveInv, TypeOK
<1>2. \A u \in Tokens : RowKept(row[u], row'[u])
  BY <1>1, SameRowKept DEF SubmissionInv
<1>3. SubmissionInv'
  BY DEF SubmissionInv
<1>. QED
  BY <1>2, <1>3

\* A refused request is no submission any more.
LEMMA RefuseKept ==
  ASSUME InductiveInv, SubmissionInv, NEW r \in Requests, Refuse(r)
  PROVE  SubmissionInv' /\ \A u \in Tokens : RowKept(row[u], row'[u])
<1>1. row' = row /\ \A q \in Requests : tx'[q] = tx[q] \/ tx'[q].pc # "submit"
  BY DEF Refuse, IdleTx, InductiveInv, TypeOK
<1>. QED
  BY <1>1, NoRowStep

\* Consent: every step of it.
LEMMA ConsentStepKept ==
  ASSUME InductiveInv, SubmissionInv, NEW r \in Requests, Consent(r)
  PROVE  SubmissionInv' /\ \A u \in Tokens : RowKept(row[u], row'[u])
<1>0. /\ TypeOK /\ row \in [Tokens -> Row] /\ tx \in [Requests -> Tx]
      /\ \A t \in Tokens : row[t].status = "completed" => row[t].sort # None
  BY DEF InductiveInv, TypeOK, SubmissionInv
<1>1. CASE \E t \in Tokens, l \in Links \cup {None}, pw \in BOOLEAN : SendConsent(r, t, l, pw)
  <2>1. row' = row /\ \A q \in Requests : tx'[q] = tx[q] \/ tx'[q].pc # "submit"
    BY <1>0, <1>1 DEF SendConsent, IdleTx
  <2>. QED
    BY <2>1, NoRowStep
<1>2. CASE ConsentLock(r)
  <2>1. row' = row /\ \A q \in Requests : tx'[q] = tx[q] \/ tx'[q].pc # "submit"
    BY <1>0, <1>2 DEF ConsentLock, Tx
  <2>. QED
    BY <2>1, NoRowStep
<1>3. CASE ConsentWrongPassword(r) \/ ConsentRefusedByLink(r)
  BY <1>3, RefuseKept DEF ConsentWrongPassword, ConsentRefusedByLink
<1>4. CASE ValidateLink(r)
  <2>1. CASE linkLive[tx[r].link]
    <3>1. row' = row /\ \A q \in Requests : tx'[q] = tx[q] \/ tx'[q].pc # "submit"
      BY <1>0, <1>4, <2>1 DEF ValidateLink, Tx
    <3>. QED
      BY <3>1, NoRowStep
  <2>2. CASE ~linkLive[tx[r].link]
    BY <1>4, <2>2, RefuseKept DEF ValidateLink
  <2>. QED
    BY <2>1, <2>2
<1>5. CASE ConsentCommit(r)
  <2>. DEFINE t == tx[r].token
              loaded == tx[r].snap
  <2>1. t \in Tokens /\ tx[r].pc = "commit"
    BY <1>5 DEF ConsentCommit, InductiveInv, ControlState
  <2>2. /\ \A u \in Tokens : u # t => row'[u] = row[u]
        /\ \A q \in Requests : tx'[q] = tx[q] \/ tx'[q].pc # "submit"
    BY <1>0, <1>5, <2>1 DEF ConsentCommit, Answered, IdleTx
  <2>3. CASE loaded.status = "absent"
    <3>1. row[t] = Absent
      BY <1>5, <2>1, <2>3 DEF ConsentCommit, InductiveInv, AbsentIsEmpty
    <3>2. row'[t] = Consented(r)
      BY <1>0, <1>5, <2>1, <2>3 DEF ConsentCommit
    <3>3. Consented(r).status = "started" /\ Consented(r).step = 1
      BY DEF Consented, Absent
    <3>4. RowKept(row[t], row'[t])
      BY <3>1, <3>2, <3>3, InsertKept
    <3>. QED
      BY <2>1, <2>2, <3>4, RowKeptStep
  <2>4. CASE loaded.status # "absent"
    <3>1. loaded = row[t]
      BY <2>1, <2>4 DEF InductiveInv, LockHolder
    <3>2. row'[t] = FlushRow(row[t], row[t], Reconsented(r, row[t]))
      BY <1>0, <1>5, <2>1, <2>4, <3>1 DEF ConsentCommit
    <3>3. RowKept(row[t], row'[t])
      BY <1>0, <2>1, <3>2, ConsentKept
    <3>. QED
      BY <2>1, <2>2, <3>3, RowKeptStep
  <2>. QED
    BY <2>3, <2>4
<1>6. CASE ConsentCollision(r)
  <2>1. row' = row /\ \A q \in Requests : tx'[q] = tx[q] \/ tx'[q].pc # "submit"
    BY <1>0, <1>6 DEF ConsentCollision, Tx
  <2>. QED
    BY <2>1, NoRowStep
<1>7. CASE ConsentRetry(r)
  <2>. DEFINE t == tx[r].token
  <2>1. t \in Tokens
    BY <1>7 DEF ConsentRetry, InductiveInv, ControlState
  <2>2. /\ row'[t] = FlushRow(row[t], row[t], Reconsented(r, row[t]))
        /\ \A u \in Tokens : u # t => row'[u] = row[u]
        /\ \A q \in Requests : tx'[q] = tx[q] \/ tx'[q].pc # "submit"
    BY <1>0, <1>7, <2>1 DEF ConsentRetry, Answered, IdleTx
  <2>3. RowKept(row[t], row'[t])
    BY <1>0, <2>1, <2>2, ConsentKept
  <2>. QED
    BY <2>1, <2>2, <2>3, RowKeptStep
<1>. QED
  BY <1>1, <1>2, <1>3, <1>4, <1>5, <1>6, <1>7 DEF Consent

\* Submission: every step of it.
LEMMA SubmitStepKept ==
  ASSUME InductiveInv, SubmissionInv, NEW r \in Requests, Submit(r)
  PROVE  SubmissionInv' /\ \A u \in Tokens : RowKept(row[u], row'[u])
<1>0. /\ row \in [Tokens -> Row] /\ tx \in [Requests -> Tx]
      /\ \A t \in Tokens : row[t].status = "completed" => row[t].sort # None
  BY DEF InductiveInv, TypeOK, SubmissionInv
<1>1. CASE \E t \in Tokens, final \in BOOLEAN, a \in Answers, s \in Sorts :
             SendSubmit(r, t, final, a, s)
  <2>1. PICK t \in Tokens, final \in BOOLEAN, a \in Answers, s \in Sorts :
               SendSubmit(r, t, final, a, s)
    BY <1>1
  <2>2. row' = row /\ \A q \in Requests : q # r => tx'[q] = tx[q]
    BY <1>0, <2>1 DEF SendSubmit
  <2>3. tx'[r].pc = "submit" => tx'[r].sort = s /\ tx'[r].snap = row[t]
    BY <1>0, <2>1 DEF SendSubmit, IdleTx
  <2>4. tx'[r].pc = "submit" => row[t].status # "completed"
    BY <1>0, <2>1 DEF SendSubmit, IdleTx
  <2>5. SubmissionInv'
    BY <2>2, <2>3, <2>4 DEF SubmissionInv
  <2>6. \A u \in Tokens : RowKept(row[u], row'[u])
    BY <1>0, <2>2, SameRowKept
  <2>. QED
    BY <2>5, <2>6
<1>2. CASE SubmitApply(r)
  <2>. DEFINE t == tx[r].token
              obj == LockedObject(r)
  <2>1. t \in Tokens /\ tx[r].sort \in Sorts /\ obj.status # "completed"
    BY <1>2 DEF SubmitApply, SubmitAccepted, InductiveInv, ControlState, SubmissionInv
  <2>2. /\ \A u \in Tokens : u # t => row'[u] = row[u]
        /\ \A q \in Requests : tx'[q] = tx[q] \/ tx'[q].pc # "submit"
    BY <1>0, <1>2, <2>1 DEF SubmitApply, Answered, IdleTx
  <2>3. obj \in Row
    BY <1>0, <2>1 DEF LockedObject, Tx
  <2>4. CASE Exists(t)
    <3>1. row'[t] = [FlushRow(row[t], obj, Submitted(r, obj)) EXCEPT !.sort = tx[r].sort]
      BY <1>0, <1>2, <2>1, <2>4 DEF SubmitApply
    <3>2. row[t] \in Row
      BY <1>0, <2>1
    <3>. HIDE DEF t, obj
    <3>3. RowKept(row[t], row'[t])
      BY <2>1, <2>3, <3>1, <3>2, SubmitKept
    <3>. QED
      BY <2>1, <2>2, <3>3, RowKeptStep
  <2>5. CASE ~Exists(t)
    <3>1. row[t] = Absent /\ row'[t] = SubmittedNew(r)
      BY <1>0, <1>2, <2>1, <2>5 DEF SubmitApply, InductiveInv, AbsentIsEmpty
    <3>2. SubmittedNew(r).status = "started" /\ SubmittedNew(r).step = 1
      BY DEF SubmittedNew, Absent
    <3>3. RowKept(row[t], row'[t])
      BY <3>1, <3>2, InsertKept
    <3>. QED
      BY <2>1, <2>2, <3>3, RowKeptStep
  <2>. QED
    BY <2>4, <2>5
<1>3. CASE SubmitRejected(r)
  BY <1>3, RefuseKept DEF SubmitRejected
<1>. QED
  BY <1>1, <1>2, <1>3 DEF Submit

\* A draft is saved over an open row under a newer revision, or the first.
LEMMA SaveDraftKept ==
  ASSUME NEW o \in Row, o.status = "started", NEW d \in Drafts,
         NEW n \in Revisions \cup {None},
         DraftVerdict(o.rev, o.draft, n, d) = "accept"
  PROVE  RowKept(o, [o EXCEPT !.draft = d, !.rev = n])
<1>. DEFINE x == [o EXCEPT !.draft = d, !.rev = n]
<1>1. x.status = "started" /\ x.step = o.step /\ x.rev = n
  BY DEF Row
<1>2. o.rev # None => n # None /\ n > o.rev
  BY DEF DraftVerdict
<1>3. o.step \in Nat /\ o.rev \in Nat \cup {None} /\ n \in Nat \cup {None}
  BY RowNumbers, ParticipationAssumption DEF Revisions
<1>. HIDE DEF x
<1>. QED
  BY <1>1, <1>2, <1>3, NoneDistinct DEF RowKept, x

\* Every step, or stuttering step, changes rows as RowKept allows.
LEMMA NextKept ==
  ASSUME InductiveInv, SubmissionInv, [Next]_vars
  PROVE  SubmissionInv' /\ \A u \in Tokens : RowKept(row[u], row'[u])
<1>0. /\ row \in [Tokens -> Row]
      /\ \A t \in Tokens : row[t].status = "completed" => row[t].sort # None
  BY DEF InductiveInv, TypeOK, SubmissionInv
<1>1. ASSUME NEW r \in Requests, Consent(r) \/ Submit(r) \/ Abort(r)
      PROVE  SubmissionInv' /\ \A u \in Tokens : RowKept(row[u], row'[u])
  BY <1>1, ConsentStepKept, SubmitStepKept, RefuseKept DEF Abort
<1>2. ASSUME NEW t \in Tokens, NEW d \in Drafts, NEW n \in Revisions \cup {None},
             SaveDraft(t, d, n)
      PROVE  SubmissionInv' /\ \A u \in Tokens : RowKept(row[u], row'[u])
  <2>1. /\ row'[t] = [row[t] EXCEPT !.draft = d, !.rev = n] /\ tx' = tx
        /\ \A u \in Tokens : u # t => row'[u] = row[u]
    BY <1>0, <1>2 DEF SaveDraft
  <2>2. RowKept(row[t], row'[t])
    BY <1>0, <1>2, <2>1, SaveDraftKept DEF SaveDraft, IsOpen
  <2>. QED
    BY <2>1, <2>2, RowKeptStep
<1>3. ASSUME NEW t \in Tokens, NEW step \in 1..5, UpdateProgress(t, step)
      PROVE  SubmissionInv' /\ \A u \in Tokens : RowKept(row[u], row'[u])
  <2>1. /\ row'[t] = [row[t] EXCEPT !.step = step] /\ tx' = tx
        /\ \A u \in Tokens : u # t => row'[u] = row[u]
    BY <1>0, <1>3 DEF UpdateProgress
  <2>2. row[t].step \in 1..5 /\ row[t].rev \in Nat \cup {None}
    BY <1>0, RowNumbers
  <2>3. step > row[t].step
    BY <1>3, <2>2, NoneDistinct DEF UpdateProgress, should_advance
  <2>4. LET x == [row[t] EXCEPT !.step = step] IN
        /\ x.status = row[t].status /\ x.sort = row[t].sort /\ x.step = step
        /\ x.rev = row[t].rev /\ x.draft = row[t].draft
    BY <1>0 DEF Row
  <2>5. RowKept(row[t], row'[t])
    BY <1>0, <2>1, <2>2, <2>3, <2>4, NoneDistinct DEF RowKept
  <2>. QED
    BY <2>1, <2>5, RowKeptStep
<1>4. ASSUME NEW t \in Tokens, WithdrawDraft(t)
      PROVE  SubmissionInv' /\ \A u \in Tokens : RowKept(row[u], row'[u])
  <2>1. /\ row'[t] = Withdrawn(row[t]) /\ tx' = tx /\ row[t].status = "started"
        /\ \A u \in Tokens : u # t => row'[u] = row[u]
    BY <1>0, <1>4 DEF WithdrawDraft, IsOpen
  <2>2. row[t].step \in 1..5 /\ row[t].rev \in Nat \cup {None}
    BY <1>0, RowNumbers
  <2>3. LET x == Withdrawn(row[t]) IN
        /\ x.status = row[t].status /\ x.step = 1
        /\ x.rev = row[t].rev /\ x.draft = None
    BY <1>0 DEF Row, Withdrawn
  <2>4. RowKept(row[t], row'[t])
    BY <2>1, <2>2, <2>3, NoneDistinct DEF RowKept
  <2>. QED
    BY <2>1, <2>4, RowKeptStep
<1>5. ASSUME NEW l \in Links, RevokeLink(l)
      PROVE  SubmissionInv' /\ \A u \in Tokens : RowKept(row[u], row'[u])
  BY <1>5, NoRowStep DEF RevokeLink
<1>6. CASE UNCHANGED vars
  BY <1>6, NoRowStep DEF vars
<1>. QED
  BY <1>1, <1>2, <1>3, <1>4, <1>5, <1>6 DEF Next

\* Completed rows keep their Q-sort and submissions bring one, throughout.
THEOREM SubmissionInvariant == Spec => []SubmissionInv
<1>1. Init => SubmissionInv
  BY DEF Init, SubmissionInv, Absent, IdleTx
<1>2. InductiveInv /\ SubmissionInv /\ [Next]_vars => SubmissionInv'
  BY NextKept
<1>. QED
  BY <1>1, <1>2, Invariance, PTL DEF Spec

\* A completed session stays completed, with its Q-sort and its last step,
\* whatever stale copy a submission works on.
THEOREM CompletionIsFinal == Spec => CompletedForGood
<1>1. InductiveInv /\ SubmissionInv /\ [Next]_vars
        => [\A t \in Tokens :
              row[t].status = "completed" =>
                 /\ row'[t].status = "completed"
                 /\ row'[t].sort # None
                 /\ row'[t].step >= row[t].step]_vars
  BY NextKept DEF RowKept
<1>. QED
  BY <1>1, Invariance, SubmissionInvariant, PTL DEF Spec, CompletedForGood

\* Progress goes back only by withdrawal, together with the draft.
THEOREM ProgressIsKept == Spec => ProgressForward
<1>1. InductiveInv /\ SubmissionInv /\ [Next]_vars
        => [\A t \in Tokens :
              row'[t].step < row[t].step =>
                 row[t].status = "started" /\ row'[t].step = 1 /\ row'[t].draft = None]_vars
  BY NextKept DEF RowKept
<1>. QED
  BY <1>1, Invariance, SubmissionInvariant, PTL DEF Spec, ProgressForward

\* The draft revision never falls, and no older draft replaces a newer one.
THEOREM RevisionIsWatermark == Spec => DraftWatermark
<1>1. InductiveInv /\ SubmissionInv /\ [Next]_vars
        => [\A t \in Tokens : row[t].rev # None =>
              /\ row'[t].rev # None /\ row'[t].rev >= row[t].rev
              /\ row'[t].draft \notin {row[t].draft, None} => row'[t].rev > row[t].rev]_vars
  BY NextKept DEF RowKept
<1>. QED
  BY <1>1, Invariance, SubmissionInvariant, PTL DEF Spec, DraftWatermark
=============================================================================

------------------------ MODULE ParticipationProofs ------------------------
(***************************************************************************)
(* Proofs about Participation, for every set of tokens, requests, links    *)
(* and payloads: type correctness, the inductive invariant, and from it    *)
(* the state and action properties that the consent run checks.            *)
(***************************************************************************)
EXTENDS Participation, FiniteSetTheorems, TLAPS

(***************************************************************************)
(* Lemmas about the record operators.                                      *)
(***************************************************************************)

\* None is no request, row value or link.
LEMMA NoneDistinct ==
  /\ None \notin Nat /\ None \notin Requests /\ None \notin Links
  /\ None \notin Sorts /\ None \notin Drafts
BY NoneIsNoNumber, ParticipationAssumption

\* The absent row and an idle transaction are well typed.
LEMMA AbsentType == Absent \in Row /\ IdleTx \in Tx
BY ParticipationAssumption
   DEF Absent, Row, NoPresort, Presort, IdleTx, Tx, Pc

\* A flush of typed rows is a typed row.
LEMMA FlushRowType ==
  ASSUME NEW a \in Row, NEW b \in Row, NEW c \in Row
  PROVE  FlushRow(a, b, c) \in Row
BY DEF FlushRow, FlushedColumn, Row

\* The objects the requests build are typed rows.
LEMMA ConsentedType ==
  ASSUME TypeOK, NEW r \in Requests
  PROVE  Consented(r) \in Row
<1>1. tx[r] \in Tx
  BY DEF TypeOK
<1>. QED
  BY <1>1, AbsentType, ParticipationAssumption
     DEF Consented, Absent, Row, NoPresort, Presort, Tx

\* Nor does the update path of consent.
LEMMA ReconsentedType ==
  ASSUME TypeOK, NEW r \in Requests, NEW o \in Row
  PROVE  Reconsented(r, o) \in Row
<1>. DEFINE p == [answers |-> o.presort.answers,
                  link |-> IF tx[r].link # None THEN tx[r].link
                                                ELSE o.presort.link]
<1>1. tx[r].link \in Links \cup {None}
  BY DEF TypeOK, Tx
<1>2. o.presort.answers \in Answers /\ o.presort.link \in Links \cup {None}
  BY DEF Row, Presort
<1>3. p \in Presort
  BY <1>1, <1>2 DEF Presort
<1>. HIDE DEF p
<1>4. [o EXCEPT !.consent = r, !.presort = p] \in Row
  BY <1>3 DEF Row
<1>. QED
  BY <1>4 DEF Reconsented, p

\* The object a submission assigns to is a typed row ...
LEMMA SubmittedType ==
  ASSUME TypeOK, NEW r \in Requests, NEW o \in Row
  PROVE  Submitted(r, o) \in Row
<1>. DEFINE p == [answers |-> tx[r].answers, link |-> o.presort.link]
<1>1. tx[r].answers \in Answers
  BY DEF TypeOK, Tx
<1>2. o.presort.link \in Links \cup {None}
  BY DEF Row, Presort
<1>3. p \in Presort
  BY <1>1, <1>2 DEF Presort
<1>. HIDE DEF p
<1>. DEFINE q == [o EXCEPT !.presort = p]
<1>4. q \in Row
  BY <1>3 DEF Row
<1>. HIDE DEF q
<1>. DEFINE five == 5
<1>5. five \in 1..5
  OBVIOUS
<1>. HIDE DEF five
<1>6. [q EXCEPT !.status = "completed", !.step = five, !.draft = None] \in Row
  BY <1>4, <1>5 DEF Row
<1>. QED
  BY <1>4, <1>6 DEF Submitted, p, q, five

\* ... and so is the one it inserts.
LEMMA SubmittedNewType ==
  ASSUME TypeOK, NEW r \in Requests
  PROVE  SubmittedNew(r) \in Row
<1>. DEFINE p == [answers |-> tx[r].answers, link |-> None]
<1>1. tx[r].answers \in Answers /\ tx[r].sort \in Sorts \cup {None}
  BY DEF TypeOK, Tx
<1>2. p \in Presort
  BY <1>1 DEF Presort
<1>. HIDE DEF p
<1>3. [Absent EXCEPT !.status = "started", !.sort = tx[r].sort, !.presort = p]
        \in Row
  BY <1>1, <1>2, AbsentType DEF Row
<1>. QED
  BY <1>3 DEF SubmittedNew, p

\* Releasing locks keeps the lock table typed.
LEMMA ReleasedType ==
  ASSUME TypeOK, NEW r \in Requests
  PROVE  Released(r) \in [Tokens -> Requests \cup {None}]
BY DEF Released, TypeOK

(***************************************************************************)
(* Type correctness.                                                       *)
(***************************************************************************)

\* The initial state is well typed.
LEMMA TypeInit == Init => TypeOK
BY AbsentType DEF Init, TypeOK

\* Every request for which some action of Consent or Submit runs keeps the
\* types; Refuse is the common tail of the refusals.
LEMMA RefuseType ==
  ASSUME TypeOK, NEW r \in Requests, Refuse(r)
  PROVE  TypeOK'
<1>1. [IdleTx EXCEPT !.pc = "done"] \in Tx
  BY AbsentType DEF Tx, Pc
<1>2. tx' \in [Requests -> Tx]
  BY <1>1 DEF Refuse, TypeOK
<1>3. rowLock' \in [Tokens -> Requests \cup {None}]
  BY ReleasedType DEF Refuse
<1>. QED
  BY <1>2, <1>3 DEF Refuse, TypeOK

\* An answered request is a typed transaction.
LEMMA AnsweredType ==
  ASSUME TypeOK, NEW r \in Requests
  PROVE  Answered(r) \in Tx
<1>1. tx[r].link \in Links \cup {None} /\ tx[r].pw \in BOOLEAN
  BY DEF TypeOK, Tx
<1>. QED
  BY <1>1, AbsentType DEF Answered, Tx, Pc

\* The steps of a consent request (record_consent) keep the types.
LEMMA ConsentTypeStep ==
  ASSUME TypeOK, ControlState, NEW r \in Requests, Consent(r)
  PROVE  TypeOK'
<1>. tx[r] \in Tx
  BY DEF TypeOK
<1>1. ASSUME NEW t \in Tokens, NEW l \in Links \cup {None}, NEW pw \in BOOLEAN,
             SendConsent(r, t, l, pw)
      PROVE  TypeOK'
  <2>1. [IdleTx EXCEPT !.pc = "consent", !.token = t, !.link = l, !.pw = pw] \in Tx
    BY AbsentType DEF Tx, Pc
  <2>. QED
    BY <1>1, <2>1 DEF SendConsent, TypeOK
<1>2. CASE ConsentLock(r)
  <2>1. tx[r].token \in Tokens
    BY <1>2 DEF ConsentLock, ControlState
  <2>. DEFINE pc == IF row[tx[r].token].consent = None /\ tx[r].link # None
                    THEN "link" ELSE "commit"
  <2>2. pc \in Pc /\ row[tx[r].token] \in Row
    BY <2>1 DEF Pc, TypeOK
  <2>3. tx' = [tx EXCEPT ![r] = [tx[r] EXCEPT !.snap = row[tx[r].token], !.pc = pc]]
    BY <1>2 DEF ConsentLock, FirstConsent, TypeOK
  <2>. HIDE DEF pc
  <2>4. [tx[r] EXCEPT !.snap = row[tx[r].token], !.pc = pc] \in Tx
    BY <2>2 DEF Tx
  <2>5. tx' \in [Requests -> Tx]
    BY <2>3, <2>4 DEF TypeOK
  <2>6. rowLock' \in [Tokens -> Requests \cup {None}]
    BY <1>2, <2>1 DEF ConsentLock, TypeOK
  <2>. QED
    BY <1>2, <2>5, <2>6 DEF ConsentLock, TypeOK
<1>3. CASE ConsentWrongPassword(r)
  BY <1>3, RefuseType DEF ConsentWrongPassword
<1>4. CASE ValidateLink(r)
  <2>1. tx[r].link \in Links
    BY <1>4 DEF ValidateLink, ControlState
  <2>2. CASE linkLive[tx[r].link]
    <3>. DEFINE n == usage[tx[r].link]
    <3>1. n \in Nat
      BY <2>1 DEF TypeOK
    <3>2. tx' = [tx EXCEPT ![r] = [tx[r] EXCEPT !.seen = n, !.pc = "commit",
                                                !.claim = TRUE]]
      BY <1>4, <2>2 DEF ValidateLink, TypeOK
    <3>. HIDE DEF n
    <3>. DEFINE x == [tx[r] EXCEPT !.seen = n]
    <3>3. x \in Tx
      BY <3>1 DEF Tx
    <3>4. tx' = [tx EXCEPT ![r] = [x EXCEPT !.pc = "commit", !.claim = TRUE]]
      BY <3>2 DEF x
    <3>. HIDE DEF x
    <3>5. [x EXCEPT !.pc = "commit", !.claim = TRUE] \in Tx
      BY <3>3 DEF Tx, Pc
    <3>6. tx' \in [Requests -> Tx]
      BY <3>4, <3>5 DEF TypeOK
    <3>. QED
      BY <1>4, <2>2, <3>6 DEF ValidateLink, TypeOK
  <2>3. CASE ~linkLive[tx[r].link]
    BY <1>4, <2>3, RefuseType DEF ValidateLink
  <2>. QED
    BY <2>2, <2>3
<1>5. CASE ConsentRefusedByLink(r)
  BY <1>5, RefuseType DEF ConsentRefusedByLink
<1>6. CASE ConsentCommit(r)
  <2>1. tx[r].token \in Tokens /\ tx[r].snap \in Row
    BY <1>6 DEF ConsentCommit, ControlState, Tx
  <2>2. Consented(r) \in Row /\ Reconsented(r, tx[r].snap) \in Row
    BY <2>1, ConsentedType, ReconsentedType
  <2>3. FlushRow(row[tx[r].token], tx[r].snap, Reconsented(r, tx[r].snap)) \in Row
    BY <2>1, <2>2, FlushRowType DEF TypeOK
  <2>4. row' \in [Tokens -> Row]
    BY <1>6, <2>2, <2>3 DEF ConsentCommit, TypeOK
  <2>5. usage' \in [Links -> Nat]
    <3>. DEFINE n == tx[r].seen + 1
    <3>1. n \in Nat
      BY DEF Tx
    <3>2. usage' = [usage EXCEPT ![tx[r].link] = n] \/ usage' = usage
      BY <1>6 DEF ConsentCommit, ClaimedUsage
    <3>. HIDE DEF n
    <3>. QED
      BY <3>1, <3>2 DEF TypeOK
  <2>6. tx' \in [Requests -> Tx]
    BY <1>6, AnsweredType DEF ConsentCommit, TypeOK
  <2>7. rowLock' \in [Tokens -> Requests \cup {None}]
    BY <1>6, ReleasedType DEF ConsentCommit
  <2>. QED
    BY <1>6, <2>4, <2>5, <2>6, <2>7 DEF ConsentCommit, TypeOK
<1>7. CASE ConsentCollision(r)
  <2>1. [tx[r] EXCEPT !.pc = "retry", !.claim = FALSE, !.seen = 0] \in Tx
    BY DEF Tx, Pc
  <2>. QED
    BY <1>7, <2>1 DEF ConsentCollision, TypeOK
<1>8. CASE ConsentRetry(r)
  <2>1. tx[r].token \in Tokens
    BY <1>8 DEF ConsentRetry, ControlState
  <2>2. row[tx[r].token] \in Row
    BY <2>1 DEF TypeOK
  <2>3. FlushRow(row[tx[r].token], row[tx[r].token],
                 Reconsented(r, row[tx[r].token])) \in Row
    BY <2>2, ReconsentedType, FlushRowType
  <2>4. row' \in [Tokens -> Row]
    BY <1>8, <2>3 DEF ConsentRetry, TypeOK
  <2>5. tx' \in [Requests -> Tx]
    BY <1>8, AnsweredType DEF ConsentRetry, TypeOK
  <2>. QED
    BY <1>8, <2>4, <2>5 DEF ConsentRetry, TypeOK
<1>. QED
  BY <1>1, <1>2, <1>3, <1>4, <1>5, <1>6, <1>7, <1>8 DEF Consent

\* The steps of a submission (process_submission) keep the types.
LEMMA SubmitTypeStep ==
  ASSUME TypeOK, ControlState, NEW r \in Requests, Submit(r)
  PROVE  TypeOK'
<1>. tx[r] \in Tx
  BY DEF TypeOK
<1>1. ASSUME NEW t \in Tokens, NEW final \in BOOLEAN, NEW a \in Answers,
             NEW s \in Sorts, SendSubmit(r, t, final, a, s)
      PROVE  TypeOK'
  <2>. DEFINE over == [IdleTx EXCEPT !.pc = "done"]
              sent == [IdleTx EXCEPT !.pc = "submit", !.token = t, !.final = final,
                                     !.answers = a, !.sort = s, !.snap = row[t]]
  <2>1. over \in Tx
    BY AbsentType DEF Tx, Pc
  <2>2. row[t] \in Row
    BY DEF TypeOK
  <2>3. sent \in Tx
    BY <2>2, AbsentType DEF Tx, Pc
  <2>4. tx' = [tx EXCEPT ![r] = over] \/ tx' = [tx EXCEPT ![r] = sent]
    BY <1>1 DEF SendSubmit
  <2>. HIDE DEF over, sent
  <2>5. tx' \in [Requests -> Tx]
    BY <2>1, <2>3, <2>4 DEF TypeOK
  <2>. QED
    BY <1>1, <2>5 DEF SendSubmit, TypeOK
<1>2. CASE SubmitApply(r)
  <2>. DEFINE t == tx[r].token
              o == LockedObject(r)
  <2>1. t \in Tokens
    BY <1>2 DEF SubmitApply, ControlState
  <2>2. row[t] \in Row /\ o \in Row
    BY <2>1 DEF LockedObject, TypeOK, Tx
  <2>3. FlushRow(row[t], o, Submitted(r, o)) \in Row
    BY <2>2, SubmittedType, FlushRowType
  <2>4. tx[r].sort \in Sorts \cup {None}
    BY DEF Tx
  <2>5. [FlushRow(row[t], o, Submitted(r, o)) EXCEPT !.sort = tx[r].sort] \in Row
    BY <2>3, <2>4 DEF Row
  <2>6. SubmittedNew(r) \in Row
    BY SubmittedNewType
  <2>7. row' \in [Tokens -> Row]
    BY <1>2, <2>5, <2>6 DEF SubmitApply, TypeOK
  <2>8. tx' \in [Requests -> Tx]
    BY <1>2, AnsweredType DEF SubmitApply, TypeOK
  <2>. QED
    BY <1>2, <2>7, <2>8 DEF SubmitApply, TypeOK
<1>3. CASE SubmitRejected(r)
  BY <1>3, RefuseType DEF SubmitRejected
<1>. QED
  BY <1>1, <1>2, <1>3 DEF Submit

\* Every step keeps the types.
LEMMA TypeStep ==
  ASSUME TypeOK, ControlState, [Next]_vars
  PROVE  TypeOK'
<1>1. ASSUME NEW r \in Requests, Consent(r) \/ Submit(r) \/ Abort(r)
      PROVE  TypeOK'
  BY <1>1, ConsentTypeStep, SubmitTypeStep, RefuseType DEF Abort
<1>2. ASSUME NEW t \in Tokens, NEW d \in Drafts, NEW n \in Revisions \cup {None},
             SaveDraft(t, d, n)
      PROVE  TypeOK'
  <2>1. [row[t] EXCEPT !.draft = d, !.rev = n] \in Row
    BY DEF TypeOK, Row
  <2>. QED
    BY <1>2, <2>1 DEF SaveDraft, TypeOK
<1>3. ASSUME NEW t \in Tokens, NEW step \in 1..5, UpdateProgress(t, step)
      PROVE  TypeOK'
  <2>1. [row[t] EXCEPT !.step = step] \in Row
    BY DEF TypeOK, Row
  <2>. QED
    BY <1>3, <2>1 DEF UpdateProgress, TypeOK
<1>4. ASSUME NEW t \in Tokens, WithdrawDraft(t)
      PROVE  TypeOK'
  <2>. DEFINE one == 1
  <2>1. one \in 1..5
    OBVIOUS
  <2>2. row' = [row EXCEPT ![t] = [row[t] EXCEPT !.draft = None, !.step = one]]
    BY <1>4 DEF WithdrawDraft, Withdrawn, TypeOK
  <2>. HIDE DEF one
  <2>3. [row[t] EXCEPT !.draft = None, !.step = one] \in Row
    BY <2>1 DEF TypeOK, Row
  <2>. QED
    BY <1>4, <2>2, <2>3 DEF WithdrawDraft, TypeOK
<1>5. ASSUME NEW l \in Links, RevokeLink(l)
      PROVE  TypeOK'
  BY <1>5 DEF RevokeLink, TypeOK
<1>6. CASE UNCHANGED vars
  BY <1>6 DEF vars, TypeOK
<1>. QED
  BY <1>1, <1>2, <1>3, <1>4, <1>5, <1>6 DEF Next

(***************************************************************************)
(* Consents on record only accumulate.                                     *)
(***************************************************************************)

\* A step of a request that is not over, which keeps the other requests and
\* every recorded consent, keeps the admitted participants of every link.
LEMMA AdmittedKept ==
  ASSUME TypeOK, ConsentOnRecord,
         \A q \in Requests : tx[q].pc = "done" => tx'[q] = tx[q],
         \A t \in Tokens : row[t].consent # None => row'[t].consent = row[t].consent,
         NEW l \in Links
  PROVE  Admitted(l) \subseteq Admitted(l)'
<1>1. ASSUME NEW t \in Tokens, row[t].consent # None
      PROVE  tx'[row'[t].consent].link = tx[row[t].consent].link
  <2>1. row[t].consent \in Requests
    BY <1>1 DEF TypeOK, Row
  <2>. QED
    BY <1>1, <2>1 DEF ConsentOnRecord
<1>. QED
  BY <1>1 DEF Admitted

\* The participants admitted through a link are finitely many, and counted by
\* a natural number.
LEMMA AdmittedFinite ==
  ASSUME NEW l \in Links
  PROVE  /\ IsFiniteSet(Admitted(l)) /\ Cardinality(Admitted(l)) \in Nat
         /\ IsFiniteSet(Admitted(l)') /\ Cardinality(Admitted(l)') \in Nat
<1>1. Admitted(l) \in SUBSET Tokens
  BY DEF Admitted
<1>2. Admitted(l)' \in SUBSET Tokens
  BY DEF Admitted
<1>3. IsFiniteSet(Tokens)
  BY ParticipationAssumption
<1>4. IsFiniteSet(Admitted(l)) /\ IsFiniteSet(Admitted(l)')
  BY <1>1, <1>2, <1>3, FS_Subset
<1>. QED
  BY <1>4, FS_CardinalityType

\* A link that keeps its admitted participants does not count fewer of them.
LEMMA AdmittedGrows ==
  ASSUME NEW l \in Links, Admitted(l) \subseteq Admitted(l)'
  PROVE  Cardinality(Admitted(l)) <= Cardinality(Admitted(l)')
<1>1. IsFiniteSet(Admitted(l)')
  BY AdmittedFinite
<1>2. Admitted(l) \in SUBSET (Admitted(l)')
  OBVIOUS
<1>. QED
  BY <1>1, <1>2, FS_Subset

\* The frame of a step of request r (of none, when r = None): what it leaves
\* to the other requests.
Frame(r) ==
  /\ \A q \in Requests : q # r => tx'[q] = tx[q]
  /\ r \in Requests => tx[r].pc # "done"
  /\ \A t \in Tokens :
       /\ Exists(t) => row'[t].status # "absent"
       /\ row[t].consent # None => row'[t].consent = row[t].consent
       /\ rowLock[t] \notin {None, r} => row'[t] = row[t] /\ rowLock'[t] = rowLock[t]

\* Framed steps keep the admitted participants.
LEMMA FrameAdmitted ==
  ASSUME TypeOK, ConsentOnRecord, NEW r, Frame(r), NEW l \in Links
  PROVE  Admitted(l) \subseteq Admitted(l)'
<1>1. \A q \in Requests : tx[q].pc = "done" => tx'[q] = tx[q]
  BY DEF Frame
<1>2. \A t \in Tokens : row[t].consent # None => row'[t].consent = row[t].consent
  BY DEF Frame
<1>. QED
  BY <1>1, <1>2, AdmittedKept

\* Counts that a step does not touch stay covered by the consents on record.
LEMMA CountsKept ==
  ASSUME TypeOK, ConsentOnRecord, UsageNotOvercounted, NEW r, Frame(r),
         NEW l \in Links, usage'[l] = usage[l]
  PROVE  usage'[l] <= Cardinality(Admitted(l)')
<1>1. Cardinality(Admitted(l)) <= Cardinality(Admitted(l)')
  BY FrameAdmitted, AdmittedGrows
<1>2. usage[l] \in Nat /\ usage[l] <= Cardinality(Admitted(l))
  BY DEF TypeOK, UsageNotOvercounted
<1>. QED
  BY <1>1, <1>2, AdmittedFinite

\* A framed step that counts no link keeps both bounds on the counts.
LEMMA UsageKept ==
  ASSUME InductiveInv, NEW r, Frame(r), usage' = usage
  PROVE  UsageNotOvercounted' /\ UsageWithinCapacity'
<1>1. UsageNotOvercounted'
  BY CountsKept DEF UsageNotOvercounted, InductiveInv
<1>2. UsageWithinCapacity'
  BY DEF UsageWithinCapacity, InductiveInv
<1>. QED
  BY <1>1, <1>2

(***************************************************************************)
(* The inductive invariant, row by row and request by request.             *)
(***************************************************************************)

RowInv(t) ==
  /\ ~Exists(t) => row[t] = Absent
  /\ rowLock[t] # None => /\ tx[rowLock[t]].pc \in {"link", "commit"}
                          /\ tx[rowLock[t]].token = t
                          /\ tx[rowLock[t]].snap.status # "absent"
                          /\ Exists(t)
  /\ row[t].consent # None => /\ tx[row[t].consent].pc = "done"
                              /\ tx[row[t].consent].pw
  /\ row[t].status = "completed" => row[t].consent # None

OwnInv(r) ==
  /\ tx[r].snap.status = "absent" => tx[r].snap = Absent
  /\ tx[r].pc \notin {"idle", "done"} => tx[r].token \in Tokens
  /\ tx[r].pc = "link" => tx[r].link \in Links /\ tx[r].snap.consent = None
  /\ tx[r].pc = "retry" => Exists(tx[r].token) /\ tx[r].snap.consent = None
  /\ tx[r].claim => /\ tx[r].pc = "commit"
                    /\ tx[r].link \in Links
                    /\ tx[r].snap.consent = None
  /\ tx[r].pc \in {"link", "commit"} /\ tx[r].snap.status # "absent" =>
       rowLock[tx[r].token] = r /\ tx[r].snap = row[tx[r].token]
  /\ tx[r].pc \in {"link", "commit", "retry"} /\ tx[r].snap.consent = None => tx[r].pw
  /\ tx[r].pc = "submit" /\ tx[r].snap.consent # None => row[tx[r].token].consent # None

OwnSeen(r) ==
  \A l \in Links :
    tx[r].claim /\ tx[r].link = l => tx[r].seen <= Cardinality(Admitted(l))

\* The invariant, taken apart by row, by request and by count.
LEMMA InvSplit ==
  InductiveInv <=> /\ TypeOK /\ UsageNotOvercounted /\ UsageWithinCapacity
                   /\ \A t \in Tokens : RowInv(t)
                   /\ \A r \in Requests : OwnInv(r) /\ OwnSeen(r)
<1>1. AbsentIsEmpty /\ ControlState /\ LockHolder /\ ConsentOnRecord
      /\ ConsentKnewPassword /\ SubmitSawConsent /\ CompletedConsented
      <=> (\A t \in Tokens : RowInv(t)) /\ (\A r \in Requests : OwnInv(r))
  BY DEF AbsentIsEmpty, ControlState, LockHolder, ConsentOnRecord,
         ConsentKnewPassword, SubmitSawConsent, CompletedConsented, RowInv, OwnInv
<1>2. SeenNotOvercounted <=> \A r \in Requests : OwnSeen(r)
  BY DEF SeenNotOvercounted, OwnSeen
<1>. QED
  BY <1>1, <1>2 DEF InductiveInv

\* The same in the next state.
LEMMA InvJoin ==
  ASSUME TypeOK', UsageNotOvercounted', UsageWithinCapacity',
         \A t \in Tokens : RowInv(t)',
         \A r \in Requests : OwnInv(r)' /\ OwnSeen(r)'
  PROVE  InductiveInv'
<1>1. AbsentIsEmpty' /\ LockHolder'
  BY DEF AbsentIsEmpty, LockHolder, RowInv, OwnInv
<1>2. ControlState' /\ SubmitSawConsent'
  BY DEF ControlState, SubmitSawConsent, OwnInv
<1>3. ConsentOnRecord' /\ ConsentKnewPassword' /\ CompletedConsented'
  BY DEF ConsentOnRecord, ConsentKnewPassword, CompletedConsented, RowInv, OwnInv
<1>4. SeenNotOvercounted'
  BY DEF SeenNotOvercounted, OwnSeen
<1>. QED
  BY <1>1, <1>2, <1>3, <1>4 DEF InductiveInv

\* No consent on record is changed by the step.
ConsentsKept ==
  \A t \in Tokens : row[t].consent # None => row'[t].consent = row[t].consent

\* What a step of request r leaves to show: its own part, the rows it may
\* have changed, and the counts.
LEMMA StepOfRequest ==
  ASSUME InductiveInv, TypeOK', NEW r \in Requests \cup {None}, Frame(r),
         UsageNotOvercounted', UsageWithinCapacity',
         \A t \in Tokens : rowLock[t] \in {None, r} => RowInv(t)',
         r \in Requests => OwnInv(r)' /\ OwnSeen(r)'
  PROVE  InductiveInv' /\ ConsentsKept
<1>1. TypeOK /\ ConsentOnRecord
  BY DEF InductiveInv
<1>2. ASSUME NEW t \in Tokens, rowLock[t] \notin {None, r}
      PROVE  RowInv(t)'
  <2>1. row'[t] = row[t] /\ rowLock'[t] = rowLock[t]
    BY <1>2 DEF Frame
  <2>2. RowInv(t)
    BY InvSplit
  <2>3. rowLock[t] \in Requests /\ tx'[rowLock[t]] = tx[rowLock[t]]
    BY <1>1, <1>2 DEF TypeOK, Frame
  <2>4. row[t].consent # None => tx'[row[t].consent] = tx[row[t].consent]
    <3>1. row[t].consent # None => row[t].consent \in Requests
      BY <1>1 DEF TypeOK, Row
    <3>. QED
      BY <2>2, <3>1 DEF RowInv, Frame
  <2>. QED
    BY <2>1, <2>2, <2>3, <2>4 DEF RowInv, Exists
<1>3. ASSUME NEW q \in Requests, q # r
      PROVE  OwnInv(q)' /\ OwnSeen(q)'
  <2>1. tx'[q] = tx[q] /\ OwnInv(q) /\ OwnSeen(q)
    BY <1>3, InvSplit DEF Frame
  <2>2. tx[q].pc \in {"retry", "submit", "link", "commit"} => tx[q].token \in Tokens
    BY <2>1 DEF OwnInv
  <2>3. tx[q].pc \in {"link", "commit"} /\ tx[q].snap.status # "absent" =>
          rowLock'[tx[q].token] = q /\ tx[q].snap = row'[tx[q].token]
    <3>1. None \notin Requests
      BY NoneDistinct
    <3>. QED
      BY <1>3, <2>1, <2>2, <3>1 DEF OwnInv, Frame
  <2>4. tx[q].pc = "retry" => row'[tx[q].token].status # "absent"
    BY <2>1, <2>2 DEF OwnInv, Frame, Exists
  <2>5. tx[q].pc = "submit" /\ tx[q].snap.consent # None =>
          row'[tx[q].token].consent # None
    BY <2>1, <2>2 DEF OwnInv, Frame
  <2>6. OwnInv(q)'
    BY <2>1, <2>3, <2>4, <2>5 DEF OwnInv, Exists
  <2>7. ASSUME NEW l \in Links, tx'[q].claim, tx'[q].link = l
        PROVE  tx'[q].seen <= Cardinality(Admitted(l)')
    <3>1. Cardinality(Admitted(l)) <= Cardinality(Admitted(l)')
      BY <1>1, FrameAdmitted, AdmittedGrows
    <3>2. tx'[q].seen <= Cardinality(Admitted(l)) /\ tx'[q].seen \in Nat
      BY <1>1, <2>1, <2>7 DEF OwnSeen, TypeOK, Tx
    <3>. QED
      BY <3>1, <3>2, AdmittedFinite
  <2>. QED
    BY <2>6, <2>7 DEF OwnSeen
<1>. QED
  BY <1>2, <1>3, InvJoin DEF Frame, ConsentsKept

\* A step of request r that writes no row and no count: its own part is left,
\* and that a lock it takes is on the row it works on.
LEMMA QuietStep ==
  ASSUME InductiveInv, TypeOK', NEW r \in Requests, tx[r].pc # "done",
         \A q \in Requests : q # r => tx'[q] = tx[q],
         row' = row, usage' = usage,
         \A t \in Tokens :
            \/ rowLock'[t] = rowLock[t] /\ rowLock[t] # r
            \/ rowLock'[t] = None /\ rowLock[t] = r
            \/ /\ rowLock'[t] = r /\ rowLock[t] \in {None, r} /\ Exists(t)
               /\ tx'[r].pc \in {"link", "commit"} /\ tx'[r].token = t
               /\ tx'[r].snap.status # "absent",
         OwnInv(r)', OwnSeen(r)'
  PROVE  InductiveInv' /\ ConsentsKept
<1>1. Frame(r)
  BY DEF Frame, Exists
<1>2. UsageNotOvercounted' /\ UsageWithinCapacity'
  BY <1>1, UsageKept
<1>3. ASSUME NEW t \in Tokens, rowLock[t] \in {None, r}
      PROVE  RowInv(t)'
  <2>1. RowInv(t)
    BY InvSplit
  <2>2. row[t].consent # None => tx'[row[t].consent] = tx[row[t].consent]
    <3>1. row[t].consent # None => row[t].consent \in Requests
      BY DEF InductiveInv, TypeOK, Row
    <3>. QED
      BY <2>1, <3>1, <1>1 DEF RowInv, Frame
  <2>. QED
    BY <1>3, <2>1, <2>2 DEF RowInv, Exists
<1>. QED
  BY <1>1, <1>2, <1>3, StepOfRequest

\* A request that stops without writing a row preserves the invariant.
LEMMA RefusePreserves ==
  ASSUME InductiveInv, TypeOK', NEW r \in Requests, tx[r].pc # "done", Refuse(r)
  PROVE  InductiveInv' /\ ConsentsKept
<1>1. tx'[r] = [IdleTx EXCEPT !.pc = "done"]
  BY DEF Refuse, InductiveInv, TypeOK
<1>2. /\ tx'[r].pc = "done" /\ tx'[r].claim = FALSE
      /\ tx'[r].snap = Absent
  BY <1>1 DEF IdleTx
<1>3. OwnInv(r)' /\ OwnSeen(r)'
  BY <1>2 DEF OwnInv, OwnSeen
<1>4. \A q \in Requests : q # r => tx'[q] = tx[q]
  BY DEF Refuse, InductiveInv, TypeOK
<1>5. \A t \in Tokens : \/ rowLock'[t] = rowLock[t] /\ rowLock[t] # r
                        \/ rowLock'[t] = None /\ rowLock[t] = r
  BY DEF Refuse, Released
<1>. QED
  BY <1>3, <1>4, <1>5, QuietStep DEF Refuse

\* Only a consent between its first SELECT and its COMMIT holds a lock.
LEMMA HoldsNoLock ==
  ASSUME InductiveInv, NEW r \in Requests, tx[r].pc \notin {"link", "commit"},
         NEW u \in Tokens
  PROVE  rowLock[u] # r
<1>1. RowInv(u)
  BY InvSplit
<1>. QED
  BY <1>1, NoneDistinct DEF RowInv

\* The arrival of POST consent preserves the invariant.
LEMMA SendConsentPreserves ==
  ASSUME InductiveInv, TypeOK', NEW r \in Requests,
         NEW t \in Tokens, NEW l \in Links \cup {None}, NEW pw \in BOOLEAN,
         SendConsent(r, t, l, pw)
  PROVE  InductiveInv' /\ ConsentsKept
<1>1. tx[r].pc = "idle"
  BY DEF SendConsent
<1>2. tx'[r] = [IdleTx EXCEPT !.pc = "consent", !.token = t, !.link = l, !.pw = pw]
  BY DEF SendConsent, InductiveInv, TypeOK
<1>3. /\ tx'[r].pc = "consent" /\ tx'[r].claim = FALSE
      /\ tx'[r].snap = Absent /\ tx'[r].token = t
  BY <1>2 DEF IdleTx
<1>4. OwnInv(r)' /\ OwnSeen(r)'
  BY <1>3 DEF OwnInv, OwnSeen
<1>5. \A q \in Requests : q # r => tx'[q] = tx[q]
  BY DEF SendConsent, InductiveInv, TypeOK
<1>6. \A u \in Tokens : rowLock'[u] = rowLock[u] /\ rowLock[u] # r
  BY <1>1, HoldsNoLock DEF SendConsent
<1>. QED
  BY <1>1, <1>4, <1>5, <1>6, QuietStep DEF SendConsent

\* The locked lookup of record_consent preserves the invariant.
LEMMA ConsentLockPreserves ==
  ASSUME InductiveInv, TypeOK', NEW r \in Requests, ConsentLock(r)
  PROVE  InductiveInv' /\ ConsentsKept
<1>. DEFINE t == tx[r].token
            p == IF row[t].consent = None /\ tx[r].link # None
                 THEN "link" ELSE "commit"
<1>1. tx[r].pc = "consent" /\ tx[r] \in Tx /\ row \in [Tokens -> Row]
  BY DEF ConsentLock, InductiveInv, TypeOK
<1>2. t \in Tokens /\ tx[r].claim = FALSE
  BY <1>1, InvSplit DEF OwnInv, Tx
<1>3. tx'[r] = [tx[r] EXCEPT !.snap = row[t], !.pc = p]
  BY DEF ConsentLock, FirstConsent, InductiveInv, TypeOK
<1>4. /\ tx'[r].snap = row[t] /\ tx'[r].pc = p /\ tx'[r].token = t
      /\ tx'[r].claim = FALSE /\ tx'[r].link = tx[r].link /\ tx'[r].pw = tx[r].pw
  BY <1>1, <1>2, <1>3 DEF Tx
<1>5. RowInv(t) /\ (row[t].consent = None => tx[r].pw)
  BY <1>2, InvSplit DEF ConsentLock, FirstConsent
<1>6. rowLock' = IF Exists(t) THEN [rowLock EXCEPT ![t] = r] ELSE rowLock
  BY DEF ConsentLock
<1>7. Exists(t) => rowLock[t] = None /\ rowLock'[t] = r
  BY <1>2, <1>6 DEF ConsentLock, Free, InductiveInv, TypeOK
<1>8. p \in {"link", "commit"} /\ (p = "link" => tx[r].link \in Links
                                              /\ row[t].consent = None)
  BY <1>1 DEF Tx
<1>9. OwnInv(r)'
  BY <1>2, <1>4, <1>5, <1>7, <1>8 DEF OwnInv, RowInv, Exists, ConsentLock
<1>10. OwnSeen(r)'
  BY <1>4 DEF OwnSeen
<1>11. \A q \in Requests : q # r => tx'[q] = tx[q]
  BY DEF ConsentLock, InductiveInv, TypeOK
<1>12. ASSUME NEW u \in Tokens
       PROVE  \/ rowLock'[u] = rowLock[u] /\ rowLock[u] # r
              \/ /\ rowLock'[u] = r /\ rowLock[u] \in {None, r} /\ Exists(u)
                 /\ tx'[r].pc \in {"link", "commit"} /\ tx'[r].token = u
                   /\ tx'[r].snap.status # "absent"
  <2>1. rowLock[u] # r
    BY <1>1, HoldsNoLock
  <2>. QED
    BY <1>2, <1>4, <1>6, <1>7, <1>8, <2>1 DEF InductiveInv, TypeOK, Exists
<1>. HIDE DEF t, p
<1>. QED
  BY <1>1, <1>9, <1>10, <1>11, <1>12, QuietStep DEF ConsentLock

\* The unlocked read of the link preserves the invariant.
LEMMA ValidateLinkPreserves ==
  ASSUME InductiveInv, TypeOK', NEW r \in Requests, ValidateLink(r)
  PROVE  InductiveInv' /\ ConsentsKept
<1>1. tx[r].pc = "link" /\ tx[r] \in Tx /\ OwnInv(r)
  BY InvSplit DEF ValidateLink, InductiveInv, TypeOK
<1>2. CASE ~linkLive[tx[r].link]
  BY <1>1, <1>2, RefusePreserves DEF ValidateLink
<1>3. CASE linkLive[tx[r].link]
  <2>. DEFINE n == usage[tx[r].link]
              yes == TRUE
  <2>1. tx[r].link \in Links /\ tx[r].token \in Tokens /\ tx[r].snap.consent = None
    BY <1>1 DEF OwnInv
  <2>2. tx'[r] = [tx[r] EXCEPT !.seen = n, !.pc = "commit", !.claim = yes]
    BY <1>3 DEF ValidateLink, InductiveInv, TypeOK
  <2>. HIDE DEF yes
  <2>3. /\ tx'[r].pc = "commit" /\ tx'[r].seen = n /\ tx'[r].snap = tx[r].snap
        /\ tx'[r].token = tx[r].token /\ tx'[r].link = tx[r].link /\ tx'[r].pw = tx[r].pw
    BY <1>1, <2>2 DEF Tx
  <2>4. row' = row /\ rowLock' = rowLock /\ usage' = usage
    BY <1>3 DEF ValidateLink
  <2>5. OwnInv(r)'
    BY <1>1, <2>1, <2>3, <2>4 DEF OwnInv
  <2>6. \A q \in Requests : q # r => tx'[q] = tx[q]
    BY <1>3 DEF ValidateLink, InductiveInv, TypeOK
  <2>7. Frame(r)
    BY <1>1, <2>4, <2>6 DEF Frame, Exists
  <2>8. ASSUME NEW l \in Links, tx'[r].link = l
        PROVE  tx'[r].seen <= Cardinality(Admitted(l)')
    BY <2>3, <2>4, <2>7, <2>8, CountsKept DEF InductiveInv
  <2>9. OwnSeen(r)'
    BY <2>8 DEF OwnSeen
  <2>10. ASSUME NEW u \in Tokens
         PROVE  \/ rowLock'[u] = rowLock[u] /\ rowLock[u] # r
                \/ /\ rowLock'[u] = r /\ rowLock[u] \in {None, r} /\ Exists(u)
                   /\ tx'[r].pc \in {"link", "commit"} /\ tx'[r].token = u
                   /\ tx'[r].snap.status # "absent"
    <3>1. RowInv(u)
      BY InvSplit
    <3>. QED
      BY <2>3, <2>4, <3>1, NoneDistinct DEF RowInv
  <2>. HIDE DEF n
  <2>. QED
    BY <1>1, <2>4, <2>5, <2>6, <2>9, <2>10, QuietStep
<1>. QED
  BY <1>2, <1>3

\* The ROLLBACK after a colliding INSERT preserves the invariant.
LEMMA ConsentCollisionPreserves ==
  ASSUME InductiveInv, TypeOK', NEW r \in Requests, ConsentCollision(r)
  PROVE  InductiveInv' /\ ConsentsKept
<1>1. /\ tx[r].pc = "commit" /\ tx[r] \in Tx /\ OwnInv(r)
      /\ tx[r].snap.status = "absent" /\ Exists(tx[r].token)
  BY InvSplit DEF ConsentCollision, InductiveInv, TypeOK
<1>2. tx[r].token \in Tokens /\ tx[r].snap = Absent
  BY <1>1 DEF OwnInv
<1>. DEFINE no == FALSE
            zero == 0
<1>3. tx'[r] = [tx[r] EXCEPT !.pc = "retry", !.claim = no, !.seen = zero]
  BY DEF ConsentCollision, InductiveInv, TypeOK
<1>. HIDE DEF zero
<1>4. /\ tx'[r].pc = "retry" /\ tx'[r].claim = no /\ tx'[r].snap = tx[r].snap
      /\ tx'[r].token = tx[r].token /\ tx'[r].pw = tx[r].pw
  <2>. HIDE DEF no
  <2>. QED
    BY <1>1, <1>3 DEF Tx
<1>5. tx[r].snap.consent = None
  BY <1>2 DEF Absent
<1>6. row' = row /\ rowLock' = rowLock /\ usage' = usage
  BY DEF ConsentCollision
<1>7. OwnInv(r)'
  BY <1>1, <1>2, <1>4, <1>5, <1>6 DEF OwnInv, Exists
<1>8. OwnSeen(r)'
  BY <1>4 DEF OwnSeen
<1>9. \A q \in Requests : q # r => tx'[q] = tx[q]
  BY DEF ConsentCollision, InductiveInv, TypeOK
<1>10. \A u \in Tokens : rowLock'[u] = rowLock[u] /\ rowLock[u] # r
  <2>1. ASSUME NEW u \in Tokens, rowLock[u] = r PROVE FALSE
    <3>1. RowInv(u)
      BY InvSplit
    <3>. QED
      BY <1>1, <2>1, <3>1, NoneDistinct DEF RowInv
  <2>. QED
    BY <1>6, <2>1
<1>. HIDE DEF no
<1>. QED
  BY <1>1, <1>6, <1>7, <1>8, <1>9, <1>10, QuietStep

\* The unlocked lookup of process_submission preserves the invariant.
LEMMA SendSubmitPreserves ==
  ASSUME InductiveInv, TypeOK', NEW r \in Requests, NEW t \in Tokens,
         NEW final \in BOOLEAN, NEW a \in Answers, NEW s \in Sorts,
         SendSubmit(r, t, final, a, s)
  PROVE  InductiveInv' /\ ConsentsKept
<1>1. tx[r].pc = "idle" /\ row \in [Tokens -> Row] /\ RowInv(t)
  BY InvSplit DEF SendSubmit, InductiveInv, TypeOK
<1>2. OwnInv(r)' /\ OwnSeen(r)'
  <2>1. CASE row[t].status = "completed"
    <3>1. tx'[r] = [IdleTx EXCEPT !.pc = "done"]
      BY <2>1 DEF SendSubmit, InductiveInv, TypeOK
    <3>2. tx'[r].pc = "done" /\ tx'[r].claim = FALSE /\ tx'[r].snap = Absent
      BY <3>1 DEF IdleTx
    <3>. QED
      BY <3>2 DEF OwnInv, OwnSeen
  <2>2. CASE row[t].status # "completed"
    <3>1. tx'[r] = [IdleTx EXCEPT !.pc = "submit", !.token = t, !.final = final,
                      !.answers = a, !.sort = s, !.snap = row[t]]
      BY <2>2 DEF SendSubmit, InductiveInv, TypeOK
    <3>2. /\ tx'[r].pc = "submit" /\ tx'[r].claim = FALSE
          /\ tx'[r].snap = row[t] /\ tx'[r].token = t
      BY <3>1 DEF IdleTx
    <3>3. row' = row
      BY DEF SendSubmit
    <3>. QED
      BY <1>1, <3>2, <3>3 DEF OwnInv, OwnSeen, RowInv, Exists
  <2>. QED
    BY <2>1, <2>2
<1>3. \A q \in Requests : q # r => tx'[q] = tx[q]
  BY DEF SendSubmit, InductiveInv, TypeOK
<1>4. \A u \in Tokens : rowLock'[u] = rowLock[u] /\ rowLock[u] # r
  BY <1>1, HoldsNoLock DEF SendSubmit
<1>. QED
  BY <1>1, <1>2, <1>3, <1>4, QuietStep DEF SendSubmit

(***************************************************************************)
(* Steps that write a row.                                                 *)
(***************************************************************************)

\* A step that writes an unlocked row, but neither its status nor its
\* consent, or writes no row at all, and moves no request.
LEMMA RowStep ==
  ASSUME InductiveInv, TypeOK', tx' = tx, rowLock' = rowLock, usage' = usage,
         \A t \in Tokens :
            \/ row'[t] = row[t]
            \/ /\ rowLock[t] = None /\ Exists(t)
               /\ row'[t].status = row[t].status
               /\ row'[t].consent = row[t].consent
  PROVE  InductiveInv' /\ ConsentsKept
<1>1. None \notin Requests
  BY NoneDistinct
<1>2. Frame(None)
  BY <1>1 DEF Frame, Exists
<1>3. UsageNotOvercounted' /\ UsageWithinCapacity'
  BY <1>2, UsageKept
<1>4. ASSUME NEW t \in Tokens, rowLock[t] \in {None, None}
      PROVE  RowInv(t)'
  <2>1. RowInv(t)
    BY InvSplit
  <2>. QED
    BY <1>4, <2>1 DEF RowInv, Exists
<1>. QED
  BY <1>1, <1>2, <1>3, <1>4, StepOfRequest

\* save_draft preserves the invariant.
LEMMA SaveDraftPreserves ==
  ASSUME InductiveInv, TypeOK', NEW t \in Tokens, NEW d, NEW n, SaveDraft(t, d, n)
  PROVE  InductiveInv' /\ ConsentsKept
<1>1. row[t] \in Row /\ rowLock[t] = None /\ Exists(t)
  BY DEF SaveDraft, IsOpen, Free, Exists, InductiveInv, TypeOK
<1>2. row'[t] = [row[t] EXCEPT !.draft = d, !.rev = n]
  BY DEF SaveDraft, InductiveInv, TypeOK
<1>3. row'[t].status = row[t].status /\ row'[t].consent = row[t].consent
  BY <1>1, <1>2 DEF Row
<1>4. \A u \in Tokens : u # t => row'[u] = row[u]
  BY DEF SaveDraft, InductiveInv, TypeOK
<1>. QED
  BY <1>1, <1>3, <1>4, RowStep DEF SaveDraft

\* update_progress preserves the invariant.
LEMMA UpdateProgressPreserves ==
  ASSUME InductiveInv, TypeOK', NEW t \in Tokens, NEW step, UpdateProgress(t, step)
  PROVE  InductiveInv' /\ ConsentsKept
<1>1. row[t] \in Row /\ rowLock[t] = None /\ Exists(t)
  BY DEF UpdateProgress, Free, InductiveInv, TypeOK
<1>2. row'[t] = [row[t] EXCEPT !.step = step]
  BY DEF UpdateProgress, InductiveInv, TypeOK
<1>3. row'[t].status = row[t].status /\ row'[t].consent = row[t].consent
  BY <1>1, <1>2 DEF Row
<1>4. \A u \in Tokens : u # t => row'[u] = row[u]
  BY DEF UpdateProgress, InductiveInv, TypeOK
<1>. QED
  BY <1>1, <1>3, <1>4, RowStep DEF UpdateProgress

\* withdraw_draft preserves the invariant.
LEMMA WithdrawDraftPreserves ==
  ASSUME InductiveInv, TypeOK', NEW t \in Tokens, WithdrawDraft(t)
  PROVE  InductiveInv' /\ ConsentsKept
<1>. DEFINE one == 1
<1>1. row[t] \in Row /\ rowLock[t] = None /\ Exists(t)
  BY DEF WithdrawDraft, IsOpen, Free, Exists, InductiveInv, TypeOK
<1>2. row'[t] = [row[t] EXCEPT !.draft = None, !.step = one]
  BY DEF WithdrawDraft, Withdrawn, InductiveInv, TypeOK
<1>. HIDE DEF one
<1>3. row'[t].status = row[t].status /\ row'[t].consent = row[t].consent
  BY <1>1, <1>2 DEF Row
<1>4. \A u \in Tokens : u # t => row'[u] = row[u]
  BY DEF WithdrawDraft, InductiveInv, TypeOK
<1>. QED
  BY <1>1, <1>3, <1>4, RowStep DEF WithdrawDraft

\* What an answered request keeps.
LEMMA AnsweredFields ==
  ASSUME NEW r
  PROVE  /\ Answered(r).pc = "done" /\ Answered(r).claim = FALSE
         /\ Answered(r).snap = Absent
         /\ Answered(r).pw = tx[r].pw /\ Answered(r).link = tx[r].link
<1>1. ASSUME NEW x \in Tx, NEW l, NEW w
      PROVE  LET y == [x EXCEPT !.pc = "done", !.link = l, !.pw = w]
             IN  /\ y.pc = "done" /\ y.claim = x.claim /\ y.snap = x.snap
                 /\ y.pw = w /\ y.link = l
  BY DEF Tx
<1>2. IdleTx.claim = FALSE /\ IdleTx.snap = Absent /\ IdleTx \in Tx
  BY AbsentType DEF IdleTx
<1>. QED
  BY <1>1, <1>2 DEF Answered

\* What is left to show of a request that writes its row and is answered: it
\* keeps a consent on record, records its own only when it knew the password,
\* completes only a consented row, and counts no link too often.
LEMMA AnsweredPreserves ==
  ASSUME InductiveInv, TypeOK', NEW r \in Requests,
         tx[r].pc \in {"commit", "retry", "submit"},
         tx' = [tx EXCEPT ![r] = Answered(r)],
         \A u \in Tokens : rowLock'[u] = IF rowLock[u] = r THEN None ELSE rowLock[u],
         NEW t \in Tokens, rowLock[t] \in {None, r},
         \A u \in Tokens : u # t => row'[u] = row[u],
         row'[t].status # "absent",
         row[t].consent # None => row'[t].consent = row[t].consent,
         row[t].consent = None => \/ row'[t].consent = None
                                  \/ row'[t].consent = r /\ tx[r].pw,
         row'[t].status = "completed" => row'[t].consent # None,
         Frame(r) => UsageNotOvercounted' /\ UsageWithinCapacity'
  PROVE  InductiveInv' /\ ConsentsKept
<1>1. tx'[r] = Answered(r) /\ \A q \in Requests : q # r => tx'[q] = tx[q]
  BY DEF InductiveInv, TypeOK
<1>2. /\ tx'[r].pc = "done" /\ tx'[r].claim = FALSE /\ tx'[r].snap = Absent
      /\ tx'[r].pw = tx[r].pw
  <2>1. /\ Answered(r).pc = "done" /\ Answered(r).claim = FALSE
        /\ Answered(r).snap = Absent /\ Answered(r).pw = tx[r].pw
    BY AnsweredFields
  <2>2. tx'[r] = Answered(r)
    BY <1>1
  <2>3. tx'[r].pc = "done" /\ tx'[r].snap = Absent
    BY <2>1, <2>2
  <2>4. tx'[r].claim = FALSE
    BY <2>1, <2>2, Zenon
  <2>5. tx'[r].pw = tx[r].pw
    BY <2>1, <2>2, Zenon
  <2>. QED
    BY <2>3, <2>4, <2>5
<1>3. Frame(r)
  <2>1. ASSUME NEW u \in Tokens
        PROVE  /\ Exists(u) => row'[u].status # "absent"
               /\ row[u].consent # None => row'[u].consent = row[u].consent
    <3>1. CASE u = t
      BY <3>1
    <3>2. CASE u # t
      BY <3>2 DEF Exists
    <3>. QED
      BY <3>1, <3>2
  <2>2. ASSUME NEW u \in Tokens, rowLock[u] \notin {None, r}
        PROVE  row'[u] = row[u] /\ rowLock'[u] = rowLock[u]
    BY <2>2
  <2>3. tx[r].pc # "done"
    OBVIOUS
  <2>. QED
    BY <1>1, <2>1, <2>2, <2>3 DEF Frame
<1>4. OwnInv(r)' /\ OwnSeen(r)'
  BY <1>2 DEF OwnInv, OwnSeen
<1>5. ASSUME NEW u \in Tokens, rowLock[u] \in {None, r}
      PROVE  RowInv(u)'
  <2>1. RowInv(u) /\ rowLock'[u] = None
    BY <1>5, InvSplit
  <2>2. row[u].consent # None => tx'[row[u].consent] = tx[row[u].consent]
    <3>1. row[u].consent # None => row[u].consent \in Requests
      BY DEF InductiveInv, TypeOK, Row
    <3>. QED
      BY <1>1, <2>1, <3>1 DEF RowInv
  <2>3. CASE u # t
    BY <2>1, <2>2, <2>3 DEF RowInv, Exists
  <2>4. CASE u = t
    BY <1>2, <2>1, <2>2, <2>4 DEF RowInv, Exists
  <2>. QED
    BY <2>3, <2>4
<1>. QED
  BY <1>3, <1>4, <1>5, StepOfRequest

\* The columns of a flushed row, and of the objects the requests assign to.
LEMMA FlushFields ==
  ASSUME NEW c, NEW old, NEW obj
  PROVE  /\ FlushRow(c, old, obj).status
              = FlushedColumn(c.status, old.status, obj.status)
         /\ FlushRow(c, old, obj).consent
              = FlushedColumn(c.consent, old.consent, obj.consent)
BY DEF FlushRow

\* The update path of consent: what it does to status and consent.
LEMMA ReconsentedFields ==
  ASSUME NEW r \in Requests, NEW obj \in Row
  PROVE  /\ Reconsented(r, obj).status = obj.status
         /\ Reconsented(r, obj).consent
              = IF obj.consent # None THEN obj.consent ELSE r
<1>1. ASSUME NEW p
      PROVE  /\ [obj EXCEPT !.consent = r, !.presort = p].status = obj.status
             /\ [obj EXCEPT !.consent = r, !.presort = p].consent = r
  BY DEF Row
<1>2. CASE obj.consent = None
  BY <1>1, <1>2 DEF Reconsented
<1>3. CASE obj.consent # None
  BY <1>3 DEF Reconsented
<1>. QED
  BY <1>2, <1>3

\* A submission: what it does to status and consent.
LEMMA SubmittedFields ==
  ASSUME NEW r \in Requests, NEW obj \in Row
  PROVE  /\ Submitted(r, obj).consent = obj.consent
         /\ Submitted(r, obj).status = IF tx[r].final THEN "completed" ELSE obj.status
<1>1. ASSUME NEW p, NEW n
      PROVE  LET x == [obj EXCEPT !.presort = p]
                 y == [x EXCEPT !.status = "completed", !.step = n, !.draft = None] IN
             /\ x.consent = obj.consent /\ x.status = obj.status
             /\ y.consent = obj.consent /\ y.status = "completed"
  BY DEF Row
<1>. QED
  BY <1>1 DEF Submitted

\* The second lookup and UPDATE of a collided consent preserve the invariant.
LEMMA ConsentRetryPreserves ==
  ASSUME InductiveInv, TypeOK', NEW r \in Requests, ConsentRetry(r)
  PROVE  InductiveInv' /\ ConsentsKept
<1>. DEFINE t == tx[r].token
            obj == Reconsented(r, row[t])
<1>1. tx[r].pc = "retry" /\ OwnInv(r)
  BY InvSplit DEF ConsentRetry
<1>2. t \in Tokens /\ tx[r].pw /\ rowLock[t] = None
  BY <1>1 DEF OwnInv, ConsentRetry, Free
<1>3. row[t] \in Row /\ RowInv(t) /\ Exists(t)
  BY <1>1, <1>2, InvSplit DEF InductiveInv, TypeOK, OwnInv
<1>4. row'[t] = FlushRow(row[t], row[t], obj)
  BY <1>2 DEF ConsentRetry, InductiveInv, TypeOK
<1>5. /\ row'[t].status = row[t].status
      /\ row'[t].consent = IF row[t].consent # None THEN row[t].consent ELSE r
  BY <1>3, <1>4, FlushFields, ReconsentedFields DEF FlushedColumn
<1>6. \A u \in Tokens : u # t => row'[u] = row[u]
  BY <1>2 DEF ConsentRetry, InductiveInv, TypeOK
<1>7. tx' = [tx EXCEPT ![r] = Answered(r)] /\ rowLock' = rowLock /\ usage' = usage
  BY DEF ConsentRetry
<1>8. \A u \in Tokens : rowLock'[u] = IF rowLock[u] = r THEN None ELSE rowLock[u]
  BY <1>1, <1>7, HoldsNoLock
<1>9. Frame(r) => UsageNotOvercounted' /\ UsageWithinCapacity'
  BY <1>7, UsageKept
<1>. HIDE DEF t, obj
<1>. QED
  BY <1>1, <1>2, <1>3, <1>5, <1>6, <1>7, <1>8, <1>9, NoneDistinct,
     AnsweredPreserves DEF Exists, RowInv

\* The locked lookup, UPDATE or INSERT, and COMMIT of a submission preserve
\* the invariant.
LEMMA SubmitApplyPreserves ==
  ASSUME InductiveInv, TypeOK', NEW r \in Requests, SubmitApply(r)
  PROVE  InductiveInv' /\ ConsentsKept
<1>. DEFINE t == tx[r].token
            obj == LockedObject(r)
            s == tx[r].sort
<1>1. tx[r].pc = "submit" /\ OwnInv(r)
  BY InvSplit DEF SubmitApply
<1>2. t \in Tokens /\ rowLock[t] = None /\ RowInv(t)
  BY <1>1, InvSplit DEF OwnInv, SubmitApply, Free
<1>3. row[t] \in Row /\ obj \in Row /\ s \in Sorts \cup {None}
  BY <1>2 DEF InductiveInv, TypeOK, Tx, LockedObject
<1>4. obj.status # "completed" /\ (tx[r].final => obj.consent # None)
  BY DEF SubmitApply, SubmitAccepted
<1>5. obj.consent # None => row[t].consent # None
  BY <1>1 DEF LockedObject, OwnInv
<1>6. \A u \in Tokens : u # t => row'[u] = row[u]
  BY <1>2 DEF SubmitApply, InductiveInv, TypeOK
<1>7. /\ row'[t].status # "absent"
      /\ row[t].consent # None => row'[t].consent = row[t].consent
      /\ row[t].consent = None => row'[t].consent = None
      /\ row'[t].status = "completed" => row'[t].consent # None
  <2>1. CASE ~Exists(t)
    <3>1. row'[t] = SubmittedNew(r)
      BY <1>2, <2>1 DEF SubmitApply, InductiveInv, TypeOK
    <3>2. row'[t].status = "started" /\ row'[t].consent = None
      BY <3>1 DEF SubmittedNew, Absent
    <3>3. row[t].consent = None
      BY <1>2, <2>1 DEF RowInv, Absent
    <3>. QED
      BY <3>2, <3>3
  <2>2. CASE Exists(t)
    <3>. DEFINE new == FlushRow(row[t], obj, Submitted(r, obj))
    <3>1. row'[t] = [new EXCEPT !.sort = s]
      BY <1>2, <2>2 DEF SubmitApply, InductiveInv, TypeOK
    <3>2. new \in Row
      BY <1>3, SubmittedType, FlushRowType DEF InductiveInv
    <3>3. /\ new.status = FlushedColumn(row[t].status, obj.status,
                              IF tx[r].final THEN "completed" ELSE obj.status)
          /\ new.consent = row[t].consent
      BY <1>3, FlushFields, SubmittedFields DEF FlushedColumn
    <3>. HIDE DEF new
    <3>4. row'[t].status = new.status /\ row'[t].consent = new.consent
      BY <3>1, <3>2 DEF Row
    <3>. HIDE DEF t, obj, s
    <3>5. new.status = IF tx[r].final THEN "completed" ELSE row[t].status
      BY <1>4, <3>3 DEF FlushedColumn
    <3>. QED
      BY <1>2, <1>4, <1>5, <2>2, <3>3, <3>4, <3>5 DEF RowInv, Exists
  <2>. QED
    BY <2>1, <2>2
<1>8. tx' = [tx EXCEPT ![r] = Answered(r)] /\ rowLock' = rowLock /\ usage' = usage
  BY DEF SubmitApply
<1>9. \A u \in Tokens : rowLock'[u] = IF rowLock[u] = r THEN None ELSE rowLock[u]
  BY <1>1, <1>8, HoldsNoLock
<1>10. Frame(r) => UsageNotOvercounted' /\ UsageWithinCapacity'
  BY <1>8, UsageKept
<1>. HIDE DEF t, obj, s
<1>. QED
  BY <1>1, <1>2, <1>6, <1>7, <1>8, <1>9, <1>10, AnsweredPreserves

\* A consent that counts its link adds one participant to the link, and no
\* other count: the count it had in hand was covered already.
LEMMA ClaimCovered ==
  ASSUME InductiveInv, NEW r \in Requests, Frame(r), tx[r].claim, HasRoom(r),
         NEW t \in Tokens, row[t].consent = None, row'[t].consent = r,
         tx'[r].link = tx[r].link,
         usage' = [usage EXCEPT ![tx[r].link] = tx[r].seen + 1]
  PROVE  UsageNotOvercounted' /\ UsageWithinCapacity'
<1>. DEFINE l == tx[r].link
<1>1. l \in Links /\ tx[r].seen \in Nat /\ usage \in [Links -> Nat]
  BY InvSplit DEF OwnInv, InductiveInv, TypeOK, Tx
<1>2. tx[r].seen <= Cardinality(Admitted(l))
  BY <1>1, InvSplit DEF OwnSeen
<1>3. usage'[l] = tx[r].seen + 1 /\ \A k \in Links : k # l => usage'[k] = usage[k]
  BY <1>1
<1>4. Cardinality(Admitted(l)) + 1 <= Cardinality(Admitted(l)')
  <2>. SUFFICES ASSUME NEW k \in Links, k = l
                PROVE  Cardinality(Admitted(k)) + 1 <= Cardinality(Admitted(k)')
    BY <1>1
  <2>1. t \notin Admitted(k)
    BY DEF Admitted
  <2>2. t \in Admitted(k)'
    BY NoneDistinct DEF Admitted
  <2>3. Admitted(k) \cup {t} \in SUBSET (Admitted(k)')
    BY <2>2, FrameAdmitted DEF InductiveInv
  <2>4. IsFiniteSet(Admitted(k)) /\ IsFiniteSet(Admitted(k)')
    BY AdmittedFinite
  <2>5. Cardinality(Admitted(k) \cup {t}) = Cardinality(Admitted(k)) + 1
    BY <2>1, <2>4, FS_AddElement
  <2>6. Cardinality(Admitted(k) \cup {t}) <= Cardinality(Admitted(k)')
    BY <2>3, <2>4, FS_Subset
  <2>. QED
    BY <2>5, <2>6
<1>5. ASSUME NEW k \in Links
      PROVE  usage'[k] <= Cardinality(Admitted(k)')
  <2>1. CASE k # l
    BY <1>3, <2>1, CountsKept DEF InductiveInv
  <2>2. CASE k = l
    <3>1. Cardinality(Admitted(k)) + 1 <= Cardinality(Admitted(k)')
      BY <1>4, <2>2
    <3>2. tx[r].seen <= Cardinality(Admitted(k)) /\ usage'[k] = tx[r].seen + 1
      BY <1>2, <1>3, <2>2
    <3>. QED
      BY <1>1, <3>1, <3>2, AdmittedFinite
  <2>. QED
    BY <2>1, <2>2
<1>6. ASSUME NEW k \in Links, Capacity[k] # None
      PROVE  usage'[k] <= Capacity[k]
  <2>1. CASE k # l
    BY <1>3, <1>6, <2>1 DEF InductiveInv, UsageWithinCapacity
  <2>2. CASE k = l
    <3>1. tx[r].seen < Capacity[k] /\ Capacity[k] \in Nat
      BY <1>1, <1>6, <2>2, ParticipationAssumption DEF HasRoom
    <3>. QED
      BY <1>1, <1>3, <2>2, <3>1
  <2>. QED
    BY <2>1, <2>2
<1>. QED
  BY <1>5, <1>6 DEF UsageNotOvercounted, UsageWithinCapacity

\* The INSERT or UPDATE and COMMIT of a consent preserve the invariant.
LEMMA ConsentCommitPreserves ==
  ASSUME InductiveInv, TypeOK', NEW r \in Requests, ConsentCommit(r)
  PROVE  InductiveInv' /\ ConsentsKept
<1>. DEFINE t == tx[r].token
            loaded == tx[r].snap
            fresh == Consented(r)
            obj == Reconsented(r, loaded)
<1>1. tx[r].pc = "commit" /\ OwnInv(r)
  BY InvSplit DEF ConsentCommit
<1>2. t \in Tokens /\ RowInv(t) /\ row[t] \in Row /\ loaded \in Row
  BY <1>1, InvSplit DEF OwnInv, InductiveInv, TypeOK, Tx
<1>3. \A u \in Tokens : u # t => row'[u] = row[u]
  BY <1>2 DEF ConsentCommit, InductiveInv, TypeOK
<1>4. /\ rowLock[t] \in {None, r}
      /\ row'[t].status # "absent"
      /\ row[t].consent = loaded.consent
      /\ row'[t].consent = IF loaded.consent # None THEN loaded.consent ELSE r
      /\ row'[t].status = "completed" => row'[t].consent # None
  <2>1. CASE loaded.status = "absent"
    <3>1. ~Exists(t) /\ row'[t] = fresh
      BY <1>2, <2>1 DEF ConsentCommit, InductiveInv, TypeOK
    <3>2. fresh.status = "started" /\ fresh.consent = r
      BY DEF Consented, Absent
    <3>3. loaded = Absent /\ row[t] = Absent /\ rowLock[t] = None
      BY <1>1, <1>2, <2>1, <3>1 DEF OwnInv, RowInv
    <3>4. Absent.consent = None
      BY DEF Absent
    <3>. HIDE DEF t, loaded, fresh, obj
    <3>. QED
      BY <3>1, <3>2, <3>3, <3>4, NoneDistinct
  <2>2. CASE loaded.status # "absent"
    <3>1. row'[t] = FlushRow(row[t], loaded, obj)
      BY <1>2, <2>2 DEF ConsentCommit, InductiveInv, TypeOK
    <3>2. rowLock[t] = r /\ loaded = row[t]
      BY <1>1, <2>2 DEF OwnInv
    <3>3. /\ row'[t].status = row[t].status
          /\ row'[t].consent = IF loaded.consent # None THEN loaded.consent ELSE r
      BY <1>2, <3>1, <3>2, FlushFields, ReconsentedFields DEF FlushedColumn
    <3>. HIDE DEF t, loaded, fresh, obj
    <3>. QED
      BY <1>2, <2>2, <3>2, <3>3, NoneDistinct DEF RowInv
  <2>. QED
    BY <2>1, <2>2
<1>5. loaded.consent = None => tx[r].pw
  BY <1>1 DEF OwnInv
<1>6. /\ tx' = [tx EXCEPT ![r] = Answered(r)] /\ rowLock' = Released(r)
      /\ usage' = ClaimedUsage(r) /\ (tx[r].claim => HasRoom(r))
  BY DEF ConsentCommit
<1>7. \A u \in Tokens : rowLock'[u] = IF rowLock[u] = r THEN None ELSE rowLock[u]
  BY <1>6 DEF Released
<1>8. ASSUME Frame(r)
      PROVE  UsageNotOvercounted' /\ UsageWithinCapacity'
  <2>1. CASE ~tx[r].claim
    BY <1>6, <1>8, <2>1, UsageKept DEF ClaimedUsage
  <2>2. CASE tx[r].claim
    <3>1. loaded.consent = None
      BY <1>1, <2>2 DEF OwnInv
    <3>2. tx'[r].link = tx[r].link
      <4>1. tx'[r] = Answered(r)
        BY <1>6 DEF InductiveInv, TypeOK
      <4>. QED
        BY <4>1, AnsweredFields
    <3>3. usage' = [usage EXCEPT ![tx[r].link] = tx[r].seen + 1]
      BY <1>6, <2>2 DEF ClaimedUsage
    <3>4. row[t].consent = None /\ row'[t].consent = r
      BY <1>4, <3>1
    <3>. HIDE DEF t, loaded, fresh, obj
    <3>. QED
      BY <1>2, <1>6, <1>8, <2>2, <3>2, <3>3, <3>4, ClaimCovered
  <2>. QED
    BY <2>1, <2>2
<1>. HIDE DEF t, loaded, fresh, obj
<1>9. /\ row[t].consent # None => row'[t].consent = row[t].consent
      /\ row[t].consent = None => row'[t].consent = r /\ tx[r].pw
  BY <1>4, <1>5
<1>10. tx[r].pc \in {"commit", "retry", "submit"}
  BY <1>1
<1>11. row'[t].status = "completed" => row'[t].consent # None
  BY <1>4
<1>. QED
  BY <1>2, <1>3, <1>4, <1>6, <1>7, <1>8, <1>9, <1>10, <1>11, AnsweredPreserves

(***************************************************************************)
(* The theorems.                                                           *)
(***************************************************************************)

\* The invariant holds initially ...
LEMMA InitInv == Init => InductiveInv
<1>. SUFFICES ASSUME Init PROVE InductiveInv
  OBVIOUS
<1>1. TypeOK
  BY TypeInit
<1>2. /\ Absent.status = "absent" /\ Absent.consent = None
      /\ IdleTx.pc = "idle" /\ IdleTx.claim = FALSE /\ IdleTx.snap = Absent
  BY DEF Absent, IdleTx
<1>3. \A t \in Tokens : row[t] = Absent /\ rowLock[t] = None
  BY DEF Init
<1>4. \A r \in Requests : tx[r] = IdleTx
  BY DEF Init
<1>5. \A t \in Tokens : RowInv(t)
  BY <1>2, <1>3 DEF RowInv, Exists
<1>6. \A r \in Requests : OwnInv(r) /\ OwnSeen(r)
  BY <1>2, <1>4 DEF OwnInv, OwnSeen
<1>7. ASSUME NEW l \in Links
      PROVE  /\ usage[l] <= Cardinality(Admitted(l))
             /\ Capacity[l] # None => usage[l] <= Capacity[l]
  <2>1. usage[l] = 0 /\ Cardinality(Admitted(l)) \in Nat
    BY AdmittedFinite DEF Init
  <2>2. Capacity[l] # None => Capacity[l] \in Nat
    BY ParticipationAssumption
  <2>. QED
    BY <2>1, <2>2
<1>8. UsageNotOvercounted /\ UsageWithinCapacity
  BY <1>7 DEF UsageNotOvercounted, UsageWithinCapacity
<1>. QED
  BY <1>1, <1>5, <1>6, <1>8, InvSplit

\* ... and every step, or stuttering step, preserves it.
LEMMA NextInv ==
  ASSUME InductiveInv, [Next]_vars
  PROVE  InductiveInv' /\ ConsentsKept
<1>1. TypeOK'
  BY TypeStep DEF InductiveInv
<1>2. ASSUME NEW r \in Requests, Consent(r)
      PROVE  InductiveInv' /\ ConsentsKept
  <2>1. ASSUME NEW t \in Tokens, NEW l \in Links \cup {None}, NEW pw \in BOOLEAN,
               SendConsent(r, t, l, pw)
        PROVE  InductiveInv' /\ ConsentsKept
    BY <1>1, <2>1, SendConsentPreserves
  <2>2. CASE ConsentLock(r)
    BY <1>1, <2>2, ConsentLockPreserves
  <2>3. CASE ConsentWrongPassword(r)
    BY <1>1, <2>3, RefusePreserves DEF ConsentWrongPassword
  <2>4. CASE ValidateLink(r)
    BY <1>1, <2>4, ValidateLinkPreserves
  <2>5. CASE ConsentRefusedByLink(r)
    BY <1>1, <2>5, RefusePreserves DEF ConsentRefusedByLink
  <2>6. CASE ConsentCommit(r)
    BY <1>1, <2>6, ConsentCommitPreserves
  <2>7. CASE ConsentCollision(r)
    BY <1>1, <2>7, ConsentCollisionPreserves
  <2>8. CASE ConsentRetry(r)
    BY <1>1, <2>8, ConsentRetryPreserves
  <2>. QED
    BY <1>2, <2>1, <2>2, <2>3, <2>4, <2>5, <2>6, <2>7, <2>8 DEF Consent
<1>3. ASSUME NEW r \in Requests, Submit(r)
      PROVE  InductiveInv' /\ ConsentsKept
  <2>1. ASSUME NEW t \in Tokens, NEW final \in BOOLEAN, NEW a \in Answers,
               NEW s \in Sorts, SendSubmit(r, t, final, a, s)
        PROVE  InductiveInv' /\ ConsentsKept
    BY <1>1, <2>1, SendSubmitPreserves
  <2>2. CASE SubmitApply(r)
    BY <1>1, <2>2, SubmitApplyPreserves
  <2>3. CASE SubmitRejected(r)
    BY <1>1, <2>3, RefusePreserves DEF SubmitRejected
  <2>. QED
    BY <1>3, <2>1, <2>2, <2>3 DEF Submit
<1>4. ASSUME NEW r \in Requests, Abort(r)
      PROVE  InductiveInv' /\ ConsentsKept
  BY <1>1, <1>4, RefusePreserves DEF Abort
<1>5. ASSUME NEW t \in Tokens, NEW d \in Drafts, NEW n \in Revisions \cup {None},
             SaveDraft(t, d, n)
      PROVE  InductiveInv' /\ ConsentsKept
  BY <1>1, <1>5, SaveDraftPreserves
<1>6. ASSUME NEW t \in Tokens, NEW step \in 1..5, UpdateProgress(t, step)
      PROVE  InductiveInv' /\ ConsentsKept
  BY <1>1, <1>6, UpdateProgressPreserves
<1>7. ASSUME NEW t \in Tokens, WithdrawDraft(t)
      PROVE  InductiveInv' /\ ConsentsKept
  BY <1>1, <1>7, WithdrawDraftPreserves
<1>8. ASSUME NEW l \in Links, RevokeLink(l)
      PROVE  InductiveInv' /\ ConsentsKept
  BY <1>1, <1>8, RowStep DEF RevokeLink
<1>9. CASE UNCHANGED vars
  BY <1>1, <1>9, RowStep DEF vars
<1>. QED
  BY <1>2, <1>3, <1>4, <1>5, <1>6, <1>7, <1>8, <1>9 DEF Next

\* However the requests on a study interleave, are refused, collide or abort,
\* the inductive invariant holds throughout.
THEOREM Invariance == Spec => []InductiveInv
<1>1. Init => InductiveInv
  BY InitInv
<1>2. InductiveInv /\ [Next]_vars => InductiveInv'
  BY NextInv
<1>. QED
  BY <1>1, <1>2, PTL DEF Spec

\* Rows, locks, counts and transactions keep their types.
THEOREM TypeCorrect == Spec => []TypeOK
<1>1. InductiveInv => TypeOK
  BY DEF InductiveInv
<1>. QED
  BY <1>1, Invariance, PTL

\* A refused, colliding or aborted consent never leaves its link counted.
THEOREM NotOvercounted == Spec => []UsageNotOvercounted
<1>1. InductiveInv => UsageNotOvercounted
  BY DEF InductiveInv
<1>. QED
  BY <1>1, Invariance, PTL

\* The stored usage_count never passes the capacity of a link.
THEOREM WithinCapacity == Spec => []UsageWithinCapacity
<1>1. InductiveInv => UsageWithinCapacity
  BY DEF InductiveInv
<1>. QED
  BY <1>1, Invariance, PTL

\* No submission completes a session whose consent is not recorded.
THEOREM ConsentBeforeCompletion == Spec => []CompletedConsented
<1>1. InductiveInv => CompletedConsented
  BY DEF InductiveInv
<1>. QED
  BY <1>1, Invariance, PTL

\* Every recorded consent came with the study's password.
THEOREM PasswordBeforeConsent == Spec => []ConsentKnewPassword
<1>1. InductiveInv => ConsentKnewPassword
  BY DEF InductiveInv
<1>. QED
  BY <1>1, Invariance, PTL

\* First consent wins, against every interleaving of retries, submissions and
\* racing consents.
THEOREM ConsentIsFinal == Spec => FirstConsentWins
<1>1. InductiveInv /\ [Next]_vars
        => [\A t \in Tokens : row[t].consent # None
                                 => row'[t].consent = row[t].consent]_vars
  BY NextInv DEF ConsentsKept
<1>. QED
  BY <1>1, Invariance, PTL DEF Spec, FirstConsentWins
=============================================================================

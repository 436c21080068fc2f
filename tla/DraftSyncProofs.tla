-------------------------- MODULE DraftSyncProofs --------------------------
(***************************************************************************)
(* DraftSync implements DraftKeeping, for any pages and any number of      *)
(* answers, flushes and outages: saves that are delayed, overtaken,        *)
(* repeated or lost never put an older draft of a page over a newer one.   *)
(***************************************************************************)
EXTENDS DraftSync, TLAPS

\* A save carries what its page has.
LEMMA RequestType ==
  ASSUME TypeOK, NEW p \in Pages, NEW flush \in BOOLEAN
  PROVE  Request(p, flush) \in Save /\ nextDraftRevision(p) \in Nat
BY DEF TypeOK, Page, Save, Revisions, Request, nextDraftRevision

\* Sending a draft keeps the types of pages and saves.
LEMMA SendType ==
  ASSUME TypeOK, NEW p \in Pages, SendDraft(p)
  PROVE  page' \in [Pages -> Page] /\ saves' \subseteq Save
<1>1. Request(p, FALSE) \in Save /\ nextDraftRevision(p) \in Nat
  BY RequestType
<1>2. /\ [page[p] EXCEPT !.timer = FALSE, !.last = "save",
                         !.draftRevision = nextDraftRevision(p)] \in Page
      /\ [page[p] EXCEPT !.timer = FALSE, !.last = "skipped"] \in Page
  BY <1>1 DEF TypeOK, Page, Revisions
<1>. QED
  BY <1>1, <1>2 DEF SendDraft, TypeOK

\* What the actions change in a page leaves it a page.
LEMMA PageEdits ==
  ASSUME NEW o \in Page, NEW b \in BOOLEAN, NEW n \in Nat, NEW a \in 0..MaxAnswers,
         NEW last \in {"none", "save", "left", "skipped"}
  PROVE  /\ [o EXCEPT !.timer = b, !.last = last, !.draftRevision = n] \in Page
         /\ [o EXCEPT !.timer = b, !.last = last] \in Page
         /\ [o EXCEPT !.answers = a, !.timer = b, !.last = last] \in Page
         /\ [o EXCEPT !.pending = b] \in Page
         /\ [o EXCEPT !.isSubmitting = TRUE] \in Page
         /\ [o EXCEPT !.isSubmitting = FALSE, !.live = b] \in Page
<1>1. [o EXCEPT !.timer = b, !.last = last, !.draftRevision = n] \in Page
  BY DEF Page, Revisions
<1>2. [o EXCEPT !.timer = b, !.last = last] \in Page
  BY DEF Page
<1>3. [o EXCEPT !.answers = a, !.timer = b, !.last = last] \in Page
  BY DEF Page
<1>4. [o EXCEPT !.pending = b] \in Page
  BY DEF Page
<1>5. [o EXCEPT !.isSubmitting = TRUE] \in Page
  BY DEF Page
<1>6. [o EXCEPT !.isSubmitting = FALSE, !.live = b] \in Page
  BY DEF Page
<1>. QED
  BY <1>1, <1>2, <1>3, <1>4, <1>5, <1>6

\* What happens to a save on its way leaves it a save.
LEMMA SaveEdits ==
  ASSUME NEW s \in Save, NEW b \in BOOLEAN
  PROVE  /\ [s EXCEPT !.flush = b] \in Save
         /\ [s EXCEPT !.hit = b] \in Save
         /\ \A stage \in {"sent", "ok", "failed"} : [s EXCEPT !.stage = stage] \in Save
<1>1. [s EXCEPT !.flush = b] \in Save
  BY DEF Save
<1>2. [s EXCEPT !.hit = b] \in Save
  BY DEF Save
<1>3. ASSUME NEW stage \in {"sent", "ok", "failed"}
      PROVE  [s EXCEPT !.stage = stage] \in Save
  BY DEF Save
<1>. QED
  BY <1>1, <1>2, <1>3

\* Sending a draft changes no answer.
LEMMA SendAnswers ==
  ASSUME TypeOK, NEW p \in Pages, SendDraft(p)
  PROVE  \A q \in Pages : page'[q].answers = page[q].answers
<1>1. CASE MaySave(p)
  BY <1>1 DEF SendDraft, TypeOK, Page
<1>2. CASE ~MaySave(p)
  BY <1>2 DEF SendDraft, TypeOK, Page
<1>. QED
  BY <1>1, <1>2

\* Every step keeps the types.
LEMMA TypeStep ==
  ASSUME TypeOK, [Next]_vars
  PROVE  TypeOK'
<1>. USE DraftSyncAssumption, NoneIsNoNumber DEF TypeOK, Revisions
<1>0. \A p \in Pages : page[p] \in Page
  OBVIOUS
<1>1. ASSUME NEW p \in Pages, Answer(p)
      PROVE  TypeOK'
  <2>1. /\ (page[p].timer \/ MaySave(p)) \in BOOLEAN
        /\ count.answers + 1 \in 0..MaxAnswers
        /\ (IF MaySave(p) THEN page[p].last ELSE "skipped")
              \in {"none", "save", "left", "skipped"}
    BY <1>1, <1>0 DEF Answer, Page
  <2>2. [page[p] EXCEPT !.answers = count.answers + 1,
                        !.timer = page[p].timer \/ MaySave(p),
                        !.last = IF MaySave(p) THEN page[p].last ELSE "skipped"] \in Page
    BY <2>1, <1>0, PageEdits
  <2>3. page' \in [Pages -> Page]
    BY <1>1, <2>2 DEF Answer
  <2>. QED
    BY <1>1, <2>3 DEF Answer
<1>2. ASSUME NEW p \in Pages, Timer(p)
      PROVE  TypeOK'
  BY <1>2, SendType DEF Timer
<1>3. ASSUME NEW p \in Pages, GoOnline(p)
      PROVE  TypeOK'
  BY <1>3, SendType DEF GoOnline
<1>4. ASSUME NEW p \in Pages, GoOffline(p)
      PROVE  TypeOK'
  <2>1. \A s \in saves : (s.hit \/ s.page = p) \in BOOLEAN
    BY DEF Save
  <2>2. \A s \in saves : [s EXCEPT !.hit = s.hit \/ s.page = p] \in Save
    BY <2>1, SaveEdits
  <2>3. saves' \subseteq Save
    BY <1>4, <2>2 DEF GoOffline
  <2>. QED
    BY <1>4, <2>3 DEF GoOffline
<1>5. ASSUME NEW p \in Pages, Hide(p)
      PROVE  TypeOK'
  <2>1. Request(p, TRUE) \in Save /\ nextDraftRevision(p) \in Nat
    BY RequestType
  <2>2. saves' \subseteq Save
    BY <1>5, <2>1 DEF Hide
  <2>3. /\ [page[p] EXCEPT !.timer = FALSE, !.last = "left",
                           !.draftRevision = nextDraftRevision(p)] \in Page
        /\ [page[p] EXCEPT !.timer = FALSE, !.last = "left"] \in Page
    BY <2>1, <1>0, PageEdits
  <2>4. page' \in [Pages -> Page]
    BY <1>5, <2>3 DEF Hide
  <2>. QED
    BY <1>5, <2>2, <2>4 DEF Hide
<1>6. ASSUME NEW p \in Pages, Reload(p)
      PROVE  TypeOK'
  <2>1. [NewPage EXCEPT !.live = TRUE, !.answers = page[p].answers, !.last = "left",
                        !.draftRevision = page[p].draftRevision] \in Page
    BY <1>0 DEF NewPage, Page
  <2>2. page' \in [Pages -> Page]
    BY <1>6, <2>1 DEF Reload
  <2>3. \A s \in saves : (s.flush \/ s.page = p) \in BOOLEAN
    BY DEF Save
  <2>4. \A s \in saves : [s EXCEPT !.flush = s.flush \/ s.page = p] \in Save
    BY <2>3, SaveEdits
  <2>5. saves' \subseteq Save
    BY <1>6, <2>4 DEF Reload
  <2>. QED
    BY <1>6, <2>2, <2>5 DEF Reload
<1>7. ASSUME NEW p \in Pages, Resume(p)
      PROVE  TypeOK'
  <2>. DEFINE answers == IF stored.draft = None THEN 0 ELSE stored.draft
  <2>1. answers \in 0..MaxAnswers /\ ResumedRevision \in Revisions
    BY DEF ResumedRevision
  <2>2. [NewPage EXCEPT !.live = TRUE, !.answers = answers,
                        !.draftRevision = ResumedRevision] \in Page
    BY <2>1 DEF NewPage, Page
  <2>3. page' \in [Pages -> Page] /\ accepted' \in [Pages -> 0..MaxAnswers]
    BY <1>7, <2>1, <2>2 DEF Resume
  <2>. QED
    BY <1>7, <2>3 DEF Resume
<1>8. ASSUME NEW p \in Pages, BeginSubmit(p)
      PROVE  TypeOK'
  <2>1. page' \in [Pages -> Page]
    BY <1>8, <1>0, PageEdits DEF BeginSubmit
  <2>. QED
    BY <1>8, <2>1 DEF BeginSubmit
<1>9. ASSUME NEW p \in Pages, NEW arrives \in BOOLEAN, NEW succeeds \in BOOLEAN, EndSubmit(p, arrives, succeeds)
      PROVE  TypeOK'
  <2>1. [page[p] EXCEPT !.isSubmitting = FALSE, !.live = ~succeeds] \in Page
    BY <1>0, PageEdits
  <2>2. page' \in [Pages -> Page]
    BY <1>9, <2>1 DEF EndSubmit
  <2>3. stored' \in [rev : Revisions \cup {None}, draft : (0..MaxAnswers) \cup {None},
                     completed : BOOLEAN]
    BY <1>9 DEF EndSubmit
  <2>. QED
    BY <1>9, <2>2, <2>3 DEF EndSubmit
<1>10. ASSUME NEW s \in saves, Deliver(s)
      PROVE  TypeOK'
  <2>1. \A stage \in {"sent", "ok", "failed"} : [s EXCEPT !.stage = stage] \in Save
    BY SaveEdits
  <2>2. saves' \subseteq Save
    BY <1>10, <2>1 DEF Deliver
  <2>3. s.rev \in Revisions /\ s.answers \in 0..MaxAnswers
    BY DEF Save
  <2>4. /\ stored' \in [rev : Revisions \cup {None}, draft : (0..MaxAnswers) \cup {None},
                        completed : BOOLEAN]
        /\ accepted' \in [Pages -> 0..MaxAnswers]
    BY <1>10, <2>3 DEF Deliver
  <2>. QED
    BY <1>10, <2>2, <2>4 DEF Deliver
<1>11. ASSUME NEW s \in saves, Lose(s)
      PROVE  TypeOK'
  <2>1. saves' \subseteq Save
    BY <1>11, SaveEdits DEF Lose
  <2>. QED
    BY <1>11, <2>1 DEF Lose
<1>12. ASSUME NEW s \in saves, Settle(s)
      PROVE  TypeOK'
  <2>1. s.page \in Pages /\ Owes(s) \in BOOLEAN
    BY DEF Save, Owes
  <2>2. page' \in [Pages -> Page]
    BY <1>12, <2>1, <1>0, PageEdits DEF Settle
  <2>. QED
    BY <1>12, <2>2 DEF Settle
<1>13. CASE Withdraw
  BY <1>13 DEF Withdraw
<1>14. CASE UNCHANGED vars
  BY <1>14 DEF vars
<1>. QED
  BY <1>1, <1>2, <1>3, <1>4, <1>5, <1>6, <1>7, <1>8, <1>9, <1>10, <1>11,
     <1>12, <1>13, <1>14 DEF Next, Network, Reply

\* Answers and revisions only grow, on a page and before they travel.
LEMMA NumberedStep ==
  ASSUME TypeOK, Numbered, [Next]_vars
  PROVE  Numbered'
<1>. USE DraftSyncAssumption, NoneIsNoNumber DEF TypeOK, Page, Save, Revisions, Numbered
<1>1. ASSUME NEW p \in Pages, Answer(p)
      PROVE  Numbered'
  BY <1>1 DEF Answer, MaySave
<1>2. ASSUME NEW p \in Pages, Timer(p)
      PROVE  Numbered'
  <2>1. CASE /\ saves' = saves \cup {Request(p, FALSE)}
             /\ page' = [page EXCEPT ![p].timer = FALSE, ![p].last = "save",
                                     ![p].draftRevision = nextDraftRevision(p)]
    BY <1>2, <2>1 DEF Timer, Request, nextDraftRevision
  <2>2. CASE /\ page' = [page EXCEPT ![p].timer = FALSE, ![p].last = "skipped"]
             /\ saves' = saves
    BY <1>2, <2>2 DEF Timer
  <2>. QED
    BY <1>2, <2>1, <2>2 DEF Timer, SendDraft
<1>3. ASSUME NEW p \in Pages, GoOnline(p)
      PROVE  Numbered'
  <2>1. CASE /\ saves' = saves \cup {Request(p, FALSE)}
             /\ page' = [page EXCEPT ![p].timer = FALSE, ![p].last = "save",
                                     ![p].draftRevision = nextDraftRevision(p)]
    BY <1>3, <2>1 DEF GoOnline, Request, nextDraftRevision
  <2>2. CASE /\ page' = [page EXCEPT ![p].timer = FALSE, ![p].last = "skipped"]
             /\ saves' = saves
    BY <1>3, <2>2 DEF GoOnline
  <2>3. CASE UNCHANGED <<page, saves>>
    BY <1>3, <2>3 DEF GoOnline
  <2>. QED
    BY <1>3, <2>1, <2>2, <2>3 DEF GoOnline, SendDraft
<1>4. ASSUME NEW p \in Pages, GoOffline(p)
      PROVE  Numbered'
  BY <1>4 DEF GoOffline
<1>5. ASSUME NEW p \in Pages, Hide(p)
      PROVE  Numbered'
  <2>1. CASE /\ saves' = saves \cup {Request(p, TRUE)}
             /\ page' = [page EXCEPT ![p].timer = FALSE, ![p].last = "left",
                                     ![p].draftRevision = nextDraftRevision(p)]
    BY <1>5, <2>1 DEF Hide, Request, nextDraftRevision
  <2>2. CASE /\ page' = [page EXCEPT ![p].timer = FALSE, ![p].last = "left"]
             /\ saves' = saves
    BY <1>5, <2>2 DEF Hide
  <2>. QED
    BY <1>5, <2>1, <2>2 DEF Hide, MaySave
<1>6. ASSUME NEW p \in Pages, Reload(p)
      PROVE  Numbered'
  <2>1. /\ \A q \in Pages : /\ page'[q].answers = page[q].answers
                            /\ page'[q].draftRevision = page[q].draftRevision
    BY <1>6 DEF Reload, NewPage
  <2>2. \A u \in saves' : \E s \in saves :
          u.page = s.page /\ u.rev = s.rev /\ u.answers = s.answers
    BY <1>6 DEF Reload
  <2>. QED
    BY <1>6, <2>1, <2>2 DEF Reload
<1>7. ASSUME NEW p \in Pages, Resume(p)
      PROVE  Numbered'
  BY <1>7 DEF Resume, NewPage, ResumedRevision
<1>8. ASSUME NEW p \in Pages, BeginSubmit(p)
      PROVE  Numbered'
  BY <1>8 DEF BeginSubmit, MaySave
<1>9. ASSUME NEW p \in Pages, NEW arrives \in BOOLEAN, NEW succeeds \in BOOLEAN, EndSubmit(p, arrives, succeeds)
      PROVE  Numbered'
  BY <1>9 DEF EndSubmit
<1>10. ASSUME NEW s \in saves, Deliver(s)
      PROVE  Numbered'
  <2>1. \A u \in saves' : \E v \in saves :
          u.page = v.page /\ u.rev = v.rev /\ u.answers = v.answers
    BY <1>10 DEF Deliver
  <2>2. CASE stored' = stored /\ accepted' = accepted
    BY <1>10, <2>1, <2>2 DEF Deliver
  <2>3. CASE /\ stored' = [stored EXCEPT !.rev = s.rev, !.draft = s.answers]
             /\ accepted' = [accepted EXCEPT ![s.page] = s.answers]
    BY <1>10, <2>1, <2>3 DEF Deliver
  <2>. QED
    BY <1>10, <2>2, <2>3 DEF Deliver
<1>11. ASSUME NEW s \in saves, Lose(s)
      PROVE  Numbered'
  BY <1>11 DEF Lose
<1>12. ASSUME NEW s \in saves, Settle(s)
      PROVE  Numbered'
  BY <1>12 DEF Settle, Owes, IsNewest
<1>13. CASE Withdraw
  BY <1>13 DEF Withdraw
<1>14. CASE UNCHANGED vars
  BY <1>14 DEF vars
<1>. QED
  BY <1>1, <1>2, <1>3, <1>4, <1>5, <1>6, <1>7, <1>8, <1>9, <1>10, <1>11,
     <1>12, <1>13, <1>14 DEF Next, Network, Reply

\* A new save has a revision above its page's earlier ones, and answers as late.
LEMMA OrderStep ==
  ASSUME TypeOK, Numbered, RevisionsOrder, [Next]_vars
  PROVE  RevisionsOrder'
<1>. USE DraftSyncAssumption, NoneIsNoNumber DEF TypeOK, Page, Save, Revisions, Numbered, RevisionsOrder
<1>1. ASSUME NEW p \in Pages, Answer(p)
      PROVE  RevisionsOrder'
  BY <1>1 DEF Answer, MaySave
<1>2. ASSUME NEW p \in Pages, Timer(p)
      PROVE  RevisionsOrder'
  BY <1>2 DEF Timer, SendDraft, MaySave, Request, nextDraftRevision
<1>3. ASSUME NEW p \in Pages, GoOnline(p)
      PROVE  RevisionsOrder'
  BY <1>3 DEF GoOnline, SendDraft, MaySave, Request, nextDraftRevision
<1>4. ASSUME NEW p \in Pages, GoOffline(p)
      PROVE  RevisionsOrder'
  BY <1>4 DEF GoOffline
<1>5. ASSUME NEW p \in Pages, Hide(p)
      PROVE  RevisionsOrder'
  BY <1>5 DEF Hide, MaySave, Request, nextDraftRevision
<1>6. ASSUME NEW p \in Pages, Reload(p)
      PROVE  RevisionsOrder'
  BY <1>6 DEF Reload, NewPage
<1>7. ASSUME NEW p \in Pages, Resume(p)
      PROVE  RevisionsOrder'
  BY <1>7 DEF Resume, NewPage, ResumedRevision
<1>8. ASSUME NEW p \in Pages, BeginSubmit(p)
      PROVE  RevisionsOrder'
  BY <1>8 DEF BeginSubmit, MaySave
<1>9. ASSUME NEW p \in Pages, NEW arrives \in BOOLEAN, NEW succeeds \in BOOLEAN, EndSubmit(p, arrives, succeeds)
      PROVE  RevisionsOrder'
  BY <1>9 DEF EndSubmit
<1>10. ASSUME NEW s \in saves, Deliver(s)
      PROVE  RevisionsOrder'
  BY <1>10 DEF Deliver, DraftVerdict
<1>11. ASSUME NEW s \in saves, Lose(s)
      PROVE  RevisionsOrder'
  BY <1>11 DEF Lose
<1>12. ASSUME NEW s \in saves, Settle(s)
      PROVE  RevisionsOrder'
  BY <1>12 DEF Settle, Owes, IsNewest
<1>13. CASE Withdraw
  BY <1>13 DEF Withdraw
<1>14. CASE UNCHANGED vars
  BY <1>14 DEF vars
<1>. QED
  BY <1>1, <1>2, <1>3, <1>4, <1>5, <1>6, <1>7, <1>8, <1>9, <1>10, <1>11,
     <1>12, <1>13, <1>14 DEF Next, Network, Reply

\* Accepting a save raises the watermark over the earlier ones of its page.
LEMMA AcceptStep ==
  ASSUME TypeOK, Numbered, RevisionsOrder, Acceptable, [Next]_vars
  PROVE  Acceptable'
<1>. USE DraftSyncAssumption, NoneIsNoNumber DEF TypeOK, Page, Save, Revisions, Numbered, RevisionsOrder, Acceptable
<1>1. ASSUME NEW p \in Pages, Answer(p)
      PROVE  Acceptable'
  BY <1>1 DEF Answer, MaySave
<1>2. ASSUME NEW p \in Pages, Timer(p)
      PROVE  Acceptable'
  BY <1>2 DEF Timer, SendDraft, MaySave, Request, nextDraftRevision
<1>3. ASSUME NEW p \in Pages, GoOnline(p)
      PROVE  Acceptable'
  BY <1>3 DEF GoOnline, SendDraft, MaySave, Request, nextDraftRevision
<1>4. ASSUME NEW p \in Pages, GoOffline(p)
      PROVE  Acceptable'
  BY <1>4 DEF GoOffline
<1>5. ASSUME NEW p \in Pages, Hide(p)
      PROVE  Acceptable'
  BY <1>5 DEF Hide, MaySave, Request, nextDraftRevision
<1>6. ASSUME NEW p \in Pages, Reload(p)
      PROVE  Acceptable'
  BY <1>6 DEF Reload, NewPage
<1>7. ASSUME NEW p \in Pages, Resume(p)
      PROVE  Acceptable'
  BY <1>7 DEF Resume, NewPage, ResumedRevision
<1>8. ASSUME NEW p \in Pages, BeginSubmit(p)
      PROVE  Acceptable'
  BY <1>8 DEF BeginSubmit, MaySave
<1>9. ASSUME NEW p \in Pages, NEW arrives \in BOOLEAN, NEW succeeds \in BOOLEAN, EndSubmit(p, arrives, succeeds)
      PROVE  Acceptable'
  BY <1>9 DEF EndSubmit
<1>10. ASSUME NEW s \in saves, Deliver(s)
      PROVE  Acceptable'
  <2>1. \A u \in saves' : \E v \in saves :
          u.page = v.page /\ u.rev = v.rev /\ u.answers = v.answers
    BY <1>10 DEF Deliver
  <2>2. CASE stored' = stored /\ accepted' = accepted
    BY <2>1, <2>2
  <2>3. CASE /\ stored' = [stored EXCEPT !.rev = s.rev, !.draft = s.answers]
             /\ accepted' = [accepted EXCEPT ![s.page] = s.answers]
             /\ stored.rev = None \/ s.rev > stored.rev
    BY <2>1, <2>3
  <2>. QED
    BY <1>10, <2>2, <2>3 DEF Deliver, DraftVerdict
<1>11. ASSUME NEW s \in saves, Lose(s)
      PROVE  Acceptable'
  BY <1>11 DEF Lose
<1>12. ASSUME NEW s \in saves, Settle(s)
      PROVE  Acceptable'
  BY <1>12 DEF Settle, Owes, IsNewest
<1>13. CASE Withdraw
  BY <1>13 DEF Withdraw
<1>14. CASE UNCHANGED vars
  BY <1>14 DEF vars
<1>. QED
  BY <1>1, <1>2, <1>3, <1>4, <1>5, <1>6, <1>7, <1>8, <1>9, <1>10, <1>11,
     <1>12, <1>13, <1>14 DEF Next, Network, Reply

\* The names DraftKeeping gives to the state of DraftSync.
AnswersOf == [p \in Pages |-> page[p].answers]

\* A step that leaves the answers given, those that arrived and the draft
\* alone is no step of DraftKeeping.
LEMMA Stutters ==
  ASSUME UNCHANGED accepted, stored'.draft = stored.draft,
         \A p \in Pages : page'[p].answers = page[p].answers
  PROVE  UNCHANGED Keeping!vars
BY DEF Keeping!vars

\* Every step of DraftSync is one of DraftKeeping or none.
LEMMA StepKeeps ==
  ASSUME IInv, [Next]_vars
  PROVE  [Keeping!Next]_Keeping!vars
<1>0. /\ TypeOK /\ DOMAIN page = Pages /\ None \notin Nat
      /\ \A p \in Pages : page[p] \in Page /\ page[p].answers \in Nat
      /\ accepted \in [Pages -> Nat] /\ count.answers \in Nat
      /\ stored.draft \in Nat \cup {None} /\ stored.rev \in Nat \cup {None}
      /\ \A s \in saves : s.page \in Pages /\ s.answers \in Nat /\ s.rev \in Nat
  BY DraftSyncAssumption, NoneIsNoNumber DEF IInv, TypeOK, Page, Save, Revisions
<1>1. ASSUME NEW p \in Pages, Answer(p)
      PROVE  Keeping!Answer(p)
  <2>1. \A q \in Pages : page'[q].answers = IF q = p THEN count.answers + 1
                                                     ELSE page[q].answers
    BY <1>0, <1>1 DEF Answer
  <2>2. AnswersOf \in [Pages -> Nat] /\ AnswersOf' \in [Pages -> Nat]
    BY <1>0, <2>1 DEF AnswersOf
  <2>3. \A q \in Pages : q # p => AnswersOf'[q] = AnswersOf[q]
    BY <2>1 DEF AnswersOf
  <2>4. AnswersOf' = [AnswersOf EXCEPT ![p] = AnswersOf'[p]]
    BY <2>2, <2>3
  <2>5. \A q \in Pages : AnswersOf'[p] > AnswersOf[q]
    BY <1>0, <2>1 DEF AnswersOf, Numbered, IInv
  <2>. QED
    BY <1>1, <2>2, <2>4, <2>5 DEF Keeping!Answer, Answer, AnswersOf
<1>2. ASSUME NEW p \in Pages,
             Timer(p) \/ GoOnline(p) \/ GoOffline(p) \/ Hide(p) \/ Reload(p) \/ BeginSubmit(p)
      PROVE  UNCHANGED Keeping!vars
  <2>1. UNCHANGED accepted /\ UNCHANGED stored
    BY <1>2 DEF Timer, GoOnline, GoOffline, Hide, Reload, BeginSubmit
  <2>2. \A q \in Pages : page'[q].answers = page[q].answers
    <3>1. CASE Timer(p) \/ GoOnline(p)
      BY <1>0, <3>1, SendAnswers DEF Timer, GoOnline
    <3>2. CASE GoOffline(p) \/ BeginSubmit(p)
      BY <1>0, <3>2 DEF TypeOK, Page, GoOffline, BeginSubmit
    <3>3. CASE Hide(p)
      <4>1. CASE MaySave(p)
        BY <1>0, <3>3, <4>1 DEF TypeOK, Page, Hide
      <4>2. CASE ~MaySave(p)
        BY <1>0, <3>3, <4>2 DEF TypeOK, Page, Hide
      <4>. QED
        BY <4>1, <4>2
    <3>4. CASE Reload(p)
      BY <1>0, <3>4 DEF Reload, NewPage
    <3>. QED
      BY <1>2, <3>1, <3>2, <3>3, <3>4
  <2>. QED
    BY <2>1, <2>2, Stutters
<1>3. ASSUME NEW p \in Pages, Resume(p)
      PROVE  Keeping!Resume(p)
  <2>. DEFINE n == IF stored.draft = None THEN 0 ELSE stored.draft
  <2>1. \A q \in Pages : page'[q].answers = IF q = p THEN n ELSE page[q].answers
    BY <1>0, <1>3 DEF Resume, NewPage
  <2>2. \A q \in Pages : AnswersOf'[q] = IF q = p THEN n ELSE AnswersOf[q]
    BY <2>1 DEF AnswersOf
  <2>3. AnswersOf' = [AnswersOf EXCEPT ![p] = n]
    BY <2>2 DEF AnswersOf
  <2>4. AnswersOf[p] = 0
    BY <1>3 DEF Resume, NewPage, AnswersOf
  <2>. QED
    BY <1>0, <1>3, <2>3, <2>4 DEF Keeping!Resume, Resume, AnswersOf
<1>4. ASSUME NEW p \in Pages, NEW arrives \in BOOLEAN, NEW succeeds \in BOOLEAN,
             EndSubmit(p, arrives, succeeds)
      PROVE  Keeping!Clear \/ UNCHANGED Keeping!vars
  <2>1. \A q \in Pages : page'[q].answers = page[q].answers
    BY <1>0, <1>4 DEF EndSubmit
  <2>2. UNCHANGED accepted /\ (stored'.draft = None \/ stored' = stored)
    BY <1>4 DEF EndSubmit
  <2>3. CASE stored'.draft = None
    BY <2>1, <2>2, <2>3 DEF Keeping!Clear
  <2>4. CASE stored' = stored
    BY <2>1, <2>2, <2>4, Stutters
  <2>. QED
    BY <2>2, <2>3, <2>4
<1>5. ASSUME NEW s \in saves, Deliver(s)
      PROVE  Keeping!Keep(s.page) \/ UNCHANGED Keeping!vars
  <2>1. CASE UNCHANGED <<stored, accepted>>
    BY <1>5, <2>1, Stutters DEF Deliver
  <2>2. CASE /\ stored' = [stored EXCEPT !.rev = s.rev, !.draft = s.answers]
             /\ accepted' = [accepted EXCEPT ![s.page] = s.answers]
             /\ stored.rev = None \/ s.rev > stored.rev
    <3>1. s.answers \in accepted[s.page]..AnswersOf[s.page]
      BY <1>0, <2>2 DEF Acceptable, Numbered, AnswersOf, IInv
    <3>2. AnswersOf' = AnswersOf /\ stored'.draft = s.answers
      BY <1>0, <1>5, <2>2 DEF Deliver, AnswersOf
    <3>. QED
      BY <1>0, <2>2, <3>1, <3>2 DEF Keeping!Keep, AnswersOf
  <2>. QED
    BY <1>0, <1>5, <2>1, <2>2 DEF Deliver, DraftVerdict
<1>6. ASSUME NEW s \in saves, Lose(s) \/ Settle(s)
      PROVE  UNCHANGED Keeping!vars
  <2>1. UNCHANGED accepted /\ UNCHANGED stored
    BY <1>6 DEF Lose, Settle
  <2>2. \A q \in Pages : page'[q].answers = page[q].answers
    BY <1>0, <1>6 DEF TypeOK, Page, Lose, Settle
  <2>. QED
    BY <2>1, <2>2, Stutters
<1>7. CASE Withdraw
  <2>1. page' = page /\ accepted' = accepted /\ stored'.draft = None
    BY <1>7 DEF Withdraw
  <2>2. AnswersOf' = AnswersOf
    BY <2>1 DEF AnswersOf
  <2>. QED
    BY <2>1, <2>2 DEF Keeping!Next, Keeping!Clear, AnswersOf
<1>8. CASE UNCHANGED vars
  BY <1>8, Stutters DEF vars
<1>. QED
  BY <1>1, <1>2, <1>3, <1>4, <1>5, <1>6, <1>7, <1>8, <1>0
     DEF Next, Network, Reply, Keeping!Next

\* Types, numbering and order of the saves hold throughout.
THEOREM DraftInvariant == Spec => []IInv
<1>1. Init => IInv
  <2>. SUFFICES ASSUME Init PROVE IInv
    OBVIOUS
  <2>1. TypeOK
    <3>1. 0 \in 0..MaxAnswers /\ 0 \in 0..MaxHides /\ 0 \in 0..MaxOutages
      BY DraftSyncAssumption
    <3>2. \A b \in BOOLEAN : [NewPage EXCEPT !.live = b] \in Page
      BY <3>1 DEF Page, NewPage, Revisions
    <3>3. \A p \in Pages : (p = First) \in BOOLEAN
      OBVIOUS
    <3>. QED
      BY <3>1, <3>2, <3>3 DEF Init, TypeOK, Revisions
  <2>. QED
    BY <2>1, DraftSyncAssumption, NoneIsNoNumber DEF Init, IInv, NewPage, Numbered, RevisionsOrder, Acceptable
<1>2. IInv /\ [Next]_vars => IInv'
  BY TypeStep, NumberedStep, OrderStep, AcceptStep DEF IInv
<1>. QED
  BY <1>1, <1>2, PTL DEF Spec

\* Every variable of DraftSync keeps its type.
THEOREM DraftTypes == Spec => []TypeOK
<1>1. IInv => TypeOK
  BY DEF IInv
<1>. QED
  BY <1>1, DraftInvariant, PTL

\* DraftSync implements DraftKeeping: the server's draft is one that arrived
\* last from some page, and of each page answers arrive in their order.
THEOREM DraftsKeptInOrder == Spec => InOrder
<1>1. Init => Keeping!Init
  BY DEF Init, NewPage, Keeping!Init
<1>2. IInv /\ [Next]_vars => [Keeping!Next]_Keeping!vars
  BY StepKeeps
<1>. QED
  BY <1>1, <1>2, DraftInvariant, PTL DEF Spec, InOrder, Keeping!Spec
-----------------------------------------------------------------------------
(* No lost, overtaken or refused save is forgotten.                        *)

\* What a page or one of its saves carries has been answered before.
LEMMA HeldBound ==
  ASSUME IInv, NEW p \in Pages, NEW a \in Held(p)
  PROVE  a \in 0..MaxAnswers /\ a <= page[p].answers /\ a <= count.answers
BY DraftSyncAssumption DEF IInv, TypeOK, Page, Save, Revisions, Numbered, Held

\* A page that has not begun has no save.
LEMMA NewPageHasNoSave ==
  ASSUME IInv, NEW p \in Pages, page[p] = NewPage, NEW s \in saves
  PROVE  s.page # p
<1>1. page[p].draftRevision = 0
  BY DEF NewPage
<1>2. s.rev \in Nat /\ 0 < s.rev /\ s.rev <= page[s.page].draftRevision
  BY DEF IInv, TypeOK, Save, Revisions, Numbered
<1>. QED
  BY <1>1, <1>2

\* A step after which no page carries what it did not, and nothing has arrived
\* or been drafted, keeps Shared.
LEMMA SharedKept ==
  ASSUME Shared, \A p \in Pages : Held(p)' \subseteq Held(p),
         accepted' = accepted, stored'.draft \in {stored.draft, None}, None \notin Nat
  PROVE  Shared'
BY DEF Shared

\* Sending a draft gives the page nothing new to carry.
LEMMA RequestHeld ==
  ASSUME TypeOK, NEW p \in Pages, NEW flush \in BOOLEAN,
         saves' = saves \/ saves' = saves \cup {Request(p, flush)},
         \A q \in Pages : page'[q].answers = page[q].answers
  PROVE  \A q \in Pages : Held(q)' \subseteq Held(q)
BY DEF Held, Request

\* Nor does leaving the page change an answer.
LEMMA HideAnswers ==
  ASSUME TypeOK, NEW p \in Pages, Hide(p)
  PROVE  \A q \in Pages : page'[q].answers = page[q].answers
<1>1. CASE MaySave(p)
  <2>1. page' = [page EXCEPT ![p].timer = FALSE, ![p].last = "left",
                             ![p].draftRevision = nextDraftRevision(p)]
    BY <1>1 DEF Hide
  <2>. QED
    BY <2>1 DEF TypeOK, Page
<1>2. CASE ~MaySave(p)
  BY <1>2 DEF Hide, TypeOK, Page
<1>. QED
  BY <1>1, <1>2

\* Answers carried by two, or drafted, stay answers that came from the server.
LEMMA SharedStep ==
  ASSUME IInv, Shared, [Next]_vars
  PROVE  Shared'
<1>0. TypeOK /\ None \notin Nat /\ MaxAnswers \in Nat
  BY DraftSyncAssumption, NoneIsNoNumber DEF IInv
<1>1. ASSUME NEW p \in Pages, Answer(p)
      PROVE  Shared'
  <2> DEFINE n == count.answers + 1
  <2>1. /\ \A q \in Pages : page'[q].answers = IF q = p THEN n ELSE page[q].answers
        /\ UNCHANGED <<saves, stored, accepted>>
    BY <1>0, <1>1 DEF Answer, TypeOK, Page
  <2>2. \A q \in Pages : Held(q)' \subseteq IF q = p THEN Held(q) \cup {n} ELSE Held(q)
    BY <2>1 DEF Held
  <2>3. \A q \in Pages : n \notin Held(q)
    BY <1>0, HeldBound DEF TypeOK
  <2>4. n # stored.draft
    BY <1>0 DEF TypeOK, IInv, Numbered
  <2>. HIDE DEF n
  <2>. QED
    BY <2>1, <2>2, <2>3, <2>4 DEF Shared
<1>2. ASSUME NEW p \in Pages, Timer(p) \/ GoOnline(p)
      PROVE  Shared'
  <2>1. /\ saves' = saves \/ saves' = saves \cup {Request(p, FALSE)}
        /\ \A q \in Pages : page'[q].answers = page[q].answers
    BY <1>0, <1>2, SendAnswers DEF Timer, GoOnline, SendDraft
  <2>. QED
    BY <1>0, <1>2, <2>1, RequestHeld, SharedKept DEF Timer, GoOnline
<1>3. ASSUME NEW p \in Pages, Hide(p)
      PROVE  Shared'
  <2>1. saves' = saves \/ saves' = saves \cup {Request(p, TRUE)}
    BY <1>3 DEF Hide
  <2>2. \A q \in Pages : page'[q].answers = page[q].answers
    BY <1>0, <1>3, HideAnswers
  <2>. QED
    BY <1>0, <1>3, <2>1, <2>2, RequestHeld, SharedKept DEF Hide
<1>4. ASSUME NEW p \in Pages, GoOffline(p) \/ Reload(p) \/ BeginSubmit(p)
      PROVE  Shared'
  <2>1. \A q \in Pages : page'[q].answers = page[q].answers
    <3>1. CASE GoOffline(p) \/ BeginSubmit(p)
      BY <1>0, <3>1 DEF GoOffline, BeginSubmit, TypeOK, Page
    <3>2. CASE Reload(p)
      BY <1>0, <3>2 DEF Reload, NewPage, TypeOK
    <3>. QED
      BY <1>4, <3>1, <3>2
  <2>2. \A u \in saves' : \E s \in saves : u.page = s.page /\ u.answers = s.answers
    BY <1>0, <1>4 DEF GoOffline, Reload, BeginSubmit, TypeOK, Save
  <2>3. \A q \in Pages : Held(q)' \subseteq Held(q)
    BY <2>1, <2>2 DEF Held
  <2>. QED
    BY <1>0, <1>4, <2>3, SharedKept DEF GoOffline, Reload, BeginSubmit
<1>5. ASSUME NEW p \in Pages, Resume(p)
      PROVE  Shared'
  <2> DEFINE n == IF stored.draft = None THEN 0 ELSE stored.draft
  <2>1. /\ \A q \in Pages : /\ page'[q].answers = IF q = p THEN n ELSE page[q].answers
                            /\ accepted'[q] = IF q = p THEN n ELSE accepted[q]
        /\ UNCHANGED <<saves, stored>>
    BY <1>0, <1>5 DEF Resume, NewPage, TypeOK
  <2>2. \A s \in saves : s.page # p
    BY <1>5, NewPageHasNoSave DEF Resume
  <2>3. \A q \in Pages : Held(q)' = IF q = p THEN {n} ELSE Held(q)
    BY <2>1, <2>2 DEF Held
  <2>4. /\ n \in 0..MaxAnswers /\ (n = stored.draft \/ n = 0)
        /\ accepted \in [Pages -> 0..MaxAnswers]
    BY <1>0 DEF TypeOK
  <2>. HIDE DEF n
  <2>. QED
    BY <1>0, <2>1, <2>3, <2>4 DEF Shared
<1>6. ASSUME NEW p \in Pages, NEW arrives \in BOOLEAN, NEW succeeds \in BOOLEAN,
             EndSubmit(p, arrives, succeeds)
      PROVE  Shared'
  <2>1. \A q \in Pages : page'[q].answers = page[q].answers
    BY <1>0, <1>6 DEF EndSubmit, TypeOK, Page
  <2>2. \A q \in Pages : Held(q)' \subseteq Held(q)
    BY <1>6, <2>1 DEF EndSubmit, Held
  <2>3. stored'.draft \in {stored.draft, None}
    BY <1>0, <1>6 DEF EndSubmit, TypeOK
  <2>. QED
    BY <1>0, <1>6, <2>2, <2>3, SharedKept DEF EndSubmit
<1>7. ASSUME NEW s \in saves, Deliver(s)
      PROVE  Shared'
  <2>1. page' = page
    BY <1>7 DEF Deliver
  <2>2. \A u \in saves' : \E v \in saves : u.page = v.page /\ u.answers = v.answers
    BY <1>0, <1>7 DEF Deliver, TypeOK, Save
  <2>3. \A q \in Pages : Held(q)' \subseteq Held(q)
    BY <2>1, <2>2 DEF Held
  <2>4. CASE UNCHANGED <<stored, accepted>>
    BY <1>0, <2>3, <2>4, SharedKept
  <2>5. CASE /\ stored' = [stored EXCEPT !.rev = s.rev, !.draft = s.answers]
             /\ accepted' = [accepted EXCEPT ![s.page] = s.answers]
             /\ stored.rev = None \/ s.rev > stored.rev
    <3>1. s.page \in Pages /\ s.answers \in 0..MaxAnswers /\ s.answers \in Held(s.page)
      BY <1>0 DEF TypeOK, Save, Held
    <3>2. accepted[s.page] <= s.answers
      BY <2>5 DEF IInv, Acceptable
    <3>3. /\ stored'.draft = s.answers
          /\ \A q \in Pages : accepted'[q] = IF q = s.page THEN s.answers ELSE accepted[q]
      BY <1>0, <2>5 DEF TypeOK
    <3>4. \A q \in Pages : accepted[q] \in Nat
      BY <1>0 DEF TypeOK
    <3>5. \A q \in Pages, a \in 0..MaxAnswers :
            a <= accepted[q] => a <= accepted'[q]
      BY <1>0, <3>1, <3>2, <3>3, <3>4
    <3>6. \A q \in Pages : s.answers \in Held(q) => s.answers <= accepted'[q]
      BY <1>0, <3>1, <3>3, <3>4 DEF Shared
    <3>. QED
      BY <2>3, <3>1, <3>3, <3>5, <3>6 DEF Shared
  <2>. QED
    BY <1>7, <2>4, <2>5 DEF Deliver, DraftVerdict
<1>8. ASSUME NEW s \in saves, Lose(s) \/ Settle(s)
      PROVE  Shared'
  <2>1. \A q \in Pages : page'[q].answers = page[q].answers
    BY <1>0, <1>8 DEF Lose, Settle, TypeOK, Page
  <2>2. \A u \in saves' : \E v \in saves : u.page = v.page /\ u.answers = v.answers
    BY <1>0, <1>8 DEF Lose, Settle, TypeOK, Save
  <2>3. \A q \in Pages : Held(q)' \subseteq Held(q)
    BY <2>1, <2>2 DEF Held
  <2>. QED
    BY <1>0, <1>8, <2>3, SharedKept DEF Lose, Settle
<1>9. CASE Withdraw \/ UNCHANGED vars
  <2>1. /\ page' = page /\ saves' = saves /\ accepted' = accepted
        /\ stored'.draft \in {stored.draft, None}
    BY <1>0, <1>9 DEF Withdraw, vars, TypeOK
  <2>2. \A q \in Pages : Held(q)' \subseteq Held(q)
    BY <2>1 DEF Held
  <2>. QED
    BY <1>0, <2>1, <2>2, SharedKept
<1>. QED
  BY <1>1, <1>2, <1>3, <1>4, <1>5, <1>6, <1>7, <1>8, <1>9 DEF Next, Network, Reply

\* An answered save has arrived: what the server accepts from a page grows.
LEMMA ArrivedStep ==
  ASSUME IInv, Shared, OkArrived, [Next]_vars
  PROVE  OkArrived'
<1>0. /\ TypeOK /\ None \notin Nat /\ MaxAnswers \in Nat
      /\ \A s \in saves : s.page \in Pages /\ s.answers \in 0..MaxAnswers /\ s.rev \in Nat
      /\ \A p \in Pages : accepted[p] \in Nat
  BY DraftSyncAssumption, NoneIsNoNumber DEF IInv, TypeOK, Save, Revisions
<1>1. ASSUME accepted' = accepted,
             \A u \in saves' : u.stage = "ok" =>
                \E s \in saves : s.stage = "ok" /\ u.page = s.page /\ u.answers = s.answers
      PROVE  OkArrived'
  BY <1>1 DEF OkArrived
<1>2. ASSUME NEW p \in Pages,
             \/ Answer(p) \/ Timer(p) \/ GoOnline(p) \/ GoOffline(p) \/ Hide(p)
             \/ Reload(p) \/ BeginSubmit(p)
             \/ \E arrives, succeeds \in BOOLEAN : EndSubmit(p, arrives, succeeds)
      PROVE  OkArrived'
  <2>1. accepted' = accepted
    BY <1>2 DEF Answer, Timer, GoOnline, GoOffline, Hide, Reload, BeginSubmit, EndSubmit
  <2>2. \A u \in saves' : u.stage = "ok" =>
           \E s \in saves : s.stage = "ok" /\ u.page = s.page /\ u.answers = s.answers
    <3>1. CASE Timer(p) \/ GoOnline(p) \/ Hide(p)
      BY <3>1 DEF Timer, GoOnline, Hide, SendDraft, Request
    <3>2. CASE GoOffline(p) \/ Reload(p)
      BY <1>0, <3>2 DEF GoOffline, Reload, TypeOK, Save
    <3>3. CASE saves' = saves
      BY <3>3
    <3>. QED
      BY <1>2, <3>1, <3>2, <3>3 DEF Answer, BeginSubmit, EndSubmit
  <2>. QED
    BY <1>1, <2>1, <2>2
<1>3. ASSUME NEW p \in Pages, Resume(p)
      PROVE  OkArrived'
  <2>1. \A s \in saves : s.page # p
    BY <1>3, NewPageHasNoSave DEF Resume
  <2>. QED
    BY <1>0, <1>3, <2>1 DEF Resume, OkArrived, TypeOK
<1>4. ASSUME NEW s \in saves, Deliver(s)
      PROVE  OkArrived'
  <2> DEFINE accepts == ~ stored.completed /\ (stored.rev = None \/ s.rev > stored.rev)
             same == ~ stored.completed /\ s.answers = stored.draft
  <2>1. s.answers \in Held(s.page)
    BY DEF Held
  <2>2. same => s.answers <= accepted[s.page]
    BY <1>0, <2>1 DEF Shared
  <2>3. accepts => accepted[s.page] <= s.answers
    BY DEF IInv, Acceptable
  <2>4. \E stage \in {"sent", "ok", "failed"} :
          /\ saves' = (saves \ {s}) \cup {[s EXCEPT !.stage = stage]}
          /\ stage = "ok" => accepts \/ same
    BY <1>0, <1>4 DEF Deliver, DraftVerdict
  <2>5. /\ accepts => accepted' = [accepted EXCEPT ![s.page] = s.answers]
        /\ ~ accepts => accepted' = accepted
    BY <1>0, <1>4 DEF Deliver, DraftVerdict
  <2>. HIDE DEF accepts, same
  <2>6. PICK stage \in {"sent", "ok", "failed"} :
          /\ saves' = (saves \ {s}) \cup {[s EXCEPT !.stage = stage]}
          /\ stage = "ok" => accepts \/ same
    BY <2>4
  <2>7. /\ \A p \in Pages : accepted[p] <= accepted'[p]
        /\ accepts \/ same => s.answers <= accepted'[s.page]
    BY <1>0, <2>2, <2>3, <2>5 DEF TypeOK
  <2>8. \A p \in Pages : accepted'[p] \in Nat
    BY <1>0, <2>5 DEF TypeOK
  <2> DEFINE new == [s EXCEPT !.stage = stage]
  <2>9. new.page = s.page /\ new.stage = stage /\ new.answers = s.answers
    BY <1>0 DEF TypeOK, Save
  <2>10. saves' = (saves \ {s}) \cup {new}
    BY <2>6
  <2>. HIDE DEF new
  <2>11. new.stage = "ok" => new.answers <= accepted'[new.page]
    BY <2>6, <2>7, <2>9
  <2>12. \A u \in saves : u.stage = "ok" => u.answers <= accepted'[u.page]
    BY <1>0, <2>7, <2>8 DEF OkArrived
  <2>. QED
    BY <2>10, <2>11, <2>12 DEF OkArrived
<1>5. ASSUME NEW s \in saves, Lose(s) \/ Settle(s)
      PROVE  OkArrived'
  <2>1. \A u \in saves' : u.stage = "ok" => u \in saves
    BY <1>0, <1>5 DEF Lose, Settle, TypeOK, Save
  <2>. QED
    BY <1>1, <1>5, <2>1 DEF Lose, Settle
<1>6. CASE Withdraw \/ UNCHANGED vars
  BY <1>1, <1>6 DEF Withdraw, vars
<1>. QED
  BY <1>2, <1>3, <1>4, <1>5, <1>6 DEF Next, Network, Reply

\* What sending a draft does to the page: the timer goes, and either the
\* newest save is the one sent or the page counts as held back.
LEMMA SendPage ==
  ASSUME TypeOK, NEW p \in Pages, SendDraft(p)
  PROVE  /\ \A q \in Pages : q # p => page'[q] = page[q]
         /\ page'[p].live = page[p].live /\ page'[p].answers = page[p].answers
         /\ page'[p].isSubmitting = page[p].isSubmitting
         /\ page'[p].pending = page[p].pending
         /\ \/ /\ MaySave(p) /\ saves' = saves \cup {Request(p, FALSE)}
               /\ page'[p].draftRevision = page[p].draftRevision + 1
            \/ /\ saves' = saves /\ page'[p].last = "skipped"
               /\ page'[p].draftRevision = page[p].draftRevision
<1>1. CASE MaySave(p)
  <2>1. /\ page' = [page EXCEPT ![p].timer = FALSE, ![p].last = "save",
                                ![p].draftRevision = nextDraftRevision(p)]
        /\ saves' = saves \cup {Request(p, FALSE)}
    BY <1>1 DEF SendDraft
  <2>. QED
    BY <1>1, <2>1 DEF TypeOK, Page, nextDraftRevision
<1>2. CASE ~MaySave(p)
  <2>1. /\ page' = [page EXCEPT ![p].timer = FALSE, ![p].last = "skipped"]
        /\ saves' = saves
    BY <1>2 DEF SendDraft
  <2>. QED
    BY <2>1 DEF TypeOK, Page
<1>. QED
  BY <1>1, <1>2

\* A hidden or reloaded page counts as left.
LEMMA LeavePage ==
  ASSUME TypeOK, NEW p \in Pages, Hide(p) \/ Reload(p)
  PROVE  /\ \A q \in Pages : q # p => page'[q] = page[q]
         /\ page'[p].last = "left" /\ page[p].live
         /\ page'[p].isSubmitting => page[p].isSubmitting
         /\ page'[p].live = page[p].live
<1>1. CASE Hide(p) /\ MaySave(p)
  <2>1. page' = [page EXCEPT ![p].timer = FALSE, ![p].last = "left",
                             ![p].draftRevision = nextDraftRevision(p)]
    BY <1>1 DEF Hide
  <2>. QED
    BY <1>1, <2>1 DEF TypeOK, Page, Hide
<1>2. CASE Hide(p) /\ ~MaySave(p)
  <2>1. page' = [page EXCEPT ![p].timer = FALSE, ![p].last = "left"] /\ page[p].live
    BY <1>2 DEF Hide
  <2>. QED
    BY <2>1 DEF TypeOK, Page
<1>3. CASE Reload(p)
  BY <1>3 DEF Reload, NewPage, TypeOK, Page
<1>. QED
  BY <1>1, <1>2, <1>3

\* The newest save carries the current answers: a new answer sets the timer,
\* or is held back by a submission.
LEMMA CurrentStep ==
  ASSUME IInv, NewestCurrent, [Next]_vars
  PROVE  NewestCurrent'
<1>0. /\ TypeOK /\ \A p \in Pages : page[p] \in Page
      /\ \A s \in saves : s \in Save /\ s.page \in Pages /\ s.rev <= page[s.page].draftRevision
      /\ \A p \in Pages : page[p].draftRevision \in Nat
      /\ \A s \in saves : s.rev \in Nat
  BY DEF IInv, TypeOK, Save, Page, Revisions, Numbered
<1>1. ASSUME NEW p \in Pages, Answer(p)
      PROVE  NewestCurrent'
  <2>1. /\ \A q \in Pages : q # p => page'[q] = page[q]
        /\ page'[p].timer \/ page'[p].last = "skipped"
        /\ saves' = saves
    BY <1>0, <1>1 DEF Answer, TypeOK, Page, MaySave
  <2>. QED
    BY <1>0, <2>1 DEF NewestCurrent, Left
<1>2. ASSUME NEW p \in Pages, SendDraft(p)
      PROVE  NewestCurrent'
  <2> DEFINE r == Request(p, FALSE)
  <2>1. r.page = p /\ r.answers = page[p].answers
    BY DEF Request
  <2>. HIDE DEF r
  <2>2. \A q \in Pages : q # p => page'[q] = page[q]
    BY <1>0, <1>2, SendPage
  <2>3. CASE /\ saves' = saves \cup {r} /\ page'[p].answers = page[p].answers
             /\ page'[p].draftRevision = page[p].draftRevision + 1
    <3>1. \A s \in saves : s.page = p => s.rev # page'[p].draftRevision
      BY <1>0, <2>3
    <3>2. \A s \in saves : s.page # p => page'[s.page] = page[s.page]
      BY <1>0, <2>2
    <3>. QED
      BY <2>1, <2>3, <3>1, <3>2 DEF NewestCurrent, Left
  <2>4. CASE saves' = saves /\ page'[p].last = "skipped"
    BY <1>0, <2>2, <2>4 DEF NewestCurrent, Left
  <2>. QED
    BY <1>0, <1>2, <2>3, <2>4, SendPage DEF r
<1>3. ASSUME NEW p \in Pages, Hide(p)
      PROVE  NewestCurrent'
  <2>1. saves' = saves \/ saves' = saves \cup {Request(p, TRUE)}
    BY <1>3 DEF Hide
  <2>2. Request(p, TRUE).flush
    BY DEF Request
  <2>3. \A s \in saves' : ~s.flush => s \in saves
    BY <2>1, <2>2
  <2>4. /\ \A q \in Pages : q # p => page'[q] = page[q]
        /\ page'[p].last = "left"
    BY <1>0, <1>3, LeavePage
  <2>. QED
    BY <1>0, <2>3, <2>4 DEF NewestCurrent, Left
<1>4. ASSUME \A q \in Pages : /\ page'[q].answers = page[q].answers
                              /\ page'[q].draftRevision = page[q].draftRevision
                              /\ page'[q].timer = page[q].timer
                              /\ page'[q].last = page[q].last,
             \A u \in saves' : \E s \in saves :
                /\ u.page = s.page /\ u.rev = s.rev /\ u.answers = s.answers
                /\ ~u.flush => ~s.flush
      PROVE  NewestCurrent'
  BY <1>0, <1>4 DEF NewestCurrent, Left
<1>5. ASSUME NEW p \in Pages, GoOffline(p)
      PROVE  NewestCurrent'
  <2>1. \A u \in saves' : \E s \in saves :
           /\ u.page = s.page /\ u.rev = s.rev /\ u.answers = s.answers
           /\ ~u.flush => ~s.flush
    BY <1>0, <1>5 DEF GoOffline, Save
  <2>. QED
    BY <1>4, <1>5, <2>1 DEF GoOffline
<1>6. ASSUME NEW p \in Pages, Reload(p)
      PROVE  NewestCurrent'
  <2>1. \A u \in saves' : \E s \in saves :
           /\ u.page = s.page /\ u.rev = s.rev /\ u.answers = s.answers
           /\ ~u.flush => ~s.flush
    BY <1>0, <1>6 DEF Reload, Save
  <2>2. /\ \A q \in Pages : q # p => page'[q] = page[q]
        /\ page'[p].last = "left"
    BY <1>0, <1>6, LeavePage
  <2>. QED
    BY <1>0, <2>1, <2>2 DEF NewestCurrent, Left
<1>7. ASSUME NEW p \in Pages, Resume(p)
      PROVE  NewestCurrent'
  <2>1. \A s \in saves : s.page # p
    BY <1>7, NewPageHasNoSave DEF Resume
  <2>2. \A q \in Pages : q # p => page'[q] = page[q]
    BY <1>0, <1>7 DEF Resume, TypeOK
  <2>. QED
    BY <1>0, <1>7, <2>1, <2>2 DEF Resume, NewestCurrent, Left
<1>8. ASSUME NEW p \in Pages,
             BeginSubmit(p) \/ \E arrives, succeeds \in BOOLEAN : EndSubmit(p, arrives, succeeds)
      PROVE  NewestCurrent'
  <2>1. \A q \in Pages : /\ page'[q].answers = page[q].answers
                         /\ page'[q].draftRevision = page[q].draftRevision
                         /\ page'[q].timer = page[q].timer
                         /\ page'[q].last = page[q].last
    BY <1>0, <1>8 DEF BeginSubmit, EndSubmit, TypeOK, Page
  <2>. QED
    BY <1>4, <1>8, <2>1 DEF BeginSubmit, EndSubmit
<1>9. ASSUME NEW s \in saves, Deliver(s) \/ Lose(s)
      PROVE  NewestCurrent'
  <2>1. \A u \in saves' : \E v \in saves :
           /\ u.page = v.page /\ u.rev = v.rev /\ u.answers = v.answers
           /\ ~u.flush => ~v.flush
    BY <1>0, <1>9 DEF Deliver, Lose, Save
  <2>. QED
    BY <1>4, <1>9, <2>1 DEF Deliver, Lose
<1>10. ASSUME NEW s \in saves, Settle(s)
      PROVE  NewestCurrent'
  <2>1. \A q \in Pages : /\ page'[q].answers = page[q].answers
                         /\ page'[q].draftRevision = page[q].draftRevision
                         /\ page'[q].timer = page[q].timer
                         /\ page'[q].last = page[q].last
    BY <1>0, <1>10 DEF Settle, TypeOK, Page
  <2>2. \A u \in saves' : u \in saves
    BY <1>10 DEF Settle
  <2>. QED
    BY <1>4, <2>1, <2>2
<1>11. ASSUME page' = page, saves' = saves
      PROVE  NewestCurrent'
  BY <1>4, <1>11
<1>12. ASSUME NEW p \in Pages, Timer(p) \/ GoOnline(p)
      PROVE  NewestCurrent'
  BY <1>2, <1>11, <1>12 DEF Timer, GoOnline
<1>13. CASE Withdraw \/ UNCHANGED vars
  BY <1>11, <1>13 DEF Withdraw, vars
<1>. QED
  BY <1>1, <1>3, <1>5, <1>6, <1>7, <1>8, <1>9, <1>10, <1>12, <1>13 DEF Next, Network, Reply

\* A submission begins on a live page, and ends it only when it ends itself.
LEMMA SubmitStep ==
  ASSUME IInv, SubmitsLive, [Next]_vars
  PROVE  SubmitsLive'
<1>0. TypeOK /\ \A p \in Pages : page[p] \in Page
  BY DEF IInv, TypeOK
<1>1. ASSUME NEW p \in Pages,
             /\ \A q \in Pages : q # p => page'[q] = page[q]
             /\ page'[p].isSubmitting => page[p].isSubmitting /\ page'[p].live = page[p].live
      PROVE  SubmitsLive'
  BY <1>1 DEF SubmitsLive
<1>2. ASSUME page' = page
      PROVE  SubmitsLive'
  BY <1>2 DEF SubmitsLive
<1>3. ASSUME NEW p \in Pages, Answer(p)
      PROVE  SubmitsLive'
  <2>1. /\ \A q \in Pages : q # p => page'[q] = page[q]
        /\ page'[p].isSubmitting = page[p].isSubmitting /\ page'[p].live = page[p].live
    BY <1>0, <1>3 DEF Answer, TypeOK, Page
  <2>. QED
    BY <1>1, <2>1
<1>4. ASSUME NEW p \in Pages, Timer(p) \/ GoOnline(p)
      PROVE  SubmitsLive'
  BY <1>0, <1>1, <1>2, <1>4, SendPage DEF Timer, GoOnline
<1>5. ASSUME NEW p \in Pages, Hide(p) \/ Reload(p)
      PROVE  SubmitsLive'
  BY <1>0, <1>1, <1>5, LeavePage
<1>6. ASSUME NEW p \in Pages, Resume(p)
      PROVE  SubmitsLive'
  <2>1. \A q \in Pages : q # p => page'[q] = page[q]
    BY <1>0, <1>6 DEF Resume, TypeOK
  <2>2. page'[p].live
    BY <1>0, <1>6 DEF Resume, NewPage, TypeOK
  <2>. QED
    BY <2>1, <2>2 DEF SubmitsLive
<1>7. ASSUME NEW p \in Pages, BeginSubmit(p)
      PROVE  SubmitsLive'
  <2>1. \A q \in Pages : q # p => page'[q] = page[q]
    BY <1>0, <1>7 DEF BeginSubmit, TypeOK
  <2>2. page'[p].live
    BY <1>0, <1>7 DEF BeginSubmit, MaySave, TypeOK, Page
  <2>. QED
    BY <2>1, <2>2 DEF SubmitsLive
<1>8. ASSUME NEW p \in Pages, NEW arrives \in BOOLEAN, NEW succeeds \in BOOLEAN,
             EndSubmit(p, arrives, succeeds)
      PROVE  SubmitsLive'
  <2>1. \A q \in Pages : q # p => page'[q] = page[q]
    BY <1>0, <1>8 DEF EndSubmit, TypeOK
  <2>2. ~ page'[p].isSubmitting
    BY <1>0, <1>8 DEF EndSubmit, TypeOK, Page
  <2>. QED
    BY <2>1, <2>2 DEF SubmitsLive
<1>9. ASSUME NEW s \in saves, Settle(s)
      PROVE  SubmitsLive'
  <2>1. \A q \in Pages : /\ page'[q].isSubmitting = page[q].isSubmitting
                         /\ page'[q].live = page[q].live
    BY <1>0, <1>9 DEF Settle, TypeOK, Page
  <2>. QED
    BY <2>1 DEF SubmitsLive
<1>10. CASE page' = page
  BY <1>10, <1>2
<1>. QED
  BY <1>3, <1>4, <1>5, <1>6, <1>7, <1>8, <1>9, <1>10
     DEF Next, Network, Reply, GoOffline, Deliver, Lose, Withdraw, vars

\* What is unsaved, owed or left of page q, of any state.
Remembered(q) == Unsaved(q) => Owed(q) \/ Left(q)

\* A page none of whose saves is gone, and which keeps its timer, its debt and
\* its answers, forgets nothing.
LEMMA RememberedKept ==
  ASSUME IInv, NEW q \in Pages, Remembered(q), Unsaved(q)' => Unsaved(q),
         page'[q].live = page[q].live, page'[q].timer = page[q].timer,
         page'[q].pending = page[q].pending, page'[q].last = page[q].last,
         page'[q].draftRevision = page[q].draftRevision,
         \A s \in saves : s.page = q =>
            \E u \in saves' : u.page = q /\ u.rev = s.rev /\ (~s.flush => ~u.flush)
  PROVE  Remembered(q)'
<1>. SUFFICES ASSUME Unsaved(q)' PROVE Owed(q)' \/ Left(q)'
  BY DEF Remembered
<1>1. CASE Left(q)
  BY <1>1 DEF Left
<1>2. CASE page[q].timer \/ page[q].pending
  BY <1>2 DEF Owed
<1>3. ASSUME NEW s \in saves, s.page = q, IsNewest(s)
      PROVE  Owed(q)'
  <2>1. PICK u \in saves' : u.page = q /\ u.rev = s.rev /\ (~s.flush => ~u.flush)
    BY <1>3
  <2>2. IsNewest(u)'
    BY <1>3, <2>1 DEF IsNewest
  <2>. QED
    BY <2>1, <2>2 DEF Owed
<1>. QED
  BY <1>1, <1>2, <1>3 DEF Remembered, Owed

\* Every step leaves unsaved answers owed: the newest save settles with the
\* current answers arrived, or as a debt.
LEMMA ForgottenStep ==
  ASSUME IInv, OwedInv, [Next]_vars
  PROVE  NothingForgotten'
<1>0. /\ TypeOK /\ \A p \in Pages : page[p] \in Page
      /\ \A s \in saves : s \in Save /\ s.page \in Pages
      /\ \A p \in Pages : Remembered(p)
  BY DEF IInv, TypeOK, OwedInv, NothingForgotten, Remembered, Save
<1>. SUFFICES ASSUME NEW q \in Pages PROVE Remembered(q)'
  BY DEF NothingForgotten, Remembered
<1>1. ASSUME page'[q] = page[q], accepted'[q] = accepted[q],
             \A s \in saves : s.page = q =>
                \E u \in saves' : u.page = q /\ u.rev = s.rev /\ (~s.flush => ~u.flush)
      PROVE  Remembered(q)'
  <2>1. Unsaved(q)' => Unsaved(q)
    BY <1>1 DEF Unsaved
  <2>. QED
    BY <1>0, <1>1, <2>1, RememberedKept
<1>2. ASSUME page'[q].timer \/ page'[q].last \in {"left", "skipped"}
      PROVE  Remembered(q)'
  BY <1>2 DEF Remembered, Owed, Left
<1>3. ASSUME NEW p \in Pages, Answer(p)
      PROVE  Remembered(q)'
  <2>1. /\ q # p => page'[q] = page[q]
        /\ q = p => page'[q].timer \/ page'[q].last = "skipped"
        /\ saves' = saves /\ accepted' = accepted
    BY <1>0, <1>3 DEF Answer, TypeOK, Page
  <2>. QED
    BY <1>1, <1>2, <2>1
<1>4. ASSUME NEW p \in Pages, SendDraft(p), accepted' = accepted
      PROVE  Remembered(q)'
  <2> DEFINE r == Request(p, FALSE)
  <2>1. CASE q # p
    <3>1. page'[q] = page[q] /\ saves \subseteq saves'
      BY <1>0, <1>4, <2>1, SendPage
    <3>. QED
      BY <1>1, <1>4, <3>1
  <2>2. CASE q = p /\ page'[p].last = "skipped"
    BY <1>2, <2>2
  <2>3. CASE /\ q = p /\ MaySave(p) /\ saves' = saves \cup {r}
             /\ page'[p].draftRevision = page[p].draftRevision + 1
             /\ page'[p].live = page[p].live
    <3>1. r \in saves' /\ r.page = p /\ ~r.flush /\ r.rev = page'[p].draftRevision
      BY <2>3 DEF Request, nextDraftRevision
    <3>2. page'[p].live
      BY <2>3 DEF MaySave
    <3>. HIDE DEF r
    <3>3. PICK u \in saves' : u.page = p /\ ~u.flush /\ u.rev = page'[p].draftRevision
      BY <3>1
    <3>4. IsNewest(u)'
      BY <3>2, <3>3 DEF IsNewest
    <3>. QED
      BY <2>3, <3>3, <3>4 DEF Remembered, Owed
  <2>. QED
    BY <1>0, <1>4, <2>1, <2>2, <2>3, SendPage
<1>5. ASSUME NEW p \in Pages, Timer(p) \/ GoOnline(p)
      PROVE  Remembered(q)'
  BY <1>1, <1>4, <1>5 DEF Timer, GoOnline
<1>6. ASSUME NEW p \in Pages, Hide(p) \/ Reload(p)
      PROVE  Remembered(q)'
  <2>1. /\ q # p => page'[q] = page[q]
        /\ q = p => page'[q].last = "left"
    BY <1>0, <1>6, LeavePage
  <2>2. accepted' = accepted
    BY <1>6 DEF Hide, Reload
  <2>3. \A s \in saves : s.page = q /\ q # p =>
           \E u \in saves' : u.page = q /\ u.rev = s.rev /\ (~s.flush => ~u.flush)
    <3>1. CASE Hide(p)
      BY <3>1 DEF Hide
    <3>2. CASE Reload(p)
      <4>1. \A s \in saves : s.page # p =>
              /\ [s EXCEPT !.flush = s.flush \/ s.page = p] \in saves'
              /\ [s EXCEPT !.flush = s.flush \/ s.page = p].page = s.page
              /\ [s EXCEPT !.flush = s.flush \/ s.page = p].rev = s.rev
              /\ [s EXCEPT !.flush = s.flush \/ s.page = p].flush = s.flush
        BY <1>0, <3>2 DEF Reload, Save
      <4>. QED
        BY <4>1
    <3>. QED
      BY <1>6, <3>1, <3>2
  <2>. QED
    BY <1>1, <1>2, <2>1, <2>2, <2>3
<1>7. ASSUME NEW p \in Pages, GoOffline(p)
      PROVE  Remembered(q)'
  <2>1. page' = page /\ accepted' = accepted
    BY <1>7 DEF GoOffline
  <2>2. \A s \in saves :
          /\ [s EXCEPT !.hit = s.hit \/ s.page = p] \in saves'
          /\ [s EXCEPT !.hit = s.hit \/ s.page = p].page = s.page
          /\ [s EXCEPT !.hit = s.hit \/ s.page = p].rev = s.rev
          /\ [s EXCEPT !.hit = s.hit \/ s.page = p].flush = s.flush
    BY <1>0, <1>7 DEF GoOffline, Save
  <2>. QED
    BY <1>1, <2>1, <2>2
<1>8. ASSUME NEW p \in Pages, Resume(p)
      PROVE  Remembered(q)'
  <2>1. saves' = saves /\ (q # p => page'[q] = page[q] /\ accepted'[q] = accepted[q])
    BY <1>0, <1>8 DEF Resume, TypeOK
  <2>2. q = p => page'[q].answers = accepted'[q]
    BY <1>0, <1>8 DEF Resume, TypeOK, NewPage
  <2>. QED
    BY <1>1, <2>1, <2>2 DEF Remembered, Unsaved
<1>9. ASSUME NEW p \in Pages, BeginSubmit(p)
      PROVE  Remembered(q)'
  <2>1. /\ page'[q].live = page[q].live /\ page'[q].timer = page[q].timer
        /\ page'[q].pending = page[q].pending /\ page'[q].last = page[q].last
        /\ page'[q].draftRevision = page[q].draftRevision
        /\ page'[q].answers = page[q].answers
        /\ saves' = saves /\ accepted' = accepted
    BY <1>0, <1>9 DEF BeginSubmit, TypeOK, Page
  <2>2. Unsaved(q)' => Unsaved(q)
    BY <2>1 DEF Unsaved
  <2>. QED
    BY <1>0, <2>1, <2>2, RememberedKept
<1>10. ASSUME NEW p \in Pages, NEW arrives \in BOOLEAN, NEW succeeds \in BOOLEAN,
              EndSubmit(p, arrives, succeeds)
      PROVE  Remembered(q)'
  <2>1. /\ page'[q].timer = page[q].timer
        /\ page'[q].pending = page[q].pending /\ page'[q].last = page[q].last
        /\ page'[q].draftRevision = page[q].draftRevision
        /\ page'[q].answers = page[q].answers
        /\ page'[q].live => page[q].live
        /\ saves' = saves /\ accepted' = accepted
    BY <1>0, <1>10 DEF EndSubmit, TypeOK, Page, OwedInv, SubmitsLive
  <2>2. Unsaved(q)' => Unsaved(q) /\ page'[q].live = page[q].live
    BY <1>0, <2>1 DEF Unsaved, Page, TypeOK
  <2>3. CASE ~ Unsaved(q)'
    BY <2>3 DEF Remembered
  <2>. QED
    BY <1>0, <2>1, <2>2, <2>3, RememberedKept
<1>11. ASSUME NEW s \in saves, Deliver(s) \/ Lose(s)
      PROVE  Remembered(q)'
  <2>1. page' = page
    BY <1>11 DEF Deliver, Lose
  <2>2. PICK stage \in {"sent", "ok", "failed"} :
          saves' = (saves \ {s}) \cup {[s EXCEPT !.stage = stage]}
    BY <1>11 DEF Deliver, Lose
  <2>3. /\ [s EXCEPT !.stage = stage].page = s.page /\ [s EXCEPT !.stage = stage].rev = s.rev
        /\ [s EXCEPT !.stage = stage].flush = s.flush
    BY <1>0 DEF Save
  <2>4. \A v \in saves : \E u \in saves' : u.page = v.page /\ u.rev = v.rev /\ u.flush = v.flush
    BY <2>2, <2>3
  <2>5. Unsaved(q)' => Unsaved(q)
    <3>1. CASE accepted' = accepted
      BY <2>1, <3>1 DEF Unsaved
    <3>2. CASE /\ accepted' = [accepted EXCEPT ![s.page] = s.answers]
               /\ stored.rev = None \/ s.rev > stored.rev
      <4>1. accepted[s.page] <= s.answers /\ s.answers <= page[s.page].answers
        BY <3>2 DEF IInv, Acceptable, Numbered
      <4>2. /\ accepted[s.page] \in Nat /\ s.answers \in Nat /\ page[s.page].answers \in Nat
            /\ accepted'[q] = IF q = s.page THEN s.answers ELSE accepted[q]
        BY <1>0, <3>2, DraftSyncAssumption DEF TypeOK, Save, Page
      <4>. QED
        BY <2>1, <4>1, <4>2 DEF Unsaved
    <3>. QED
      BY <1>11, <3>1, <3>2 DEF Deliver, Lose, DraftVerdict
  <2>. QED
    BY <1>0, <2>1, <2>4, <2>5, RememberedKept
<1>12. ASSUME NEW s \in saves, Settle(s)
      PROVE  Remembered(q)'
  <2>0. saves' = saves \ {s} /\ accepted' = accepted
    BY <1>12 DEF Settle
  <2>1. CASE ~ IsNewest(s)
    <3>1. page' = page
      BY <1>12, <2>1 DEF Settle
    <3>2. Unsaved(q)' = Unsaved(q) /\ Left(q)' = Left(q)
      BY <2>0, <3>1 DEF Unsaved, Left
    <3>3. Owed(q) => Owed(q)'
      BY <2>0, <2>1, <3>1 DEF Owed, IsNewest
    <3>. QED
      BY <1>0, <3>2, <3>3 DEF Remembered
  <2>2. CASE IsNewest(s) /\ s.page # q
    <3>1. page'[q] = page[q]
      BY <1>0, <1>12, <2>2 DEF Settle, TypeOK
    <3>. QED
      BY <1>1, <2>0, <2>2, <3>1
  <2>3. CASE IsNewest(s) /\ s.page = q /\ s.stage = "failed"
    <3>1. page'[q].pending
      BY <1>0, <1>12, <2>3 DEF Settle, Owes, TypeOK, Page
    <3>. QED
      BY <3>1 DEF Remembered, Owed
  <2>4. CASE IsNewest(s) /\ s.page = q /\ s.stage = "ok"
    <3>1. /\ page'[q].answers = page[q].answers /\ page'[q].timer = page[q].timer
          /\ page'[q].last = page[q].last
      BY <1>0, <1>12, <2>4 DEF Settle, TypeOK, Page
    <3>2. CASE page[q].timer \/ Left(q)
      BY <1>2, <3>1, <3>2 DEF Left
    <3>3. CASE s.answers = page[q].answers
      <4>1. s.answers <= accepted[q] /\ accepted[q] <= page[q].answers
        BY <2>4 DEF OwedInv, OkArrived, IInv, Numbered
      <4>2. accepted[q] \in Nat /\ page[q].answers \in Nat
        BY <1>0, DraftSyncAssumption DEF TypeOK, Page
      <4>3. page[q].answers = accepted[q]
        BY <3>3, <4>1, <4>2
      <4>. QED
        BY <2>0, <3>1, <4>3 DEF Remembered, Unsaved
    <3>. QED
      BY <2>4, <3>2, <3>3 DEF OwedInv, NewestCurrent, IsNewest
  <2>. QED
    BY <1>12, <2>1, <2>2, <2>3, <2>4 DEF Settle
<1>13. CASE page' = page /\ saves' = saves /\ accepted' = accepted
  BY <1>1, <1>13
<1>. QED
  BY <1>3, <1>5, <1>6, <1>7, <1>8, <1>9, <1>10, <1>11, <1>12, <1>13
     DEF Next, Network, Reply, Withdraw, vars

\* The invariant behind the promise of the auto-save.
THEOREM OwedInvariant == Spec => []OwedInv
<1>1. Init => OwedInv
  <2>. SUFFICES ASSUME Init PROVE OwedInv
    OBVIOUS
  <2>1. /\ saves = {} /\ None \notin Nat /\ stored.draft = None
        /\ \A p \in Pages : /\ page[p].answers = 0 /\ accepted[p] = 0
                            /\ ~ page[p].isSubmitting
    BY NoneIsNoNumber DEF Init, NewPage
  <2>2. Shared
    BY <2>1, DraftSyncAssumption DEF Shared, Held
  <2>. QED
    BY <2>1, <2>2 DEF OwedInv, OkArrived, NewestCurrent, SubmitsLive, NothingForgotten, Unsaved
<1>2. IInv /\ OwedInv /\ [Next]_vars => OwedInv'
  BY SharedStep, ArrivedStep, CurrentStep, SubmitStep, ForgottenStep DEF OwedInv
<1>. QED
  BY <1>1, <1>2, DraftInvariant, PTL DEF Spec

\* However saves are delayed, overtaken, repeated, refused or lost, on however
\* many pages: an answer the server does not have is on its way or owed.
THEOREM NoAnswerForgotten == Spec => []NothingForgotten
<1>1. OwedInv => NothingForgotten
  BY DEF OwedInv
<1>. QED
  BY <1>1, OwedInvariant, PTL
=============================================================================

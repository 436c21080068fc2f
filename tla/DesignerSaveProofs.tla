------------------------- MODULE DesignerSaveProofs -------------------------
(***************************************************************************)
(* No unsaved edit is lost in the designer and none is shown as saved, for *)
(* any number of researchers, fields, saves and refetches.                 *)
(***************************************************************************)
EXTENDS DesignerSave, TLAPS

Had(d) == \A f \in Fields : d.val[f] \in stored[f]

\* What came from the server holds only values the server has had.
Provenance ==
  /\ \A f \in Fields : Blank \in stored[f]
  /\ Had(server)
  /\ \A e \in Editors :
       /\ Had(tab[e].original) /\ Had(tab[e].cache)
       /\ tab[e].saved # None => \A f \in Fields : tab[e].saved[f] \in stored[f]
       /\ fetched[e] # None => Had(fetched[e])
  /\ \A r \in Requests : request[r] # None =>
       /\ Had(request[r].base) /\ Had(request[r].snap)
       /\ request[r].stage = "ok" => request[r].snap.val = request[r].sent.val

SyncedInSync ==
  \A e \in Editors : tab[e].status = "synced" => isDraftInSync(tab[e])

IInv == TypeOK /\ Provenance /\ UnsavedKept /\ SyncedInSync

\* The sync effect changes nothing but the status, and leaves it at synced
\* only when the draft is the original or the last saved draft.
LEMMA SettledStatus ==
  ASSUME NEW t \in Tabs
  PROVE  /\ Settled(t) \in Tabs
         /\ Settled(t).draft = t.draft /\ Settled(t).original = t.original
         /\ Settled(t).cache = t.cache /\ Settled(t).saved = t.saved
         /\ Settled(t).status = "synced" => isDraftInSync(Settled(t))
BY DEF Settled, isDraftInSync, Tabs

\* What a tab has become, when an action leaves it as t before the effect.
LEMMA Became ==
  ASSUME TypeOK, NEW e \in Editors, NEW t \in Tabs, Becomes(e, t)
  PROVE  /\ tab' \in [Editors -> Tabs]
         /\ tab'[e] \in Tabs
         /\ tab'[e].draft = t.draft /\ tab'[e].original = t.original
         /\ tab'[e].cache = t.cache /\ tab'[e].saved = t.saved
         /\ tab'[e].status = "synced" => isDraftInSync(tab'[e])
         /\ \A o \in Editors : o # e => tab'[o] = tab[o]
<1>1. tab' = [tab EXCEPT ![e] = Settled(t)] /\ tab \in [Editors -> Tabs]
  BY DEF Becomes, TypeOK
<1>2. tab'[e] = Settled(t) /\ Settled(t) \in Tabs
  BY <1>1, SettledStatus
<1>. QED
  BY <1>1, <1>2, SettledStatus

\* A merge is a document.
LEMMA MergeType ==
  ASSUME NEW local \in Docs, NEW theirs \in Docs, NEW base \in Docs
  PROVE  mergeStudyUpdates(local, theirs, base) \in Docs
BY DEF mergeStudyUpdates, Docs, Contents

\* A study delivered by the query changes no value of the draft.
LEMMA StudyEffectType ==
  ASSUME NEW t \in Tabs, NEW doc \in Docs
  PROVE  /\ StudyEffect(t, doc) \in Tabs
         /\ StudyEffect(t, doc).draft.val = t.draft.val
         /\ StudyEffect(t, doc).original = doc /\ StudyEffect(t, doc).cache = doc
         /\ StudyEffect(t, doc).saved = t.saved
BY DEF StudyEffect, Tabs

\* The acknowledgement of what was sent changes no value of the draft.
LEMMA AcknowledgeType ==
  ASSUME NEW q \in Patches, NEW t \in Tabs
  PROVE  /\ Acknowledge(q, t) \in Tabs
         /\ Acknowledge(q, t).original = q.snap /\ Acknowledge(q, t).cache = t.cache
         /\ Acknowledge(q, t).saved = q.sent.val
         /\ q.snap.val = q.sent.val => Acknowledge(q, t).draft.val = t.draft.val
<1>1. t.draft \in Docs /\ q.snap \in Docs /\ q.sent \in Docs /\ q.sent.val \in Contents
  BY DEF Tabs, Patches, Docs
<1> DEFINE merged == mergeStudyUpdates(t.draft, q.snap, q.sent)
<1>2. merged \in Docs
  BY <1>1, MergeType
<1>3. q.snap.val = q.sent.val => merged.val = t.draft.val
  BY <1>1 DEF mergeStudyUpdates, Docs, Contents
<1>. HIDE DEF merged
<1>4. CASE t.draft # q.sent
  <2>1. Acknowledge(q, t) = [t EXCEPT !.saved = q.sent.val, !.original = q.snap,
                                      !.draft = merged, !.status = "modified"]
    BY <1>4 DEF Acknowledge, merged
  <2>. QED
    BY <2>1, <1>1, <1>2, <1>3 DEF Tabs
<1>5. CASE t.draft = q.sent
  <2>1. Acknowledge(q, t) = [t EXCEPT !.saved = q.sent.val, !.original = q.snap,
                                      !.draft = q.snap, !.status = "synced"]
    BY <1>5 DEF Acknowledge
  <2>. QED
    BY <2>1, <1>1, <1>5 DEF Tabs
<1>. QED
  BY <1>4, <1>5

\* A conflict changes a draft only where it still is the original.
LEMMA ConflictType ==
  ASSUME NEW q \in Patches, NEW t \in Tabs
  PROVE  /\ applyConflict(q, t) \in Tabs
         /\ applyConflict(q, t).original = q.snap /\ applyConflict(q, t).cache = t.cache
         /\ applyConflict(q, t).saved = None
         /\ \A f \in Fields : \/ applyConflict(q, t).draft.val[f] = t.draft.val[f]
                              \/ t.draft.val[f] = q.base.val[f]
<1>1. t.draft \in Docs /\ q.snap \in Docs /\ q.base \in Docs
  BY DEF Tabs, Patches
<1> DEFINE merged == mergeStudyUpdates(t.draft, q.snap, q.base)
<1>2. merged \in Docs
  BY <1>1, MergeType
<1>3. \A f \in Fields : merged.val[f] = t.draft.val[f] \/ t.draft.val[f] = q.base.val[f]
  BY <1>1 DEF mergeStudyUpdates
<1>4. applyConflict(q, t) = [t EXCEPT !.draft = merged, !.original = q.snap,
                                      !.saved = None, !.status = "modified"]
  BY DEF applyConflict, merged
<1>. HIDE DEF merged
<1>. QED
  BY <1>4, <1>1, <1>2, <1>3 DEF Tabs

-----------------------------------------------------------------------------
\* The new study and what a request or an edit builds are well typed.
LEMMA NewStudyType == NewStudy \in Docs /\ \A f \in Fields : NewStudy.val[f] = Blank
BY DEF NewStudy, Docs, Contents, Values

\* What an edit types, and the tab before the effect.
EditValue(e, f) == <<e, typed[e][f][2] + 1>>
EditedTab(e, f) == [tab[e] EXCEPT !.draft.val[f] = EditValue(e, f)]

\* An edit is well typed and changes one field of the draft.
LEMMA EditType ==
  ASSUME TypeOK, NEW e \in Editors, NEW f \in Fields, typed[e][f][2] < MaxEdits
  PROVE  /\ EditValue(e, f) \in Values /\ EditedTab(e, f) \in Tabs
         /\ EditedTab(e, f).original = tab[e].original /\ EditedTab(e, f).cache = tab[e].cache
         /\ EditedTab(e, f).saved = tab[e].saved
         /\ EditedTab(e, f).draft.val = [tab[e].draft.val EXCEPT ![f] = EditValue(e, f)]
<1> DEFINE value == EditValue(e, f)
<1> DEFINE t == EditedTab(e, f)
<1>1. typed[e][f] \in Values
  BY DEF TypeOK, Contents
<1>2. typed[e][f][2] \in Nat
  BY <1>1, DesignerAssumption DEF Values, Blank
<1>3. value \in Values
  BY <1>2, DesignerAssumption DEF Values, EditValue
<1>. HIDE DEF value
<1>4. tab[e] \in Tabs
  BY DEF TypeOK
<1>5. tab[e].draft \in Docs
  BY <1>4 DEF Tabs
<1>6. tab[e].draft.val \in Contents
  BY <1>5 DEF Docs
<1> DEFINE val == [tab[e].draft.val EXCEPT ![f] = value]
<1>7. val \in Contents
  BY <1>3, <1>6 DEF Contents
<1>. HIDE DEF val
<1> DEFINE draft == [tab[e].draft EXCEPT !.val = val]
<1>8. draft \in Docs /\ draft.val = val
  BY <1>5, <1>7 DEF Docs
<1>9. t = [tab[e] EXCEPT !.draft = draft]
  BY DEF draft, val, value, EditedTab
<1>. HIDE DEF draft
<1>10. /\ [tab[e] EXCEPT !.draft = draft] \in Tabs
       /\ [tab[e] EXCEPT !.draft = draft].original = tab[e].original
       /\ [tab[e] EXCEPT !.draft = draft].cache = tab[e].cache
       /\ [tab[e] EXCEPT !.draft = draft].saved = tab[e].saved
       /\ [tab[e] EXCEPT !.draft = draft].draft = draft
  BY <1>4, <1>8 DEF Tabs
<1>. QED
  BY <1>3, <1>8, <1>9, <1>10 DEF val, value

\* What a commit makes of the row: each field has its old value or one sent.
LEMMA CommittedRow ==
  ASSUME TypeOK, NEW r \in Requests, At(r, "loaded")
  PROVE  /\ request[r] \in Patches
         /\ Committed(request[r]) \in Docs
         /\ \A f \in Fields :
              Committed(request[r]).val[f] = IF request[r].sent.val[f] # request[r].snap.val[f]
                                             THEN request[r].sent.val[f] ELSE server.val[f]
<1>1. request[r] \in Patches
  BY DEF TypeOK, At
<1>2. /\ request[r].sent \in Docs /\ server \in Docs /\ request[r].stamp \in Nat
  BY <1>1 DEF Patches, TypeOK
<1>. QED
  BY <1>1, <1>2 DEF Committed, Flushed, Docs, Contents

-----------------------------------------------------------------------------
\* A step in which tab e becomes t and one request may end or begin.
LEMMA TabStep ==
  ASSUME IInv, NEW e \in Editors, NEW t \in Tabs, Becomes(e, t),
         Had(t.original), Had(t.cache),
         t.saved # None => \A f \in Fields : t.saved[f] \in stored[f],
         \A f \in Fields : \/ t.draft.val[f] = tab[e].draft.val[f]
                            \/ tab[e].draft.val[f] \in stored[f],
         UNCHANGED <<server, clock, typed, stored>>,
         fetched' \in [Editors -> Docs \cup {None}],
         \A o \in Editors : fetched'[o] # None => Had(fetched'[o]),
         request' \in [Requests -> Patches \cup {None}],
         \A r \in Requests : request'[r] # None =>
           /\ Had(request'[r].base) /\ Had(request'[r].snap)
           /\ request'[r].stage = "ok" => request'[r].snap.val = request'[r].sent.val
  PROVE  IInv'
<1>1. /\ tab' \in [Editors -> Tabs]
      /\ tab'[e].draft = t.draft /\ tab'[e].original = t.original
      /\ tab'[e].cache = t.cache /\ tab'[e].saved = t.saved
      /\ tab'[e].status = "synced" => isDraftInSync(tab'[e])
      /\ \A o \in Editors : o # e => tab'[o] = tab[o]
  BY Became DEF IInv
<1>2. TypeOK'
  BY <1>1 DEF IInv, TypeOK
<1>3. Provenance'
  BY <1>1 DEF IInv, Provenance, Had
<1>4. UnsavedKept'
  BY <1>1 DEF IInv, UnsavedKept, Unsaved
<1>5. SyncedInSync'
  BY <1>1 DEF IInv, SyncedInSync, isDraftInSync
<1>. QED
  BY <1>2, <1>3, <1>4, <1>5 DEF IInv

\* A tab, a request and the documents they hold, typed and with their origin.
LEMMA Known ==
  ASSUME IInv
  PROVE  /\ \A e \in Editors :
              /\ tab[e] \in Tabs /\ tab[e].draft \in Docs
              /\ tab[e].original \in Docs /\ tab[e].cache \in Docs
              /\ Had(tab[e].original) /\ Had(tab[e].cache)
              /\ tab[e].saved # None => \A f \in Fields : tab[e].saved[f] \in stored[f]
              /\ fetched[e] # None => fetched[e] \in Docs /\ Had(fetched[e])
         /\ \A r \in Requests : request[r] # None =>
              /\ request[r] \in Patches /\ request[r].tab \in Editors
              /\ request[r].sent \in Docs /\ request[r].snap \in Docs /\ request[r].base \in Docs
              /\ Had(request[r].base) /\ Had(request[r].snap)
              /\ request[r].stage = "ok" => request[r].snap.val = request[r].sent.val
BY DEF IInv, TypeOK, Provenance, Tabs, Patches

\* An edit keeps the invariant.
LEMMA EditStep ==
  ASSUME IInv, NEW e \in Editors, NEW f \in Fields, Edit(e, f)
  PROVE  IInv'
<1> DEFINE value == EditValue(e, f)
<1> DEFINE t == EditedTab(e, f)
<1>0. TypeOK /\ typed[e][f][2] < MaxEdits
  BY DEF IInv, Edit
<1>1. /\ value \in Values /\ t \in Tabs
      /\ t.original = tab[e].original /\ t.cache = tab[e].cache /\ t.saved = tab[e].saved
      /\ t.draft.val = [tab[e].draft.val EXCEPT ![f] = value]
  BY <1>0, EditType
<1>2. /\ Becomes(e, t) /\ typed' = [typed EXCEPT ![e][f] = value]
      /\ UNCHANGED <<server, clock, fetched, request, stored>>
  BY DEF Edit, EditedTab, EditValue
<1>. HIDE DEF value, t
<1>3. /\ tab' \in [Editors -> Tabs]
      /\ tab'[e].draft = t.draft /\ tab'[e].original = t.original
      /\ tab'[e].cache = t.cache /\ tab'[e].saved = t.saved
      /\ tab'[e].status = "synced" => isDraftInSync(tab'[e])
      /\ \A o \in Editors : o # e => tab'[o] = tab[o]
  BY <1>0, <1>1, <1>2, Became
<1>4. typed' \in [Editors -> Contents]
  BY <1>0, <1>1, <1>2 DEF TypeOK, Contents
<1>5. TypeOK'
  BY <1>0, <1>2, <1>3, <1>4 DEF TypeOK
<1>6. Provenance'
  BY <1>1, <1>2, <1>3, Known DEF IInv, Provenance, Had
<1>7. tab[e].draft.val \in Contents /\ typed \in [Editors -> Contents]
  BY <1>0, Known DEF TypeOK, Docs
<1>8. UnsavedKept'
  <2>1. ASSUME NEW o \in Editors, NEW g \in Fields, Unsaved(o, g)'
        PROVE  tab'[o].draft.val[g] = typed'[o][g]
    <3>1. CASE o = e /\ g = f
      BY <3>1, <1>1, <1>2, <1>3, <1>7 DEF Contents
    <3>2. CASE o = e /\ g # f
      BY <3>2, <2>1, <1>1, <1>2, <1>3, <1>7 DEF Contents, IInv, UnsavedKept, Unsaved
    <3>3. CASE o # e
      BY <3>3, <2>1, <1>2, <1>3, <1>7 DEF IInv, UnsavedKept, Unsaved
    <3>. QED
      BY <3>1, <3>2, <3>3
  <2>. QED
    BY <2>1 DEF UnsavedKept
<1>9. SyncedInSync'
  BY <1>3 DEF IInv, SyncedInSync, isDraftInSync
<1>. QED
  BY <1>5, <1>6, <1>8, <1>9 DEF IInv

\* A commit keeps the invariant.
LEMMA CommitStep ==
  ASSUME IInv, NEW r \in Requests, Commit(r)
  PROVE  IInv'
<1> DEFINE q == request[r]
<1> DEFINE row == Committed(q)
<1> DEFINE snap == [val |-> q.sent.val, at |-> row.at]
<1> DEFINE answered == [q EXCEPT !.stage = "ok", !.snap = snap, !.stamp = 0]
<1>0. TypeOK /\ At(r, "loaded")
  BY DEF IInv, Commit
<1>1. /\ q \in Patches /\ row \in Docs
      /\ \A f \in Fields : row.val[f] = IF q.sent.val[f] # q.snap.val[f]
                                        THEN q.sent.val[f] ELSE server.val[f]
  BY <1>0, CommittedRow
<1>2. /\ server' = row
      /\ stored' = [f \in Fields |-> stored[f] \cup {row.val[f]}]
      /\ request' = [request EXCEPT ![r] = answered]
      /\ UNCHANGED <<clock, tab, fetched, typed>>
  BY DEF Commit
<1>3. q # None /\ q.sent \in Docs /\ Had(q.base) /\ Had(q.snap)
  BY <1>0, Known DEF At
<1>. HIDE DEF row, q
<1>4. snap \in Docs /\ snap.val = q.sent.val
  BY <1>1, <1>3 DEF Docs
<1>. HIDE DEF snap
<1>5. /\ answered \in Patches /\ answered.base = q.base /\ answered.snap = snap
      /\ answered.sent = q.sent
  BY <1>1, <1>4 DEF Patches
<1>. HIDE DEF answered
<1>6. \A f \in Fields : row.val[f] \in Values /\ q.sent.val[f] \in Values
  BY <1>1, <1>3 DEF Docs, Contents
<1>7. /\ stored' \in [Fields -> SUBSET Values]
      /\ \A f \in Fields : stored[f] \subseteq stored'[f] /\ row.val[f] \in stored'[f]
  BY <1>0, <1>2, <1>6 DEF TypeOK
<1>8. \A f \in Fields : q.sent.val[f] \in stored'[f]
  BY <1>1, <1>3, <1>7 DEF Had
<1>9. TypeOK'
  BY <1>0, <1>1, <1>2, <1>5, <1>7 DEF TypeOK
<1>10. Provenance'
  <2>1. \A o \in Requests : request'[o] = IF o = r THEN answered ELSE request[o]
    BY <1>0, <1>2 DEF TypeOK
  <2>2. \A f \in Fields : answered.snap.val[f] \in stored'[f] /\ answered.base.val[f] \in stored'[f]
    BY <1>3, <1>4, <1>5, <1>7, <1>8 DEF Had
  <2>. QED
    BY <2>1, <2>2, <1>2, <1>4, <1>5, <1>7, <1>8 DEF IInv, Provenance, Had
<1>11. UnsavedKept'
  BY <1>2, <1>7 DEF IInv, UnsavedKept, Unsaved
<1>12. SyncedInSync'
  BY <1>2 DEF IInv, SyncedInSync, isDraftInSync
<1>. QED
  BY <1>9, <1>10, <1>11, <1>12 DEF IInv

\* The steps that touch one request and no tab: a save is loaded or refused.
LEMMA RequestStep ==
  ASSUME IInv, NEW r \in Requests, NEW new \in Patches,
         Had(new.base), Had(new.snap), new.stage # "ok",
         request' = [request EXCEPT ![r] = new], clock' \in Nat,
         UNCHANGED <<server, tab, fetched, typed, stored>>
  PROVE  IInv'
<1>1. \A o \in Requests : request'[o] = IF o = r THEN new ELSE request[o]
  BY DEF IInv, TypeOK
<1>2. TypeOK'
  BY DEF IInv, TypeOK
<1>3. Provenance'
  BY <1>1 DEF IInv, Provenance, Had
<1>4. UnsavedKept' /\ SyncedInSync'
  BY DEF IInv, UnsavedKept, Unsaved, SyncedInSync, isDraftInSync
<1>. QED
  BY <1>2, <1>3, <1>4 DEF IInv

\* The answer to a request reaches its tab.
LEMMA AnsweredStep ==
  ASSUME IInv, NEW r \in Requests, request[r] # None, NEW t \in Tabs, Answered(r, t),
         Had(t.original), Had(t.cache),
         t.saved # None => \A f \in Fields : t.saved[f] \in stored[f],
         \A f \in Fields : \/ t.draft.val[f] = tab[request[r].tab].draft.val[f]
                            \/ tab[request[r].tab].draft.val[f] \in stored[f]
  PROVE  IInv'
<1> DEFINE e == request[r].tab
<1>1. e \in Editors
  BY Known
<1>2. Becomes(e, t) /\ UNCHANGED <<server, clock, fetched, typed, stored>>
  BY DEF Answered
<1>3. request' = [request EXCEPT ![r] = None] /\ request \in [Requests -> Patches \cup {None}]
  BY DEF Answered, IInv, TypeOK
<1>4. request' \in [Requests -> Patches \cup {None}]
      /\ \A o \in Requests : request'[o] # None => request'[o] = request[o]
  BY <1>3
<1>5. fetched' \in [Editors -> Docs \cup {None}]
  BY <1>2 DEF IInv, TypeOK
<1>. HIDE DEF e
<1>6. \A f \in Fields : \/ t.draft.val[f] = tab[e].draft.val[f]
                        \/ tab[e].draft.val[f] \in stored[f]
  BY DEF e
<1>7. \A o \in Editors : fetched'[o] # None => Had(fetched'[o])
  BY <1>2, Known
<1>8. \A o \in Requests : request'[o] # None =>
           /\ Had(request'[o].base) /\ Had(request'[o].snap)
           /\ request'[o].stage = "ok" => request'[o].snap.val = request'[o].sent.val
  BY <1>4, Known
<1>. QED
  BY <1>1, <1>2, <1>4, <1>5, <1>6, <1>7, <1>8, TabStep

\* The study query delivers a document, or the page is entered again.
LEMMA QueryStep ==
  ASSUME IInv, NEW e \in Editors, NEW doc \in Docs, Had(doc), NEW t \in Tabs,
         LET u == StudyEffect(tab[e], doc) IN t = u \/ t = [u EXCEPT !.saved = None],
         Becomes(e, t), fetched' \in [Editors -> Docs \cup {None}],
         \A o \in Editors : fetched'[o] # None => fetched'[o] = fetched[o],
         UNCHANGED <<server, clock, request, typed, stored>>
  PROVE  IInv'
<1> DEFINE u == StudyEffect(tab[e], doc)
<1>1. tab[e] \in Tabs
  BY Known
<1>2. /\ u \in Tabs /\ u.draft.val = tab[e].draft.val
      /\ u.original = doc /\ u.cache = doc /\ u.saved = tab[e].saved
  BY <1>1, StudyEffectType
<1>3. t = u \/ t = [u EXCEPT !.saved = None]
  OBVIOUS
<1>. HIDE DEF u
<1>4. /\ t.draft = u.draft /\ t.original = doc /\ t.cache = doc
      /\ t.saved = tab[e].saved \/ t.saved = None
  BY <1>2, <1>3 DEF Tabs
<1>5. /\ t.saved # None => \A f \in Fields : t.saved[f] \in stored[f]
      /\ \A f \in Fields : t.draft.val[f] = tab[e].draft.val[f]
      /\ Had(t.original) /\ Had(t.cache)
  BY <1>2, <1>4, Known
<1>6. \A o \in Editors : fetched'[o] # None => Had(fetched'[o])
  BY Known
<1>7. \A r \in Requests : request'[r] # None =>
           /\ Had(request'[r].base) /\ Had(request'[r].snap)
           /\ request'[r].stage = "ok" => request'[r].snap.val = request'[r].sent.val
  BY Known
<1>8. request' \in [Requests -> Patches \cup {None}]
  BY DEF IInv, TypeOK
<1>. QED
  BY <1>5, <1>6, <1>7, <1>8, TabStep

\* What an editor does keeps the invariant.
LEMMA EditorStep ==
  ASSUME IInv, NEW e \in Editors,
         \/ \E f \in Fields : Edit(e, f)
         \/ \E r \in Requests : Save(e, r)
         \/ Fetch(e) \/ Deliver(e) \/ Remount(e)
  PROVE  IInv'
<1>0. TypeOK /\ tab[e] \in Tabs
  BY Known DEF IInv
<1>1. ASSUME NEW r \in Requests, Save(e, r)
      PROVE  IInv'
  <2> DEFINE t == [tab[e] EXCEPT !.status = "saving"]
  <2> DEFINE new == [tab |-> e, sent |-> tab[e].draft, base |-> tab[e].original,
                     stage |-> "sent", snap |-> NewStudy, stamp |-> 0]
  <2>1. /\ t \in Tabs /\ t.draft = tab[e].draft /\ t.original = tab[e].original
        /\ t.cache = tab[e].cache /\ t.saved = tab[e].saved
    BY <1>0 DEF Tabs
  <2>2. Becomes(e, t) /\ request' = [request EXCEPT ![r] = new]
        /\ UNCHANGED <<server, clock, fetched, typed, stored>>
    BY <1>1 DEF Save
  <2>. HIDE DEF t
  <2>3. /\ new \in Patches /\ new.base = tab[e].original /\ new.snap = NewStudy
        /\ new.stage = "sent"
    BY Known, NewStudyType DEF Patches
  <2>. HIDE DEF new
  <2>4. Had(new.base) /\ Had(new.snap)
    BY <2>3, Known, NewStudyType DEF Had, IInv, Provenance
  <2>5. \A o \in Requests : request'[o] = IF o = r THEN new ELSE request[o]
    BY <1>0, <2>2 DEF TypeOK
  <2>6. \A o \in Requests : request'[o] # None =>
           /\ Had(request'[o].base) /\ Had(request'[o].snap)
           /\ request'[o].stage = "ok" => request'[o].snap.val = request'[o].sent.val
    BY <2>3, <2>4, <2>5, Known
  <2>7. /\ request' \in [Requests -> Patches \cup {None}]
        /\ fetched' \in [Editors -> Docs \cup {None}]
    BY <1>0, <2>2, <2>3 DEF TypeOK
  <2>8. \A o \in Editors : fetched'[o] # None => Had(fetched'[o])
    BY <2>2, Known
  <2>9. /\ t.saved # None => \A f \in Fields : t.saved[f] \in stored[f]
        /\ Had(t.original) /\ Had(t.cache)
    BY <2>1, Known
  <2>. QED
    BY <2>1, <2>2, <2>6, <2>7, <2>8, <2>9, TabStep
<1>2. CASE Fetch(e)
  <2>1. /\ fetched' = [fetched EXCEPT ![e] = server]
        /\ UNCHANGED <<server, clock, tab, request, typed, stored>>
    BY <1>2 DEF Fetch
  <2>2. TypeOK'
    BY <1>0, <2>1 DEF TypeOK
  <2>3. \A o \in Editors : fetched'[o] = IF o = e THEN server ELSE fetched[o]
    BY <1>0, <2>1 DEF TypeOK
  <2>4. Provenance'
    BY <2>1, <2>3 DEF IInv, Provenance, Had
  <2>5. UnsavedKept' /\ SyncedInSync'
    BY <2>1 DEF IInv, UnsavedKept, Unsaved, SyncedInSync, isDraftInSync
  <2>. QED
    BY <2>2, <2>4, <2>5 DEF IInv
<1>3. CASE Deliver(e)
  <2>1. /\ fetched[e] # None /\ fetched' = [fetched EXCEPT ![e] = None]
        /\ Becomes(e, StudyEffect(tab[e], fetched[e]))
        /\ UNCHANGED <<server, clock, request, typed, stored>>
    BY <1>3 DEF Deliver
  <2>2. fetched[e] \in Docs /\ Had(fetched[e])
    BY <2>1, Known
  <2>3. StudyEffect(tab[e], fetched[e]) \in Tabs
    BY <1>0, <2>2, StudyEffectType
  <2>4. /\ fetched' \in [Editors -> Docs \cup {None}]
        /\ \A o \in Editors : fetched'[o] # None => fetched'[o] = fetched[o]
    BY <1>0, <2>1 DEF TypeOK
  <2>. QED
    BY <2>1, <2>2, <2>3, <2>4, QueryStep
<1>4. CASE Remount(e)
  <2> DEFINE u == StudyEffect(tab[e], tab[e].cache)
  <2> DEFINE t == [u EXCEPT !.saved = None]
  <2>1. tab[e].cache \in Docs /\ Had(tab[e].cache)
    BY Known
  <2>2. u \in Tabs
    BY <1>0, <2>1, StudyEffectType
  <2>3. Becomes(e, t) /\ UNCHANGED <<server, clock, fetched, request, typed, stored>>
    BY <1>4 DEF Remount
  <2>4. t \in Tabs
    <3>. HIDE DEF u
    <3>. QED
      BY <2>2 DEF Tabs
  <2>5. t = [StudyEffect(tab[e], tab[e].cache) EXCEPT !.saved = None]
    OBVIOUS
  <2>6. /\ fetched' \in [Editors -> Docs \cup {None}]
        /\ \A o \in Editors : fetched'[o] # None => fetched'[o] = fetched[o]
    BY <1>0, <2>3 DEF TypeOK
  <2>. HIDE DEF t
  <2>. QED
    BY <2>1, <2>3, <2>4, <2>5, <2>6, QueryStep
<1>. QED
  BY <1>1, <1>2, <1>3, <1>4, EditStep

\* A step of a request keeps the invariant.
LEMMA PatchStep ==
  ASSUME IInv, NEW r \in Requests,
         \/ Load(r) \/ Refuse(r) \/ Commit(r)
         \/ Saved(r) \/ Merged(r) \/ SaveFailed(r)
  PROVE  IInv'
<1> DEFINE q == request[r]
<1>0. /\ q # None /\ q \in Patches /\ q.tab \in Editors /\ tab[q.tab] \in Tabs
      /\ q.sent \in Docs /\ q.snap \in Docs /\ q.base \in Docs /\ Had(q.base) /\ Had(q.snap)
      /\ q.stage = "ok" => q.snap.val = q.sent.val
  BY Known DEF Load, Refuse, Commit, Saved, Merged, SaveFailed, At
<1>1. TypeOK /\ server \in Docs /\ Had(server) /\ clock \in Nat /\ NewStudy \in Docs /\ Had(NewStudy)
  BY NewStudyType DEF IInv, TypeOK, Provenance, Had
<1>2. CASE Refuse(r)
  <2> DEFINE new == [q EXCEPT !.stage = "conflict", !.snap = server, !.sent = NewStudy]
  <2>1. /\ request' = [request EXCEPT ![r] = new]
        /\ UNCHANGED <<server, clock, tab, fetched, typed, stored>>
    BY <1>2 DEF Refuse
  <2>2. /\ new \in Patches /\ new.base = q.base /\ new.snap = server
        /\ new.stage = "conflict"
    <3>. HIDE DEF q
    <3>. QED
      BY <1>0, <1>1 DEF Patches
  <2>. HIDE DEF new, q
  <2>. QED
    BY <1>0, <1>1, <2>1, <2>2, RequestStep
<1>3. CASE Load(r)
  <2> DEFINE stamp == clock + 1
  <2> DEFINE new == [q EXCEPT !.stage = "loaded", !.snap = server, !.stamp = stamp,
                              !.base = NewStudy]
  <2>1. /\ request' = [request EXCEPT ![r] = new] /\ clock' = stamp
        /\ UNCHANGED <<server, tab, fetched, typed, stored>>
    BY <1>3 DEF Load
  <2>2. stamp \in Nat
    BY <1>1
  <2>. HIDE DEF stamp
  <2>3. /\ new \in Patches /\ new.base = NewStudy /\ new.snap = server
        /\ new.stage = "loaded"
    <3>. HIDE DEF q
    <3>. QED
      BY <1>0, <1>1, <2>2 DEF Patches
  <2>4. clock' \in Nat /\ new.stage # "ok" /\ Had(new.base) /\ Had(new.snap)
    <3>. HIDE DEF new, q
    <3>. QED
      BY <1>1, <2>1, <2>2, <2>3 DEF Had
  <2>. HIDE DEF new, q
  <2>. QED
    BY <2>1, <2>3, <2>4, RequestStep
<1>4. CASE Saved(r)
  <2> DEFINE t == Acknowledge(q, tab[q.tab])
  <2>1. q.snap.val = q.sent.val
    BY <1>0, <1>4 DEF Saved, At
  <2>2. /\ t \in Tabs /\ t.original = q.snap /\ t.cache = tab[q.tab].cache
        /\ t.saved = q.sent.val /\ t.draft.val = tab[q.tab].draft.val
    BY <1>0, <2>1, AcknowledgeType
  <2>3. Answered(r, t)
    BY <1>4 DEF Saved
  <2>4. /\ Had(t.original) /\ Had(t.cache) /\ \A f \in Fields : t.saved[f] \in stored[f]
    BY <1>0, <2>1, <2>2, Known DEF Had
  <2>. HIDE DEF t
  <2>. QED
    BY <1>0, <2>2, <2>3, <2>4, AnsweredStep
<1>5. CASE Merged(r)
  <2> DEFINE t == applyConflict(q, tab[q.tab])
  <2>1. /\ t \in Tabs /\ t.original = q.snap /\ t.cache = tab[q.tab].cache /\ t.saved = None
        /\ \A f \in Fields : \/ t.draft.val[f] = tab[q.tab].draft.val[f]
                             \/ tab[q.tab].draft.val[f] = q.base.val[f]
    BY <1>0, ConflictType
  <2>2. Answered(r, t)
    BY <1>5 DEF Merged
  <2>3. /\ Had(t.original) /\ Had(t.cache)
        /\ \A f \in Fields : \/ t.draft.val[f] = tab[q.tab].draft.val[f]
                             \/ tab[q.tab].draft.val[f] \in stored[f]
    BY <1>0, <2>1, Known DEF Had
  <2>. HIDE DEF t
  <2>. QED
    BY <1>0, <2>1, <2>2, <2>3, AnsweredStep
<1>6. CASE SaveFailed(r)
  <2> DEFINE t == Failed(tab[q.tab])
  <2>1. /\ t \in Tabs /\ t.original = tab[q.tab].original /\ t.cache = tab[q.tab].cache
        /\ t.saved = tab[q.tab].saved /\ t.draft = tab[q.tab].draft
    <3>1. \A u \in Tabs : /\ Failed(u) \in Tabs /\ Failed(u).original = u.original
                           /\ Failed(u).cache = u.cache /\ Failed(u).saved = u.saved
                           /\ Failed(u).draft = u.draft
      BY DEF Failed, Tabs
    <3>. QED
      BY <1>0, <3>1
  <2>2. Answered(r, t)
    BY <1>6 DEF SaveFailed
  <2>. HIDE DEF t
  <2>3. Had(t.original) /\ Had(t.cache)
        /\ (t.saved # None => \A f \in Fields : t.saved[f] \in stored[f])
    BY <1>0, <2>1, Known
  <2>. QED
    BY <1>0, <2>1, <2>2, <2>3, AnsweredStep
<1>. QED
  BY <1>2, <1>3, <1>4, <1>5, <1>6, CommitStep

LEMMA InitInv == Init => IInv
<1>. SUFFICES ASSUME Init PROVE IInv
  OBVIOUS
<1>1. /\ NewStudy \in Docs /\ NewStudy.val \in Contents
      /\ \A f \in Fields : NewStudy.val[f] = Blank
      /\ Blank \in Values
  BY NewStudyType DEF Docs, Values
<1>2. TypeOK
  BY <1>1 DEF Init, TypeOK, Tabs
<1>3. Provenance
  BY <1>1 DEF Init, Provenance, Had
<1>4. UnsavedKept
  BY <1>1 DEF Init, UnsavedKept, Unsaved
<1>5. SyncedInSync
  BY <1>1 DEF Init, SyncedInSync, isDraftInSync
<1>. QED
  BY <1>2, <1>3, <1>4, <1>5 DEF IInv

LEMMA NextInv == IInv /\ [Next]_vars => IInv'
<1>. SUFFICES ASSUME IInv, [Next]_vars PROVE IInv'
  OBVIOUS
<1>1. CASE UNCHANGED vars
  BY <1>1 DEF vars, IInv, TypeOK, Provenance, Had, UnsavedKept, Unsaved, SyncedInSync, isDraftInSync
<1>. QED
  BY <1>1, EditorStep, PatchStep DEF Next

\* A tab shown as synced holds no value the server never had: its draft is the
\* original or the last saved draft, both of which the server has had, and
\* what is unsaved is still in the draft.
LEMMA InvGuards == IInv => UnsavedGuarded
<1>. SUFFICES ASSUME IInv, NEW e \in Editors, tab[e].status = "synced", NEW f \in Fields
              PROVE  ~Unsaved(e, f)
  BY DEF UnsavedGuarded
<1>1. isDraftInSync(tab[e])
  BY DEF IInv, SyncedInSync
<1>2. tab[e].draft.val \in Contents
  BY Known DEF Docs
<1>3. tab[e].draft.val[f] \in stored[f]
  BY <1>1, <1>2, Known, NoneIsNoContents DEF isDraftInSync, Had
<1>. QED
  BY <1>3 DEF IInv, UnsavedKept, Unsaved

\* The inductive invariant of the designer holds in every state.
THEOREM DesignerInvariant == Spec => []IInv
BY InitInv, NextInv, PTL DEF Spec

\* Whatever merges, acknowledgements, refetches, remounts and failures come
\* between, what a researcher typed and the server never had is in the draft.
THEOREM UnsavedWorkIsKept == Spec => []UnsavedKept
<1>1. IInv => UnsavedKept
  BY DEF IInv
<1>. QED
  BY <1>1, DesignerInvariant, PTL

\* The unload guard and the navigation blocker engage on all unsaved work.
THEOREM UnsavedWorkIsGuarded == Spec => []UnsavedGuarded
BY InvGuards, DesignerInvariant, PTL
\* Every variable of DesignerSave keeps its type.
THEOREM DesignerTypes == Spec => []TypeOK
<1>1. IInv => TypeOK
  BY DEF IInv
<1>. QED
  BY <1>1, DesignerInvariant, PTL

-----------------------------------------------------------------------------
(* The status "saving".                                                    *)

\* Of a tab an action leaves as t only what t is at "saving" ends up there.
LEMMA BecameSaving ==
  ASSUME TypeOK, NEW e \in Editors, NEW t \in Tabs, Becomes(e, t)
  PROVE  /\ tab'[e].status = "saving" => t.status = "saving"
         /\ \A o \in Editors : o # e => tab'[o] = tab[o]
<1>1. tab' = [tab EXCEPT ![e] = Settled(t)] /\ tab \in [Editors -> Tabs]
  BY DEF Becomes, TypeOK
<1>2. Settled(t).status = "saving" => t.status = "saving"
  BY DEF Settled, Tabs
<1>. QED
  BY <1>1, <1>2

\* The effect of the study query does not put a tab at "saving".
LEMMA StudyEffectSaving ==
  ASSUME NEW t \in Tabs, NEW doc \in Docs, StudyEffect(t, doc).status = "saving"
  PROVE  t.status = "saving"
BY DEF StudyEffect, Tabs

\* No answer to a save leaves its tab at "saving".
LEMMA AnswerEndsSaving ==
  ASSUME NEW t \in Tabs, NEW q \in Patches
  PROVE  /\ Acknowledge(q, t).status # "saving"
         /\ applyConflict(q, t).status # "saving"
         /\ Failed(t) \in Tabs /\ Failed(t).status # "saving"
<1>1. Acknowledge(q, t).status # "saving"
  BY DEF Acknowledge, Tabs
<1>2. applyConflict(q, t).status # "saving"
  BY DEF applyConflict, Tabs
<1>3. Failed(t) \in Tabs /\ Failed(t).status # "saving"
  BY DEF Failed, Tabs
<1>. QED
  BY <1>1, <1>2, <1>3

\* An answer ends the waiting of its tab and leaves the requests of the others.
LEMMA AnsweredSaving ==
  ASSUME IInv, SavingEnds, NEW r \in Requests, request[r] # None,
         NEW t \in Tabs, t.status # "saving", Answered(r, t)
  PROVE  SavingEnds'
<1>1. request[r].tab \in Editors /\ TypeOK
  BY Known DEF IInv
<1>2. /\ Becomes(request[r].tab, t)
      /\ \A o \in Requests : o # r => request'[o] = request[o]
  BY <1>1 DEF Answered, TypeOK
<1>3. /\ tab'[request[r].tab].status # "saving"
      /\ \A o \in Editors : o # request[r].tab => tab'[o] = tab[o]
  BY <1>1, <1>2, BecameSaving
<1>. SUFFICES ASSUME NEW e \in Editors, tab'[e].status = "saving"
              PROVE  \E o \in Requests : request'[o] # None /\ request'[o].tab = e
  BY DEF SavingEnds
<1>4. e # request[r].tab /\ tab[e].status = "saving"
  BY <1>3
<1>5. PICK o \in Requests : request[o] # None /\ request[o].tab = e
  BY <1>4 DEF SavingEnds
<1>. QED
  BY <1>2, <1>4, <1>5

\* A step that changes a tab but no request, and starts no save, leaves every
\* tab at "saving" its request.
LEMMA TabSaving ==
  ASSUME IInv, SavingEnds, NEW e \in Editors, NEW t \in Tabs, Becomes(e, t),
         t.status = "saving" => tab[e].status = "saving", UNCHANGED request
  PROVE  SavingEnds'
<1>1. \A o \in Editors : tab'[o].status = "saving" => tab[o].status = "saving"
  BY BecameSaving DEF IInv
<1>. QED
  BY <1>1 DEF SavingEnds

\* Every step leaves a tab at "saving" a request to wait for.
LEMMA SavingStep == IInv /\ SavingEnds /\ [Next]_vars => SavingEnds'
<1>. SUFFICES ASSUME IInv, SavingEnds, [Next]_vars PROVE SavingEnds'
  OBVIOUS
<1>0. /\ TypeOK /\ request \in [Requests -> Patches \cup {None}]
      /\ \A e \in Editors : tab[e] \in Tabs
      /\ \A r \in Requests : request[r] # None => request[r] \in Patches /\ request[r].tab \in Editors
  BY Known DEF IInv, TypeOK
<1>1. ASSUME NEW e \in Editors, NEW f \in Fields, Edit(e, f) PROVE SavingEnds'
  <2> DEFINE value == EditValue(e, f)
             draft == [tab[e].draft EXCEPT !.val[f] = value]
             t == [tab[e] EXCEPT !.draft = draft]
  <2>1. EditedTab(e, f) = t
    BY DEF EditedTab, EditValue
  <2>2. EditedTab(e, f) \in Tabs
    BY <1>0, <1>1, EditType DEF Edit
  <2>3. Becomes(e, EditedTab(e, f)) /\ UNCHANGED request
    BY <1>1 DEF Edit, EditedTab, EditValue
  <2>. HIDE DEF draft
  <2>4. t.status = tab[e].status
    BY <1>0 DEF Tabs
  <2>. QED
    BY <2>1, <2>2, <2>3, <2>4, TabSaving
<1>2. ASSUME NEW e \in Editors, NEW r \in Requests, Save(e, r) PROVE SavingEnds'
  <2> DEFINE t == [tab[e] EXCEPT !.status = "saving"]
  <2>1. t \in Tabs
    BY <1>0 DEF Tabs
  <2>2. Becomes(e, t)
    BY <1>2 DEF Save
  <2>. HIDE DEF t
  <2>3. \A o \in Editors : o # e => tab'[o] = tab[o]
    BY <1>0, <2>1, <2>2, BecameSaving
  <2>4. /\ request[r] = None /\ request'[r].tab = e
        /\ \A o \in Requests : o # r => request'[o] = request[o]
    BY <1>0, <1>2 DEF Save
  <2>5. request'[r] # None
    <3>1. tab[e].draft \in Docs /\ tab[e].original \in Docs /\ NewStudy \in Docs
      BY Known, NewStudyType
    <3>2. request'[r] \in Patches
      BY <1>0, <1>2, <3>1 DEF Save, Patches
    <3>. QED
      BY <3>2, NoneIsNoPatch
  <2>. QED
    BY <2>3, <2>4, <2>5 DEF SavingEnds
<1>3. ASSUME NEW e \in Editors, Fetch(e) PROVE SavingEnds'
  BY <1>3 DEF Fetch, SavingEnds
<1>4. ASSUME NEW e \in Editors, Deliver(e) PROVE SavingEnds'
  <2>1. /\ fetched[e] \in Docs /\ Becomes(e, StudyEffect(tab[e], fetched[e]))
        /\ UNCHANGED request
    BY <1>4, Known DEF Deliver
  <2>. QED
    BY <1>0, <2>1, StudyEffectType, StudyEffectSaving, TabSaving
<1>5. ASSUME NEW e \in Editors, Remount(e) PROVE SavingEnds'
  <2> DEFINE u == StudyEffect(tab[e], tab[e].cache)
             t == [u EXCEPT !.saved = None]
  <2>1. u \in Tabs /\ (u.status = "saving" => tab[e].status = "saving")
    BY <1>0, Known, StudyEffectType, StudyEffectSaving
  <2>2. Becomes(e, t) /\ UNCHANGED request
    BY <1>5 DEF Remount
  <2>. HIDE DEF u
  <2>3. t \in Tabs /\ t.status = u.status
    BY <2>1 DEF Tabs
  <2>. HIDE DEF t
  <2>. QED
    BY <2>1, <2>2, <2>3, TabSaving
<1>6. ASSUME NEW r \in Requests, Load(r) \/ Refuse(r) \/ Commit(r) PROVE SavingEnds'
  <2> DEFINE q == request[r]
  <2>1. tab' = tab /\ q # None /\ q \in Patches
    BY <1>0, <1>6 DEF Load, Refuse, Commit, At
  <2>2. server \in Docs /\ clock + 1 \in Nat /\ NewStudy \in Docs
    BY <1>0, NewStudyType DEF TypeOK
  <2>3. \E new \in Patches : new.tab = q.tab /\ request' = [request EXCEPT ![r] = new]
    <3>1. CASE Load(r)
      <4> DEFINE new == [q EXCEPT !.stage = "loaded", !.snap = server,
                                  !.stamp = clock + 1, !.base = NewStudy]
      <4>1. new \in Patches /\ new.tab = q.tab
        BY <2>1, <2>2 DEF Patches
      <4>2. request' = [request EXCEPT ![r] = new]
        BY <3>1 DEF Load
      <4>. QED
        BY <4>1, <4>2
    <3>2. CASE Refuse(r)
      <4> DEFINE new == [q EXCEPT !.stage = "conflict", !.snap = server, !.sent = NewStudy]
      <4>1. new \in Patches /\ new.tab = q.tab
        BY <2>1, <2>2 DEF Patches
      <4>2. request' = [request EXCEPT ![r] = new]
        BY <3>2 DEF Refuse
      <4>. QED
        BY <4>1, <4>2
    <3>3. CASE Commit(r)
      <4> DEFINE snap == [val |-> q.sent.val, at |-> Committed(q).at]
                 new == [q EXCEPT !.stage = "ok", !.snap = snap, !.stamp = 0]
      <4>1. Committed(q).at \in Nat
        BY <2>1, <2>2 DEF Committed, Docs, Patches
      <4>2. snap \in Docs
        BY <2>1, <4>1 DEF Docs, Patches
      <4>. HIDE DEF snap
      <4>3. new \in Patches /\ new.tab = q.tab
        BY <2>1, <4>2 DEF Patches
      <4>4. request' = [request EXCEPT ![r] = new]
        BY <3>3 DEF Commit, snap
      <4>. QED
        BY <4>3, <4>4
    <3>. QED
      BY <1>6, <3>1, <3>2, <3>3
  <2>. HIDE DEF q
  <2>4. PICK new \in Patches : new.tab = q.tab /\ request' = [request EXCEPT ![r] = new]
    BY <2>3
  <2>5. \A o \in Requests : request[o] # None =>
          request'[o] # None /\ request'[o].tab = request[o].tab
    BY <1>0, <2>4, NoneIsNoPatch DEF q
  <2>. QED
    BY <2>1, <2>5 DEF SavingEnds
<1>7. ASSUME NEW r \in Requests, Saved(r) \/ Merged(r) \/ SaveFailed(r) PROVE SavingEnds'
  <2> DEFINE q == request[r]
             t == tab[q.tab]
  <2>1. q # None /\ q \in Patches /\ t \in Tabs
    BY <1>0, <1>7 DEF Saved, Merged, SaveFailed, At
  <2>2. \/ Answered(r, Acknowledge(q, t)) \/ Answered(r, applyConflict(q, t))
        \/ Answered(r, Failed(t))
    BY <1>7 DEF Saved, Merged, SaveFailed
  <2>3. Acknowledge(q, t) \in Tabs /\ applyConflict(q, t) \in Tabs
    BY <2>1, AcknowledgeType, ConflictType
  <2>4. request[r] # None
    BY <2>1
  <2>. HIDE DEF q, t
  <2>. QED
    BY <2>1, <2>2, <2>3, <2>4, AnswerEndsSaving, AnsweredSaving
<1>8. CASE UNCHANGED vars
  BY <1>8 DEF vars, SavingEnds
<1>. QED
  BY <1>1, <1>2, <1>3, <1>4, <1>5, <1>6, <1>7, <1>8 DEF Next

\* A tab waits for an answer only while one is still to come, however saves,
\* merges, failures, refetches and remounts interleave.
THEOREM SavingAlwaysEnds == Spec => []SavingEnds
<1>1. Init => SavingEnds
  BY DEF Init, SavingEnds
<1>2. IInv /\ SavingEnds /\ [Next]_vars => SavingEnds'
  BY SavingStep
<1>. QED
  BY <1>1, <1>2, DesignerInvariant, PTL DEF Spec
=============================================================================

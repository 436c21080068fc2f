-------------------------- MODULE ConcourseProofs --------------------------
(***************************************************************************)
(* The item of a concourse, for any number of editors, languages and       *)
(* requests. What a page or a request knows under the item's own version   *)
(* is what is committed: the lock on the version makes every snapshot,     *)
(* every merged text and every time of an UPDATE that passes it current.   *)
(***************************************************************************)
EXTENDS Concourse, TLAPS

Pending(r) == request[r] # None /\ request[r].stage # "answered"

\* The history, and the time of the last edit.
Truthful ==
    item # None =>
        /\ HistoryComplete
        /\ item.version >= 1
        /\ item.updated_at <= clock

\* A page lags behind the item, or shows it as it is.
PagesLag ==
    item # None => \A e \in Editors : page[e].cache # None =>
        /\ page[e].cache.version <= item.version
        /\ page[e].cache.version = item.version => page[e].cache = item

\* What the request q holds, where q names the version v of the item i.
Knows(q, i) ==
    /\ \A l \in Languages : q.lang # None =>
        q.text[l] = IF l = q.lang THEN q.editor ELSE i.text[l]
    /\ q.stage \in {"row", "loaded"} => q.row = VersionOf(i) /\ i.updated_at < q.started
    /\ q.stage = "loaded" => q.texts = i.text

\* So does a request, and with it what it has read.
RequestsLag ==
    item # None => \A r \in Requests : Pending(r) =>
        /\ request[r].version <= item.version
        /\ request[r].started <= clock
        /\ request[r].version = item.version => Knows(request[r], item)

IInv == TypeOK /\ Truthful /\ PagesLag /\ RequestsLag

\* The assumptions tell None from everything it is compared with.
LEMMA NoneDiffers ==
  /\ None \notin Nat /\ None \notin Items /\ None \notin Patches /\ None \notin Answers
  /\ None \notin Editors /\ None \notin Languages /\ None \notin Statuses
BY ConcourseAssumption, NoneIsNoItem

\* The item a page or the server starts from is well typed.
LEMMA FirstTypes ==
  /\ NewText \in Texts
  /\ NewVersion \in Versions
  /\ NewItem \in Items
BY ConcourseAssumption DEF NewText, Texts, NewVersion, Versions, NewItem, Items

\* A version of an item is one.
LEMMA VersionTyped ==
  ASSUME NEW i \in Items
  PROVE  VersionOf(i) \in Versions
BY DEF VersionOf, Items, Versions

\* A request not yet answered is a PATCH.
LEMMA PendingIsPatch ==
  ASSUME TypeOK, NEW r \in Requests, Pending(r)
  PROVE  request[r] \in Patches
<1>1. request[r] \in Patches \cup Answers
  BY DEF TypeOK, Pending
<1>2. request[r] \notin Answers
  BY DEF Pending, Answers
<1>. QED
  BY <1>1, <1>2

\* The initial state.
LEMMA InvariantInit ==
  ASSUME Init
  PROVE  IInv
<1>1. TypeOK
  BY FirstTypes DEF Init, TypeOK, Pages
<1>2. Truthful
  <2>1. HistoryComplete
    BY DEF Init, HistoryComplete, NewItem, NewVersion, VersionOf
  <2>. QED
    BY <2>1 DEF Init, Truthful, NewItem
<1>3. PagesLag
  BY FirstTypes DEF Init, PagesLag, Items
<1>4. RequestsLag
  BY DEF Init, RequestsLag, Pending
<1>. QED
  BY <1>1, <1>2, <1>3, <1>4 DEF IInv

-----------------------------------------------------------------------------
(* Steps of a page.                                                        *)

\* A page refetches, opens or drops a form.
LEMMA PageStep ==
  ASSUME IInv, NEW e \in Editors, Refetch(e) \/ startEdit(e) \/ CancelEdit(e)
  PROVE  IInv'
<1>. USE DEF IInv
<1>1. PICK p \in Pages : Shows(e, p) /\ p.cache \in {item, page[e].cache}
  <2>0. page[e] \in Pages
    BY DEF TypeOK
  <2>1. CASE Refetch(e)
    <3>1. PICK i \in {item, page[e].cache} :
            Shows(e, [cache |-> i, seen |-> IF page[e].closing THEN 0 ELSE page[e].seen,
                      closing |-> FALSE])
      BY <2>1 DEF Refetch
    <3>2. [cache |-> i, seen |-> IF page[e].closing THEN 0 ELSE page[e].seen,
           closing |-> FALSE] \in Pages
      BY <2>0 DEF TypeOK, Pages
    <3>. QED
      BY <3>1, <3>2
  <2>2. CASE startEdit(e)
    <3>1. page[e].cache \in Items
      BY <2>0, <2>2 DEF startEdit, Pages
    <3>2. [page[e] EXCEPT !.seen = page[e].cache.version] \in Pages
      BY <2>0, <3>1 DEF Pages, Items
    <3>3. [page[e] EXCEPT !.seen = page[e].cache.version].cache = page[e].cache
      BY <2>0 DEF Pages
    <3>. QED
      BY <2>2, <3>2, <3>3 DEF startEdit
  <2>3. CASE CancelEdit(e)
    <3>1. [page[e] EXCEPT !.seen = 0] \in Pages
      BY <2>0 DEF Pages
    <3>2. [page[e] EXCEPT !.seen = 0].cache = page[e].cache
      BY <2>0 DEF Pages
    <3>. QED
      BY <2>3, <3>1, <3>2 DEF CancelEdit
  <2>. QED
    BY <2>1, <2>2, <2>3
<1>2. UNCHANGED request
  BY DEF Refetch, startEdit, CancelEdit
<1>3. TypeOK'
  BY <1>1, <1>2 DEF Shows, TypeOK
<1>4. Truthful'
  BY <1>1 DEF Shows, Truthful, HistoryComplete
<1>5. PagesLag'
  <2>. SUFFICES ASSUME item # None, NEW f \in Editors, page'[f].cache # None
                PROVE  /\ page'[f].cache.version <= item.version
                       /\ page'[f].cache.version = item.version => page'[f].cache = item
    BY <1>1 DEF Shows, PagesLag
  <2>1. item.version \in Nat
    BY DEF TypeOK, Items
  <2>2. page'[f].cache = item \/ page'[f].cache = page[f].cache
    BY <1>1 DEF Shows, TypeOK
  <2>. QED
    BY <2>1, <2>2 DEF PagesLag
<1>6. RequestsLag'
  BY <1>1, <1>2 DEF Shows, RequestsLag, Pending, Knows
<1>. QED
  BY <1>3, <1>4, <1>5, <1>6

\* What a page sends is current if it names the current version.
LEMMA SendStep ==
  ASSUME IInv, NEW e \in Editors, NEW r \in Requests,
         NEW lang \in Languages \cup {None}, NEW text \in Texts,
         NEW status \in Statuses \cup {None},
         Send(e, r, lang, text, status),
         \A l \in Languages : lang # None =>
            text[l] = IF l = lang THEN e ELSE page[e].cache.text[l]
  PROVE  IInv'
<1>. USE DEF IInv
<1>1. page[e] \in Pages /\ page[e].cache \in Items
  BY DEF TypeOK, Pages, Send
<1>. DEFINE q == [editor |-> e, version |-> page[e].cache.version, lang |-> lang, text |-> text,
                  status |-> status,
                  seen |-> IF lang = None THEN 0 ELSE page[e].seen, stage |-> "sent", started |-> 0,
                  row |-> NewVersion, texts |-> NewText]
<1>2. request' = [request EXCEPT ![r] = q]
  BY DEF Send
<1>3. q \in Patches
  BY <1>1, FirstTypes DEF Patches, Pages, Items
<1>4. TypeOK'
  BY <1>2, <1>3 DEF Send, TypeOK
<1>5. Truthful' /\ PagesLag'
  BY DEF Send, Truthful, HistoryComplete, PagesLag
<1>6. RequestsLag'
  <2>. SUFFICES ASSUME item # None, NEW s \in Requests, Pending(s)'
                PROVE  /\ request'[s].version <= item.version
                       /\ request'[s].started <= clock
                       /\ request'[s].version = item.version => Knows(request'[s], item)
    BY DEF Send, RequestsLag, Knows
  <2>1. CASE s = r
    <3>1. request'[s] = q
      BY <1>2, <2>1 DEF TypeOK
    <3>2. /\ page[e].cache.version <= item.version
          /\ page[e].cache.version = item.version => page[e].cache = item
      BY DEF Send, PagesLag
    <3>3. q.version = item.version => Knows(q, item)
      <4>1. /\ q.version = page[e].cache.version /\ q.lang = lang /\ q.text = text
            /\ q.editor = e /\ q.stage = "sent"
        OBVIOUS
      <4>. HIDE DEF q
      <4>. QED
        BY <3>2, <4>1 DEF Knows
    <3>. QED
      BY <3>1, <3>2, <3>3 DEF TypeOK
  <2>2. CASE s # r
    <3>1. request'[s] = request[s]
      BY <1>2, <2>2 DEF TypeOK
    <3>. QED
      BY <3>1 DEF RequestsLag, Pending
  <2>. QED
    BY <2>1, <2>2
<1>. QED
  BY <1>4, <1>5, <1>6

\* An edit sends the fetched texts with one replaced, a change of status none.
LEMMA SavesStep ==
  ASSUME IInv, NEW e \in Editors, NEW r \in Requests,
         \/ \E l \in Languages : saveEdit(e, r, l)
         \/ \E s \in Statuses : changeStatus(e, r, s) \/ handleBulkStatusChange(e, r, s)
  PROVE  IInv'
<1>1. CASE \E l \in Languages : saveEdit(e, r, l)
  <2>1. PICK l \in Languages : saveEdit(e, r, l)
    BY <1>1
  <2>2. page[e].cache.text \in Texts
    BY <2>1 DEF saveEdit, IInv, TypeOK, Pages, Items
  <2>3. mergedTranslations(e, l) \in Texts
    BY <2>2 DEF mergedTranslations, Texts
  <2>4. \A k \in Languages :
          mergedTranslations(e, l)[k] = IF k = l THEN e ELSE page[e].cache.text[k]
    BY <2>2 DEF mergedTranslations, Texts
  <2>. QED
    BY <2>1, <2>3, <2>4, SendStep DEF saveEdit
<1>2. CASE \E s \in Statuses : changeStatus(e, r, s) \/ handleBulkStatusChange(e, r, s)
  <2>1. PICK s \in Statuses : Send(e, r, None, NewText, s)
    BY <1>2 DEF changeStatus, handleBulkStatusChange
  <2>. QED
    BY <2>1, FirstTypes, SendStep
<1>. QED
  BY <1>1, <1>2

-----------------------------------------------------------------------------
(* Steps of update_item.                                                   *)

\* One request goes from q to p, the item stays.
LEMMA RequestStep ==
  ASSUME IInv, NEW r \in Requests, NEW p,
         p \in Patches \cup Answers \cup {None},
         request' = [request EXCEPT ![r] = p],
         clock' \in Nat, clock <= clock',
         UNCHANGED <<item, history, page, imported, copy, past>>,
         item # None /\ p # None /\ p.stage # "answered" =>
            /\ p.version <= item.version
            /\ p.started <= clock'
            /\ p.version = item.version => Knows(p, item)
  PROVE  IInv'
<1>. USE DEF IInv
<1>1. TypeOK'
  BY DEF TypeOK
<1>2. Truthful'
  BY DEF Truthful, HistoryComplete, TypeOK, Items
<1>3. PagesLag'
  BY DEF PagesLag
<1>4. RequestsLag'
  <2>. SUFFICES ASSUME item # None, NEW s \in Requests, Pending(s)'
                PROVE  /\ request'[s].version <= item.version
                       /\ request'[s].started <= clock'
                       /\ request'[s].version = item.version => Knows(request'[s], item)
    BY DEF RequestsLag, Knows
  <2>1. CASE s = r
    <3>1. request'[s] = p
      BY <2>1 DEF TypeOK
    <3>. QED
      BY <3>1 DEF Pending
  <2>2. CASE s # r
    <3>1. request'[s] = request[s]
      BY <2>2 DEF TypeOK
    <3>2. Pending(s)
      BY <3>1 DEF Pending
    <3>3. request[s].started \in Nat
      BY <3>2, PendingIsPatch DEF Patches
    <3>. QED
      BY <3>1, <3>2, <3>3 DEF RequestsLag, TypeOK
  <2>. QED
    BY <2>1, <2>2
<1>. QED
  BY <1>1, <1>2, <1>3, <1>4

\* The row is read after every committed edit began.
LEMMA LoadRowStep ==
  ASSUME IInv, NEW r \in Requests, LoadRow(r)
  PROVE  IInv'
<1>. DEFINE q == request[r]
            p == [q EXCEPT !.stage = "row", !.started = clock + 1, !.row = VersionOf(item)]
<1>1. q \in Patches /\ item \in Items /\ clock \in Nat
  BY PendingIsPatch DEF IInv, TypeOK, LoadRow, At, Pending
<1>2. p \in Patches
  <2>1. VersionOf(item) \in Versions /\ clock + 1 \in Nat
    BY <1>1, VersionTyped
  <2>. QED
    BY <1>1, <2>1 DEF Patches
<1>3. /\ p.version = q.version /\ p.lang = q.lang /\ p.text = q.text
      /\ p.stage = "row" /\ p.started = clock + 1 /\ p.row = VersionOf(item)
  BY <1>1 DEF Patches
<1>4. /\ q.version <= item.version
      /\ q.version = item.version => Knows(q, item)
  BY DEF IInv, RequestsLag, LoadRow, At, Pending
<1>5. item.updated_at < clock + 1
  BY <1>1 DEF IInv, Truthful, LoadRow, Items
<1>6. p.version = item.version => Knows(p, item)
  BY <1>3, <1>4, <1>5 DEF Knows
<1>7. clock' = clock + 1
  BY DEF LoadRow
<1>8. clock' \in Nat /\ clock <= clock' /\ p.started <= clock'
  BY <1>1, <1>3, <1>7
<1>9. request' = [request EXCEPT ![r] = p]
  BY DEF LoadRow
<1>10. UNCHANGED <<item, history, page, imported, copy, past>>
  BY DEF LoadRow, Stays
<1>. QED
  BY <1>2, <1>3, <1>4, <1>6, <1>8, <1>9, <1>10, RequestStep

\* The texts that are read later belong to the same version, or to none the
\* lock lets pass.
LEMMA LoadTextsStep ==
  ASSUME IInv, NEW r \in Requests, LoadTexts(r)
  PROVE  IInv'
<1>. DEFINE q == request[r]
            t == IF item = None THEN NewText ELSE item.text
            p == [q EXCEPT !.stage = "loaded", !.texts = t]
<1>1. q \in Patches /\ item \in Items \cup {None} /\ clock \in Nat
  BY PendingIsPatch DEF IInv, TypeOK, LoadTexts, At, Pending
<1>2. t \in Texts
  BY <1>1, FirstTypes DEF Items
<1>3. p \in Patches
  BY <1>1, <1>2 DEF Patches
<1>4. /\ p.version = q.version /\ p.lang = q.lang /\ p.text = q.text
      /\ p.stage = "loaded" /\ p.started = q.started /\ p.row = q.row /\ p.texts = t
  BY <1>1 DEF Patches
<1>5. item # None => /\ q.version <= item.version
                     /\ q.started <= clock
                     /\ q.version = item.version => Knows(q, item)
  BY DEF IInv, RequestsLag, LoadTexts, At, Pending
<1>6. q.stage = "row"
  BY DEF LoadTexts, At
<1>7. item # None => (p.version = item.version => Knows(p, item))
  BY <1>4, <1>5, <1>6 DEF Knows
<1>8. request' = [request EXCEPT ![r] = p]
  BY DEF LoadTexts
<1>9. UNCHANGED <<item, history, clock, page, imported, copy, past>>
  BY DEF LoadTexts, Stays
<1>10. clock' \in Nat /\ clock <= clock' /\ (item # None => p.started <= clock')
  BY <1>1, <1>4, <1>5, <1>9
<1>. QED
  BY <1>3, <1>4, <1>5, <1>7, <1>8, <1>9, <1>10, RequestStep

\* A 409, and a request that fails or whose answer is lost.
LEMMA EndStep ==
  ASSUME IInv, NEW r \in Requests, RefuseUpdate(r) \/ Fail(r)
  PROVE  IInv'
<1>1. clock \in Nat
  BY DEF IInv, TypeOK
<1>2. CASE RefuseUpdate(r)
  <2>. DEFINE p == [stage |-> "answered", editor |-> request[r].editor,
                    closes |-> request[r].lang # None]
  <2>1. request[r] \in Patches
    BY <1>2, PendingIsPatch DEF IInv, RefuseUpdate, At, Pending
  <2>2. p \in Answers
    BY <2>1 DEF Patches, Answers
  <2>3. /\ request' = [request EXCEPT ![r] = p]
        /\ UNCHANGED <<item, history, clock, page, imported, copy, past>>
    BY <1>2 DEF RefuseUpdate, Answered, Stays
  <2>4. p.stage = "answered"
    OBVIOUS
  <2>5. clock' \in Nat /\ clock <= clock'
    BY <1>1, <2>3
  <2>. HIDE DEF p
  <2>. QED
    BY <2>2, <2>3, <2>4, <2>5, RequestStep
<1>3. CASE Fail(r)
  <2>1. /\ request' = [request EXCEPT ![r] = None]
        /\ UNCHANGED <<item, history, clock, page, imported, copy, past>>
    BY <1>3 DEF Fail, Stays
  <2>2. clock' \in Nat /\ clock <= clock'
    BY <1>1, <2>1
  <2>. QED
    BY <2>1, <2>2, RequestStep
<1>. QED
  BY <1>2, <1>3

\* The answer changes the page's form only.
LEMMA AnswerStep ==
  ASSUME IInv, NEW r \in Requests, Answer(r)
  PROVE  IInv'
<1>. USE DEF IInv
<1>. DEFINE e == request[r].editor
            p == [page[e] EXCEPT !.closing = page[e].closing \/ request[r].closes]
<1>1. request[r] \in Answers
  BY DEF Answer, At, TypeOK, Patches
<1>2. e \in Editors /\ request[r].closes \in BOOLEAN
  BY <1>1 DEF Answers
<1>3. page[e] \in Pages
  BY <1>2 DEF TypeOK
<1>4. p \in Pages /\ p.cache = page[e].cache
  BY <1>2, <1>3 DEF Pages
<1>5. /\ page' = [page EXCEPT ![e] = p]
      /\ request' = [request EXCEPT ![r] = None]
      /\ UNCHANGED <<item, history, clock, imported, copy, past>>
  BY DEF Answer, Shows
<1>6. TypeOK'
  BY <1>4, <1>5 DEF TypeOK
<1>7. Truthful'
  BY <1>5 DEF Truthful, HistoryComplete
<1>8. PagesLag'
  <2>1. \A f \in Editors : page'[f].cache = page[f].cache
    BY <1>4, <1>5 DEF TypeOK
  <2>. QED
    BY <1>5, <2>1 DEF PagesLag
<1>9. RequestsLag'
  <2>1. \A s \in Requests : Pending(s)' => Pending(s) /\ request'[s] = request[s]
    BY <1>5 DEF TypeOK, Pending
  <2>. QED
    BY <1>5, <2>1 DEF RequestsLag, Knows
<1>. QED
  BY <1>6, <1>7, <1>8, <1>9

\* What a request holds when its UPDATE passes the lock.
LEMMA PassesCurrent ==
  ASSUME IInv, NEW r \in Requests, CommitUpdate(r)
  PROVE  /\ item \in Items /\ request[r] \in Patches
         /\ request[r].version = item.version
         /\ request[r].stage = "loaded"
         /\ Knows(request[r], item)
         /\ request[r].started <= clock
         /\ Snapshot(request[r]) = VersionOf(item)
<1>. USE DEF IInv, CommitUpdate, At, Matches
<1>1. Pending(r) /\ item # None
  BY DEF Pending
<1>2. item \in Items /\ request[r] \in Patches
  BY <1>1, PendingIsPatch DEF TypeOK
<1>3. request[r].started <= clock /\ Knows(request[r], item)
  BY <1>1 DEF RequestsLag
<1>4. Snapshot(request[r]) = VersionOf(item)
  BY <1>3 DEF Knows, Snapshot, VersionOf
<1>. QED
  BY <1>1, <1>2, <1>3, <1>4

\* The UPDATE, with the version it supersedes in the history.
LEMMA CommitStep ==
  ASSUME IInv, NEW r \in Requests, CommitUpdate(r)
  PROVE  IInv'
<1>. DEFINE q == request[r]
            i == Updated(q)
            p == [stage |-> "answered", editor |-> q.editor, closes |-> q.lang # None]
<1>1. /\ item \in Items /\ q \in Patches /\ q.version = item.version
      /\ Knows(q, item) /\ q.started <= clock /\ Snapshot(q) = VersionOf(item)
      /\ q.stage = "loaded"
  BY PassesCurrent
<1>2. /\ item' = i /\ history' = history \cup {VersionOf(item)}
      /\ past' = past \cup {VersionOf(i)}
      /\ request' = [request EXCEPT ![r] = p]
      /\ UNCHANGED <<clock, page, imported, copy>>
  BY <1>1 DEF CommitUpdate, Answered, Stays
<1>3. i \in Items /\ i.version = item.version + 1 /\ i.updated_at = q.started
  BY <1>1 DEF Updated, Items, Patches
<1>4. p \in Answers /\ p.stage = "answered"
  BY <1>1 DEF Patches, Answers
<1>. HIDE DEF i, p
<1>5. VersionOf(i) \in Versions /\ VersionOf(item) \in Versions
  BY <1>1, <1>3, VersionTyped
<1>6. TypeOK'
  BY <1>2, <1>3, <1>4, <1>5 DEF IInv, TypeOK
<1>7. item # None /\ i # None
  BY <1>1, <1>3, NoneDiffers
<1>8. Truthful'
  <2>1. history \cup {VersionOf(item)} = past
    BY <1>7 DEF IInv, Truthful, HistoryComplete
  <2>2. past \subseteq Versions /\ item.version \in Nat /\ item.version >= 1
    BY <1>1, <1>7 DEF IInv, TypeOK, Truthful, Items
  <2>3. \A h \in past : h.version \in 1..item.version
    BY <1>7 DEF IInv, Truthful, HistoryComplete
  <2>4. VersionOf(i).version = item.version + 1
    BY <1>3 DEF VersionOf
  <2>5. \A h \in past' : h.version \in 1..(item.version + 1)
    BY <1>2, <2>2, <2>3, <2>4
  <2>6. \A g, h \in past' : g.version = h.version => g = h
    <3>1. \A g, h \in past : g.version = h.version => g = h
      BY <1>7 DEF IInv, Truthful, HistoryComplete
    <3>2. \A h \in past : h.version # item.version + 1
      BY <2>2, <2>3
    <3>. QED
      BY <1>2, <2>4, <3>1, <3>2
  <2>7. history' \cup {VersionOf(i)} = past'
    BY <1>2, <2>1
  <2>8. item'.version = item.version + 1 /\ item'.updated_at <= clock'
    BY <1>1, <1>2, <1>3
  <2>. QED
    BY <1>2, <2>2, <2>5, <2>6, <2>7, <2>8 DEF Truthful, HistoryComplete, VersionOf
<1>9. PagesLag'
  <2>1. \A e \in Editors : page[e].cache # None =>
            page[e].cache.version \in Nat /\ page[e].cache.version <= item.version
    BY <1>7 DEF IInv, TypeOK, PagesLag, Pages, Items
  <2>. QED
    BY <1>1, <1>2, <1>3, <2>1 DEF PagesLag, Items
<1>10. RequestsLag'
  <2>1. \A s \in Requests : Pending(s)' => Pending(s) /\ request'[s] = request[s]
    BY <1>2, <1>4 DEF IInv, TypeOK, Pending
  <2>2. \A s \in Requests : Pending(s) =>
          /\ request[s].version \in Nat
          /\ request[s].version <= item.version
          /\ request[s].started <= clock
    BY <1>7, PendingIsPatch DEF IInv, RequestsLag, Patches
  <2>. QED
    BY <1>1, <1>2, <1>3, <2>1, <2>2 DEF RequestsLag, Items
<1>. QED
  BY <1>6, <1>8, <1>9, <1>10 DEF IInv

-----------------------------------------------------------------------------
(* Deletion and copies.                                                    *)

\* The item goes, or a study copies it.
LEMMA OtherStep ==
  ASSUME IInv, delete_item \/ ReadSource \/ CommitCopy
  PROVE  IInv'
<1>. USE DEF IInv
<1>1. CASE delete_item
  BY <1>1 DEF delete_item, Stays, TypeOK, Truthful, PagesLag, RequestsLag
<1>2. CASE ReadSource \/ CommitCopy
  <2>1. UNCHANGED <<item, history, clock, page, request, past>>
    BY <1>2 DEF ReadSource, CommitCopy
  <2>2. TypeOK'
    BY <1>2 DEF ReadSource, CommitCopy, TypeOK
  <2>3. Truthful' /\ PagesLag' /\ RequestsLag'
    BY <2>1 DEF Truthful, HistoryComplete, PagesLag, RequestsLag, Pending, Knows
  <2>. QED
    BY <2>2, <2>3
<1>. QED
  BY <1>1, <1>2

\* A step that changes nothing.
LEMMA StutterStep ==
  ASSUME IInv, UNCHANGED vars
  PROVE  IInv'
BY DEF IInv, vars, TypeOK, Truthful, HistoryComplete, PagesLag, RequestsLag, Pending, Knows

\* The invariant holds of every behaviour.
THEOREM ConcourseInvariant == Spec => []IInv
<1>1. Init => IInv
  BY InvariantInit
<1>2. IInv /\ [Next]_vars => IInv'
  BY PageStep, SavesStep, LoadRowStep, LoadTextsStep, CommitStep, EndStep, AnswerStep,
     OtherStep, StutterStep DEF Next
<1>. QED
  BY <1>1, <1>2, PTL DEF Spec

\* The types.
THEOREM ConcourseTypes == Spec => []TypeOK
<1>1. IInv => TypeOK
  BY DEF IInv
<1>. QED
  BY <1>1, ConcourseInvariant, PTL

\* No version a researcher saved is lost or altered, whatever the snapshots
\* of concurrent requests read.
THEOREM HistoryIsComplete == Spec => []HistoryComplete
<1>1. IInv => HistoryComplete
  BY DEF IInv, Truthful, HistoryComplete
<1>. QED
  BY <1>1, ConcourseInvariant, PTL

\* The merge on the page is as good as a merge on the server.
THEOREM MergeSparesLanguages == Spec => OtherLanguagesKept
<1>1. ASSUME IInv, NEW r \in Requests, NEW l \in Languages, CommitUpdate(r),
             request[r].lang # l
      PROVE  item'.text[l] = item.text[l]
  <2>1. Knows(request[r], item)
    BY <1>1, PassesCurrent
  <2>2. item' = Updated(request[r])
    BY <1>1 DEF CommitUpdate
  <2>. QED
    BY <1>1, <2>1, <2>2 DEF Knows, Updated
<1>2. IInv => \A r \in Requests, l \in Languages :
                CommitUpdate(r) /\ request[r].lang # l => item'.text[l] = item.text[l]
  BY <1>1
<1>. QED
  BY <1>2, ConcourseInvariant, PTL DEF OtherLanguagesKept

\* A stale copy does not become fresh by a further edit.
THEOREM StaleIsLasting == Spec => StaleStaysReported
<1>1. ASSUME IInv, [Next]_vars, Stale, imported' = imported
      PROVE  Stale'
  <2>1. CASE \E r \in Requests : CommitUpdate(r)
    <3>1. PICK r \in Requests : CommitUpdate(r)
      BY <2>1
    <3>2. /\ item \in Items /\ request[r] \in Patches
          /\ item.updated_at < request[r].started
      BY <1>1, <3>1, PassesCurrent DEF Knows
    <3>3. item'.updated_at = request[r].started
      BY <3>1 DEF CommitUpdate, Updated
    <3>4. imported \in Nat /\ item # None
      BY <1>1, <3>2, NoneDiffers DEF IInv, TypeOK, Stale
    <3>5. item'.updated_at > imported
      BY <1>1, <3>2, <3>3, <3>4 DEF Stale, Items, Patches
    <3>. QED
      BY <1>1, <3>5 DEF Stale
  <2>2. CASE item' = item \/ item' = None
    BY <1>1, <2>2 DEF Stale
  <2>3. \/ \E r \in Requests : CommitUpdate(r)
        \/ item' = item \/ item' = None
    BY <1>1 DEF Next, vars, Refetch, startEdit, CancelEdit, saveEdit, changeStatus,
       handleBulkStatusChange, Send, Shows,
       LoadRow, LoadTexts, RefuseUpdate, Answer, Fail, delete_item, ReadSource, CommitCopy
  <2>. QED
    BY <2>1, <2>2, <2>3
<1>2. IInv /\ [Next]_vars => (Stale /\ imported' = imported => Stale')
  BY <1>1
<1>. QED
  BY <1>2, ConcourseInvariant, PTL DEF Spec, StaleStaysReported
-----------------------------------------------------------------------------
(* Refinement of VersionedItem.                                            *)

\* A request that is answered, or lost, asks for nothing any more.
LEMMA AskedNoMore ==
  ASSUME NEW r \in Requests, NEW p, p = None \/ p.stage = "answered",
         request \in [Requests -> Patches \cup Answers \cup {None}],
         request' = [request EXCEPT ![r] = p]
  PROVE  Asked' = [Asked EXCEPT ![r] = None]
<1>1. \A s \in Requests : s # r => request'[s] = request[s]
  OBVIOUS
<1>2. request'[r] = p
  OBVIOUS
<1>3. \A s \in Requests : Asked'[s] = [Asked EXCEPT ![r] = None][s]
  BY <1>1, <1>2 DEF Asked
<1>. QED
  BY <1>3 DEF Asked

\* A request that reads on asks for the same.
LEMMA AskedStill ==
  ASSUME NEW r \in Requests, NEW p \in Patches,
         Pending(r), p.stage # "answered", p # None,
         p.editor = request[r].editor, p.lang = request[r].lang,
         p.status = request[r].status,
         request \in [Requests -> Patches \cup Answers \cup {None}],
         request' = [request EXCEPT ![r] = p]
  PROVE  Asked' = Asked
<1>1. \A s \in Requests : s # r => request'[s] = request[s]
  OBVIOUS
<1>2. request'[r] = p
  OBVIOUS
<1>3. \A s \in Requests : Asked'[s] = Asked[s]
  BY <1>1, <1>2 DEF Asked, Pending
<1>. QED
  BY <1>3 DEF Asked

\* A save or a change of status asks for one change.
LEMMA SendRefines ==
  ASSUME TypeOK, NEW e \in Editors, NEW r \in Requests,
         NEW lang \in Languages \cup {None}, NEW text \in Texts,
         NEW status \in Statuses \cup {None},
         Send(e, r, lang, text, status)
  PROVE  Promise!Ask(r)
<1>. DEFINE c == [editor |-> e, lang |-> lang, status |-> status]
            q == [editor |-> e, version |-> page[e].cache.version, lang |-> lang, text |-> text,
                  status |-> status,
                  seen |-> IF lang = None THEN 0 ELSE page[e].seen, stage |-> "sent", started |-> 0,
                  row |-> NewVersion, texts |-> NewText]
<1>1. request[r] = None /\ request' = [request EXCEPT ![r] = q] /\ UNCHANGED <<item, history>>
  BY DEF Send
<1>2. q # None
  <2>1. page[e] \in Pages /\ page[e].cache \in Items
    BY DEF TypeOK, Pages, Send
  <2>2. q \in Patches
    BY <2>1, FirstTypes DEF Patches, Pages, Items
  <2>. QED
    BY <2>2, NoneDiffers
<1>3. \A s \in Requests : s # r => request'[s] = request[s]
  BY <1>1 DEF TypeOK
<1>4. request'[r] = q
  BY <1>1 DEF TypeOK
<1>5. /\ q.editor = e /\ q.lang = lang /\ q.status = status /\ q.stage # "answered"
  OBVIOUS
<1>. HIDE DEF q
<1>6. \A s \in Requests : Asked'[s] = [Asked EXCEPT ![r] = c][s]
  BY <1>2, <1>3, <1>4, <1>5 DEF Asked
<1>7. Asked' = [Asked EXCEPT ![r] = c]
  BY <1>6 DEF Asked
<1>8. Asked[r] = None /\ Asked'[r] = c
  BY <1>1, <1>7 DEF Asked
<1>9. c \in Promise!Changes
  BY DEF Promise!Changes
<1>10. UNCHANGED Recorded
  BY <1>1 DEF Recorded, VersionOf
<1>. QED
  BY <1>7, <1>8, <1>9, <1>10 DEF Promise!Ask

\* What a page does.
LEMMA PageRefines ==
  ASSUME TypeOK, NEW e \in Editors,
         \/ Refetch(e) \/ startEdit(e) \/ CancelEdit(e)
         \/ \E r \in Requests, l \in Languages : saveEdit(e, r, l)
         \/ \E r \in Requests, s \in Statuses :
              changeStatus(e, r, s) \/ handleBulkStatusChange(e, r, s)
  PROVE  [Promise!Next]_Promise!vars
<1>1. CASE Refetch(e) \/ startEdit(e) \/ CancelEdit(e)
  <2>1. UNCHANGED <<item, history, request>>
    BY <1>1 DEF Refetch, startEdit, CancelEdit, Shows
  <2>. QED
    BY <2>1 DEF Promise!vars, Recorded, Asked, VersionOf
<1>2. CASE \E r \in Requests, l \in Languages : saveEdit(e, r, l)
  <2>1. PICK r \in Requests, l \in Languages : saveEdit(e, r, l)
    BY <1>2
  <2>2. page[e].cache.text \in Texts
    BY <2>1 DEF saveEdit, TypeOK, Pages, Items
  <2>3. mergedTranslations(e, l) \in Texts
    BY <2>2 DEF mergedTranslations, Texts
  <2>. QED
    BY <2>1, <2>3, SendRefines DEF saveEdit, Promise!Next
<1>3. CASE \E r \in Requests, s \in Statuses :
              changeStatus(e, r, s) \/ handleBulkStatusChange(e, r, s)
  <2>1. PICK r \in Requests, s \in Statuses : Send(e, r, None, NewText, s)
    BY <1>3 DEF changeStatus, handleBulkStatusChange
  <2>. QED
    BY <2>1, FirstTypes, SendRefines DEF Promise!Next
<1>. QED
  BY <1>1, <1>2, <1>3

\* The two SELECTs.
LEMMA LoadRefines ==
  ASSUME TypeOK, NEW r \in Requests, LoadRow(r) \/ LoadTexts(r)
  PROVE  UNCHANGED Promise!vars
<1>. DEFINE q == request[r]
<1>1. q \in Patches /\ Pending(r)
  BY PendingIsPatch DEF LoadRow, LoadTexts, At, Pending
<1>2. UNCHANGED <<item, history>>
  BY DEF LoadRow, LoadTexts
<1>3. \E p \in Patches : /\ p.editor = q.editor /\ p.lang = q.lang /\ p.status = q.status
                         /\ p.stage # "answered"
                         /\ request' = [request EXCEPT ![r] = p]
  <2>1. CASE LoadRow(r)
    <3>. DEFINE p == [q EXCEPT !.stage = "row", !.started = clock + 1, !.row = VersionOf(item)]
    <3>1. VersionOf(item) \in Versions /\ clock + 1 \in Nat
      BY <2>1, VersionTyped DEF LoadRow, TypeOK
    <3>2. p \in Patches
      BY <1>1, <3>1 DEF Patches
    <3>3. p.editor = q.editor /\ p.lang = q.lang /\ p.status = q.status /\ p.stage = "row"
      BY <1>1 DEF Patches
    <3>4. request' = [request EXCEPT ![r] = p]
      BY <2>1 DEF LoadRow
    <3>. QED
      BY <3>2, <3>3, <3>4
  <2>2. CASE LoadTexts(r)
    <3>. DEFINE t == IF item = None THEN NewText ELSE item.text
                p == [q EXCEPT !.stage = "loaded", !.texts = t]
    <3>1. t \in Texts
      BY FirstTypes DEF TypeOK, Items
    <3>2. p \in Patches
      BY <1>1, <3>1 DEF Patches
    <3>3. p.editor = q.editor /\ p.lang = q.lang /\ p.status = q.status /\ p.stage = "loaded"
      BY <1>1 DEF Patches
    <3>4. request' = [request EXCEPT ![r] = p]
      BY <2>2 DEF LoadTexts
    <3>. QED
      BY <3>2, <3>3, <3>4
  <2>. QED
    BY <2>1, <2>2
<1>4. UNCHANGED Asked
  BY <1>1, <1>3, NoneDiffers, AskedStill DEF TypeOK
<1>. QED
  BY <1>2, <1>4 DEF Promise!vars, Recorded, VersionOf

\* The answer 409, a lost request, and an answer that arrives or does not.
LEMMA EndRefines ==
  ASSUME TypeOK, NEW r \in Requests, RefuseUpdate(r) \/ Answer(r) \/ Fail(r)
  PROVE  Promise!Drop(r) \/ UNCHANGED Promise!vars
<1>1. PICK p : /\ p = None \/ p.stage = "answered"
               /\ request' = [request EXCEPT ![r] = p]
  BY DEF RefuseUpdate, Answered, Answer, Fail
<1>2. Asked' = [Asked EXCEPT ![r] = None]
  BY <1>1, AskedNoMore DEF TypeOK
<1>3. UNCHANGED Recorded
  BY DEF RefuseUpdate, Answer, Fail, Shows, Recorded, VersionOf
<1>4. CASE Asked[r] = None
  <2>1. Asked' = Asked
    BY <1>2, <1>4 DEF Asked
  <2>. QED
    BY <1>3, <2>1 DEF Promise!vars
<1>5. CASE Asked[r] # None
  BY <1>2, <1>3, <1>5 DEF Promise!Drop, Promise!Over
<1>. QED
  BY <1>4, <1>5

\* The UPDATE changes the newest version as it was asked to.
LEMMA CommitRefines ==
  ASSUME IInv, NEW r \in Requests, CommitUpdate(r)
  PROVE  Promise!Change(r)
<1>. DEFINE q == request[r]
            i == Updated(q)
            p == [stage |-> "answered", editor |-> q.editor, closes |-> q.lang # None]
            v == VersionOf(item)
<1>1. /\ item \in Items /\ q \in Patches /\ q.version = item.version
      /\ Knows(q, item) /\ Snapshot(q) = v /\ q.stage = "loaded"
  BY PassesCurrent
<1>2. item # None /\ q # None
  BY <1>1, NoneDiffers
<1>3. /\ item' = i /\ history' = history \cup {v}
      /\ request' = [request EXCEPT ![r] = p]
  BY <1>1 DEF CommitUpdate, Answered
<1>4. Asked[r] = [editor |-> q.editor, lang |-> q.lang, status |-> q.status]
  BY <1>1, <1>2 DEF Asked
<1>5. Asked[r] # None
  <2>1. Asked[r] \in Promise!Changes
    BY <1>1, <1>4 DEF Patches, Promise!Changes
  <2>. QED
    BY <2>1, NoneIsNoChange
<1>6. Asked' = [Asked EXCEPT ![r] = None]
  <2>1. p.stage = "answered"
    OBVIOUS
  <2>. HIDE DEF p
  <2>. QED
    BY <1>3, <2>1, AskedNoMore DEF IInv, TypeOK
<1>7. i # None
  <2>1. i \in Items
    BY <1>1 DEF Updated, Items, Patches
  <2>. QED
    BY <2>1, NoneDiffers
<1>8. Recorded = history \cup {v} /\ Recorded' = Recorded \cup {VersionOf(i)}
  BY <1>2, <1>3, <1>7 DEF Recorded, VersionOf
<1>9. v \in Recorded /\ Promise!Newest(v)
  <2>1. \A h \in history \cup {v} : h.version \in 1..item.version
    BY <1>2 DEF IInv, Truthful, HistoryComplete
  <2>2. v.version = item.version /\ item.version \in Nat
    BY <1>1 DEF VersionOf, Items
  <2>. QED
    BY <1>8, <2>1, <2>2 DEF Promise!Newest
<1>10. VersionOf(i) = Promise!Changed(v, Asked[r])
  <2>. DEFINE c == Asked[r]
  <2>1. c.editor = q.editor /\ c.lang = q.lang /\ c.status = q.status
    BY <1>4
  <2>2. v.version = item.version /\ v.text = item.text /\ v.status = item.status
    BY DEF VersionOf
  <2>3. ASSUME q.lang # None
        PROVE  q.text = [item.text EXCEPT ![q.lang] = q.editor]
    <3>1. q.lang \in Languages /\ q.text \in Texts /\ item.text \in Texts
      BY <1>1, <2>3 DEF Patches, Items
    <3>2. \A l \in Languages : q.text[l] = IF l = q.lang THEN q.editor ELSE item.text[l]
      BY <1>1, <2>3 DEF Knows
    <3>. QED
      BY <3>1, <3>2 DEF Texts
  <2>4. i.text = IF c.lang = None THEN v.text ELSE [v.text EXCEPT ![c.lang] = c.editor]
    BY <2>1, <2>2, <2>3 DEF Updated
  <2>5. i.version = v.version + 1
    BY <1>1, <2>2 DEF Updated
  <2>6. i.status = IF c.status = None THEN v.status ELSE c.status
    BY <2>1, <2>2 DEF Updated
  <2>. HIDE DEF i, v
  <2>. QED
    BY <2>4, <2>5, <2>6 DEF VersionOf, Promise!Changed
<1>. QED
  BY <1>5, <1>6, <1>8, <1>9, <1>10 DEF Promise!Change, Promise!Over

\* The item goes with its history; a study's copy leaves both alone.
LEMMA OtherRefines ==
  ASSUME TypeOK, delete_item \/ ReadSource \/ CommitCopy
  PROVE  Promise!Delete \/ UNCHANGED Promise!vars
<1>1. CASE delete_item
  <2>1. Recorded # {} /\ Recorded' = {}
    BY <1>1 DEF delete_item, Recorded
  <2>2. UNCHANGED Asked
    BY <1>1 DEF delete_item, Asked
  <2>. QED
    BY <2>1, <2>2 DEF Promise!Delete
<1>2. CASE ReadSource \/ CommitCopy
  BY <1>2 DEF ReadSource, CommitCopy, Promise!vars, Recorded, Asked, VersionOf
<1>. QED
  BY <1>1, <1>2

\* Every request takes effect at most once and in one step, on the newest
\* version, whatever pages and requests read of older ones.
THEOREM ChangesAreAtomic == Spec => EditsAreAtomic
<1>1. Init => Promise!Init
  <2>. SUFFICES ASSUME Init PROVE Promise!Init
    OBVIOUS
  <2>1. item # None
    BY FirstTypes, NoneDiffers DEF Init
  <2>2. Recorded = {NewVersion}
    BY <2>1 DEF Init, Recorded, VersionOf, NewItem, NewVersion
  <2>3. Asked = [r \in Requests |-> None]
    BY DEF Init, Asked
  <2>. QED
    BY <2>2, <2>3 DEF Promise!Init, NewVersion, NewText
<1>2. IInv /\ [Next]_vars => [Promise!Next]_Promise!vars
  <2>. SUFFICES ASSUME IInv, [Next]_vars PROVE [Promise!Next]_Promise!vars
    OBVIOUS
  <2>1. CASE UNCHANGED vars
    BY <2>1 DEF vars, Promise!vars, Recorded, Asked, VersionOf
  <2>2. CASE Next
    BY <2>2, PageRefines, LoadRefines, EndRefines, CommitRefines, OtherRefines
       DEF Next, IInv, Promise!Next
  <2>. QED
    BY <2>1, <2>2
<1>. QED
  BY <1>1, <1>2, ConcourseInvariant, PTL DEF Spec, EditsAreAtomic, Promise!Spec
=============================================================================

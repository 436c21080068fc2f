------------------------------ MODULE Sorting ------------------------------
(***************************************************************************)
(* One participant sorts the cards of a study: the response store          *)
(* (useResponseStore), the rough sort with its animated votes              *)
(* (useRoughSort, CardStack), the grid (useFineSort, useFineSortDrag,      *)
(* useGridPlacement, useGridSanity, GridSort) and the guards between the   *)
(* stages (RoughSortGuard, useFineSort, PostSortPage).                     *)
(*                                                                         *)
(* A page of the app is a value of page; "away" is any other page. A step  *)
(* on the fine page runs the effects of useFineSort to their end: React    *)
(* runs them after each change of the store, before the next input event.  *)
(* The session is not completed. The study may change underneath answers   *)
(* kept in the browser, while no page shows them (Redesign).               *)
(***************************************************************************)
EXTENDS Integers, FiniteSets, Sequences, SequencesExt

CONSTANTS
    Piles,          \* the piles of the rough sort, "neutral" among them
    Studies,        \* the configurations the study may have
    FirstStudies,   \* those it may have at first
    MaxHistory,     \* bound: a vote or a drop needs a shorter history
    MaxSwipes,      \* bound: votes still animated
    MaxRow          \* bound: the last row a card is put into

\* The statements a configuration lists, by their place in the list; a grid
\* is a function from its columns, numbered from 0, to their capacity.
Cards == UNION {s.cards : s \in Studies}
Columns == UNION {DOMAIN s.grid : s \in Studies}

ASSUME SortingAssumption ==
    /\ "neutral" \in Piles
    /\ FirstStudies \subseteq Studies
    /\ Cards \subseteq Nat
    /\ \A s \in Studies :
         /\ IsFiniteSet(s.cards) /\ IsFiniteSet(DOMAIN s.grid)
         /\ s.mode \in {"forced", "free", "flexible"} /\ s.rough \in BOOLEAN
         /\ \A col \in DOMAIN s.grid : col \in Nat /\ s.grid[col] \in Nat
    /\ MaxHistory \in Nat /\ MaxSwipes \in Nat /\ MaxRow \in Nat

VARIABLES
    study,          \* the configuration the page has loaded
    page,
    answers,        \* the response store
    swipes          \* votes whose animation runs

vars == <<study, page, answers, swipes>>

Places == [card : Cards, col : Columns, row : Nat]

Answers == [pile : [Piles -> SUBSET Cards], history : Seq(Cards),
            deck : SUBSET Cards, qsort : SUBSET Places]

TypeOK ==
    /\ study \in Studies
    /\ page \in {"away", "rough", "fine", "post"}
    /\ answers \in Answers
    /\ swipes \in Seq(Cards \X Piles)

initialResponses == [pile |-> [k \in Piles |-> {}], history |-> <<>>,
                     deck |-> {}, qsort |-> {}]

Init ==
    /\ study \in FirstStudies
    /\ page = "away"
    /\ answers = initialResponses
    /\ swipes = <<>>

-----------------------------------------------------------------------------
(* The response store.                                                     *)

Placed(a) == {p.card : p \in a.qsort}
Piled(a) == UNION {a.pile[k] : k \in Piles}
Sorted(a) == Range(a.history)
PlaceOf(a, c) == CHOOSE p \in a.qsort : p.card = c
InColumn(a, col) == {p \in a.qsort : p.col = col}

\* Every call appends, the card's second one too.
categorizeCard(a, c, k) ==
    [a EXCEPT !.pile = [j \in Piles |-> IF j = k THEN a.pile[j] \cup {c}
                                                 ELSE a.pile[j] \ {c}],
              !.history = Append(@, c)]

undoRoughSort(a) ==
    [a EXCEPT !.pile = [j \in Piles |-> a.pile[j] \ {Last(a.history)}],
              !.history = Front(@)]

unplaceCard(a, c) == [a EXCEPT !.qsort = {p \in @ : p.card # c}]

\* Mutant: a move leaves the card in its old slot too.
BugMoveCopies(s, a, c, col, row) ==
    [a EXCEPT !.qsort = @ \cup {[card |-> c, col |-> col, row |-> row]},
              !.deck = @ \ {c}]

\* Mutant: a placed card stays in the deck.
BugKeepsDeck(s, a, c, col, row) ==
    [unplaceCard(a, c) EXCEPT !.qsort = @ \cup {[card |-> c, col |-> col, row |-> row]}]

\* placeCardInGrid and moveCardInGrid: a full column of a forced grid refuses.
placeOrMove(s, a, c, col, row) ==
    IF /\ s.mode = "forced"
       /\ Cardinality({p \in InColumn(a, col) : p.card # c}) >= s.grid[col]
    THEN a
    ELSE [unplaceCard(a, c) EXCEPT
            !.qsort = @ \cup {[card |-> c, col |-> col, row |-> row]},
            !.deck = @ \ {c}]

swapCardsInGrid(a, c, d) ==
    LET p == PlaceOf(a, c)
        q == PlaceOf(a, d)
    IN  [a EXCEPT !.qsort = (@ \ {p, q}) \cup
                {[p EXCEPT !.card = d], [q EXCEPT !.card = c]}]

-----------------------------------------------------------------------------
(* The grid.                                                               *)

MaxOf(S, default) == IF S = {} THEN default ELSE CHOOSE x \in S : \A y \in S : y <= x

LastRow(a, col) == MaxOf({p.row : p \in InColumn(a, col)}, -1)

\* The rows GridSort renders, from 0: only a free grid grows past capacity.
SlotCount(s, a, col) ==
    LET n == Cardinality(InColumn(a, col))
    IN  IF s.mode = "free" /\ (n >= s.grid[col] \/ LastRow(a, col) >= s.grid[col])
        THEN MaxOf({n + 1, LastRow(a, col) + 2}, 0)
        ELSE s.grid[col]

\* Mutant: a free grid searches up to capacity, as the others do.
BugSearchesCapacity(s, a, col) ==
    (0..(s.grid[col] - 1)) \ {p.row : p \in InColumn(a, col)}

EmptyRows(s, a, col) ==
    LET horizon == IF s.mode = "free"
                   THEN MaxOf({s.grid[col], LastRow(a, col) + 2}, 0)
                   ELSE s.grid[col]
    IN  (0..(horizon - 1)) \ {p.row : p \in InColumn(a, col)}

Distance(x, y) == IF x < y THEN y - x ELSE x - y

\* Mutant: the row above, without looking.
BugRowAbove(s, a, col, row) == row - 1

\* The closest, the upper one of two.
findClosestEmptyRow(s, a, col, row) ==
    CHOOSE r \in EmptyRows(s, a, col) :
      \A o \in EmptyRows(s, a, col) :
        \/ Distance(r, row) < Distance(o, row)
        \/ Distance(r, row) = Distance(o, row) /\ r <= o

\* Mutant: the card that loses its slot leaves the grid last.
BugDisplacesLast(s, a, c, col, row) ==
    LET there == {p \in InColumn(a, col) : p.row = row}
        other == (CHOOSE p \in there : TRUE).card
    IN  IF there = {}
        THEN placeOrMove(s, a, c, col, row)
        ELSE IF EmptyRows(s, a, col) # {}
        THEN placeOrMove(s, a, c, col, findClosestEmptyRow(s, a, col, row))
        ELSE IF c \in Placed(a)
        THEN swapCardsInGrid(a, c, other)
        ELSE unplaceCard(placeOrMove(s, a, c, col, row), other)

\* handlePlacement: an occupied slot sends the card to the closest empty row;
\* in a full column it takes the slot, from a swap partner or from a card
\* that leaves the grid.
handlePlacement(s, a, c, col, row) ==
    LET there == {p \in InColumn(a, col) : p.row = row}
        other == (CHOOSE p \in there : TRUE).card
    IN  IF there = {}
        THEN placeOrMove(s, a, c, col, row)
        ELSE IF EmptyRows(s, a, col) # {}
        THEN placeOrMove(s, a, c, col, findClosestEmptyRow(s, a, col, row))
        ELSE IF c \in Placed(a)
        THEN swapCardsInGrid(a, c, other)
        ELSE placeOrMove(s, unplaceCard(a, other), c, col, row)

-----------------------------------------------------------------------------
(* The effects of the fine page.                                           *)

\* Mutant: the sanity check looks at columns only.
BugIgnoresRows(s, a) == {p.card : p \in {q \in a.qsort : q.col \notin DOMAIN s.grid}}

\* useGridSanity: off the grid's columns, or below capacity when forced. Its
\* other test, two cards in one slot, finds nothing while OneSlotEach holds.
Strays(s, a) ==
    {p.card : p \in {q \in a.qsort : \/ q.col \notin DOMAIN s.grid
                                     \/ s.mode = "forced" /\ q.row >= s.grid[q.col]}}

\* The statements of C as the study lists them.
InListOrder(C) ==
    CHOOSE f \in [1..Cardinality(C) -> C] :
      \A i, j \in 1..Cardinality(C) : i < j => f[i] < f[j]

\* The orders in which cards of C may have come to the grid, a list in the
\* code and a set here: the sanity check votes the strays in that order.
Orders(C) ==
    {f \in [1..Cardinality(C) -> C] :
       \A i, j \in 1..Cardinality(C) : f[i] = f[j] => i = j}

\* Mutant: whatever is not placed counts as missing, piled or not.
BugReconcilesPiled(s, a, order) ==
    LET strays == Strays(s, a)
        missing == (s.cards \ Placed(a)) \cup strays
    IN  [a EXCEPT !.pile = [k \in Piles |-> IF k = "neutral" THEN a.pile[k] \cup missing
                                                             ELSE a.pile[k] \ missing],
                  !.qsort = {p \in @ : p.card \notin strays}]

\* reconcileIntoRoughNeutral, then useGridSanity.
SettledRough(s, a, order) ==
    LET missing == s.cards \ (Placed(a) \cup Piled(a))
        strays == Strays(s, a)
    IN  [a EXCEPT !.pile = [k \in Piles |->
                              IF k = "neutral" THEN a.pile[k] \cup missing \cup strays
                                               ELSE a.pile[k] \ strays],
                  !.history = @ \o InListOrder(missing) \o order,
                  !.qsort = {p \in @ : p.card \notin strays}]

\* The defensive reset, reconcileIntoDeck, useGridSanity, and both again for
\* the cards the sanity check took off the grid.
SettledDeck(s, a) ==
    LET kept == {p \in a.qsort : p.card \notin Strays(s, a)}
    IN  [initialResponses EXCEPT
            !.qsort = kept,
            !.deck = a.deck \cup (s.cards \ {p.card : p \in kept})]

\* Mutant: the post-sort opens as soon as one card is placed.
BugPostTooEarly(s, a, p) ==
    IF \/ p = "post" /\ a.qsort # {}
       \/ p = "rough" /\ s.rough
    THEN p ELSE "fine"

\* The guards of the stages: PostSortPage counts, RoughSortGuard reads the
\* configuration; either sends to the fine page.
Guarded(s, a, p) ==
    IF \/ p = "post" /\ Cardinality(a.qsort) = Cardinality(s.cards)
       \/ p = "rough" /\ s.rough
    THEN p ELSE "fine"

\* useFineSort redirects, in the same pass as its other effects, which run.
Landing(s, a, p) ==
    IF Guarded(s, a, p) = "fine" /\ s.rough /\ Piled(a) = {}
    THEN "rough" ELSE Guarded(s, a, p)

Settled(s, a, p, order) ==
    IF Guarded(s, a, p) # "fine" THEN a
    ELSE IF s.rough THEN SettledRough(s, a, order) ELSE SettledDeck(s, a)

Show(p, a) ==
    /\ page' = Landing(study, a, p)
    /\ \E order \in Orders(Strays(study, a)) : answers' = Settled(study, a, p, order)
    /\ UNCHANGED study

-----------------------------------------------------------------------------
(* The participant.                                                        *)

\* A stage is opened from the step menu, a button or its address.
Open(p) ==
    /\ p # page
    /\ Show(p, answers)
    /\ UNCHANGED swipes

Unsorted == study.cards \ Sorted(answers)
CurrentCard == CHOOSE c \in Unsorted : \A d \in Unsorted : c <= d

\* A key, a button or a drag starts the animation; the vote keeps the card
\* that was on top, whatever happens until it ends.
Swipe(k) ==
    /\ page = "rough"
    /\ Unsorted # {}
    /\ Len(swipes) < MaxSwipes /\ Len(answers.history) < MaxHistory
    /\ swipes' = Append(swipes, <<CurrentCard, k>>)
    /\ UNCHANGED <<study, page, answers>>

\* onVoteComplete, on whatever page the participant is by then.
Vote(i) ==
    /\ LET a == categorizeCard(answers, swipes[i][1], swipes[i][2])
       IN  IF page = "fine" THEN Show(page, a)
                            ELSE answers' = a /\ UNCHANGED <<study, page>>
    /\ swipes' = RemoveAt(swipes, i)

\* The animation was interrupted and never reports.
LoseSwipe(i) ==
    /\ swipes' = RemoveAt(swipes, i)
    /\ UNCHANGED <<study, page, answers>>

Undo ==
    /\ page = "rough"
    /\ answers.history # <<>>
    /\ answers' = undoRoughSort(answers)
    /\ UNCHANGED <<study, page, swipes>>

Rendered(s, a, p) == p.col \in DOMAIN s.grid /\ p.row < SlotCount(s, a, p.col)

\* The cards a participant can pick up: in a pile, in the deck or in a slot.
InHand == {c \in study.cards : c \in Placed(answers) =>
                                 Rendered(study, answers, PlaceOf(answers, c))}

\* A drop on a slot or a card in it, or a click on a slot with a card chosen.
Place(c, col, row) ==
    /\ page = "fine"
    /\ row < SlotCount(study, answers, col)
    /\ [card |-> c, col |-> col, row |-> row] \notin answers.qsort
    /\ LET a == handlePlacement(study, answers, c, col, row)
       IN  /\ \A p \in a.qsort : p.row <= MaxRow
           /\ Show(page, a)
    /\ UNCHANGED swipes

\* A drop on a pile. The deck of a study without rough sort is no pile:
\* categorizeCard throws and the card is only taken off the grid.
Drop(c, k) ==
    /\ page = "fine"
    /\ IF study.rough THEN Len(answers.history) < MaxHistory
                      ELSE c \in Placed(answers)
    /\ LET a == unplaceCard(answers, c)
       IN  Show(page, IF study.rough THEN categorizeCard(a, c, k) ELSE a)
    /\ UNCHANGED swipes

Reset ==
    /\ page = "fine"
    /\ answers.qsort # {}
    /\ Show(page, [answers EXCEPT !.qsort = {}])
    /\ UNCHANGED swipes

\* The page is left or reloaded; the store is kept in local storage.
Leave ==
    /\ page # "away"
    /\ page' = "away" /\ swipes' = <<>>
    /\ UNCHANGED <<study, answers>>

\* The session is resumed from the draft on the server, which has no deck.
Resume ==
    /\ page = "away"
    /\ answers' = [answers EXCEPT !.deck = {}]
    /\ UNCHANGED <<study, page, swipes>>

\* The kept answers meet another configuration: a test opened in a new tab
\* takes the designer's latest draft, a participant's study was edited.
Redesign ==
    /\ page = "away"
    /\ Len(answers.history) < MaxHistory
    /\ \E s \in Studies \ {study} : study' = s
    /\ UNCHANGED <<page, answers, swipes>>

Next ==
    \/ \E p \in {"rough", "fine", "post"} : Open(p)
    \/ \E k \in Piles : Swipe(k)
    \/ \E i \in 1..Len(swipes) : Vote(i) \/ LoseSwipe(i)
    \/ Undo
    \/ \E c \in InHand, col \in DOMAIN study.grid, row \in 0..MaxRow : Place(c, col, row)
    \/ \E c \in InHand, k \in Piles : Drop(c, k)
    \/ Reset \/ Leave \/ Resume \/ Redesign

Spec == Init /\ [][Next]_vars

-----------------------------------------------------------------------------
(* Safety.                                                                 *)

Slots(s) == UNION {{col} \X (0..(s.grid[col] - 1)) : col \in DOMAIN s.grid}

\* What a study needs to be activated; a test of a draft may lack it.
_check_grid_capacity(s) ==
    IF s.mode = "free" THEN Cardinality(Slots(s)) >= Cardinality(s.cards)
                       ELSE Cardinality(Slots(s)) = Cardinality(s.cards)

\* A card is in one slot and one pile at most, a slot holds one card: no
\* order of placing, swapping, displacing and late votes duplicates a card.
OneSlotEach ==
    /\ \A p, q \in answers.qsort :
         p.card = q.card \/ (p.col = q.col /\ p.row = q.row) => p = q
    /\ \A c \in Cards, j, k \in Piles :
         c \in answers.pile[j] /\ c \in answers.pile[k] => j = k

\* On the fine page every statement of the study is on the grid or where the
\* participant can take it from, a displaced one and one whose configuration
\* changed included; a study without rough sort has everything in one deck.
NoCardLost ==
    page = "fine" =>
      IF study.rough
      THEN study.cards \subseteq Placed(answers) \cup Piled(answers)
      ELSE /\ answers.deck \cap study.cards = study.cards \ Placed(answers)
           /\ answers.history = <<>>

\* Every card on the grid is in a slot the page renders, so that it can be
\* seen and moved; a forced grid therefore never exceeds a column's capacity.
\* A flexible grid renders exactly its capacity, too, and answers kept from a
\* free grid may lie below it: the exception, see the README.
GridShown ==
    page = "fine" /\ study.mode # "flexible" =>
      \A p \in answers.qsort : Rendered(study, answers, p)

\* A drop is never refused, though it is reported as done before the store
\* counts the column again, after another card has given up its slot: the card
\* ends where it was dropped, or in an empty row next to the card there.
NoDropRefused ==
    page = "fine" =>
      \A c \in InHand, col \in DOMAIN study.grid :
        \A row \in 0..(SlotCount(study, answers, col) - 1) :
          [card |-> c, col |-> col, row |-> row] \notin answers.qsort =>
            \E p \in handlePlacement(study, answers, c, col, row).qsort :
              /\ p.card = c /\ p.col = col
              /\ \/ p.row = row
                 \/ /\ row \in {q.row : q \in InColumn(answers, col)}
                    /\ p.row \in EmptyRows(study, answers, col)

\* The stage after the grid is reached with every statement placed, though
\* its guard compares two lengths only: kept cards the study no longer lists
\* are the one way around it.
PostComplete ==
    page = "post" /\ Placed(answers) \subseteq study.cards =>
      Placed(answers) = study.cards

\* In a forced grid with a slot per statement the Confirm button, shown once
\* every statement is placed, is never sent back by the guard of the
\* post-sort: cards kept from another configuration have been crowded out.
ConfirmLeadsOn ==
    /\ page = "fine" /\ study.mode = "forced" /\ _check_grid_capacity(study)
    /\ study.cards \subseteq Placed(answers)
    => Landing(study, answers, "post") = "post"

\* A card placed from outside the grid pushes another one off it only when
\* all rendered rows of the column are taken, only the one whose slot it
\* takes, and never in a free grid.
OnlyFullColumnsDisplace ==
    [][\A p \in answers.qsort, c \in Placed(answers)' \ Placed(answers) :
         p.card \notin Placed(answers)' =>
           /\ [p EXCEPT !.card = c] \in answers'.qsort
           /\ study.mode # "free" /\ EmptyRows(study, answers, p.col) = {}]_vars

\* On the fine page a step takes at most one card out of its pile: what the
\* grid gives back, by a reset too, still lies in the pile it was voted into.
PilesRemembered ==
    [][page = "fine" /\ page' = "fine" /\ study.rough =>
         \A j, k \in Piles : \A c \in answers.pile[j] \ answers'.pile[j],
                              d \in answers.pile[k] \ answers'.pile[k] : c = d]_vars

=============================================================================

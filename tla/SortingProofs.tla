--------------------------- MODULE SortingProofs ---------------------------
(***************************************************************************)
(* What holds of Sorting for every set of configurations, every number of  *)
(* statements and every grid.                                              *)
(***************************************************************************)
EXTENDS Sorting, FiniteSetTheorems, WellFoundedInduction, TLAPS

-----------------------------------------------------------------------------
(* Numbers.                                                                *)

\* A nonempty set of naturals has a least element.
LEMMA LeastNatural ==
    ASSUME NEW T, T \subseteq Nat, T # {}
    PROVE  \E x \in T : \A y \in T : x <= y
<1>1. \E x \in T : \A y \in T : ~ (<<y, x>> \in OpToRel(<, Nat))
  BY NatLessThanWellFounded, WFMin
<1>2. PICK x \in T : \A y \in T : ~ (<<y, x>> \in OpToRel(<, Nat))
  BY <1>1
<1>3. \A y \in T : ~ (y < x)
  BY <1>2 DEF OpToRel
<1>4. QED
  BY <1>3

\* MaxOf finds the greatest element of a bounded set of integers from -1 on.
LEMMA MaxFound ==
    ASSUME NEW S, NEW bound \in Nat, NEW d,
           S \subseteq Int, \A x \in S : x <= bound, S # {}
    PROVE  /\ MaxOf(S, d) \in S
           /\ \A y \in S : y <= MaxOf(S, d)
<1> DEFINE T == {bound - x : x \in S}
<1>0. \A x \in S : bound - x \in Nat
  OBVIOUS
<1>1. T \subseteq Nat /\ T # {}
  BY <1>0
<1>2. PICK t \in T : \A u \in T : t <= u
  BY <1>1, LeastNatural
<1>3. PICK m \in S : t = bound - m
  BY <1>2
<1>4. \A y \in S : y <= m
  <2>1. ASSUME NEW y \in S PROVE y <= m
    <3>1. bound - y \in T
      OBVIOUS
    <3>2. bound - m <= bound - y
      BY <3>1, <1>2, <1>3
    <3>3. m \in Int /\ y \in Int
      OBVIOUS
    <3>4. QED
      BY <3>2, <3>3
  <2>2. QED
    BY <2>1
<1>5. QED
  BY <1>3, <1>4 DEF MaxOf

\* Of two integers MaxOf finds one that neither exceeds.
LEMMA MaxOfTwo ==
    ASSUME NEW x \in Int, NEW y \in Int, NEW d
    PROVE  /\ MaxOf({x, y}, d) \in Int
           /\ x <= MaxOf({x, y}, d) /\ y <= MaxOf({x, y}, d)
<1>1. \E m \in {x, y} : \A z \in {x, y} : z <= m
  <2>1. CASE x <= y
    BY <2>1
  <2>2. CASE y <= x
    BY <2>2
  <2>3. QED
    BY <2>1, <2>2
<1>2. {x, y} # {}
  OBVIOUS
<1>3. QED
  BY <1>1, <1>2 DEF MaxOf

-----------------------------------------------------------------------------
(* The answers at any time.                                                *)

\* What OneSlotEach says, of any answers.
OneEach(a) ==
    /\ \A p, q \in a.qsort :
         p.card = q.card \/ (p.col = q.col /\ p.row = q.row) => p = q
    /\ \A c \in Cards, j, k \in Piles :
         c \in a.pile[j] /\ c \in a.pile[k] => j = k

\* The types a proof needs, OneEach, and the deck apart from the grid.
Sane(a) ==
    /\ a = [pile |-> a.pile, history |-> a.history, deck |-> a.deck, qsort |-> a.qsort]
    /\ a.pile \in [Piles -> SUBSET Cards]
    /\ a.qsort \subseteq Places
    /\ IsFiniteSet(a.qsort)
    /\ OneEach(a)
    /\ a.deck \cap Placed(a) = {}

Bounded(a) == \A p \in a.qsort : p.row <= MaxRow

\* The participant starts with nothing sorted.
LEMMA InitiallySane == Sane(initialResponses) /\ Bounded(initialResponses)
BY FS_EmptySet DEF initialResponses, Sane, Bounded, OneEach, Placed, Places

\* Voting moves a card to one pile.
LEMMA CategorizeSane ==
    ASSUME NEW a, Sane(a), NEW c \in Cards, NEW k \in Piles
    PROVE  Sane(categorizeCard(a, c, k))
<1> DEFINE b == categorizeCard(a, c, k)
<1>1. /\ b.pile = [j \in Piles |-> IF j = k THEN a.pile[j] \cup {c} ELSE a.pile[j] \ {c}]
      /\ b.deck = a.deck /\ b.qsort = a.qsort
      /\ b = [pile |-> b.pile, history |-> b.history, deck |-> b.deck, qsort |-> b.qsort]
  <2> DEFINE P == [j \in Piles |-> IF j = k THEN a.pile[j] \cup {c} ELSE a.pile[j] \ {c}]
             h == Append(a.history, c)
  <2>1. b = [a EXCEPT !.pile = P, !.history = h]
    BY DEF categorizeCard
  <2> HIDE DEF P, h, b
  <2>2. /\ b.pile = P /\ b.deck = a.deck /\ b.qsort = a.qsort
        /\ b = [pile |-> b.pile, history |-> b.history, deck |-> b.deck, qsort |-> b.qsort]
    BY <2>1 DEF Sane
  <2>3. QED
    BY <2>2 DEF P
<1>2. b.pile \in [Piles -> SUBSET Cards]
  BY <1>1 DEF Sane
<1>3. OneEach(b)
  BY <1>1 DEF Sane, OneEach
<1>4. QED
  BY <1>1, <1>2, <1>3 DEF Sane, Placed

\* Undo takes a card out of every pile.
LEMMA UndoSane ==
    ASSUME NEW a, Sane(a)
    PROVE  Sane(undoRoughSort(a))
<1> DEFINE b == undoRoughSort(a)
<1>1. /\ b.pile = [j \in Piles |-> a.pile[j] \ {Last(a.history)}]
      /\ b.deck = a.deck /\ b.qsort = a.qsort
      /\ b = [pile |-> b.pile, history |-> b.history, deck |-> b.deck, qsort |-> b.qsort]
  <2> DEFINE P == [j \in Piles |-> a.pile[j] \ {Last(a.history)}]
             h == Front(a.history)
  <2>1. b = [a EXCEPT !.pile = P, !.history = h]
    BY DEF undoRoughSort
  <2> HIDE DEF P, h, b
  <2>2. /\ b.pile = P /\ b.deck = a.deck /\ b.qsort = a.qsort
        /\ b = [pile |-> b.pile, history |-> b.history, deck |-> b.deck, qsort |-> b.qsort]
    BY <2>1 DEF Sane
  <2>3. QED
    BY <2>2 DEF P
<1>2. b.pile \in [Piles -> SUBSET Cards]
  BY <1>1 DEF Sane
<1>3. OneEach(b)
  BY <1>1 DEF Sane, OneEach
<1>4. QED
  BY <1>1, <1>2, <1>3 DEF Sane, Placed

\* Taking cards off the grid leaves a sound one, whatever the deck loses.
LEMMA FewerSane ==
    ASSUME NEW a, Sane(a), NEW Q, Q \subseteq a.qsort, NEW D, D \subseteq a.deck
    PROVE  Sane([a EXCEPT !.qsort = Q, !.deck = D])
<1> DEFINE b == [a EXCEPT !.qsort = Q, !.deck = D]
<1>1. /\ b.pile = a.pile /\ b.deck = D /\ b.qsort = Q
      /\ b = [pile |-> b.pile, history |-> b.history, deck |-> b.deck, qsort |-> b.qsort]
  <2>1. a = [pile |-> a.pile, history |-> a.history, deck |-> a.deck, qsort |-> a.qsort]
    BY DEF Sane
  <2>2. b = [a EXCEPT !.qsort = Q, !.deck = D]
    OBVIOUS
  <2> HIDE DEF b
  <2>3. /\ b.pile = a.pile /\ b.history = a.history /\ b.deck = D /\ b.qsort = Q
        /\ b = [pile |-> b.pile, history |-> b.history, deck |-> b.deck, qsort |-> b.qsort]
    BY <2>1, <2>2
  <2>4. QED
    BY <2>3
<1>2. IsFiniteSet(Q)
  BY FS_Subset DEF Sane
<1>3. QED
  BY <1>1, <1>2 DEF Sane, OneEach, Placed

\* unplaceCard does so.
LEMMA UnplaceSane ==
    ASSUME NEW a, Sane(a), NEW c
    PROVE  Sane(unplaceCard(a, c))
<1> DEFINE Q == {p \in a.qsort : p.card # c}
<1>1. Sane([a EXCEPT !.qsort = Q, !.deck = a.deck])
  BY FewerSane
<1>2. [a EXCEPT !.qsort = Q, !.deck = a.deck] = [a EXCEPT !.qsort = Q]
  BY DEF Sane
<1>3. QED
  BY <1>1, <1>2 DEF unplaceCard

\* The pile operations leave the grid alone, unplaceCard takes one card off.
LEMMA GridKept ==
    ASSUME NEW a, Sane(a), NEW c, NEW k
    PROVE  /\ categorizeCard(a, c, k).qsort = a.qsort
           /\ undoRoughSort(a).qsort = a.qsort
           /\ unplaceCard(a, c).qsort = {p \in a.qsort : p.card # c}
<1>1. a = [pile |-> a.pile, history |-> a.history, deck |-> a.deck, qsort |-> a.qsort]
  BY DEF Sane
<1>2. categorizeCard(a, c, k).qsort = a.qsort
  <2> DEFINE P == [j \in Piles |-> IF j = k THEN a.pile[j] \cup {c} ELSE a.pile[j] \ {c}]
             h == Append(a.history, c)
  <2>1. categorizeCard(a, c, k) = [a EXCEPT !.pile = P, !.history = h]
    BY DEF categorizeCard
  <2> HIDE DEF P, h
  <2>2. QED
    BY <1>1, <2>1
<1>3. undoRoughSort(a).qsort = a.qsort
  <2> DEFINE P == [j \in Piles |-> a.pile[j] \ {Last(a.history)}]
             h == Front(a.history)
  <2>1. undoRoughSort(a) = [a EXCEPT !.pile = P, !.history = h]
    BY DEF undoRoughSort
  <2> HIDE DEF P, h
  <2>2. QED
    BY <1>1, <2>1
<1>4. unplaceCard(a, c).qsort = {p \in a.qsort : p.card # c}
  <2> DEFINE Q == {p \in a.qsort : p.card # c}
  <2>1. unplaceCard(a, c) = [a EXCEPT !.qsort = Q]
    BY DEF unplaceCard
  <2> HIDE DEF Q
  <2>2. QED
    BY <1>1, <2>1 DEF Q
<1>5. QED
  BY <1>2, <1>3, <1>4

\* A card put on a slot no other card has is sound, refused or not, and only
\* that card's place changes.
LEMMA PlaceSane ==
    ASSUME NEW s, NEW a, Sane(a), NEW c \in Cards, NEW col \in Columns, NEW row \in Nat,
           \A p \in a.qsort : p.col = col /\ p.row = row => p.card = c
    PROVE  LET b == placeOrMove(s, a, c, col, row)
           IN  /\ Sane(b)
               /\ b.pile = a.pile /\ b.history = a.history
               /\ \/ b = a
                  \/ b.qsort = {p \in a.qsort : p.card # c}
                                  \cup {[card |-> c, col |-> col, row |-> row]}
<1> DEFINE b == placeOrMove(s, a, c, col, row)
           new == [card |-> c, col |-> col, row |-> row]
           Q == {p \in a.qsort : p.card # c}
<1>1. CASE b = a
  BY <1>1
<1>2. CASE b # a
  <2>1. b = [[a EXCEPT !.qsort = Q] EXCEPT !.qsort = @ \cup {new}, !.deck = @ \ {c}]
    BY <1>2 DEF placeOrMove, unplaceCard
  <2>2. /\ b.pile = a.pile /\ b.history = a.history
        /\ b.deck = a.deck \ {c} /\ b.qsort = Q \cup {new}
        /\ b = [pile |-> b.pile, history |-> b.history, deck |-> b.deck, qsort |-> b.qsort]
    <3> DEFINE Q2 == Q \cup {new}
               D2 == a.deck \ {c}
    <3>1. a = [pile |-> a.pile, history |-> a.history, deck |-> a.deck, qsort |-> a.qsort]
      BY DEF Sane
    <3> HIDE DEF b, Q
    <3>2. [a EXCEPT !.qsort = Q].qsort = Q /\ [a EXCEPT !.qsort = Q].deck = a.deck
      BY <3>1
    <3>3. b = [[a EXCEPT !.qsort = Q] EXCEPT !.qsort = Q2, !.deck = D2]
      BY <2>1, <3>2
    <3> HIDE DEF Q2, D2
    <3>4. /\ b.pile = a.pile /\ b.history = a.history /\ b.deck = D2 /\ b.qsort = Q2
          /\ b = [pile |-> b.pile, history |-> b.history, deck |-> b.deck, qsort |-> b.qsort]
      BY <3>1, <3>3
    <3>5. QED
      BY <3>4 DEF Q2, D2
  <2>3. new \in Places /\ new.card = c /\ new.col = col /\ new.row = row
    BY DEF Places
  <2>4. IsFiniteSet(b.qsort)
    <3>1. IsFiniteSet(Q)
      BY FS_Subset DEF Sane
    <3>2. QED
      <4> HIDE DEF Q, new, b
      <4>1. IsFiniteSet(Q \cup {new})
        BY <3>1, FS_AddElement
      <4>2. QED
        BY <4>1, <2>2
  <2>5. OneEach(b)
    <3>1. \A p, q \in b.qsort :
            p.card = q.card \/ (p.col = q.col /\ p.row = q.row) => p = q
      <4>1. \A p, q \in Q : p.card = q.card \/ (p.col = q.col /\ p.row = q.row) => p = q
        BY DEF Sane, OneEach
      <4>2. \A p \in Q : p.card # new.card /\ ~ (p.col = new.col /\ p.row = new.row)
        BY <2>3
      <4>3. QED
        BY <4>1, <4>2, <2>2
    <3>2. QED
      BY <3>1, <2>2 DEF Sane, OneEach
  <2>6. b.deck \cap Placed(b) = {}
    BY <2>2, <2>3 DEF Sane, Placed
  <2>7. b.qsort \subseteq Places
    BY <2>2, <2>3 DEF Sane
  <2>8. Sane(b)
    BY <2>2, <2>4, <2>5, <2>6, <2>7 DEF Sane
  <2>9. QED
    BY <2>2, <2>8
<1>3. QED
  BY <1>1, <1>2

\* PlaceOf finds the one place of a card.
LEMMA PlaceFound ==
    ASSUME NEW a, Sane(a), NEW c \in Placed(a)
    PROVE  /\ PlaceOf(a, c) \in a.qsort /\ PlaceOf(a, c).card = c
           /\ \A p \in a.qsort : p.card = c => p = PlaceOf(a, c)
<1>1. \E p \in a.qsort : p.card = c
  BY DEF Placed
<1>2. PlaceOf(a, c) \in a.qsort /\ PlaceOf(a, c).card = c
  BY <1>1 DEF PlaceOf
<1>3. QED
  BY <1>2 DEF Sane, OneEach

\* A swap exchanges two places and nobody leaves the grid.
LEMMA SwapSane ==
    ASSUME NEW a, Sane(a), NEW c \in Placed(a), NEW d \in Placed(a), c # d
    PROVE  LET b == swapCardsInGrid(a, c, d)
           IN  Sane(b) /\ b.pile = a.pile /\ Placed(b) = Placed(a)
<1> DEFINE b == swapCardsInGrid(a, c, d)
           p == PlaceOf(a, c)
           q == PlaceOf(a, d)
           p2 == [p EXCEPT !.card = d]
           q2 == [q EXCEPT !.card = c]
           Q == a.qsort \ {p, q}
<1>1. /\ p \in a.qsort /\ p.card = c /\ q \in a.qsort /\ q.card = d
      /\ \A r \in Q : r.card # c /\ r.card # d
  BY PlaceFound
<1>2. /\ p \in Places /\ q \in Places
  BY <1>1 DEF Sane
<1>3. /\ p2 \in Places /\ p2.card = d /\ p2.col = p.col /\ p2.row = p.row
      /\ q2 \in Places /\ q2.card = c /\ q2.col = q.col /\ q2.row = q.row
  BY <1>1, <1>2 DEF Places
<1>4. b = [a EXCEPT !.qsort = Q \cup {p2, q2}]
  BY DEF swapCardsInGrid
<1>5. /\ b.pile = a.pile /\ b.deck = a.deck /\ b.qsort = Q \cup {p2, q2}
      /\ b = [pile |-> b.pile, history |-> b.history, deck |-> b.deck, qsort |-> b.qsort]
  BY <1>4 DEF Sane
<1> HIDE DEF p, q, p2, q2, b
<1>6. IsFiniteSet(b.qsort)
  <2>1. IsFiniteSet(Q)
    BY FS_Subset DEF Sane
  <2>2. IsFiniteSet(Q \cup {p2})
    BY <2>1, FS_AddElement
  <2>3. IsFiniteSet((Q \cup {p2}) \cup {q2})
    BY <2>2, FS_AddElement
  <2>4. (Q \cup {p2}) \cup {q2} = b.qsort
    BY <1>5
  <2>5. QED
    BY <2>3, <2>4
<1>7. \A r, t \in b.qsort :
        r.card = t.card \/ (r.col = t.col /\ r.row = t.row) => r = t
  <2>1. \A r, t \in a.qsort :
          r.card = t.card \/ (r.col = t.col /\ r.row = t.row) => r = t
    BY DEF Sane, OneEach
  <2>2. \A r \in Q : /\ ~ (r.col = p.col /\ r.row = p.row)
                     /\ ~ (r.col = q.col /\ r.row = q.row)
    BY <2>1, <1>1
  <2>3. ~ (p.col = q.col /\ p.row = q.row)
    BY <2>1, <1>1
  <2>4. \A r \in Q : /\ r.card # p2.card /\ r.card # q2.card
                     /\ ~ (r.col = p2.col /\ r.row = p2.row)
                     /\ ~ (r.col = q2.col /\ r.row = q2.row)
    BY <2>2, <1>1, <1>3
  <2>5. p2.card # q2.card /\ ~ (p2.col = q2.col /\ p2.row = q2.row)
    BY <2>3, <1>3
  <2>6. QED
    BY <2>1, <2>4, <2>5, <1>5
<1>8. Placed(b) = Placed(a)
  BY <1>1, <1>3, <1>5 DEF Placed
<1>9. OneEach(b)
  BY <1>5, <1>7 DEF OneEach, Sane
<1>10. b.qsort \subseteq Places
  BY <1>3, <1>5 DEF Sane
<1>11. Sane(b)
  BY <1>5, <1>6, <1>8, <1>9, <1>10 DEF Sane
<1>12. QED
  BY <1>5, <1>8, <1>11 DEF b

-----------------------------------------------------------------------------
(* Rows.                                                                   *)

\* A configuration's columns and capacities.
LEMMA GridTypes ==
    ASSUME NEW s \in Studies, NEW col \in DOMAIN s.grid
    PROVE  col \in Columns /\ s.grid[col] \in Nat
BY SortingAssumption DEF Columns

\* LastRow is no less than any row of the column, and -1 for an empty one.
LEMMA LastRowFound ==
    ASSUME NEW a, Sane(a), Bounded(a), NEW col
    PROVE  /\ LastRow(a, col) \in Int /\ -1 <= LastRow(a, col)
           /\ \A p \in InColumn(a, col) : p.row \in Nat /\ p.row <= LastRow(a, col)
<1> DEFINE R == {p.row : p \in InColumn(a, col)}
<1>1. \A p \in InColumn(a, col) : p.row \in Nat /\ p.row <= MaxRow
  BY DEF Sane, Bounded, InColumn, Places
<1>2. R \subseteq Nat /\ \A r \in R : r <= MaxRow
  BY <1>1
<1>3. CASE R = {}
  BY <1>3 DEF LastRow, MaxOf
<1>4. CASE R # {}
  <2>1. LastRow(a, col) = MaxOf(R, -1)
    BY DEF LastRow
  <2>2. R \subseteq Int /\ MaxRow \in Nat
    BY <1>2, SortingAssumption
  <2>3. MaxOf(R, -1) \in R /\ \A r \in R : r <= MaxOf(R, -1)
    BY <1>2, <1>4, <2>2, MaxFound
  <2>4. QED
    BY <1>1, <1>2, <2>1, <2>3
<1>5. QED
  BY <1>3, <1>4

\* The rows searched are naturals nobody in the column has, and a free grid
\* never runs out of them.
LEMMA EmptyRowsFree ==
    ASSUME NEW s \in Studies, NEW a, Sane(a), Bounded(a), NEW col \in DOMAIN s.grid
    PROVE  /\ EmptyRows(s, a, col) \subseteq Nat
           /\ \A r \in EmptyRows(s, a, col) : \A p \in InColumn(a, col) : p.row # r
           /\ s.mode = "free" => EmptyRows(s, a, col) # {}
<1> DEFINE last == LastRow(a, col)
           horizon == IF s.mode = "free" THEN MaxOf({s.grid[col], last + 2}, 0)
                                         ELSE s.grid[col]
<1>1. /\ last \in Int /\ -1 <= last /\ \A p \in InColumn(a, col) : p.row <= last
      /\ \A p \in InColumn(a, col) : p.row \in Nat
  BY LastRowFound
<1>2. s.grid[col] \in Nat
  BY GridTypes
<1> HIDE DEF last
<1>3. /\ MaxOf({s.grid[col], last + 2}, 0) \in Int
      /\ last + 2 <= MaxOf({s.grid[col], last + 2}, 0)
  <2>1. s.grid[col] \in Int /\ last + 2 \in Int
    BY <1>1, <1>2
  <2>2. QED
    BY <2>1, MaxOfTwo
<1>4. horizon \in Int /\ (s.mode = "free" => last + 2 <= horizon)
  BY <1>2, <1>3
<1>5. EmptyRows(s, a, col) = (0..(horizon - 1)) \ {p.row : p \in InColumn(a, col)}
  BY DEF EmptyRows, last
<1> HIDE DEF horizon
<1>6. s.mode = "free" => last + 1 \in EmptyRows(s, a, col)
  <2>1. \A p \in InColumn(a, col) : p.row # last + 1
    BY <1>1
  <2>2. s.mode = "free" => last + 1 \in 0..(horizon - 1)
    BY <1>1, <1>4
  <2>3. QED
    BY <2>1, <2>2, <1>5
<1>7. QED
  BY <1>4, <1>5, <1>6

\* There is a closest empty row as soon as there is an empty one.
LEMMA ClosestFound ==
    ASSUME NEW s \in Studies, NEW a, NEW col, NEW row \in Nat,
           EmptyRows(s, a, col) \subseteq Nat, EmptyRows(s, a, col) # {}
    PROVE  findClosestEmptyRow(s, a, col, row) \in EmptyRows(s, a, col)
<1> DEFINE E == EmptyRows(s, a, col)
           D == {Distance(r, row) : r \in E}
<1> HIDE DEF E
<1>0. E \subseteq Nat /\ E # {}
  BY DEF E
<1>1. \A r \in E : Distance(r, row) \in Nat
  BY <1>0 DEF Distance
<1>2. D \subseteq Nat /\ D # {}
  BY <1>0, <1>1
<1>3. PICK d \in D : \A x \in D : d <= x
  BY <1>2, LeastNatural
<1> DEFINE N == {r \in E : Distance(r, row) = d}
<1>4. N \subseteq Nat /\ N # {}
  BY <1>0
<1>5. PICK m \in N : \A x \in N : m <= x
  BY <1>4, LeastNatural
<1>6. /\ m \in E
      /\ \A o \in E :
           \/ Distance(m, row) < Distance(o, row)
           \/ Distance(m, row) = Distance(o, row) /\ m <= o
  <2>1. m \in E /\ Distance(m, row) = d
    OBVIOUS
  <2>2. ASSUME NEW o \in E
        PROVE  \/ Distance(m, row) < Distance(o, row)
               \/ Distance(m, row) = Distance(o, row) /\ m <= o
    <3>1. Distance(o, row) \in D
      OBVIOUS
    <3>2. d <= Distance(o, row) /\ d \in Nat /\ Distance(o, row) \in Nat
      BY <3>1, <1>1, <1>2, <1>3
    <3>3. CASE Distance(o, row) = d
      <4>1. m <= o
        BY <3>3, <1>5
      <4>2. QED
        BY <4>1, <3>3, <2>1
    <3>4. CASE Distance(o, row) # d
      BY <3>2, <3>4, <2>1
    <3>5. QED
      BY <3>3, <3>4
  <2>3. QED
    BY <2>1, <2>2
<1>7. QED
  BY <1>6 DEF findClosestEmptyRow, E

\* A placement leaves the answers sound; a card that enters the grid takes one
\* slot, and the one that leaves it, in a full column only, had that slot.
LEMMA PlacementSane ==
    ASSUME NEW s \in Studies, NEW a, Sane(a), Bounded(a), NEW c \in Cards,
           NEW col \in DOMAIN s.grid, NEW row \in Nat
    PROVE  LET b == handlePlacement(s, a, c, col, row)
           IN  /\ Sane(b) /\ b.pile = a.pile
               /\ Placed(b) \subseteq Placed(a) \cup {c}
               /\ c \notin Placed(a) /\ c \in Placed(b) =>
                    \E r \in Nat :
                      /\ [card |-> c, col |-> col, row |-> r] \in b.qsort
                      /\ b.qsort \subseteq a.qsort \cup {[card |-> c, col |-> col, row |-> r]}
                      /\ \A p \in a.qsort : p \notin b.qsort =>
                           /\ p.col = col /\ p.row = r
                           /\ EmptyRows(s, a, col) = {}
<1> DEFINE b == handlePlacement(s, a, c, col, row)
           there == {p \in InColumn(a, col) : p.row = row}
           taken == CHOOSE p \in there : TRUE
           other == taken.card
           closest == findClosestEmptyRow(s, a, col, row)
           At(r) == [card |-> c, col |-> col, row |-> r]
<1>1. col \in Columns
  BY GridTypes
<1>2. CASE there = {}
  <2>1. b = placeOrMove(s, a, c, col, row)
    BY <1>2 DEF handlePlacement
  <2>2. \A p \in a.qsort : p.col = col /\ p.row = row => p.card = c
    BY <1>2 DEF InColumn
  <2> HIDE DEF b
  <2>3. /\ Sane(b) /\ b.pile = a.pile
        /\ b = a \/ b.qsort = {p \in a.qsort : p.card # c} \cup {At(row)}
    BY <2>1, <2>2, <1>1, PlaceSane
  <2>4. QED
    BY <2>3 DEF Placed, b
<1>3. CASE there # {} /\ EmptyRows(s, a, col) # {}
  <2>1. b = placeOrMove(s, a, c, col, closest)
    BY <1>3 DEF handlePlacement
  <2>2. EmptyRows(s, a, col) \subseteq Nat
    BY EmptyRowsFree
  <2>3. closest \in EmptyRows(s, a, col)
    BY <1>3, <2>2, ClosestFound
  <2>4. closest \in Nat /\ \A p \in a.qsort : ~ (p.col = col /\ p.row = closest)
    BY <2>2, <2>3, EmptyRowsFree DEF InColumn
  <2> HIDE DEF b, closest
  <2>5. /\ Sane(b) /\ b.pile = a.pile
        /\ b = a \/ b.qsort = {p \in a.qsort : p.card # c} \cup {At(closest)}
    BY <2>1, <2>4, <1>1, PlaceSane
  <2>6. QED
    BY <2>4, <2>5 DEF Placed, b
<1>4. CASE there # {} /\ EmptyRows(s, a, col) = {}
  <2>1. taken \in a.qsort /\ taken.col = col /\ taken.row = row
    BY <1>4 DEF InColumn
  <2>2. other \in Placed(a)
    BY <2>1 DEF Placed
  <2>3. CASE c \in Placed(a)
    <3>1. b = swapCardsInGrid(a, c, other)
      BY <1>4, <2>3 DEF handlePlacement
    <3>2. CASE c # other
      <4>1. Sane(b) /\ b.pile = a.pile /\ Placed(b) = Placed(a)
        BY <2>2, <2>3, <3>1, <3>2, SwapSane
      <4>2. QED
        BY <4>1, <2>3
    <3>3. CASE c = other
      <4> DEFINE p == PlaceOf(a, c)
      <4>1. p \in a.qsort /\ p.card = c /\ p \in Places
        BY <2>3, PlaceFound DEF Sane
      <4>2. [p EXCEPT !.card = c] = p
        BY <4>1 DEF Places
      <4>3. b = [a EXCEPT !.qsort = (a.qsort \ {p, p}) \cup
                    {[p EXCEPT !.card = c], [p EXCEPT !.card = c]}]
        BY <3>1, <3>3 DEF swapCardsInGrid
      <4>4. (a.qsort \ {p, p}) \cup {[p EXCEPT !.card = c], [p EXCEPT !.card = c]} = a.qsort
        BY <4>1, <4>2
      <4>5. b = [a EXCEPT !.qsort = a.qsort]
        BY <4>3, <4>4
      <4>6. b = a
        BY <4>5 DEF Sane
      <4>7. QED
        BY <4>6, <2>3
    <3>4. QED
      BY <3>2, <3>3
  <2>4. CASE c \notin Placed(a)
    <3> DEFINE a1 == unplaceCard(a, other)
    <3>1. b = placeOrMove(s, a1, c, col, row)
      BY <1>4, <2>4 DEF handlePlacement
    <3>2. Sane(a1)
      BY UnplaceSane
    <3>3. a1.pile = a.pile /\ a1.qsort = {p \in a.qsort : p.card # other}
      BY DEF Sane, unplaceCard
    <3>4. \A p \in a.qsort : p.col = col /\ p.row = row => p = taken
      BY <2>1 DEF Sane, OneEach
    <3>5. \A p \in a1.qsort : ~ (p.col = col /\ p.row = row)
      BY <3>3, <3>4
    <3> HIDE DEF a1, b
    <3>6. /\ Sane(b) /\ b.pile = a1.pile
          /\ b = a1 \/ b.qsort = {p \in a1.qsort : p.card # c} \cup {At(row)}
      BY <3>1, <3>2, <3>5, <1>1, PlaceSane
    <3>7. \A p \in a.qsort : p.card # c
      BY <2>4 DEF Placed
    <3>8. CASE b = a1
      BY <3>3, <3>6, <3>7, <3>8, <2>4 DEF Placed, b
    <3>9. CASE b.qsort = {p \in a1.qsort : p.card # c} \cup {At(row)}
      <4>1. b.qsort = a1.qsort \cup {At(row)}
        BY <3>3, <3>7, <3>9
      <4>2. \A p \in a.qsort : p \notin b.qsort => p = taken
        <5>1. \A p \in a.qsort : p.card = other => p = taken
          BY <2>1 DEF Sane, OneEach
        <5>2. QED
          BY <4>1, <3>3, <5>1
      <4>3. Placed(b) \subseteq Placed(a) \cup {c}
        BY <4>1, <3>3 DEF Placed
      <4>4. QED
        BY <4>1, <4>2, <4>3, <3>3, <3>6, <2>1, <1>4 DEF b
    <3>10. QED
      BY <3>6, <3>8, <3>9
  <2>5. QED
    BY <2>3, <2>4
<1>5. QED
  BY <1>2, <1>3, <1>4

-----------------------------------------------------------------------------
(* The effects of the fine page.                                           *)

\* On the fine page: no card off the grid's slots, no statement lost.
Clean(s, a) ==
    /\ Strays(s, a) = {}
    /\ IF s.rough
       THEN s.cards \subseteq Placed(a) \cup Piled(a)
       ELSE a.deck \cap s.cards = s.cards \ Placed(a) /\ a.history = <<>>

\* A place of a sound grid is a stray's or stays.
LEMMA KeptPlaces ==
    ASSUME NEW s, NEW a, Sane(a)
    PROVE  LET Q == {p \in a.qsort : p.card \notin Strays(s, a)}
           IN  /\ Q \subseteq a.qsort
               /\ \A p \in Q : /\ p.col \in DOMAIN s.grid
                              /\ ~ (s.mode = "forced" /\ p.row >= s.grid[p.col])
BY DEF Strays

\* The effects of a study with rough sort.
LEMMA SettledRoughClean ==
    ASSUME NEW s \in Studies, s.rough, NEW a, Sane(a), NEW order
    PROVE  LET b == SettledRough(s, a, order)
           IN  /\ Sane(b) /\ Clean(s, b)
               /\ b.qsort = {p \in a.qsort : p.card \notin Strays(s, a)}
<1> DEFINE b == SettledRough(s, a, order)
           missing == s.cards \ (Placed(a) \cup Piled(a))
           strays == Strays(s, a)
           Q == {p \in a.qsort : p.card \notin strays}
           P == [k \in Piles |-> IF k = "neutral" THEN a.pile[k] \cup missing \cup strays
                                                 ELSE a.pile[k] \ strays]
<1>1. /\ b.pile = P /\ b.deck = a.deck /\ b.qsort = Q
      /\ b = [pile |-> b.pile, history |-> b.history, deck |-> b.deck, qsort |-> b.qsort]
  <2> DEFINE h == a.history \o InListOrder(missing) \o order
  <2>1. b = [a EXCEPT !.pile = P, !.history = h, !.qsort = Q]
    BY DEF SettledRough
  <2> HIDE DEF P, h, Q, b
  <2>2. QED
    BY <2>1 DEF Sane
<1>2. missing \subseteq Cards /\ strays \subseteq Placed(a) /\ Placed(a) \subseteq Cards
  BY DEF Cards, Strays, Placed, Sane, Places
<1>3. P \in [Piles -> SUBSET Cards]
  <2>1. a.pile \in [Piles -> SUBSET Cards]
    BY DEF Sane
  <2>2. QED
    BY <2>1, <1>2
<1>4. \A c \in missing, k \in Piles : c \notin a.pile[k]
  BY DEF Piled
<1> HIDE DEF b, missing, strays
<1>5. \A c \in Cards, j, k \in Piles : c \in P[j] /\ c \in P[k] => j = k
  <2>1. \A c \in Cards, j, k \in Piles : c \in a.pile[j] /\ c \in a.pile[k] => j = k
    BY DEF Sane, OneEach
  <2>2. QED
    BY <2>1, <1>4
<1>6. Q \subseteq a.qsort /\ IsFiniteSet(Q)
  BY FS_Subset DEF Sane
<1>7. OneEach(b)
  BY <1>1, <1>5, <1>6 DEF OneEach, Sane
<1>8. Sane(b)
  <2>1. b.deck \cap Placed(b) = {}
    BY <1>1, <1>6 DEF Sane, Placed
  <2>2. QED
    BY <2>1, <1>1, <1>3, <1>6, <1>7 DEF Sane
<1>9. Strays(s, b) = {}
  BY <1>1, KeptPlaces DEF Strays, strays
<1>10. s.cards \subseteq Placed(b) \cup Piled(b)
  <2>1. "neutral" \in Piles
    BY SortingAssumption
  <2>2. ASSUME NEW c \in s.cards
        PROVE  c \in Placed(b) \cup Piled(b)
    <3>1. CASE c \in missing \cup strays
      <4>1. c \in P["neutral"]
        BY <2>1, <3>1
      <4>2. QED
        BY <4>1, <2>1, <1>1 DEF Piled
    <3>2. CASE c \notin missing /\ c \notin strays /\ c \in Placed(a)
      BY <3>2, <1>1 DEF Placed
    <3>3. CASE c \notin missing /\ c \notin strays /\ c \in Piled(a)
      <4>1. PICK k \in Piles : c \in a.pile[k]
        BY <3>3 DEF Piled
      <4>2. c \in P[k]
        BY <4>1, <3>3
      <4>3. QED
        BY <4>2, <1>1 DEF Piled
    <3>4. QED
      BY <3>1, <3>2, <3>3 DEF missing
  <2>3. QED
    BY <2>2
<1>11. QED
  BY <1>1, <1>8, <1>9, <1>10 DEF Clean, b, strays

\* The effects of a study without.
LEMMA SettledDeckClean ==
    ASSUME NEW s \in Studies, ~ s.rough, NEW a, Sane(a)
    PROVE  LET b == SettledDeck(s, a)
           IN  /\ Sane(b) /\ Clean(s, b)
               /\ b.qsort = {p \in a.qsort : p.card \notin Strays(s, a)}
<1> DEFINE b == SettledDeck(s, a)
           Q == {p \in a.qsort : p.card \notin Strays(s, a)}
           K == {p.card : p \in Q}
<1>1. /\ b.pile = [k \in Piles |-> {}] /\ b.history = <<>>
      /\ b.qsort = Q /\ b.deck = a.deck \cup (s.cards \ K)
      /\ b = [pile |-> b.pile, history |-> b.history, deck |-> b.deck, qsort |-> b.qsort]
  <2> DEFINE P == [k \in Piles |-> {}]
             D == a.deck \cup (s.cards \ K)
             e == <<>>
  <2>1. b = [[pile |-> P, history |-> e, deck |-> {}, qsort |-> {}]
               EXCEPT !.qsort = Q, !.deck = D]
    BY DEF SettledDeck, initialResponses
  <2> HIDE DEF P, D, e, Q, b
  <2>2. /\ b.pile = P /\ b.history = e /\ b.qsort = Q /\ b.deck = D
        /\ b = [pile |-> b.pile, history |-> b.history, deck |-> b.deck, qsort |-> b.qsort]
    BY <2>1
  <2>3. QED
    BY <2>2 DEF P, D, e
<1> HIDE DEF b
<1>2. Q \subseteq a.qsort /\ IsFiniteSet(Q)
  BY FS_Subset DEF Sane
<1>3. K = Placed(b) /\ K \subseteq Placed(a)
  BY <1>1, <1>2 DEF Placed
<1>4. a.deck \cap K = {}
  BY <1>3 DEF Sane
<1>5. OneEach(b)
  BY <1>1, <1>2 DEF OneEach, Sane
<1>6. Sane(b)
  BY <1>1, <1>2, <1>3, <1>4, <1>5 DEF Sane
<1>7. Strays(s, b) = {}
  BY <1>1, KeptPlaces DEF Strays
<1>8. b.deck \cap s.cards = s.cards \ Placed(b)
  BY <1>1, <1>3, <1>4
<1>9. QED
  BY <1>1, <1>6, <1>7, <1>8 DEF Clean, b

-----------------------------------------------------------------------------
(* The inductive invariant.                                                *)

IInv ==
    /\ study \in Studies
    /\ Sane(answers) /\ Bounded(answers)
    /\ swipes \in Seq(Cards \X Piles)
    /\ page = "fine" => Clean(study, answers)
    /\ page = "post" => Cardinality(answers.qsort) = Cardinality(study.cards)

\* What showing a stage does to sound answers.
LEMMA ShowKeeps ==
    ASSUME study \in Studies, NEW p, NEW a, Sane(a), Bounded(a), Show(p, a)
    PROVE  /\ study' = study
           /\ Sane(answers') /\ Bounded(answers')
           /\ page' = "fine" =>
                /\ Clean(study, answers')
                /\ answers'.qsort = {q \in a.qsort : q.card \notin Strays(study, a)}
           /\ page' = "post" => Cardinality(answers'.qsort) = Cardinality(study.cards)
           /\ answers'.qsort \subseteq a.qsort
<1>1. /\ page' = Landing(study, a, p) /\ study' = study
      /\ \E order : answers' = Settled(study, a, p, order)
  BY DEF Show
<1>2. CASE Guarded(study, a, p) # "fine"
  <2>1. answers' = a /\ page' = Guarded(study, a, p)
    BY <1>1, <1>2 DEF Settled, Landing
  <2>2. page' # "fine" /\ (page' = "post" => Cardinality(a.qsort) = Cardinality(study.cards))
    BY <2>1, <1>2 DEF Guarded
  <2>3. QED
    BY <1>1, <2>1, <2>2
<1>3. CASE Guarded(study, a, p) = "fine" /\ study.rough
  <2>1. (\E order : answers' = SettledRough(study, a, order)) /\ page' # "post"
    BY <1>1, <1>3 DEF Settled, Landing
  <2>2. /\ Sane(answers') /\ Clean(study, answers')
        /\ answers'.qsort = {q \in a.qsort : q.card \notin Strays(study, a)}
    BY <2>1, <1>3, SettledRoughClean
  <2>3. QED
    BY <1>1, <2>1, <2>2 DEF Bounded
<1>4. CASE Guarded(study, a, p) = "fine" /\ ~ study.rough
  <2>1. answers' = SettledDeck(study, a) /\ page' = "fine"
    BY <1>1, <1>4 DEF Settled, Landing
  <2>2. /\ Sane(answers') /\ Clean(study, answers')
        /\ answers'.qsort = {q \in a.qsort : q.card \notin Strays(study, a)}
    BY <2>1, <1>4, SettledDeckClean
  <2>3. QED
    BY <1>1, <1>4, <2>1, <2>2 DEF Bounded
<1>5. QED
  BY <1>2, <1>3, <1>4

\* A step that shows sound answers keeps the invariant.
LEMMA ShowInv ==
    ASSUME IInv, NEW p, NEW a, Sane(a), Bounded(a), Show(p, a),
           swipes' \in Seq(Cards \X Piles)
    PROVE  IInv'
<1>1. study \in Studies
  BY DEF IInv
<1>2. QED
  BY <1>1, ShowKeeps DEF IInv

\* The initial states.
LEMMA InitInv == Init => IInv
<1> SUFFICES ASSUME Init PROVE IInv
  OBVIOUS
<1>1. study \in Studies /\ swipes \in Seq(Cards \X Piles) /\ page = "away"
  BY SortingAssumption DEF Init
<1>2. Sane(answers) /\ Bounded(answers)
  BY InitiallySane DEF Init
<1>3. QED
  BY <1>1, <1>2 DEF IInv

\* A vote on its way is a card and a pile, and taking it off leaves such votes.
LEMMA SwipeTypes ==
    ASSUME IInv, NEW i \in 1..Len(swipes)
    PROVE  /\ swipes[i][1] \in Cards /\ swipes[i][2] \in Piles
           /\ RemoveAt(swipes, i) \in Seq(Cards \X Piles)
<1> DEFINE V == Cards \X Piles
<1>1. swipes \in Seq(V)
  BY DEF IInv
<1>2. swipes[i] \in V
  BY <1>1
<1>3. swipes[i][1] \in Cards /\ swipes[i][2] \in Piles
  BY <1>2
<1> HIDE DEF V
<1>4. SubSeq(swipes, 1, i - 1) \in Seq(V) /\ SubSeq(swipes, i + 1, Len(swipes)) \in Seq(V)
  BY <1>1
<1>5. RemoveAt(swipes, i) \in Seq(V)
  BY <1>4 DEF RemoveAt
<1>6. QED
  BY <1>3, <1>5 DEF V

\* The top card is one of the study's.
LEMMA CurrentFound ==
    ASSUME IInv, Unsorted # {}
    PROVE  CurrentCard \in Cards
<1>1. Unsorted \subseteq Cards /\ Cards \subseteq Nat
  BY SortingAssumption DEF IInv, Unsorted, Cards
<1>2. \E c \in Unsorted : \A d \in Unsorted : c <= d
  BY <1>1, LeastNatural
<1>3. CurrentCard \in Unsorted
  BY <1>2 DEF CurrentCard
<1>4. QED
  BY <1>1, <1>3

\* The cards in hand are cards.
LEMMA InHandCards == IInv => InHand \subseteq Cards
BY DEF IInv, InHand, Cards

\* A reset empties the grid, a resumed session has no deck.
LEMMA ClearedSane ==
    ASSUME NEW a, Sane(a)
    PROVE  /\ Sane([a EXCEPT !.qsort = {}]) /\ [a EXCEPT !.qsort = {}].qsort = {}
           /\ Sane([a EXCEPT !.deck = {}]) /\ [a EXCEPT !.deck = {}].qsort = a.qsort
<1> DEFINE none == {}
           b == [a EXCEPT !.qsort = none, !.deck = a.deck]
           c == [a EXCEPT !.qsort = a.qsort, !.deck = none]
<1>1. none \subseteq a.qsort /\ none \subseteq a.deck
  OBVIOUS
<1> HIDE DEF none
<1>2. Sane(b) /\ Sane(c)
  BY <1>1, FewerSane
<1>3. /\ b = [a EXCEPT !.qsort = none] /\ b.qsort = none
      /\ c = [a EXCEPT !.deck = none] /\ c.qsort = a.qsort
  <2>1. a = [pile |-> a.pile, history |-> a.history, deck |-> a.deck, qsort |-> a.qsort]
    BY DEF Sane
  <2>2. QED
    BY <2>1
<1> HIDE DEF b, c
<1>4. QED
  BY <1>2, <1>3 DEF none

\* A vote keeps the invariant, on whatever page it lands.
LEMMA VoteInv ==
    ASSUME IInv, NEW i \in 1..Len(swipes), Vote(i)
    PROVE  IInv'
<1> DEFINE a == categorizeCard(answers, swipes[i][1], swipes[i][2])
<1>1. Sane(a)
  BY SwipeTypes, CategorizeSane DEF IInv
<1>2. a.qsort = answers.qsort
  BY GridKept DEF IInv
<1>3. Bounded(a)
  BY <1>2 DEF IInv, Bounded
<1>4. swipes' \in Seq(Cards \X Piles)
  BY SwipeTypes DEF Vote
<1>5. CASE page = "fine"
  <2>1. Show(page, a)
    BY <1>5 DEF Vote
  <2>2. QED
    BY <2>1, <1>1, <1>3, <1>4, ShowInv
<1>6. CASE page # "fine"
  <2>1. answers' = a /\ study' = study /\ page' = page
    BY <1>6 DEF Vote
  <2>2. QED
    BY <2>1, <1>1, <1>2, <1>3, <1>4, <1>6 DEF IInv
<1>7. QED
  BY <1>5, <1>6

\* A placement does.
LEMMA PlaceInv ==
    ASSUME IInv, NEW c \in InHand, NEW col \in DOMAIN study.grid, NEW row \in 0..MaxRow,
           Place(c, col, row)
    PROVE  IInv'
<1> DEFINE a == handlePlacement(study, answers, c, col, row)
<1>1. /\ study \in Studies /\ Sane(answers) /\ Bounded(answers) /\ c \in Cards
      /\ row \in Nat
  BY InHandCards, SortingAssumption DEF IInv
<1>2. Sane(a)
  BY <1>1, PlacementSane
<1>3. Bounded(a) /\ Show(page, a) /\ swipes' = swipes
  BY DEF Place, Bounded
<1> HIDE DEF a
<1>4. swipes' \in Seq(Cards \X Piles)
  BY <1>3 DEF IInv
<1>5. QED
  BY <1>2, <1>3, <1>4, ShowInv

\* A drop on a pile does.
LEMMA DropInv ==
    ASSUME IInv, NEW c \in InHand, NEW k \in Piles, Drop(c, k)
    PROVE  IInv'
<1> DEFINE u == unplaceCard(answers, c)
           a == IF study.rough THEN categorizeCard(u, c, k) ELSE u
<1>1. Sane(u) /\ c \in Cards
  BY UnplaceSane, InHandCards DEF IInv
<1>2. u.qsort = {p \in answers.qsort : p.card # c}
  <2>1. Sane(answers)
    BY DEF IInv
  <2>2. unplaceCard(answers, c).qsort = {p \in answers.qsort : p.card # c}
    BY <2>1, GridKept
  <2>3. QED
    BY <2>2
<1>3. Sane(a)
  BY <1>1, CategorizeSane
<1>4. a.qsort = u.qsort
  BY <1>1, GridKept
<1>5. Bounded(a)
  BY <1>2, <1>4 DEF IInv, Bounded
<1>6. Show(page, a) /\ swipes' = swipes
  BY DEF Drop
<1> HIDE DEF a
<1>7. swipes' \in Seq(Cards \X Piles)
  BY <1>6 DEF IInv
<1>8. QED
  BY <1>3, <1>5, <1>6, <1>7, ShowInv

\* Every step does.
LEMMA NextInv == IInv /\ [Next]_vars => IInv'
<1> SUFFICES ASSUME IInv, [Next]_vars PROVE IInv'
  OBVIOUS
<1>0. Sane(answers) /\ Bounded(answers) /\ swipes \in Seq(Cards \X Piles)
  BY DEF IInv
<1>1. ASSUME NEW p \in {"rough", "fine", "post"}, Open(p) PROVE IInv'
  <2>1. Show(p, answers) /\ swipes' = swipes
    BY <1>1 DEF Open
  <2>2. QED
    BY <2>1, <1>0, ShowInv
<1>2. ASSUME NEW k \in Piles, Swipe(k) PROVE IInv'
  <2>1. CurrentCard \in Cards
    BY <1>2, CurrentFound DEF Swipe
  <2>2. swipes' \in Seq(Cards \X Piles)
    BY <1>0, <1>2, <2>1 DEF Swipe
  <2>3. QED
    BY <2>2, <1>2 DEF Swipe, IInv
<1>3. ASSUME NEW i \in 1..Len(swipes), Vote(i) PROVE IInv'
  BY <1>3, VoteInv
<1>4. ASSUME NEW i \in 1..Len(swipes), LoseSwipe(i) PROVE IInv'
  <2>1. swipes' \in Seq(Cards \X Piles)
    BY <1>4, SwipeTypes DEF LoseSwipe
  <2>2. QED
    BY <2>1, <1>4 DEF LoseSwipe, IInv
<1>5. ASSUME Undo PROVE IInv'
  <2>1. Sane(answers') /\ page' = "rough" /\ study' = study /\ swipes' = swipes
    BY <1>0, <1>5, UndoSane DEF Undo
  <2>2. answers'.qsort = answers.qsort
    BY <1>0, <1>5, GridKept DEF Undo
  <2>3. QED
    BY <2>1, <2>2 DEF IInv, Bounded
<1>6. ASSUME NEW c \in InHand, NEW col \in DOMAIN study.grid, NEW row \in 0..MaxRow,
             Place(c, col, row)
      PROVE  IInv'
  BY <1>6, PlaceInv
<1>7. ASSUME NEW c \in InHand, NEW k \in Piles, Drop(c, k) PROVE IInv'
  BY <1>7, DropInv
<1>8. ASSUME Reset PROVE IInv'
  <2> DEFINE a == [answers EXCEPT !.qsort = {}]
  <2>1. Sane(a) /\ a.qsort = {}
    BY <1>0, ClearedSane
  <2>2. Show(page, a) /\ swipes' = swipes
    BY <1>8 DEF Reset
  <2> HIDE DEF a
  <2>3. Bounded(a)
    BY <2>1 DEF Bounded
  <2>4. QED
    BY <2>1, <2>2, <2>3, <1>0, ShowInv
<1>9. ASSUME Leave PROVE IInv'
  <2>1. swipes' \in Seq(Cards \X Piles)
    BY <1>9 DEF Leave
  <2>2. QED
    BY <2>1, <1>9 DEF Leave, IInv
<1>10. ASSUME Resume PROVE IInv'
  <2>1. Sane(answers') /\ answers'.qsort = answers.qsort
    BY <1>0, <1>10, ClearedSane DEF Resume
  <2>2. QED
    BY <2>1, <1>10 DEF Resume, IInv, Bounded
<1>11. ASSUME Redesign PROVE IInv'
  BY <1>11 DEF Redesign, IInv
<1>12. CASE UNCHANGED vars
  BY <1>12 DEF vars, IInv
<1>13. QED
  BY <1>1, <1>2, <1>3, <1>4, <1>5, <1>6, <1>7, <1>8, <1>9, <1>10, <1>11, <1>12 DEF Next

\* The invariant holds.
THEOREM SortingInvariant == Spec => []IInv
BY InitInv, NextInv, PTL DEF Spec

-----------------------------------------------------------------------------
(* The properties.                                                         *)

\* No card is ever in two slots or two piles, no slot holds two cards: for
\* every order of votes, placements, swaps, resets and edits of the study.
THEOREM CardsStaySingle == Spec => []OneSlotEach
<1>1. IInv => OneSlotEach
  BY DEF IInv, Sane, OneEach, OneSlotEach
<1>2. QED
  BY <1>1, SortingInvariant, PTL

\* On the fine page every statement is on the grid or can be put there.
THEOREM StatementsStayAtHand == Spec => []NoCardLost
<1>1. IInv => NoCardLost
  BY DEF IInv, Clean, NoCardLost
<1>2. QED
  BY <1>1, SortingInvariant, PTL

\* A free grid renders every row a card is in.
LEMMA FreeRowsRendered ==
    ASSUME NEW s \in Studies, s.mode = "free", NEW a, Sane(a), Bounded(a),
           NEW p \in a.qsort, p.col \in DOMAIN s.grid
    PROVE  p.row < SlotCount(s, a, p.col)
<1> DEFINE last == LastRow(a, p.col)
           n == Cardinality(InColumn(a, p.col))
           cap == s.grid[p.col]
<1>1. last \in Int /\ p.row \in Nat /\ p.row <= last
  BY LastRowFound DEF InColumn
<1>2. n \in Nat
  <2>1. IsFiniteSet(InColumn(a, p.col))
    BY FS_Subset DEF Sane, InColumn
  <2>2. QED
    BY <2>1, FS_CardinalityType
<1>3. cap \in Nat
  BY GridTypes
<1>4. SlotCount(s, a, p.col) = IF n >= cap \/ last >= cap
                               THEN MaxOf({n + 1, last + 2}, 0) ELSE cap
  BY DEF SlotCount
<1> HIDE DEF last, n, cap
<1>5. last + 2 <= MaxOf({n + 1, last + 2}, 0) /\ MaxOf({n + 1, last + 2}, 0) \in Int
  <2>1. n + 1 \in Int /\ last + 2 \in Int
    BY <1>1, <1>2
  <2>2. QED
    BY <2>1, MaxOfTwo
<1>6. QED
  BY <1>1, <1>2, <1>3, <1>4, <1>5

\* A card on the grid is in a slot the page renders, forced or free.
THEOREM PlacedCardsAreShown == Spec => []GridShown
<1>1. ASSUME IInv PROVE GridShown
  <2> SUFFICES ASSUME page = "fine", study.mode # "flexible", NEW p \in answers.qsort
               PROVE  Rendered(study, answers, p)
    BY DEF GridShown
  <2>1. /\ p.col \in DOMAIN study.grid
        /\ ~ (study.mode = "forced" /\ p.row >= study.grid[p.col])
    BY <1>1 DEF IInv, Clean, Strays
  <2>2. study \in Studies /\ Sane(answers) /\ Bounded(answers)
    BY <1>1 DEF IInv
  <2>3. study.mode = "forced" \/ study.mode = "free"
    BY <2>2, SortingAssumption
  <2>4. CASE study.mode = "forced"
    <3>1. p.row \in Nat /\ study.grid[p.col] \in Nat
      BY <2>1, <2>2, GridTypes DEF Sane, Places
    <3>2. SlotCount(study, answers, p.col) = study.grid[p.col]
      BY <2>4 DEF SlotCount
    <3>3. p.row < study.grid[p.col]
      BY <3>1, <2>1, <2>4
    <3>4. QED
      BY <3>2, <3>3, <2>1 DEF Rendered
  <2>5. CASE study.mode = "free"
    BY <2>1, <2>2, <2>5, FreeRowsRendered DEF Rendered
  <2>6. QED
    BY <2>3, <2>4, <2>5
<1>2. QED
  BY <1>1, SortingInvariant, PTL

\* The post-sort shows a complete sort, unless it holds statements the study
\* no longer lists.
THEOREM PostSortIsComplete == Spec => []PostComplete
<1>1. ASSUME IInv PROVE PostComplete
  <2> SUFFICES ASSUME page = "post", Placed(answers) \subseteq study.cards
               PROVE  Placed(answers) = study.cards
    BY DEF PostComplete
  <2> DEFINE S == answers.qsort
             T == study.cards
             f == [p \in S |-> p.card]
  <2>1. IsFiniteSet(T) /\ Cardinality(S) = Cardinality(T)
    BY <1>1, SortingAssumption DEF IInv
  <2>2. f \in Injection(S, T)
    <3>1. \A p \in S : p.card \in T
      BY DEF Placed
    <3>2. \A p, q \in S : p.card = q.card => p = q
      BY <1>1 DEF IInv, Sane, OneEach
    <3>3. QED
      BY <3>1, <3>2 DEF Injection, IsInjective
  <2> HIDE DEF f, S, T
  <2>3. f \in Surjection(S, T)
    BY <2>1, <2>2, FS_Injection
  <2>4. \A t \in T : \E p \in S : f[p] = t
    BY <2>3 DEF Surjection
  <2>5. \A t \in T : \E p \in S : p.card = t
    BY <2>4 DEF f
  <2>6. QED
    BY <2>5 DEF Placed, S, T
<1>2. QED
  BY <1>1, SortingInvariant, PTL

\* Nobody is pushed off the grid but by a card that takes the slot in a full
\* column, and never off a free grid.
THEOREM DisplacementIsLocal == Spec => OnlyFullColumnsDisplace
<1> DEFINE A == \A p \in answers.qsort, c \in Placed(answers)' \ Placed(answers) :
                  p.card \notin Placed(answers)' =>
                    /\ [p EXCEPT !.card = c] \in answers'.qsort
                    /\ study.mode # "free" /\ EmptyRows(study, answers, p.col) = {}
<1>1. ASSUME IInv, [Next]_vars PROVE A
  <2> SUFFICES ASSUME NEW p \in answers.qsort, NEW c,
                      c \in Placed(answers'), c \notin Placed(answers),
                      p.card \notin Placed(answers')
               PROVE  /\ [p EXCEPT !.card = c] \in answers'.qsort
                      /\ study.mode # "free" /\ EmptyRows(study, answers, p.col) = {}
    BY DEF Placed
  <2>1. /\ study \in Studies /\ Sane(answers) /\ Bounded(answers)
    BY <1>1 DEF IInv
  <2>2. ASSUME answers'.qsort \subseteq answers.qsort PROVE FALSE
    BY <2>2 DEF Placed
  <2>3. ASSUME NEW d \in InHand, NEW col \in DOMAIN study.grid, NEW row \in 0..MaxRow,
               Place(d, col, row)
        PROVE  /\ [p EXCEPT !.card = c] \in answers'.qsort
               /\ study.mode # "free" /\ EmptyRows(study, answers, p.col) = {}
    <3> DEFINE a == handlePlacement(study, answers, d, col, row)
    <3>1. d \in Cards /\ row \in Nat
      BY <1>1, InHandCards, SortingAssumption
    <3>2. /\ Sane(a) /\ Placed(a) \subseteq Placed(answers) \cup {d}
          /\ d \notin Placed(answers) /\ d \in Placed(a) =>
               \E r \in Nat :
                 /\ [card |-> d, col |-> col, row |-> r] \in a.qsort
                 /\ a.qsort \subseteq answers.qsort \cup {[card |-> d, col |-> col, row |-> r]}
                 /\ \A q \in answers.qsort : q \notin a.qsort =>
                      /\ q.col = col /\ q.row = r
                      /\ EmptyRows(study, answers, col) = {}
      BY <2>1, <3>1, PlacementSane
    <3>3. Bounded(a) /\ Show(page, a) /\ page = "fine"
      BY <2>3 DEF Place, Bounded
    <3> HIDE DEF a
    <3>4. answers'.qsort = {q \in a.qsort : q.card \notin Strays(study, a)}
      <4>1. \E order : answers' = Settled(study, a, page, order)
        BY <3>3 DEF Show
      <4>2. Guarded(study, a, page) = "fine"
        BY <3>3 DEF Guarded
      <4>3. \E order : answers' = IF study.rough THEN SettledRough(study, a, order)
                                                ELSE SettledDeck(study, a)
        BY <4>1, <4>2 DEF Settled
      <4>4. QED
        BY <4>3, <2>1, <3>2, SettledRoughClean, SettledDeckClean
    <3>5. c \in Placed(a)
      BY <3>4 DEF Placed
    <3>6. c = d
      BY <3>2, <3>5
    <3>7. PICK r \in Nat :
            /\ [card |-> d, col |-> col, row |-> r] \in a.qsort
            /\ a.qsort \subseteq answers.qsort \cup {[card |-> d, col |-> col, row |-> r]}
            /\ \A q \in answers.qsort : q \notin a.qsort =>
                 /\ q.col = col /\ q.row = r
                 /\ EmptyRows(study, answers, col) = {}
      BY <3>2, <3>5, <3>6
    <3>8. p \notin a.qsort
      <4>1. ASSUME p \in a.qsort PROVE FALSE
        <5>1. p.card \in Strays(study, a)
          BY <4>1, <3>4 DEF Placed
        <5>2. PICK q \in a.qsort :
                /\ q.card = p.card
                /\ \/ q.col \notin DOMAIN study.grid
                   \/ study.mode = "forced" /\ q.row >= study.grid[q.col]
          BY <5>1 DEF Strays
        <5>3. q = p
          BY <5>2, <4>1, <3>2 DEF Sane, OneEach
        <5>4. p.card \in Strays(study, answers)
          BY <5>2, <5>3 DEF Strays
        <5>5. Strays(study, answers) = {}
          BY <1>1, <3>3 DEF IInv, Clean
        <5>6. QED
          BY <5>4, <5>5
      <4>2. QED
        BY <4>1
    <3>9. p.col = col /\ p.row = r /\ EmptyRows(study, answers, col) = {}
      BY <3>7, <3>8
    <3>10. [p EXCEPT !.card = c] = [card |-> d, col |-> col, row |-> r]
      <4>1. p \in Places
        BY <2>1 DEF Sane
      <4>2. QED
        BY <4>1, <3>6, <3>9 DEF Places
    <3>11. [p EXCEPT !.card = c] \in answers'.qsort
      <4> DEFINE new == [card |-> d, col |-> col, row |-> r]
      <4>1. new \in a.qsort /\ new.card = c
        BY <3>6, <3>7
      <4>2. \A q \in answers'.qsort : q \in a.qsort
        BY <3>4
      <4>3. PICK q \in answers'.qsort : q.card = c
        BY DEF Placed
      <4>4. q = new
        BY <4>1, <4>2, <4>3, <3>2 DEF Sane, OneEach
      <4>5. QED
        BY <4>3, <4>4, <3>10
    <3>12. study.mode # "free"
      BY <3>9, <2>1, EmptyRowsFree
    <3>13. QED
      BY <3>9, <3>11, <3>12
  <2>4. ASSUME NEW b, Sane(b), Bounded(b), b.qsort \subseteq answers.qsort,
               (\E q : Show(q, b)) \/ answers' = b
        PROVE  FALSE
    <3>1. answers'.qsort \subseteq b.qsort
      BY <2>1, <2>4, ShowKeeps
    <3>2. QED
      BY <3>1, <2>2, <2>4
  <2>5. ASSUME NEW i \in 1..Len(swipes), Vote(i) PROVE FALSE
    <3> DEFINE b == categorizeCard(answers, swipes[i][1], swipes[i][2])
    <3>1. Sane(b) /\ b.qsort = answers.qsort
      BY <1>1, <2>1, SwipeTypes, CategorizeSane, GridKept
    <3>2. Bounded(b)
      BY <2>1, <3>1 DEF Bounded
    <3>3. Show(page, b) \/ answers' = b
      BY <2>5 DEF Vote
    <3> HIDE DEF b
    <3>4. QED
      BY <3>1, <3>2, <3>3, <2>4
  <2>6. ASSUME NEW d \in InHand, NEW k \in Piles, Drop(d, k) PROVE FALSE
    <3> DEFINE u == unplaceCard(answers, d)
               b == IF study.rough THEN categorizeCard(u, d, k) ELSE u
    <3>1. Sane(u) /\ u.qsort \subseteq answers.qsort /\ d \in Cards
      BY <1>1, <2>1, UnplaceSane, GridKept, InHandCards
    <3>2. Sane(b) /\ b.qsort = u.qsort
      BY <3>1, CategorizeSane, GridKept
    <3>3. Bounded(b)
      BY <2>1, <3>1, <3>2 DEF Bounded
    <3>4. Show(page, b)
      BY <2>6 DEF Drop
    <3> HIDE DEF b
    <3>5. QED
      BY <3>1, <3>2, <3>3, <3>4, <2>4
  <2>7. ASSUME Reset PROVE FALSE
    <3> DEFINE b == [answers EXCEPT !.qsort = {}]
    <3>1. Sane(b) /\ b.qsort = {}
      BY <2>1, ClearedSane
    <3>2. Show(page, b)
      BY <2>7 DEF Reset
    <3> HIDE DEF b
    <3>3. QED
      BY <3>1, <3>2, <2>4 DEF Bounded
  <2>8. ASSUME NEW q \in {"rough", "fine", "post"}, Open(q) PROVE FALSE
    BY <2>8, <2>1, <2>4 DEF Open
  <2>9. ASSUME Undo PROVE FALSE
    BY <2>9, <2>1, <2>2, GridKept DEF Undo
  <2>10. ASSUME Resume PROVE FALSE
    BY <2>10, <2>1, <2>2, ClearedSane DEF Resume
  <2>11. ASSUME answers' = answers PROVE FALSE
    BY <2>11, <2>2
  <2>12. ASSUME NEW k \in Piles, Swipe(k) PROVE FALSE
    BY <2>12, <2>11 DEF Swipe
  <2>13. ASSUME NEW i \in 1..Len(swipes), LoseSwipe(i) PROVE FALSE
    BY <2>13, <2>11 DEF LoseSwipe
  <2>14. ASSUME Leave \/ Redesign \/ UNCHANGED vars PROVE FALSE
    BY <2>14, <2>11 DEF Leave, Redesign, vars
  <2>15. QED
    BY <1>1, <2>3, <2>5, <2>6, <2>7, <2>8, <2>9, <2>10, <2>12, <2>13, <2>14 DEF Next
<1>2. IInv /\ [Next]_vars => [A]_vars
  BY <1>1
<1>3. QED
  BY <1>2, SortingInvariant, PTL DEF Spec, OnlyFullColumnsDisplace

-----------------------------------------------------------------------------
(* The Confirm button.                                                     *)

\* A grid has finitely many slots.
LEMMA SlotsFinite ==
    ASSUME NEW s \in Studies
    PROVE  IsFiniteSet(Slots(s))
<1> DEFINE C == DOMAIN s.grid
           slice == [col \in C |-> {col} \X (0..(s.grid[col] - 1))]
           T == {slice[col] : col \in C}
<1>1. IsFiniteSet(C)
  BY SortingAssumption
<1>2. slice \in Surjection(C, T)
  BY DEF Surjection
<1>3. IsFiniteSet(T)
  <2> HIDE DEF slice, T
  <2>1. QED
    BY <1>1, <1>2, FS_Surjection
<1>4. ASSUME NEW col \in C PROVE IsFiniteSet(slice[col])
  <2>1. s.grid[col] \in Nat
    BY GridTypes
  <2>2. IsFiniteSet(0..(s.grid[col] - 1))
    <3>1. 0 \in Int /\ s.grid[col] - 1 \in Int
      BY <2>1
    <3>2. QED
      BY <3>1, FS_Interval
  <2>3. IsFiniteSet({col})
    BY FS_Singleton
  <2>4. IsFiniteSet({col} \X (0..(s.grid[col] - 1)))
    BY <2>2, <2>3, FS_Product
  <2>5. QED
    BY <2>4
<1>5. \A t \in T : IsFiniteSet(t)
  BY <1>4
<1>6. Slots(s) = UNION T
  BY DEF Slots
<1> HIDE DEF T
<1>7. QED
  BY <1>3, <1>5, <1>6, FS_UNION

\* A grid without strays, forced, holds no more cards than it has slots.
LEMMA FitsTheSlots ==
    ASSUME NEW s \in Studies, s.mode = "forced", NEW a, Sane(a), Strays(s, a) = {}
    PROVE  Cardinality(a.qsort) <= Cardinality(Slots(s))
<1> DEFINE Q == a.qsort
           T == Slots(s)
           f == [p \in Q |-> <<p.col, p.row>>]
<1>1. ASSUME NEW p \in Q PROVE <<p.col, p.row>> \in T
  <2>1. p.col \in DOMAIN s.grid /\ ~ (p.row >= s.grid[p.col])
    BY DEF Strays
  <2>2. p.row \in Nat /\ s.grid[p.col] \in Nat
    BY <2>1, GridTypes DEF Sane, Places
  <2>3. p.row \in 0..(s.grid[p.col] - 1)
    BY <2>1, <2>2
  <2>4. QED
    BY <2>1, <2>3 DEF Slots
<1>2. \A p, q \in Q : p.col = q.col /\ p.row = q.row => p = q
  BY DEF Sane, OneEach
<1>3. \A p, q \in Q : f[p] = f[q] => p = q
  BY <1>2
<1>4. f \in Injection(Q, T)
  BY <1>1, <1>3 DEF Injection, IsInjective
<1>5. IsFiniteSet(T)
  BY SlotsFinite
<1> HIDE DEF Q, T, f
<1>6. Cardinality(Q) <= Cardinality(T)
  BY <1>4, <1>5, FS_Injection
<1>7. QED
  BY <1>6 DEF Q, T

\* With every statement placed there are no fewer places than statements.
LEMMA PlacesForAll ==
    ASSUME NEW s \in Studies, NEW a, Sane(a), s.cards \subseteq Placed(a)
    PROVE  Cardinality(s.cards) <= Cardinality(a.qsort)
<1> DEFINE Q == a.qsort
           C == Placed(a)
           f == [p \in Q |-> p.card]
<1>1. f \in Surjection(Q, C)
  BY DEF Surjection, Placed
<1>2. IsFiniteSet(Q)
  BY DEF Sane
<1>3. s.cards \subseteq C
  OBVIOUS
<1> HIDE DEF Q, C, f
<1>4. IsFiniteSet(C) /\ Cardinality(C) <= Cardinality(Q)
  BY <1>1, <1>2, FS_Surjection
<1>5. Cardinality(s.cards) <= Cardinality(C)
  BY <1>3, <1>4, FS_Subset
<1>6. /\ Cardinality(C) \in Nat /\ Cardinality(Q) \in Nat
      /\ Cardinality(s.cards) \in Nat
  BY <1>2, <1>4, FS_CardinalityType, SortingAssumption
<1>7. QED
  BY <1>4, <1>5, <1>6 DEF Q

\* In a forced grid with a slot per statement Confirm opens the post-sort,
\* whatever configurations the participant came through: the cards of another
\* one have no slot left once every statement of this one is placed.
THEOREM ConfirmIsNeverSentBack == Spec => []ConfirmLeadsOn
<1>1. ASSUME IInv PROVE ConfirmLeadsOn
  <2> SUFFICES ASSUME page = "fine", study.mode = "forced", _check_grid_capacity(study),
                      study.cards \subseteq Placed(answers)
               PROVE  Landing(study, answers, "post") = "post"
    BY DEF ConfirmLeadsOn
  <2>1. study \in Studies /\ Sane(answers) /\ Strays(study, answers) = {}
    BY <1>1 DEF IInv, Clean
  <2>2. Cardinality(answers.qsort) <= Cardinality(study.cards)
    <3>1. Cardinality(Slots(study)) = Cardinality(study.cards)
      BY DEF _check_grid_capacity
    <3>2. Cardinality(answers.qsort) <= Cardinality(Slots(study))
      BY <2>1, FitsTheSlots
    <3>3. QED
      BY <3>1, <3>2
  <2>3. Cardinality(study.cards) <= Cardinality(answers.qsort)
    BY <2>1, PlacesForAll
  <2>4. Cardinality(answers.qsort) = Cardinality(study.cards)
    <3>1. Cardinality(answers.qsort) \in Nat /\ Cardinality(study.cards) \in Nat
      BY <2>1, FS_CardinalityType, SortingAssumption DEF Sane
    <3>2. QED
      BY <2>2, <2>3, <3>1
  <2>5. QED
    BY <2>4 DEF Landing, Guarded
<1>2. QED
  BY <1>1, SortingInvariant, PTL

-----------------------------------------------------------------------------
(* Types.                                                                  *)

\* A finite set of naturals can be listed in ascending order: each element
\* goes to the place its rank gives it.
LEMMA ListOrderFound ==
    ASSUME NEW C, C \subseteq Nat, IsFiniteSet(C)
    PROVE  /\ Cardinality(C) \in Nat
           /\ InListOrder(C) \in [1..Cardinality(C) -> C]
           /\ \A i, j \in 1..Cardinality(C) : i < j => InListOrder(C)[i] < InListOrder(C)[j]
<1> DEFINE n == Cardinality(C)
           UpTo(c) == {d \in C : d <= c}
           rank == [c \in C |-> Cardinality(UpTo(c))]
<1>1. n \in Nat
  BY FS_CardinalityType
<1>2. ASSUME NEW c \in C PROVE IsFiniteSet(UpTo(c)) /\ rank[c] \in 1..n
  <2>1. UpTo(c) \in SUBSET C
    OBVIOUS
  <2>2. IsFiniteSet(UpTo(c)) /\ Cardinality(UpTo(c)) <= n
    <3> HIDE DEF UpTo
    <3>1. QED
      BY <2>1, FS_Subset
  <2>3. c \in UpTo(c)
    OBVIOUS
  <2>4. Cardinality(UpTo(c)) \in Nat /\ Cardinality(UpTo(c)) # 0
    <3> HIDE DEF UpTo
    <3>1. QED
      BY <2>2, <2>3, FS_CardinalityType, FS_EmptySet
  <2>5. QED
    BY <1>1, <2>2, <2>4
<1>3. ASSUME NEW c \in C, NEW d \in C, c < d PROVE rank[c] < rank[d]
  <2>1. UpTo(c) \in SUBSET UpTo(d) /\ d \in UpTo(d) /\ d \notin UpTo(c)
    <3>1. c \in Nat /\ d \in Nat /\ c < d
      BY <1>3
    <3>2. \A e \in C : e <= c => e <= d
      BY <3>1
    <3>3. d <= d /\ ~ (d <= c)
      BY <3>1
    <3>4. UpTo(c) \subseteq UpTo(d)
      BY <3>2
    <3>5. QED
      BY <3>3, <3>4
  <2>2. IsFiniteSet(UpTo(d))
    BY <1>2
  <2> HIDE DEF UpTo
  <2>3. /\ Cardinality(UpTo(c)) <= Cardinality(UpTo(d))
        /\ Cardinality(UpTo(c)) # Cardinality(UpTo(d))
    BY <2>1, <2>2, FS_Subset
  <2>4. rank[c] \in 1..n /\ rank[d] \in 1..n
    BY <1>2
  <2>5. QED
    BY <2>3, <2>4
<1>4. rank \in Injection(C, 1..n)
  <2>1. rank \in [C -> 1..n]
    BY <1>2
  <2>2. ASSUME NEW c \in C, NEW d \in C, rank[c] = rank[d] PROVE c = d
    <3>1. c < d \/ d < c \/ c = d
      OBVIOUS
    <3>2. rank[c] \in Nat /\ rank[d] \in Nat
      BY <1>2
    <3> HIDE DEF rank
    <3>3. QED
      BY <3>1, <3>2, <2>2, <1>3
  <2> HIDE DEF rank
  <2>3. QED
    BY <2>1, <2>2 DEF Injection, IsInjective
<1>5. rank \in Surjection(C, 1..n)
  <2>1. IsFiniteSet(1..n) /\ Cardinality(1..n) = n
    <3>1. 1 \in Int /\ n \in Int
      BY <1>1
    <3>2. IsFiniteSet(1..n) /\ Cardinality(1..n) = IF 1 > n THEN 0 ELSE n - 1 + 1
      BY <3>1, FS_Interval
    <3>3. QED
      BY <1>1, <3>2
  <2> HIDE DEF rank
  <2>2. QED
    BY <2>1, <1>4, FS_Injection
<1> DEFINE f == [i \in 1..n |-> CHOOSE c \in C : rank[c] = i]
<1>6. \A i \in 1..n : f[i] \in C /\ rank[f[i]] = i
  <2> HIDE DEF rank
  <2>1. \A i \in 1..n : \E c \in C : rank[c] = i
    BY <1>5 DEF Surjection
  <2>2. QED
    BY <2>1
<1>7. ASSUME NEW i \in 1..n, NEW j \in 1..n, i < j PROVE f[i] < f[j]
  <2>1. f[i] \in C /\ f[j] \in C /\ rank[f[i]] = i /\ rank[f[j]] = j
    BY <1>6
  <2> HIDE DEF f, rank
  <2>2. f[i] \in Nat /\ f[j] \in Nat /\ i \in Nat /\ j \in Nat /\ i < j
    <3>1. f[i] \in Nat /\ f[j] \in Nat
      BY <2>1
    <3>2. i \in Nat /\ j \in Nat
      BY <1>1
    <3>3. QED
      BY <3>1, <3>2, <1>7
  <2>3. f[i] < f[j] \/ f[j] < f[i] \/ f[i] = f[j]
    BY <2>2
  <2>4. ~ (f[j] < f[i])
    <3>1. ASSUME f[j] < f[i] PROVE FALSE
      <4>1. rank[f[j]] < rank[f[i]]
        BY <2>1, <3>1, <1>3
      <4>2. QED
        BY <4>1, <2>1, <2>2
    <3>2. QED
      BY <3>1
  <2>5. f[i] # f[j]
    BY <2>1, <2>2
  <2>6. QED
    BY <2>3, <2>4, <2>5
<1>8. f \in [1..n -> C]
  BY <1>6
<1> HIDE DEF f
<1>9. \E g \in [1..n -> C] : \A i, j \in 1..n : i < j => g[i] < g[j]
  BY <1>7, <1>8
<1>10. QED
  BY <1>1, <1>9 DEF InListOrder

\* The listing is a sequence.
LEMMA ListOrderSeq ==
    ASSUME NEW C, C \subseteq Cards, IsFiniteSet(C)
    PROVE  InListOrder(C) \in Seq(Cards)
<1>1. C \subseteq Nat
  BY SortingAssumption
<1>2. Cardinality(C) \in Nat /\ InListOrder(C) \in [1..Cardinality(C) -> C]
  BY <1>1, ListOrderFound
<1>3. InListOrder(C) \in Seq(C)
  BY <1>2
<1>4. QED
  BY <1>3

\* The types Sane leaves out.
Typed(a) == a.history \in Seq(Cards) /\ a.deck \subseteq Cards

\* The operations on piles keep them.
LEMMA PilesTyped ==
    ASSUME NEW a, Sane(a), Typed(a), NEW c \in Cards, NEW k
    PROVE  /\ Typed(categorizeCard(a, c, k))
           /\ a.history # <<>> => Typed(undoRoughSort(a))
           /\ Typed(unplaceCard(a, c))
<1>1. a = [pile |-> a.pile, history |-> a.history, deck |-> a.deck, qsort |-> a.qsort]
  BY DEF Sane
<1>2. Typed(categorizeCard(a, c, k))
  <2> DEFINE P == [j \in Piles |-> IF j = k THEN a.pile[j] \cup {c} ELSE a.pile[j] \ {c}]
             h == Append(a.history, c)
  <2>1. categorizeCard(a, c, k) = [a EXCEPT !.pile = P, !.history = h]
    BY DEF categorizeCard
  <2>2. h \in Seq(Cards)
    BY DEF Typed
  <2> HIDE DEF P, h
  <2>3. QED
    BY <1>1, <2>1, <2>2 DEF Typed
<1>3. ASSUME a.history # <<>> PROVE Typed(undoRoughSort(a))
  <2> DEFINE P == [j \in Piles |-> a.pile[j] \ {Last(a.history)}]
             h == Front(a.history)
  <2>1. undoRoughSort(a) = [a EXCEPT !.pile = P, !.history = h]
    BY DEF undoRoughSort
  <2>2. h \in Seq(Cards)
    BY <1>3 DEF Typed, Front
  <2> HIDE DEF P, h
  <2>3. QED
    BY <1>1, <2>1, <2>2 DEF Typed
<1>4. Typed(unplaceCard(a, c))
  <2> DEFINE Q == {p \in a.qsort : p.card # c}
  <2>1. unplaceCard(a, c) = [a EXCEPT !.qsort = Q]
    BY DEF unplaceCard
  <2> HIDE DEF Q
  <2>2. QED
    BY <1>1, <2>1 DEF Typed
<1>5. QED
  BY <1>2, <1>3, <1>4

\* Putting a card on a slot does.
LEMMA PlaceTyped ==
    ASSUME NEW s, NEW a, Sane(a), Typed(a), NEW c, NEW col, NEW row
    PROVE  Typed(placeOrMove(s, a, c, col, row))
<1> DEFINE b == placeOrMove(s, a, c, col, row)
<1>1. CASE b = a
  BY <1>1
<1>2. CASE b # a
  <2> DEFINE Q == {p \in a.qsort : p.card # c}
             Q2 == Q \cup {[card |-> c, col |-> col, row |-> row]}
             D2 == a.deck \ {c}
  <2>1. b = [[a EXCEPT !.qsort = Q] EXCEPT
               !.qsort = @ \cup {[card |-> c, col |-> col, row |-> row]}, !.deck = @ \ {c}]
    BY <1>2 DEF placeOrMove, unplaceCard
  <2>2. a = [pile |-> a.pile, history |-> a.history, deck |-> a.deck, qsort |-> a.qsort]
    BY DEF Sane
  <2> HIDE DEF b, Q
  <2>3. [a EXCEPT !.qsort = Q].qsort = Q /\ [a EXCEPT !.qsort = Q].deck = a.deck
    BY <2>2
  <2>4. b = [[a EXCEPT !.qsort = Q] EXCEPT !.qsort = Q2, !.deck = D2]
    BY <2>1, <2>3
  <2> HIDE DEF Q2, D2
  <2>5. b.history = a.history /\ b.deck = D2
    BY <2>2, <2>4
  <2>6. QED
    BY <2>5 DEF Typed, D2, b
<1>3. QED
  BY <1>1, <1>2

\* A placement does.
LEMMA PlacementTyped ==
    ASSUME NEW s, NEW a, Sane(a), Typed(a), NEW c, NEW col, NEW row
    PROVE  Typed(handlePlacement(s, a, c, col, row))
<1> DEFINE b == handlePlacement(s, a, c, col, row)
           other == (CHOOSE p \in {p \in InColumn(a, col) : p.row = row} : TRUE).card
<1>1. \/ \E r : b = placeOrMove(s, a, c, col, r)
      \/ b = swapCardsInGrid(a, c, other)
      \/ b = placeOrMove(s, unplaceCard(a, other), c, col, row)
  BY DEF handlePlacement
<1>2. \A r : Typed(placeOrMove(s, a, c, col, r))
  BY PlaceTyped
<1>3. Typed(swapCardsInGrid(a, c, other))
  <2> DEFINE p == PlaceOf(a, c)
             q == PlaceOf(a, other)
             Q == (a.qsort \ {p, q}) \cup {[p EXCEPT !.card = other], [q EXCEPT !.card = c]}
  <2>1. swapCardsInGrid(a, c, other) = [a EXCEPT !.qsort = Q]
    BY DEF swapCardsInGrid
  <2> HIDE DEF Q, other
  <2>2. QED
    BY <2>1 DEF Typed, Sane
<1>4. Typed(placeOrMove(s, unplaceCard(a, other), c, col, row))
  <2>1. Typed(unplaceCard(a, other))
    <3> DEFINE Q == {p \in a.qsort : p.card # other}
    <3>1. unplaceCard(a, other) = [a EXCEPT !.qsort = Q]
      BY DEF unplaceCard
    <3> HIDE DEF Q, other
    <3>2. QED
      BY <3>1 DEF Typed, Sane
  <2>2. Sane(unplaceCard(a, other))
    BY UnplaceSane
  <2>3. QED
    BY <2>1, <2>2, PlaceTyped
<1>5. QED
  BY <1>1, <1>2, <1>3, <1>4

\* The effects of the fine page do: what they append is a list of cards.
LEMMA SettledTyped ==
    ASSUME NEW s \in Studies, NEW a, Sane(a), Typed(a), NEW order \in Orders(Strays(s, a))
    PROVE  Typed(SettledRough(s, a, order)) /\ Typed(SettledDeck(s, a))
<1> DEFINE missing == s.cards \ (Placed(a) \cup Piled(a))
           strays == Strays(s, a)
           Q == {p \in a.qsort : p.card \notin strays}
<1>1. s.cards \subseteq Cards /\ IsFiniteSet(s.cards)
  BY SortingAssumption DEF Cards
<1>2. Typed(SettledRough(s, a, order))
  <2> DEFINE P == [k \in Piles |-> IF k = "neutral" THEN a.pile[k] \cup missing \cup strays
                                                   ELSE a.pile[k] \ strays]
             h == a.history \o InListOrder(missing) \o order
             b == SettledRough(s, a, order)
  <2>1. b = [a EXCEPT !.pile = P, !.history = h, !.qsort = Q]
    BY DEF SettledRough
  <2>2. missing \subseteq Cards /\ IsFiniteSet(missing)
    <3>1. missing \in SUBSET s.cards
      OBVIOUS
    <3> HIDE DEF missing
    <3>2. QED
      BY <3>1, <1>1, FS_Subset
  <2>3. strays \subseteq Cards /\ IsFiniteSet(strays)
    <3> DEFINE S == a.qsort
               T == Placed(a)
               f == [p \in S |-> p.card]
    <3>1. f \in Surjection(S, T) /\ IsFiniteSet(S)
      BY DEF Surjection, Placed, Sane
    <3>2. strays \in SUBSET T
      BY DEF Strays, Placed
    <3>3. T \subseteq Cards
      BY DEF Placed, Sane, Places
    <3> HIDE DEF f, S, T, strays
    <3>4. IsFiniteSet(T)
      BY <3>1, FS_Surjection
    <3>5. QED
      BY <3>2, <3>3, <3>4, FS_Subset
  <2> HIDE DEF missing, strays
  <2>4. InListOrder(missing) \in Seq(Cards) /\ order \in Seq(Cards)
    <3>1. Cardinality(strays) \in Nat /\ order \in [1..Cardinality(strays) -> strays]
      BY <2>3, FS_CardinalityType DEF Orders, strays
    <3>2. order \in Seq(strays)
      BY <3>1
    <3>3. QED
      BY <2>2, <2>3, <3>2, ListOrderSeq
  <2>5. h \in Seq(Cards)
    <3>1. a.history \in Seq(Cards)
      BY DEF Typed
    <3>2. QED
      BY <2>4, <3>1
  <2>6. a = [pile |-> a.pile, history |-> a.history, deck |-> a.deck, qsort |-> a.qsort]
    BY DEF Sane
  <2> HIDE DEF P, h, Q, b
  <2>7. b.history = h /\ b.deck = a.deck
    BY <2>1, <2>6
  <2>8. QED
    BY <2>5, <2>7 DEF Typed, b
<1>3. Typed(SettledDeck(s, a))
  <2> DEFINE P == [k \in Piles |-> {}]
             D == a.deck \cup (s.cards \ {p.card : p \in Q})
             e == <<>>
             b == SettledDeck(s, a)
  <2>1. b = [[pile |-> P, history |-> e, deck |-> {}, qsort |-> {}]
               EXCEPT !.qsort = Q, !.deck = D]
    BY DEF SettledDeck, initialResponses
  <2>2. D \subseteq Cards /\ e \in Seq(Cards)
    BY <1>1 DEF Typed
  <2> HIDE DEF P, D, e, Q, b
  <2>3. b.history = e /\ b.deck = D
    BY <2>1
  <2>4. QED
    BY <2>2, <2>3 DEF Typed, b
<1>4. QED
  BY <1>2, <1>3

\* The inductive invariant with the types Sane leaves out.
TypedInv == page \in {"away", "rough", "fine", "post"} /\ Typed(answers)

\* What showing a stage does.
LEMMA ShowTyped ==
    ASSUME study \in Studies, NEW p \in {"rough", "fine", "post"},
           NEW a, Sane(a), Typed(a), Show(p, a)
    PROVE  TypedInv'
<1>1. PICK order \in Orders(Strays(study, a)) :
        page' = Landing(study, a, p) /\ answers' = Settled(study, a, p, order)
  BY DEF Show
<1>2. Guarded(study, a, p) \in {"rough", "fine", "post"}
  BY DEF Guarded
<1>3. page' \in {"rough", "fine", "post"}
  BY <1>1, <1>2 DEF Landing
<1>4. Typed(answers')
  BY <1>1, SettledTyped DEF Settled
<1>5. QED
  BY <1>3, <1>4 DEF TypedInv

\* Every step keeps the types.
LEMMA TypedStep == IInv /\ TypedInv /\ [Next]_vars => TypedInv'
<1> SUFFICES ASSUME IInv, TypedInv, [Next]_vars PROVE TypedInv'
  OBVIOUS
<1>0. /\ study \in Studies /\ Sane(answers) /\ Typed(answers)
      /\ page \in {"away", "rough", "fine", "post"}
  BY DEF IInv, TypedInv
<1>1. ASSUME NEW p \in {"rough", "fine", "post"}, Open(p) PROVE TypedInv'
  BY <1>0, <1>1, ShowTyped DEF Open
<1>2. ASSUME NEW i \in 1..Len(swipes), Vote(i) PROVE TypedInv'
  <2> DEFINE a == categorizeCard(answers, swipes[i][1], swipes[i][2])
  <2>1. swipes[i][1] \in Cards /\ swipes[i][2] \in Piles
    BY SwipeTypes
  <2>2. Sane(a) /\ Typed(a)
    BY <1>0, <2>1, CategorizeSane, PilesTyped
  <2>3. \/ page = "fine" /\ Show(page, a)
        \/ answers' = a /\ page' = page
    BY <1>2 DEF Vote
  <2> HIDE DEF a
  <2>4. ASSUME page = "fine", Show(page, a) PROVE TypedInv'
    BY <1>0, <2>2, <2>4, ShowTyped
  <2>5. QED
    BY <1>0, <2>2, <2>3, <2>4 DEF TypedInv
<1>3. ASSUME Undo PROVE TypedInv'
  <2>1. answers.history # <<>> /\ answers' = undoRoughSort(answers) /\ page' = page
    BY <1>3 DEF Undo
  <2>2. Typed(undoRoughSort(answers))
    <3>1. CASE Cards = {}
      <4>1. answers.history = <<>>
        BY <1>0, <3>1 DEF Typed
      <4>2. QED
        BY <4>1, <2>1
    <3>2. CASE Cards # {}
      BY <1>0, <2>1, <3>2, PilesTyped
    <3>3. QED
      BY <3>1, <3>2
  <2>3. QED
    BY <1>0, <2>1, <2>2 DEF TypedInv
<1>4. ASSUME NEW c \in InHand, NEW col \in DOMAIN study.grid, NEW row \in 0..MaxRow,
             Place(c, col, row)
      PROVE  TypedInv'
  <2> DEFINE a == handlePlacement(study, answers, c, col, row)
  <2>1. Bounded(answers) /\ c \in Cards /\ row \in Nat
    BY InHandCards, SortingAssumption DEF IInv
  <2>2. Sane(a) /\ Typed(a)
    BY <1>0, <2>1, PlacementSane, PlacementTyped
  <2>3. page = "fine" /\ Show(page, a)
    BY <1>4 DEF Place
  <2> HIDE DEF a
  <2>4. QED
    BY <1>0, <2>2, <2>3, ShowTyped
<1>5. ASSUME NEW c \in InHand, NEW k \in Piles, Drop(c, k) PROVE TypedInv'
  <2> DEFINE u == unplaceCard(answers, c)
             a == IF study.rough THEN categorizeCard(u, c, k) ELSE u
  <2>1. c \in Cards
    BY InHandCards
  <2>2. Sane(u) /\ Typed(u)
    BY <1>0, <2>1, UnplaceSane, PilesTyped
  <2> HIDE DEF u
  <2>3. Sane(a) /\ Typed(a)
    BY <2>1, <2>2, CategorizeSane, PilesTyped
  <2>4. page = "fine" /\ Show(page, a)
    BY <1>5 DEF Drop, u
  <2> HIDE DEF a
  <2>5. QED
    BY <1>0, <2>3, <2>4, ShowTyped
<1>6. ASSUME NEW Q, NEW D, Q \subseteq answers.qsort, D \subseteq answers.deck
      PROVE  /\ Sane([answers EXCEPT !.qsort = Q, !.deck = D])
             /\ Typed([answers EXCEPT !.qsort = Q, !.deck = D])
  <2>1. Typed([answers EXCEPT !.qsort = Q, !.deck = D])
    BY <1>0, <1>6 DEF Sane, Typed
  <2>2. QED
    BY <1>0, <1>6, <2>1, FewerSane
<1>7. /\ Typed([answers EXCEPT !.qsort = {}]) /\ Sane([answers EXCEPT !.qsort = {}])
      /\ Typed([answers EXCEPT !.deck = {}])
  <2> DEFINE none == {}
  <2>1. none \subseteq answers.qsort /\ none \subseteq answers.deck
    OBVIOUS
  <2> HIDE DEF none
  <2>2. /\ [answers EXCEPT !.qsort = none, !.deck = answers.deck] = [answers EXCEPT !.qsort = none]
        /\ [answers EXCEPT !.qsort = answers.qsort, !.deck = none] = [answers EXCEPT !.deck = none]
    BY <1>0 DEF Sane
  <2>3. /\ Typed([answers EXCEPT !.qsort = none]) /\ Sane([answers EXCEPT !.qsort = none])
        /\ Typed([answers EXCEPT !.deck = none])
    BY <1>6, <2>1, <2>2
  <2>4. QED
    BY <2>3 DEF none
<1>8. ASSUME Reset PROVE TypedInv'
  BY <1>0, <1>7, <1>8, ShowTyped DEF Reset
<1>9. ASSUME Resume PROVE TypedInv'
  BY <1>0, <1>7, <1>9 DEF Resume, TypedInv
<1>10. ASSUME answers' = answers, page' \in {page, "away"} PROVE TypedInv'
  BY <1>0, <1>10 DEF TypedInv
<1>11. ASSUME NEW k \in Piles, Swipe(k) PROVE TypedInv'
  BY <1>10, <1>11 DEF Swipe
<1>12. ASSUME NEW i \in 1..Len(swipes), LoseSwipe(i) PROVE TypedInv'
  BY <1>10, <1>12 DEF LoseSwipe
<1>13. ASSUME Leave \/ Redesign \/ UNCHANGED vars PROVE TypedInv'
  BY <1>10, <1>13 DEF Leave, Redesign, vars
<1>14. QED
  BY <1>1, <1>2, <1>3, <1>4, <1>5, <1>8, <1>9, <1>11, <1>12, <1>13 DEF Next

\* The answers keep their types: what the effects append to the history is a
\* list, in the order of the study, for every set of cards they may find.
THEOREM SortingTypes == Spec => []TypeOK
<1>1. Init => TypedInv
  BY DEF Init, TypedInv, Typed, initialResponses
<1>2. IInv /\ TypedInv => TypeOK
  <2>1. ASSUME IInv, TypedInv PROVE answers \in Answers
    BY <2>1 DEF IInv, TypedInv, Sane, Typed, Answers
  <2>2. QED
    BY <2>1 DEF IInv, TypedInv, TypeOK
<1>3. QED
  BY <1>1, <1>2, TypedStep, SortingInvariant, PTL DEF Spec

-----------------------------------------------------------------------------
(* The piles under the grid.                                               *)

\* A place the sanity check leaves alone.
InSlot(s, col, row) ==
    /\ col \in DOMAIN s.grid
    /\ ~ (s.mode = "forced" /\ row >= s.grid[col])

\* The sanity check finds nothing just when every place is such a one.
LEMMA NoStrays ==
    ASSUME NEW s, NEW a
    PROVE  Strays(s, a) = {} <=> \A p \in a.qsort : InSlot(s, p.col, p.row)
BY DEF Strays, InSlot

\* Putting a card on a slot leaves places that were there and that slot.
LEMMA PlaceStays ==
    ASSUME NEW s, NEW a, Sane(a), Strays(s, a) = {}, NEW c, NEW col, NEW row,
           InSlot(s, col, row)
    PROVE  Strays(s, placeOrMove(s, a, c, col, row)) = {}
<1> DEFINE b == placeOrMove(s, a, c, col, row)
           new == [card |-> c, col |-> col, row |-> row]
<1>1. CASE b = a
  BY <1>1
<1>2. CASE b # a
  <2> DEFINE Q == {p \in a.qsort : p.card # c}
             Q2 == Q \cup {new}
             D2 == a.deck \ {c}
  <2>1. b = [[a EXCEPT !.qsort = Q] EXCEPT !.qsort = @ \cup {new}, !.deck = @ \ {c}]
    BY <1>2 DEF placeOrMove, unplaceCard
  <2>2. a = [pile |-> a.pile, history |-> a.history, deck |-> a.deck, qsort |-> a.qsort]
    BY DEF Sane
  <2> HIDE DEF b, Q, new
  <2>3. [a EXCEPT !.qsort = Q].qsort = Q /\ [a EXCEPT !.qsort = Q].deck = a.deck
    BY <2>2
  <2>4. b = [[a EXCEPT !.qsort = Q] EXCEPT !.qsort = Q2, !.deck = D2]
    BY <2>1, <2>3
  <2> HIDE DEF Q2, D2
  <2>5. b.qsort = Q2
    BY <2>2, <2>4
  <2>6. new.col = col /\ new.row = row
    BY DEF new
  <2>7. \A p \in b.qsort : InSlot(s, p.col, p.row)
    BY <2>5, <2>6, NoStrays DEF Q, Q2
  <2>8. QED
    BY <2>7, NoStrays DEF b
<1>3. QED
  BY <1>1, <1>2

\* A swap leaves the slots that were taken.
LEMMA SwapStays ==
    ASSUME NEW s, NEW a, Sane(a), Strays(s, a) = {},
           NEW c \in Placed(a), NEW d \in Placed(a)
    PROVE  Strays(s, swapCardsInGrid(a, c, d)) = {}
<1> DEFINE b == swapCardsInGrid(a, c, d)
           p == PlaceOf(a, c)
           q == PlaceOf(a, d)
           p2 == [p EXCEPT !.card = d]
           q2 == [q EXCEPT !.card = c]
           Q == (a.qsort \ {p, q}) \cup {p2, q2}
<1>1. p \in a.qsort /\ q \in a.qsort
  BY PlaceFound
<1>2. p \in Places /\ q \in Places
  BY <1>1 DEF Sane
<1>3. p2.col = p.col /\ p2.row = p.row /\ q2.col = q.col /\ q2.row = q.row
  BY <1>2 DEF Places
<1>4. b = [a EXCEPT !.qsort = Q]
  BY DEF swapCardsInGrid
<1> HIDE DEF b, p, q, p2, q2
<1>5. b.qsort = Q
  BY <1>4 DEF Sane
<1>6. \A r \in b.qsort : InSlot(s, r.col, r.row)
  BY <1>1, <1>3, <1>5, NoStrays
<1>7. QED
  BY <1>6, NoStrays DEF b

\* A placement on a rendered slot takes no card off the grid's slots: the row
\* it finds instead of an occupied one is within capacity, too.
LEMMA PlacementStays ==
    ASSUME NEW s \in Studies, NEW a, Sane(a), Bounded(a), Strays(s, a) = {}, NEW c \in Cards,
           NEW col \in DOMAIN s.grid, NEW row \in Nat, row < SlotCount(s, a, col)
    PROVE  Strays(s, handlePlacement(s, a, c, col, row)) = {}
<1> DEFINE b == handlePlacement(s, a, c, col, row)
           there == {p \in InColumn(a, col) : p.row = row}
           taken == CHOOSE p \in there : TRUE
           other == taken.card
           closest == findClosestEmptyRow(s, a, col, row)
<1>1. s.grid[col] \in Nat
  BY GridTypes
<1>2. InSlot(s, col, row)
  <2>1. s.mode = "forced" => row < s.grid[col]
    BY DEF SlotCount
  <2>2. QED
    BY <1>1, <2>1 DEF InSlot
<1>3. CASE there = {}
  <2>1. b = placeOrMove(s, a, c, col, row)
    BY <1>3 DEF handlePlacement
  <2>2. QED
    BY <1>2, <2>1, PlaceStays
<1>4. CASE there # {} /\ EmptyRows(s, a, col) # {}
  <2>1. b = placeOrMove(s, a, c, col, closest)
    BY <1>4 DEF handlePlacement
  <2>2. EmptyRows(s, a, col) \subseteq Nat
    BY EmptyRowsFree
  <2>3. closest \in EmptyRows(s, a, col)
    BY <1>4, <2>2, ClosestFound
  <2>4. InSlot(s, col, closest)
    <3>1. CASE s.mode # "forced"
      BY <3>1 DEF InSlot
    <3>2. CASE s.mode = "forced"
      <4>1. EmptyRows(s, a, col) \subseteq 0..(s.grid[col] - 1)
        BY <3>2 DEF EmptyRows
      <4> HIDE DEF closest
      <4>2. closest < s.grid[col] /\ closest \in Nat
        BY <1>1, <2>3, <4>1
      <4>3. QED
        BY <1>1, <4>2 DEF InSlot
    <3>3. QED
      BY <3>1, <3>2
  <2> HIDE DEF closest
  <2>5. QED
    BY <2>1, <2>4, PlaceStays
<1>5. CASE there # {} /\ EmptyRows(s, a, col) = {} /\ c \in Placed(a)
  <2>1. b = swapCardsInGrid(a, c, other)
    BY <1>5 DEF handlePlacement
  <2>2. taken \in a.qsort
    BY <1>5 DEF InColumn
  <2>3. other \in Placed(a)
    BY <2>2 DEF Placed
  <2> HIDE DEF other
  <2>4. QED
    BY <1>5, <2>1, <2>3, SwapStays
<1>6. CASE there # {} /\ EmptyRows(s, a, col) = {} /\ c \notin Placed(a)
  <2> DEFINE u == unplaceCard(a, other)
  <2>1. b = placeOrMove(s, u, c, col, row)
    BY <1>6 DEF handlePlacement
  <2>2. Sane(u) /\ u.qsort \subseteq a.qsort
    BY UnplaceSane, GridKept
  <2> HIDE DEF u
  <2>3. Strays(s, u) = {}
    BY <2>2, NoStrays
  <2>4. QED
    BY <1>2, <2>1, <2>2, <2>3, PlaceStays
<1>7. QED
  BY <1>3, <1>4, <1>5, <1>6

\* The effects of the fine page take no card out of a pile when they find no
\* card off the grid's slots.
LEMMA ShowKeepsPiles ==
    ASSUME study \in Studies, study.rough, NEW p, NEW a, Sane(a), Strays(study, a) = {},
           Show(p, a), page' = "fine"
    PROVE  \A j \in Piles : a.pile[j] \subseteq answers'.pile[j]
<1>0. PICK order : answers' = Settled(study, a, p, order)
  BY DEF Show
<1> DEFINE missing == study.cards \ (Placed(a) \cup Piled(a))
           strays == Strays(study, a)
           P == [k \in Piles |-> IF k = "neutral" THEN a.pile[k] \cup missing \cup strays
                                                 ELSE a.pile[k] \ strays]
           h == a.history \o InListOrder(missing) \o order
           Q == {q \in a.qsort : q.card \notin strays}
<1>1. CASE Guarded(study, a, p) # "fine"
  BY <1>0, <1>1 DEF Settled
<1>2. CASE Guarded(study, a, p) = "fine"
  <2>1. answers' = [a EXCEPT !.pile = P, !.history = h, !.qsort = Q]
    BY <1>0, <1>2 DEF Settled, SettledRough
  <2> HIDE DEF P, h, Q
  <2>2. answers'.pile = P
    BY <2>1 DEF Sane
  <2>3. QED
    BY <2>2 DEF P
<1>3. QED
  BY <1>1, <1>2

\* On the fine page no step takes two cards out of their piles: a card is
\* found in the pile of its vote whenever the grid gives it back.
THEOREM PilesAreRemembered == Spec => PilesRemembered
<1> DEFINE A == page = "fine" /\ page' = "fine" /\ study.rough =>
                  \A j, k \in Piles : \A c \in answers.pile[j] \ answers'.pile[j],
                                       d \in answers.pile[k] \ answers'.pile[k] : c = d
<1>1. ASSUME IInv, [Next]_vars PROVE A
  <2> SUFFICES ASSUME page = "fine", page' = "fine", study.rough
               PROVE  \A j, k \in Piles : \A c \in answers.pile[j] \ answers'.pile[j],
                                           d \in answers.pile[k] \ answers'.pile[k] : c = d
    OBVIOUS
  <2> DEFINE AtMost(e) == \A j \in Piles : answers.pile[j] \ answers'.pile[j] \subseteq {e}
             Goal == \A j, k \in Piles : \A c \in answers.pile[j] \ answers'.pile[j],
                                          d \in answers.pile[k] \ answers'.pile[k] : c = d
  <2>1. /\ study \in Studies /\ Sane(answers) /\ Bounded(answers)
        /\ Strays(study, answers) = {}
    BY <1>1 DEF IInv, Clean
  <2>2. ASSUME NEW e, AtMost(e) PROVE Goal
    BY <2>2
  <2>3. ASSUME NEW a, NEW p, NEW e, Sane(a), Strays(study, a) = {}, Show(p, a),
               \A j \in Piles : answers.pile[j] \ {e} \subseteq a.pile[j]
        PROVE  Goal
    <3>1. \A j \in Piles : a.pile[j] \subseteq answers'.pile[j]
      BY <2>1, <2>3, ShowKeepsPiles
    <3>2. AtMost(e)
      BY <3>1, <2>3
    <3>3. QED
      BY <3>2, <2>2
  <2> HIDE DEF Goal
  <2>4. ASSUME NEW p, Open(p) PROVE Goal
    BY <2>1, <2>3, <2>4 DEF Open
  <2>5. ASSUME NEW a, Sane(a), Strays(study, a) = {}, NEW c \in Cards, NEW k \in Piles,
               Show(page, categorizeCard(a, c, k)), a.pile = answers.pile
        PROVE  Goal
    <3> DEFINE b == categorizeCard(a, c, k)
               P == [j \in Piles |-> IF j = k THEN a.pile[j] \cup {c} ELSE a.pile[j] \ {c}]
               h == Append(a.history, c)
    <3>1. Sane(b) /\ b.qsort = a.qsort
      BY <2>5, CategorizeSane, GridKept
    <3>2. b.pile = P
      <4>1. b = [a EXCEPT !.pile = P, !.history = h]
        BY DEF categorizeCard
      <4> HIDE DEF P, h, b
      <4>2. QED
        BY <4>1, <2>5 DEF Sane
    <3>3. \A j \in Piles : answers.pile[j] \ {c} \subseteq b.pile[j]
      BY <3>2, <2>5
    <3>4. Show(page, b)
      BY <2>5
    <3> HIDE DEF b
    <3>5. Strays(study, b) = {}
      BY <3>1, <2>5, NoStrays
    <3>6. QED
      BY <3>1, <3>3, <3>4, <3>5, <2>3
  <2>6. ASSUME NEW i \in 1..Len(swipes), Vote(i) PROVE Goal
    <3>1. swipes[i][1] \in Cards /\ swipes[i][2] \in Piles
      BY <1>1, SwipeTypes
    <3>2. Show(page, categorizeCard(answers, swipes[i][1], swipes[i][2]))
      BY <2>6 DEF Vote
    <3>3. QED
      BY <3>1, <3>2, <2>1, <2>5
  <2>7. ASSUME NEW c \in InHand, NEW col \in DOMAIN study.grid, NEW row \in 0..MaxRow,
               Place(c, col, row)
        PROVE  Goal
    <3> DEFINE a == handlePlacement(study, answers, c, col, row)
    <3>1. c \in Cards /\ row \in Nat
      BY <1>1, InHandCards, SortingAssumption
    <3>2. row < SlotCount(study, answers, col) /\ Show(page, a)
      BY <2>7 DEF Place
    <3>3. Sane(a) /\ a.pile = answers.pile
      BY <2>1, <3>1, PlacementSane
    <3>4. Strays(study, a) = {}
      BY <2>1, <3>1, <3>2, PlacementStays
    <3> HIDE DEF a
    <3>5. \A j \in Piles : answers.pile[j] \ {c} \subseteq a.pile[j]
      BY <3>3
    <3>6. QED
      BY <3>2, <3>3, <3>4, <3>5, <2>3
  <2>8. ASSUME NEW c \in InHand, NEW k \in Piles, Drop(c, k) PROVE Goal
    <3> DEFINE u == unplaceCard(answers, c)
    <3>1. c \in Cards
      BY <1>1, InHandCards
    <3>2. Sane(u) /\ u.qsort \subseteq answers.qsort /\ u.pile = answers.pile
      <4>1. u.pile = answers.pile
        <5> DEFINE Q == {p \in answers.qsort : p.card # c}
        <5>1. u = [answers EXCEPT !.qsort = Q]
          BY DEF unplaceCard
        <5> HIDE DEF Q, u
        <5>2. QED
          BY <5>1, <2>1 DEF Sane
      <4>2. QED
        BY <4>1, <2>1, UnplaceSane, GridKept
    <3>3. Show(page, categorizeCard(u, c, k))
      BY <2>8 DEF Drop
    <3> HIDE DEF u
    <3>4. Strays(study, u) = {}
      BY <2>1, <3>2, NoStrays
    <3>5. QED
      BY <3>1, <3>2, <3>3, <3>4, <2>5
  <2>9. ASSUME Reset PROVE Goal
    <3> DEFINE a == [answers EXCEPT !.qsort = {}]
    <3>1. Sane(a) /\ a.qsort = {}
      BY <2>1, ClearedSane
    <3>2. a.pile = answers.pile
      BY <2>1 DEF Sane
    <3>3. Show(page, a)
      BY <2>9 DEF Reset
    <3> HIDE DEF a
    <3>4. Strays(study, a) = {}
      BY <3>1, NoStrays
    <3>5. \A j \in Piles : answers.pile[j] \ {0} \subseteq a.pile[j]
      BY <3>2
    <3>6. QED
      BY <3>1, <3>3, <3>4, <3>5, <2>3
  <2>10. ASSUME answers' = answers PROVE Goal
    BY <2>10 DEF Goal
  <2>11. ASSUME NEW i \in 1..Len(swipes), LoseSwipe(i) PROVE Goal
    BY <2>10, <2>11 DEF LoseSwipe
  <2>12. ASSUME Redesign \/ UNCHANGED vars PROVE Goal
    BY <2>10, <2>12 DEF Redesign, vars
  <2>13. ~ Undo /\ ~ Leave /\ ~ Resume /\ \A k \in Piles : ~ Swipe(k)
    BY DEF Undo, Leave, Resume, Swipe
  <2>14. Goal
    BY <1>1, <2>4, <2>6, <2>7, <2>8, <2>9, <2>11, <2>12, <2>13 DEF Next
  <2>15. QED
    BY <2>14 DEF Goal
<1>2. IInv /\ [Next]_vars => [A]_vars
  BY <1>1
<1>3. QED
  BY <1>2, SortingInvariant, PTL DEF Spec, PilesRemembered

-----------------------------------------------------------------------------
(* Drops.                                                                  *)

\* In a forced column whose cards are all in its slots, a slot no other card
\* has means that the other cards are fewer than the slots.
LEMMA RoomInColumn ==
    ASSUME NEW s \in Studies, s.mode = "forced", NEW a, Sane(a), Strays(s, a) = {},
           NEW c, NEW col \in DOMAIN s.grid, NEW row \in Nat, row < s.grid[col],
           \A p \in a.qsort : p.col = col /\ p.row = row => p.card = c
    PROVE  ~ (Cardinality({p \in InColumn(a, col) : p.card # c}) >= s.grid[col])
<1> DEFINE S == {p \in InColumn(a, col) : p.card # c}
           I == 0..(s.grid[col] - 1)
           T == I \ {row}
           f == [p \in S |-> p.row]
<1>1. s.grid[col] \in Nat
  BY GridTypes
<1>2. ASSUME NEW p \in S PROVE p.row \in T
  <2>1. p \in a.qsort /\ p.col = col /\ p.card # c
    BY DEF InColumn
  <2>2. InSlot(s, col, p.row) /\ p.row \in Nat
    BY <2>1, NoStrays DEF Sane, Places
  <2>3. p.row # row
    BY <2>1
  <2>4. QED
    BY <1>1, <2>2, <2>3 DEF InSlot
<1>3. ASSUME NEW p \in S, NEW q \in S, p.row = q.row PROVE p = q
  BY <1>3 DEF InColumn, Sane, OneEach
<1>4. f \in Injection(S, T)
  BY <1>2, <1>3 DEF Injection, IsInjective
<1>5. IsFiniteSet(I) /\ Cardinality(I) = s.grid[col] /\ row \in I
  <2>1. 0 \in Int /\ s.grid[col] - 1 \in Int
    BY <1>1
  <2>2. IsFiniteSet(I) /\ Cardinality(I) = IF 0 > s.grid[col] - 1 THEN 0 ELSE s.grid[col] - 1 - 0 + 1
    BY <2>1, FS_Interval
  <2>3. QED
    BY <1>1, <2>2
<1> HIDE DEF S, I, f
<1>6. IsFiniteSet(T) /\ Cardinality(T) = s.grid[col] - 1
  BY <1>5, FS_RemoveElement
<1> HIDE DEF T
<1>7. IsFiniteSet(S) /\ Cardinality(S) <= Cardinality(T)
  BY <1>4, <1>6, FS_Injection
<1>8. Cardinality(S) \in Nat
  BY <1>7, FS_CardinalityType
<1>9. QED
  BY <1>1, <1>6, <1>7, <1>8 DEF S

\* The store then puts the card where it is asked to.
LEMMA PlaceMade ==
    ASSUME NEW s \in Studies, NEW a, Sane(a), Strays(s, a) = {},
           NEW c, NEW col \in DOMAIN s.grid, NEW row \in Nat, InSlot(s, col, row),
           \A p \in a.qsort : p.col = col /\ p.row = row => p.card = c
    PROVE  [card |-> c, col |-> col, row |-> row] \in placeOrMove(s, a, c, col, row).qsort
<1> DEFINE b == placeOrMove(s, a, c, col, row)
           new == [card |-> c, col |-> col, row |-> row]
           Q == {p \in a.qsort : p.card # c}
           Q2 == Q \cup {new}
           D2 == a.deck \ {c}
<1>1. ~ (/\ s.mode = "forced"
         /\ Cardinality({p \in InColumn(a, col) : p.card # c}) >= s.grid[col])
  <2>1. ASSUME s.mode = "forced"
        PROVE  ~ (Cardinality({p \in InColumn(a, col) : p.card # c}) >= s.grid[col])
    <3>1. row < s.grid[col]
      BY <2>1, GridTypes DEF InSlot
    <3>2. QED
      BY <2>1, <3>1, RoomInColumn
  <2>2. QED
    BY <2>1
<1>2. b = [[a EXCEPT !.qsort = Q] EXCEPT !.qsort = @ \cup {new}, !.deck = @ \ {c}]
  BY <1>1 DEF placeOrMove, unplaceCard
<1>3. a = [pile |-> a.pile, history |-> a.history, deck |-> a.deck, qsort |-> a.qsort]
  BY DEF Sane
<1> HIDE DEF b, Q, new
<1>4. [a EXCEPT !.qsort = Q].qsort = Q /\ [a EXCEPT !.qsort = Q].deck = a.deck
  BY <1>3
<1>5. b = [[a EXCEPT !.qsort = Q] EXCEPT !.qsort = Q2, !.deck = D2]
  BY <1>2, <1>4
<1> HIDE DEF Q2, D2
<1>6. b.qsort = Q2
  BY <1>3, <1>5
<1>7. QED
  BY <1>6 DEF Q2, b, new

\* A placement on a rendered slot is made: in the slot, or in an empty row.
LEMMA PlacementMade ==
    ASSUME NEW s \in Studies, NEW a, Sane(a), Bounded(a), Strays(s, a) = {}, NEW c \in Cards,
           NEW col \in DOMAIN s.grid, NEW row \in Nat, row < SlotCount(s, a, col),
           [card |-> c, col |-> col, row |-> row] \notin a.qsort
    PROVE  \E p \in handlePlacement(s, a, c, col, row).qsort :
             /\ p.card = c /\ p.col = col
             /\ \/ p.row = row
                \/ row \in {q.row : q \in InColumn(a, col)} /\ p.row \in EmptyRows(s, a, col)
<1> DEFINE b == handlePlacement(s, a, c, col, row)
           there == {p \in InColumn(a, col) : p.row = row}
           taken == CHOOSE p \in there : TRUE
           other == taken.card
           closest == findClosestEmptyRow(s, a, col, row)
           At(r) == [card |-> c, col |-> col, row |-> r]
<1>1. s.grid[col] \in Nat
  BY GridTypes
<1>2. InSlot(s, col, row)
  <2>1. s.mode = "forced" => row < s.grid[col]
    BY DEF SlotCount
  <2>2. QED
    BY <1>1, <2>1 DEF InSlot
<1>3. \A r : At(r).card = c /\ At(r).col = col /\ At(r).row = r
  OBVIOUS
<1>4. CASE there = {}
  <2>1. b = placeOrMove(s, a, c, col, row)
    BY <1>4 DEF handlePlacement
  <2>2. \A p \in a.qsort : ~ (p.col = col /\ p.row = row)
    BY <1>4 DEF InColumn
  <2>3. At(row) \in b.qsort
    BY <1>2, <2>1, <2>2, PlaceMade
  <2>4. QED
    BY <1>3, <2>3
<1>5. CASE there # {} /\ EmptyRows(s, a, col) # {}
  <2>1. b = placeOrMove(s, a, c, col, closest)
    BY <1>5 DEF handlePlacement
  <2>2. EmptyRows(s, a, col) \subseteq Nat
    BY EmptyRowsFree
  <2>3. closest \in EmptyRows(s, a, col)
    BY <1>5, <2>2, ClosestFound
  <2>4. \A p \in a.qsort : ~ (p.col = col /\ p.row = closest)
    BY <2>3, EmptyRowsFree DEF InColumn
  <2>5. InSlot(s, col, closest)
    <3>1. CASE s.mode # "forced"
      BY <3>1 DEF InSlot
    <3>2. CASE s.mode = "forced"
      <4>1. EmptyRows(s, a, col) \subseteq 0..(s.grid[col] - 1)
        BY <3>2 DEF EmptyRows
      <4> HIDE DEF closest
      <4>2. closest < s.grid[col] /\ closest \in Nat
        BY <1>1, <2>3, <4>1
      <4>3. QED
        BY <1>1, <4>2 DEF InSlot
    <3>3. QED
      BY <3>1, <3>2
  <2>6. row \in {q.row : q \in InColumn(a, col)}
    BY <1>5
  <2>7. closest \in Nat
    BY <2>2, <2>3
  <2> HIDE DEF closest, b
  <2>8. At(closest) \in b.qsort
    BY <2>1, <2>4, <2>5, <2>7, PlaceMade
  <2>9. QED
    BY <1>3, <2>3, <2>6, <2>8 DEF b
<1>6. ASSUME there # {}
      PROVE  /\ taken \in a.qsort /\ taken.col = col /\ taken.row = row
             /\ other \in Placed(a) /\ c # other
  <2>1. taken \in a.qsort /\ taken.col = col /\ taken.row = row
    BY <1>6 DEF InColumn
  <2>2. taken = At(row) \/ c # other
    <3>1. taken \in Places
      BY <2>1 DEF Sane
    <3> HIDE DEF taken
    <3>2. QED
      BY <2>1, <3>1 DEF Places
  <2>3. QED
    BY <2>1, <2>2 DEF Placed
<1>7. CASE there # {} /\ EmptyRows(s, a, col) = {} /\ c \in Placed(a)
  <2> DEFINE p == PlaceOf(a, c)
             q == PlaceOf(a, other)
             p2 == [p EXCEPT !.card = other]
             q2 == [q EXCEPT !.card = c]
             Q == (a.qsort \ {p, q}) \cup {p2, q2}
  <2>1. b = [a EXCEPT !.qsort = Q]
    BY <1>7 DEF handlePlacement, swapCardsInGrid
  <2>2. q = taken /\ q \in Places
    BY <1>6, <1>7, PlaceFound DEF Sane
  <2>3. q.col = col /\ q.row = row
    BY <1>6, <1>7, <2>2
  <2> HIDE DEF b, p, q, taken
  <2>4. q2.card = c /\ q2.col = col /\ q2.row = row
    BY <2>2, <2>3 DEF Places
  <2> HIDE DEF p2, q2
  <2>5. b.qsort = Q
    BY <2>1 DEF Sane
  <2>6. QED
    BY <2>4, <2>5 DEF b
<1>8. CASE there # {} /\ EmptyRows(s, a, col) = {} /\ c \notin Placed(a)
  <2> DEFINE u == unplaceCard(a, other)
  <2>1. b = placeOrMove(s, u, c, col, row)
    BY <1>8 DEF handlePlacement
  <2>2. Sane(u) /\ u.qsort = {p \in a.qsort : p.card # other}
    BY UnplaceSane, GridKept
  <2>3. \A p \in a.qsort : p.col = col /\ p.row = row => p = taken
    BY <1>6, <1>8 DEF Sane, OneEach
  <2>4. \A p \in u.qsort : ~ (p.col = col /\ p.row = row)
    BY <2>2, <2>3
  <2> HIDE DEF u, b, taken
  <2>5. Strays(s, u) = {}
    BY <2>2, NoStrays
  <2>6. At(row) \in b.qsort
    BY <1>2, <2>1, <2>2, <2>4, <2>5, PlaceMade
  <2>7. QED
    BY <1>3, <2>6 DEF b
<1>9. QED
  BY <1>4, <1>5, <1>7, <1>8

\* No drop on a slot of the page is refused: what handlePlacement settles on
\* always passes the store's own count of the column.
THEOREM DropsAreMade == Spec => []NoDropRefused
<1>1. ASSUME IInv PROVE NoDropRefused
  <2> SUFFICES ASSUME page = "fine", NEW c \in InHand, NEW col \in DOMAIN study.grid,
                      NEW row \in 0..(SlotCount(study, answers, col) - 1),
                      [card |-> c, col |-> col, row |-> row] \notin answers.qsort
               PROVE  \E p \in handlePlacement(study, answers, c, col, row).qsort :
                        /\ p.card = c /\ p.col = col
                        /\ \/ p.row = row
                           \/ /\ row \in {q.row : q \in InColumn(answers, col)}
                              /\ p.row \in EmptyRows(study, answers, col)
    BY DEF NoDropRefused
  <2>1. /\ study \in Studies /\ Sane(answers) /\ Bounded(answers)
        /\ Strays(study, answers) = {} /\ c \in Cards
    BY <1>1, InHandCards DEF IInv, Clean
  <2>2. SlotCount(study, answers, col) \in Int
    <3>1. study.grid[col] \in Nat /\ LastRow(answers, col) \in Int
      BY <2>1, GridTypes, LastRowFound
    <3>2. Cardinality(InColumn(answers, col)) \in Nat
      <4>1. IsFiniteSet(InColumn(answers, col))
        BY <2>1, FS_Subset DEF Sane, InColumn
      <4>2. QED
        BY <4>1, FS_CardinalityType
    <3>3. MaxOf({Cardinality(InColumn(answers, col)) + 1, LastRow(answers, col) + 2}, 0) \in Int
      <4>1. /\ Cardinality(InColumn(answers, col)) + 1 \in Int
            /\ LastRow(answers, col) + 2 \in Int
        BY <3>1, <3>2
      <4>2. QED
        BY <4>1, MaxOfTwo
    <3>4. QED
      BY <3>1, <3>3 DEF SlotCount
  <2>3. row \in Nat /\ row < SlotCount(study, answers, col)
    BY <2>2
  <2>4. QED
    BY <2>1, <2>3, PlacementMade
<1>2. QED
  BY <1>1, SortingInvariant, PTL
=============================================================================

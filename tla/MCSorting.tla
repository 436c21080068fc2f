----------------------------- MODULE MCSorting -----------------------------
(* Small instances of Sorting for TLC: two or three statements, two piles, *)
(* grids of one or two columns.                                            *)
EXTENDS Sorting

TwoPiles == {"agree", "neutral"}

Study(cards, grid, mode, rough) ==
    [cards |-> cards, grid |-> grid, mode |-> mode, rough |-> rough]

Narrow == 0 :> 1 @@ 1 :> 1
Wide == 0 :> 2 @@ 1 :> 1

\* Every mode, the free grid without rough sort.
EveryKind ==
    {Study({1, 2, 3}, Wide, mode, mode # "free") : mode \in {"forced", "free", "flexible"}}

\* One statement fewer on a narrower grid.
WithEdits == EveryKind \cup {Study({2, 3}, Narrow, "forced", TRUE)}
============================================================================

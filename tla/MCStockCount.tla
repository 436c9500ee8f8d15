---- MODULE MCStockCount ----
(* Two counts of the first item, to which the second can be added, and an  *)
(* adjustment that empties the first shelf and fills the second: a figure  *)
(* is at times less and at times more than the shelf holds.                *)
EXTENDS StockCount, TLC

CONSTANTS k1, k2, d1, blank, torn, nothing

MCCounts == {k1, k2}
MCDocuments == {d1}
MCItems == {1, 2}
MCOpening == <<2, 0>>
MCScope == [c \in MCCounts |-> {1}]
MCLines == d1 :> <<[item |-> 1, qty |-> -2, type |-> "adjustment"],
                   [item |-> 2, qty |-> 1, type |-> "adjustment"]>>
MCFigures == {1, 2}

(* With the other count not begun, a third entry is typed or a connection *)
(* drops.                                                                  *)
OneCountGoesFurther ==
    LET doubt == \E c \in Counts, i \in Items : field[c][i].doubt
        alone == \E c \in Counts : \A o \in Counts \ {c} : count[o].status = "none"
    IN IF alone THEN typed <= 2 \/ ~doubt ELSE typed <= 2 /\ ~doubt

(* A count that finds on the shelf what is on it. *)
FoundFigures == {2}

(* A line has no note, or says what is wrong with what was found. *)
MCNotes == {nothing, torn}

CountsAlike == Permutations(MCCounts)
====

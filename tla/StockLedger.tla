----------------------------- MODULE StockLedger -----------------------------
(***************************************************************************)
(* What the stock service promises, utils/stock.ts without its locks: the  *)
(* lines of one document move at once or not at all, no warehouse goes     *)
(* below nothing, and the ledger says what moved.                          *)
(***************************************************************************)
EXTENDS Integers, Sequences, FiniteSetsExt

CONSTANTS
    Items,      \* ids of items rows
    Warehouses, \* ids of warehouses rows
    Documents,  \* what reference_type and reference_id point at
    Opening     \* what every shelf holds when the model begins

ASSUME LedgerAssumption ==
    /\ Items \subseteq Nat /\ Warehouses \subseteq Nat
    /\ IsFiniteSet(Items) /\ IsFiniteSet(Warehouses)
    /\ Opening \in [Items -> [Warehouses -> Nat]]

VARIABLES
    stock,  \* item_stocks.quantity of every item and warehouse
    total,  \* items.current_stock
    ledger  \* inventory_transactions in id order

ledgerVars == <<stock, total, ledger>>

MovementType == {"purchase", "sale", "repair_use", "transfer_out", "transfer_in", "reversal",
                 "adjustment", "count"}

(* A movement of one item in one warehouse, as a document asks for it.  A  *)
(* quantity is a whole number: fractions of a unit move the same way.      *)
StockLine == [item : Items, wh : Warehouses, qty : Int, type : MovementType]

LedgerRow == [line : StockLine, doc : Documents, before : Nat, after : Nat]

LedgerInit ==
    /\ stock = Opening
    /\ total = [i \in Items |-> MapThenSumSet(LAMBDA w : Opening[i][w], Warehouses)]
    /\ ledger = <<>>

(* What the lines of ks move of an item in the given warehouses. *)
Moved(lines, ks, i, ws) ==
    MapThenSumSet(LAMBDA k : lines[k].qty,
                  {k \in ks : lines[k].item = i /\ lines[k].wh \in ws})

(* The quantity after line k, each line seeing what the last one left. *)
After(lines, k) ==
    stock[lines[k].item][lines[k].wh] + Moved(lines, 1..k, lines[k].item, {lines[k].wh})

(* planStockMovements throws: the shelf does not hold it, or goods would   *)
(* arrive in a warehouse that is not among the open ones.                  *)
Refused(lines, open) ==
    \E k \in DOMAIN lines :
        \/ After(lines, k) < 0
        \/ lines[k].wh \notin open /\ lines[k].type # "reversal"

(* The four tables together; the total is written as the service's own     *)
(* read of it plus what moved.                                             *)
PostLines(doc, lines, read) ==
    /\ stock' = [i \in Items |-> [w \in Warehouses |->
                    stock[i][w] + Moved(lines, DOMAIN lines, i, {w})]]
    /\ total' = [i \in Items |->
                    IF \E k \in DOMAIN lines : lines[k].item = i
                    THEN read[i] + Moved(lines, DOMAIN lines, i, Warehouses) ELSE total[i]]
    /\ ledger' = ledger \o
          [k \in DOMAIN lines |-> [line |-> lines[k], doc |-> doc,
                                   before |-> After(lines, k) - lines[k].qty,
                                   after |-> After(lines, k)]]

-----------------------------------------------------------------------------
(***************************************************************************)
(* The abstract specification: one document's lines at a time, each told   *)
(* by what the ledger gained.                                              *)
(***************************************************************************)
Gained == [k \in 1..(Len(ledger') - Len(ledger)) |-> ledger'[Len(ledger) + k].line]

Post ==
    /\ Gained \in Seq(StockLine) \ {<<>>}
    /\ ~Refused(Gained, Warehouses)
    /\ \E d \in Documents : PostLines(d, Gained, total)

LedgerSpec == LedgerInit /\ [][Post]_ledgerVars

(* Every figure can be told from the ledger: a total is the sum of its     *)
(* shelves, a shelf is what its opening and its rows add up to, the rows   *)
(* of a shelf follow one another, and no shelf ever held less than none.   *)
StockIsLedger ==
    /\ \A i \in Items : total[i] = MapThenSumSet(LAMBDA w : stock[i][w], Warehouses)
    /\ \A i \in Items, w \in Warehouses :
          LET rows == {n \in DOMAIN ledger : ledger[n].line.item = i /\ ledger[n].line.wh = w}
          IN /\ stock[i][w] = IF rows = {} THEN Opening[i][w] ELSE ledger[Max(rows)].after
             /\ \A n \in rows :
                   LET earlier == {m \in rows : m < n} IN
                   /\ ledger[n].before = IF earlier = {} THEN Opening[i][w]
                                         ELSE ledger[Max(earlier)].after
                   /\ ledger[n].after = ledger[n].before + ledger[n].line.qty
                   /\ ledger[n].after >= 0
=============================================================================

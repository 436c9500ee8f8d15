---- MODULE MCRepairInvoice ----
(* Two invoices want the same two parts; two cashiers take payments. *)
EXTENDS RepairInvoice, TLC

CONSTANTS a, b, none

MCOpening == [i \in {1} |-> [w \in {1} |-> 2]]
MCPartLists == {<<>>, <<[item |-> 1, wh |-> 1, qty |-> -1, type |-> "repair_use"]>>,
                <<[item |-> 1, wh |-> 1, qty |-> -1, type |-> "repair_use"],
                  [item |-> 1, wh |-> 1, qty |-> -1, type |-> "repair_use"]>>}

CashiersAlike == Permutations({a, b})
====

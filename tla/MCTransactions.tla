--------------------------- MODULE MCTransactions ---------------------------
(* Transactions that meet, each kind in a scene of its own while the others *)
(* are where they start.  In the stock service, two requests at once over   *)
(* two items, listed against their id order, and two warehouses of which    *)
(* only the first holds anything; the kardex of one item with an edit form  *)
(* and a request that has none; and settlements of two payments of one      *)
(* invited shop from two return pages.                                      *)
EXTENDS StockService, Kardex, MCBilling, TLC

CONSTANTS c1, c2, nobody, form, request

MCClerks == {c1, c2}
MCItems == {1, 2}
MCWarehouses == {1, 2}
MCDocuments == {1, 2}
MCOpening == [i \in MCItems |-> [w \in MCWarehouses |-> IF w = 1 THEN 1 ELSE 0]]
MCGoods == {<<[item |-> 1, qty |-> 1]>>,
            <<[item |-> 2, qty |-> 1], [item |-> 1, qty |-> 1]>>}

MCForms == {form}
MCRequests == {request}
MCOpenings == {[quantity |-> 2, price |-> 1], [quantity |-> 2, price |-> 3]}
MCPurchases == {[quantity |-> 2, price |-> 6]}

ClerksAlike == Permutations(MCClerks)

VARIABLE scene

MCInit ==
    /\ Init /\ KardexInit /\ BillingInit
    /\ scene \in {"service", "kardex", "settlement"}

MCNext ==
    /\ \/ scene = "service" /\ Next /\ UNCHANGED <<kardexVars, billingVars>>
       \/ scene = "kardex" /\ KardexNext /\ UNCHANGED <<vars, billingVars>>
       \/ scene = "settlement" /\ BillingNext /\ UNCHANGED <<vars, kardexVars>>
    /\ UNCHANGED scene

MCSpec == MCInit /\ [][MCNext]_<<scene, vars, kardexVars, billingVars>>
=============================================================================

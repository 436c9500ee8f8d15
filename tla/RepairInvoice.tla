---------------------------- MODULE RepairInvoice ----------------------------
(***************************************************************************)
(* Repair invoices and the parts they take off the shelf: drafted, issued, *)
(* paid, cancelled and deleted (repairInvoiceController.ts with            *)
(* repairInvoiceStatus.ts).  Every handler but one works under the         *)
(* invoice's row lock and is one step; addPayment reads the invoice, and   *)
(* writes it later whatever happened to it meanwhile.                      *)
(***************************************************************************)
EXTENDS StockLedger

CONSTANTS
    Cashiers,   \* addPayment requests that run at once
    PartLists,  \* the parts that an invoice may list: sequences of StockLine
    Totals,     \* what an invoice may come to
    Amounts,    \* what a customer may pay at a time
    NoInvoice   \* no payment in hand

ASSUME RepairAssumption ==
    /\ PartLists \subseteq Seq({l \in StockLine : l.type = "repair_use"})
    /\ \A p \in PartLists : \A k \in DOMAIN p : p[k].qty < 0
    /\ Totals \subseteq Nat
    /\ Amounts \subseteq Nat \ {0}
    /\ NoInvoice \notin Documents

VARIABLES
    invoice,    \* repair_invoices and their part lines
    collected,  \* the sum of an invoice's rows in repair_invoice_payments
    payment     \* the addPayment request of each cashier

repairVars == <<invoice, collected, payment>>
vars == <<ledgerVars, repairVars>>

RepairInvoiceStatus == {"draft", "issued", "paid", "cancelled"}

InvoiceRow == [status        : RepairInvoiceStatus \cup {"none", "deleted"},
               paymentStatus : {"pending", "partial", "paid", "cancelled"},
               total         : Nat,
               paid          : Nat,
               parts         : Seq(StockLine)]

(* What addPayment worked out from the row it read. *)
PaymentCall == [invoice : Documents \cup {NoInvoice}, amount : Nat, newPaid : Nat,
                fullyPaid : BOOLEAN]

NoPayment == [invoice |-> NoInvoice, amount |-> 0, newPaid |-> 0, fullyPaid |-> FALSE]

RepairInit ==
    /\ invoice = [d \in Documents |-> [status |-> "none", paymentStatus |-> "pending",
                                       total |-> 0, paid |-> 0, parts |-> <<>>]]
    /\ collected = [d \in Documents |-> 0]
    /\ payment = [c \in Cashiers |-> NoPayment]

HoldsStock(status) == status \in {"issued", "paid"}

-----------------------------------------------------------------------------
(* repairInvoiceTransition. *)

(* A wrong form, as the rule was before: an issued invoice may be redrafted. *)
AllowedWithRedraft(from, to) ==
    /\ from \in RepairInvoiceStatus \ {"cancelled"}
    /\ from = "paid" => to = "paid"

Allowed(from, to) ==
    /\ from \in RepairInvoiceStatus \ {"cancelled"}
    /\ from = "paid" => to = "paid"
    /\ ~(from = "issued" /\ to = "draft")

Returned(parts) ==
    [k \in DOMAIN parts |-> [parts[k] EXCEPT !.qty = -@, !.type = "reversal"]]

(* The lines that a change of status moves. *)
Moves(from, to, parts) ==
    IF from = "draft" /\ HoldsStock(to) THEN parts
    ELSE IF to = "cancelled" /\ HoldsStock(from) THEN Returned(parts)
    ELSE <<>>

(* What the change makes of payment_status. *)
StatusAfter(row, to) ==
    IF to \in {"cancelled", "paid"} THEN to
    ELSE IF row.paid > 0 /\ row.paid < row.total THEN "partial"
    ELSE IF row.paid = 0 THEN "pending"
    ELSE row.paymentStatus

Service(d, lines) ==
    /\ ~Refused(lines, Warehouses)
    /\ PostLines(d, lines, total)

-----------------------------------------------------------------------------
(* The handlers under the row lock. *)

CreateDraft(d) ==
    /\ invoice[d].status = "none"
    /\ \E p \in PartLists, t \in Totals :
          invoice' = [invoice EXCEPT ![d].status = "draft", ![d].parts = p, ![d].total = t]
    /\ UNCHANGED <<ledgerVars, collected, payment>>

(* A wrong form: the status is not read again under the lock. *)
UpdateUnlocked(d) ==
    /\ invoice[d].status \in {"draft", "issued"}
    /\ \E p \in PartLists, t \in Totals :
          invoice' = [invoice EXCEPT ![d].parts = p, ![d].total = t]
    /\ UNCHANGED <<ledgerVars, collected, payment>>

UpdateDraft(d) ==
    /\ invoice[d].status = "draft"
    /\ \E p \in PartLists, t \in Totals :
          invoice' = [invoice EXCEPT ![d].parts = p, ![d].total = t]
    /\ UNCHANGED <<ledgerVars, collected, payment>>

(* A wrong form: any invoice may be marked paid. *)
ChangeStatusUnpaid(d) ==
    \E to \in RepairInvoiceStatus :
        LET row == invoice[d] IN
        /\ Allowed(row.status, to)
        /\ Service(d, Moves(row.status, to, row.parts))
        /\ invoice' = [invoice EXCEPT ![d].status = to, ![d].paymentStatus = StatusAfter(row, to)]
        /\ UNCHANGED <<collected, payment>>

ChangeStatus(d) ==
    \E to \in RepairInvoiceStatus :
        LET row == invoice[d] IN
        /\ Allowed(row.status, to)
        /\ to = "paid" => row.paid >= row.total
        /\ Service(d, Moves(row.status, to, row.parts))
        /\ invoice' = [invoice EXCEPT ![d].status = to, ![d].paymentStatus = StatusAfter(row, to)]
        /\ UNCHANGED <<collected, payment>>

(* remove: the parts come back if the status says that they are out, and   *)
(* the payments go with the invoice.                                       *)
RemoveInvoice(d) ==
    LET row == invoice[d] IN
    /\ row.status \in RepairInvoiceStatus
    /\ Service(d, IF HoldsStock(row.status) THEN Returned(row.parts) ELSE <<>>)
    /\ invoice' = [invoice EXCEPT ![d].status = "deleted"]
    /\ collected' = [collected EXCEPT ![d] = 0]
    /\ UNCHANGED payment

-----------------------------------------------------------------------------
(* addPayment. *)

(* The row, read outside the transaction and without a lock. *)
ReadForPayment(c, d) ==
    LET row == invoice[d] IN
    /\ payment[c] = NoPayment
    /\ HoldsStock(row.status)
    /\ \E a \in Amounts :
          /\ row.paid + a <= row.total
          /\ payment' = [payment EXCEPT ![c] = [invoice |-> d, amount |-> a,
                                                newPaid |-> row.paid + a,
                                                fullyPaid |-> row.paid + a >= row.total]]
    /\ UNCHANGED <<ledgerVars, invoice, collected>>

(* The payment's row and the invoice in one transaction.  The row's        *)
(* foreign key fails on an invoice deleted since.                          *)
WritePayment(c) ==
    LET p == payment[c]
        row == invoice[p.invoice] IN
    /\ p # NoPayment
    /\ row.status \in RepairInvoiceStatus
    /\ collected' = [collected EXCEPT ![p.invoice] = @ + p.amount]
    /\ invoice' = [invoice EXCEPT ![p.invoice] = [row EXCEPT
                      !.paid = p.newPaid,
                      !.paymentStatus = IF p.fullyPaid THEN "paid" ELSE "partial",
                      !.status = IF p.fullyPaid THEN "paid" ELSE @]]
    /\ payment' = [payment EXCEPT ![c] = NoPayment]
    /\ UNCHANGED ledgerVars

(* The request ends without its transaction: its invoice is gone, its      *)
(* connection or the process died.                                         *)
PaymentFails(c) ==
    /\ payment[c] # NoPayment
    /\ payment' = [payment EXCEPT ![c] = NoPayment]
    /\ UNCHANGED <<ledgerVars, invoice, collected>>

Init == LedgerInit /\ RepairInit

Next ==
    \/ \E d \in Documents : CreateDraft(d) \/ UpdateDraft(d) \/ ChangeStatus(d) \/ RemoveInvoice(d)
    \/ \E c \in Cashiers : \/ \E d \in Documents : ReadForPayment(c, d)
                           \/ WritePayment(c)
                           \/ PaymentFails(c)

Spec == Init /\ [][Next]_vars

TypeOK ==
    /\ stock \in [Items -> [Warehouses -> Nat]]
    /\ total \in [Items -> Int]
    /\ ledger \in Seq(LedgerRow)
    /\ invoice \in [Documents -> InvoiceRow]
    /\ collected \in [Documents -> Nat]
    /\ payment \in [Cashiers -> PaymentCall]

-----------------------------------------------------------------------------
(* What the rows of the given types moved of an item for an invoice. *)
PartsMoved(d, i, types) ==
    MapThenSumSet(LAMBDA n : ledger[n].line.qty,
                  {n \in DOMAIN ledger : /\ ledger[n].doc = d
                                         /\ ledger[n].line.item = i
                                         /\ ledger[n].line.type \in types})

Listed(d, i) == Moved(invoice[d].parts, DOMAIN invoice[d].parts, i, Warehouses)

(* A draft or cancelled invoice has moved nothing on balance and an issued *)
(* one exactly the parts it lists, whatever payments arrive late; and "the *)
(* stock leaves exactly once, on the way out of draft": no invoice, paid   *)
(* or deleted since, takes its parts twice in any order of its handlers.   *)
PartsMatchStatus ==
    \A d \in Documents, i \in Items :
        /\ invoice[d].status \in {"none", "draft", "cancelled"} =>
              PartsMoved(d, i, MovementType) = 0
        /\ invoice[d].status = "issued" => PartsMoved(d, i, MovementType) = Listed(d, i)
        /\ invoice[d].status # "draft" => PartsMoved(d, i, {"repair_use"}) \in {0, Listed(d, i)}

(* An invoice that reads as paid has payment rows for all of its total,    *)
(* although two cashiers may have overwritten one another's paid_amount.   *)
PaidWasCollected ==
    \A d \in Documents :
        /\ invoice[d].status = "paid" => collected[d] >= invoice[d].total
        /\ invoice[d].status \in RepairInvoiceStatus => invoice[d].paid <= collected[d]

(* repairInvoiceStatus.ts: stock "comes back exactly once, when an invoice *)
(* holding it is cancelled".  No invoice returns more than it took.        *)
ComesBackOnce ==
    \A d \in Documents, i \in Items :
        PartsMoved(d, i, {"reversal"}) <= -PartsMoved(d, i, {"repair_use"})
=============================================================================

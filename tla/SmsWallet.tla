----------------------------- MODULE SmsWallet -----------------------------
(***************************************************************************)
(* The SMS wallet of one workspace: utils/smsWallet.ts, the only code that *)
(* writes sms_wallets, and the append-only ledger sms_wallet_transactions. *)
(*                                                                         *)
(* Every operation runs inside a transaction of its caller.  Its first     *)
(* statement is an UPDATE of the wallet row, whose row lock is held until  *)
(* the commit, so two wallet transactions never interleave and each one is *)
(* a single step here.  A transaction that aborts leaves nothing behind,   *)
(* hence an operation that would break a unique index is not enabled.      *)
(***************************************************************************)
EXTENDS Integers, Sequences

CONSTANTS
    Messages,   \* ids of sms_messages rows; also the notifyCustomer call that owns each
    Topups,     \* ids of sms_topups rows
    Costs       \* what a message may cost, in rials

ASSUME WalletAssumption ==
    /\ Costs \subseteq Nat \ {0}
    /\ Messages \cap Topups = {}

VARIABLES
    balance,    \* sms_wallets.balance_rials
    ledger      \* sms_wallet_transactions in id order

walletVars == <<balance, ledger>>

(***************************************************************************)
(* ref stands for whichever of sms_message_id and topup_id is not null.    *)
(***************************************************************************)
LedgerRow == [type   : {"send", "refund", "topup"},
              ref    : Messages \cup Topups,
              amount : Int,
              before : Int,
              after  : Int]

WalletInit ==
    /\ balance = 0
    /\ ledger = <<>>

RowsOf(type, ref) ==
    {i \in DOMAIN ledger : ledger[i].type = type /\ ledger[i].ref = ref}

HasRow(type, ref) == RowsOf(type, ref) # {}

(* A wrong form: the debit forgets to require the funds. *)
MoveBalanceUnchecked(amount, requireFunds) == balance' = balance + amount

(* The conditional and the unconditional UPDATE of the balance. *)
MoveBalance(amount, requireFunds) ==
    /\ requireFunds => balance >= -amount
    /\ balance' = balance + amount

(***************************************************************************)
(* The ledger line is worked out from the balance the UPDATE returned, and *)
(* the unique index on (ref, type) aborts the transaction of a duplicate.  *)
(***************************************************************************)
LedgerLine(type, ref, amount) ==
    /\ ~HasRow(type, ref)
    /\ ledger' = Append(ledger, [type   |-> type,
                                 ref    |-> ref,
                                 amount |-> amount,
                                 before |-> balance' - amount,
                                 after  |-> balance'])

DebitWallet(m, cost) ==
    /\ MoveBalance(-cost, TRUE)
    /\ LedgerLine("send", m, -cost)

CreditWallet(t, amount) ==
    /\ MoveBalance(amount, FALSE)
    /\ LedgerLine("topup", t, amount)

(* A wrong form: the price of one part comes back, whatever the message cost. *)
RefundMessageOnePart(m, cost) ==
    /\ MoveBalance(1, FALSE)
    /\ LedgerLine("refund", m, 1)

RefundMessage(m, cost) ==
    /\ MoveBalance(cost, FALSE)
    /\ LedgerLine("refund", m, cost)

-----------------------------------------------------------------------------
(* The balance column and the ledger explain each other: the first line    *)
(* starts from nothing, each line starts where the one before it ended and *)
(* adds its signed amount, and the wallet holds what the last line left.   *)
(* So the balance is SUM(amount_rials), as schema.prisma promises.         *)
BalanceIsLedgerSum ==
    /\ \A i \in DOMAIN ledger :
          /\ ledger[i].after = ledger[i].before + ledger[i].amount
          /\ ledger[i].before = IF i = 1 THEN 0 ELSE ledger[i - 1].after
    /\ balance = IF ledger = <<>> THEN 0 ELSE ledger[Len(ledger)].after

(* No interleaving of sends, refunds and top-ups takes the balance below   *)
(* zero, now or at any line of the history.                                *)
NeverOverdrawn ==
    /\ balance >= 0
    /\ \A i \in DOMAIN ledger : ledger[i].before >= 0 /\ ledger[i].after >= 0
=============================================================================

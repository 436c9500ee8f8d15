----------------------------- MODULE SmsCredit -----------------------------
(***************************************************************************)
(* The SMS credit of a workspace: notifications that spend it and top-ups  *)
(* that buy it, composed over one wallet, in a server that may crash.      *)
(***************************************************************************)
EXTENDS CustomerNotification, SmsTopup

creditVars == <<walletVars, notifyVars, topupVars>>

CreditInit == WalletInit /\ NotifyInit /\ TopupInit

Notify(m) == NotifyStep(m) /\ UNCHANGED topupVars

Start(t) == StartStep(t) /\ UNCHANGED notifyVars

Settle(s) == SettleStep(s) /\ UNCHANGED notifyVars

Crash ==
    /\ NotifyCrash
    /\ TopupCrash
    /\ UNCHANGED <<walletVars, message, delivered, topup, gateway>>

CreditNext ==
    \/ \E m \in Messages : Notify(m)
    \/ \E t \in Topups : Start(t)
    \/ \E s \in Settlers : Settle(s)
    \/ Crash

CreditSpec == CreditInit /\ [][CreditNext]_creditVars

(***************************************************************************)
(* A call that is not killed runs on: the send has a 20 s timeout and a    *)
(* database statement returns or throws.  What the customer does, and      *)
(* whether a page comes back, is not fair.                                 *)
(***************************************************************************)
CreditFairness ==
    \A m \in Messages : WF_creditVars(notifying[m] \in Running /\ Notify(m))

CreditFairSpec == CreditSpec /\ CreditFairness

CreditTypeOK ==
    /\ balance \in Int
    /\ ledger \in Seq(LedgerRow)
    /\ message \in [Messages -> MessageRow]
    /\ notifying \in [Messages -> CallState]
    /\ delivered \in SUBSET Messages
    /\ topup \in [Topups -> TopupRow]
    /\ starter \in [Topups -> {"idle", "requesting", "registered", "done"}]
    /\ gateway \in [Topups -> GatewayRow]
    /\ settler \in [Settlers -> SettlerRow]

-----------------------------------------------------------------------------
(* What a message has cost the workshop, as the ledger tells it. *)
Charged(m) == \E i \in RowsOf("send", m) : ledger[i].amount = -message[m].cost

(* Whatever a row says of its message, the ledger agrees: a message that   *)
(* was refused was never charged, one that is sent was charged its cost    *)
(* and not refunded, one that is refunded was charged and refunded the     *)
(* same amount, one whose refund failed is still charged.                  *)
MessageAgreesWithLedger ==
    \A m \in Messages :
        /\ message[m].status \in Refusals \cup {"none", "insufficient_balance"}
              => ~HasRow("send", m) /\ ~HasRow("refund", m)
        /\ message[m].status \in {"sent", "failed"}
              => Charged(m) /\ ~HasRow("refund", m)
        /\ message[m].status = "pending" => Charged(m)
        /\ message[m].status = "refunded"
              => HasRow("send", m) /\ HasRow("refund", m) /\ message[m].cost = 0

(* A refund gives back exactly what one earlier send line of the same      *)
(* message took, and no (message, type) or (top-up, type) appears twice.   *)
RefundMatchesSend ==
    /\ \A i, j \in DOMAIN ledger :
          ledger[i].ref = ledger[j].ref /\ ledger[i].type = ledger[j].type => i = j
    /\ \A i \in DOMAIN ledger : ledger[i].type = "refund" =>
          \E j \in DOMAIN ledger :
             /\ j < i
             /\ ledger[j].type = "send"
             /\ ledger[j].ref = ledger[i].ref
             /\ ledger[j].amount = -ledger[i].amount

(* No customer gets a message that the wallet was never charged for, in    *)
(* whatever order the charge, the send and a crash fall.                   *)
NoFreeMessage ==
    \A m \in delivered : HasRow("send", m)

(* However many return pages settle a top-up, it is verified exactly when  *)
(* the wallet was credited for it, with the amount that was asked for and  *)
(* that Zibal took.                                                        *)
TopupCreditedOnce ==
    \A t \in Topups :
        /\ topup[t].status = "verified" <=> HasRow("topup", t)
        /\ \A i \in RowsOf("topup", t) :
              /\ ledger[i].amount = topup[t].amount
              /\ gateway[t] = [state |-> "verified", taken |-> topup[t].amount]

(* A top-up that has been credited stays verified: no later settlement,    *)
(* whose mismatch branch writes "failed" without looking, takes it back.   *)
VerifiedIsFinal ==
    [][\A t \in Topups : topup[t].status = "verified" => topup'[t].status = "verified"]_creditVars

(* notifyCustomer never hangs: a call that charged the wallet reaches an   *)
(* end, unless the process running it dies.                                *)
CallsEnd ==
    \A m \in Messages : (notifying[m] \in Running) ~> (notifying[m] \in {"done", "dead"})
=============================================================================

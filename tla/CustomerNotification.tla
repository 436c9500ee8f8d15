------------------------ MODULE CustomerNotification ------------------------
(***************************************************************************)
(* notifyCustomer of utils/customerNotification.ts: charge a message, send *)
(* it outside any transaction, record the outcome, give the money back     *)
(* when the send failed.  Each element of Messages is one call and the     *)
(* sms_messages row it may create; the calls run concurrently.             *)
(***************************************************************************)
EXTENDS SmsWallet

VARIABLES
    message,    \* sms_messages: status and cost_rials of each row
    notifying,  \* where each notifyCustomer call is
    delivered   \* the messages sms.ir handed to the customer's phone

notifyVars == <<message, notifying, delivered>>

Refusals == {"disabled", "invalid_phone"}

MessageStatus ==
    Refusals \cup {"none", "pending", "insufficient_balance", "sent",
                   "refunded", "failed"}

CallState ==
    {"idle", "sending", "accepted", "caught", "refunded", "unrefunded",
     "done", "dead"}

Running == CallState \ {"idle", "done", "dead"}

MessageRow == [status : MessageStatus, cost : Costs \cup {0}]

NotifyInit ==
    /\ message = [m \in Messages |-> [status |-> "none", cost |-> 0]]
    /\ notifying = [m \in Messages |-> "idle"]
    /\ delivered = {}

Moves(m, from, to) ==
    /\ notifying[m] = from
    /\ notifying' = [notifying EXCEPT ![m] = to]

SetMessage(m, status, cost) ==
    message' = [message EXCEPT ![m] = [status |-> status, cost |-> cost]]

(* Notifications are switched off, or the phone number cannot be sent to. *)
RecordRefusal(m) ==
    /\ Moves(m, "idle", "done")
    /\ \E status \in Refusals : SetMessage(m, status, 0)
    /\ UNCHANGED <<delivered, walletVars>>

(* One transaction: the row, the debit and its ledger line. *)
Charge(m) ==
    /\ Moves(m, "idle", "sending")
    /\ \E cost \in Costs :
          /\ SetMessage(m, "pending", cost)
          /\ DebitWallet(m, cost)
    /\ UNCHANGED delivered

(* The same transaction when the conditional UPDATE matches no row. *)
InsufficientBalance(m) ==
    /\ Moves(m, "idle", "done")
    /\ \E cost \in Costs : balance < cost
    /\ SetMessage(m, "insufficient_balance", 0)
    /\ UNCHANGED <<delivered, walletVars>>

SendAccepted(m) ==
    /\ Moves(m, "sending", "accepted")
    /\ delivered' = delivered \cup {m}
    /\ UNCHANGED <<message, walletVars>>

(***************************************************************************)
(* A refusal by the provider, or no answer within REQUEST_TIMEOUT_MS: then *)
(* the message may have been sent all the same.                            *)
(***************************************************************************)
SendThrows(m) ==
    /\ Moves(m, "sending", "caught")
    /\ delivered' \in {delivered, delivered \cup {m}}
    /\ UNCHANGED <<message, walletVars>>

MarkSent(m) ==
    /\ Moves(m, "accepted", "done")
    /\ SetMessage(m, "sent", message[m].cost)
    /\ UNCHANGED <<delivered, walletVars>>

(* The UPDATE to "sent" sits in the same try block as the send. *)
MarkSentThrows(m) ==
    /\ Moves(m, "accepted", "caught")
    /\ UNCHANGED <<message, delivered, walletVars>>

(* refundFailedSend, its own transaction; a duplicate counts as refunded. *)
RefundFailedSend(m) ==
    /\ Moves(m, "caught", "refunded")
    /\ IF HasRow("refund", m)
       THEN UNCHANGED walletVars
       ELSE RefundMessage(m, message[m].cost)
    /\ UNCHANGED <<message, delivered>>

(* A wrong form: a refund that throws sends the message again. *)
RefundThrowsRetries(m) ==
    /\ Moves(m, "caught", "sending")
    /\ UNCHANGED <<message, delivered, walletVars>>

RefundThrows(m) ==
    /\ Moves(m, "caught", "unrefunded")
    /\ UNCHANGED <<message, delivered, walletVars>>

(* A wrong form: the cost is kept on a refunded row. *)
RecordOutcomeKeepsCost(m) ==
    /\ \/ Moves(m, "refunded", "done") /\ SetMessage(m, "refunded", message[m].cost)
       \/ Moves(m, "unrefunded", "done") /\ SetMessage(m, "failed", message[m].cost)
    /\ UNCHANGED <<delivered, walletVars>>

RecordOutcome(m) ==
    /\ \/ /\ Moves(m, "refunded", "done")
          /\ SetMessage(m, "refunded", 0)
       \/ /\ Moves(m, "unrefunded", "done")
          /\ SetMessage(m, "failed", message[m].cost)
    /\ UNCHANGED <<delivered, walletVars>>

(* The outer catch: an unexpected error is logged and the call returns. *)
OuterCatch(m) ==
    /\ notifying[m] \in {"idle", "refunded", "unrefunded"}
    /\ notifying' = [notifying EXCEPT ![m] = "done"]
    /\ UNCHANGED <<message, delivered, walletVars>>

NotifyStep(m) ==
    \/ RecordRefusal(m) \/ Charge(m) \/ InsufficientBalance(m)
    \/ SendAccepted(m) \/ SendThrows(m)
    \/ MarkSent(m) \/ MarkSentThrows(m)
    \/ RefundFailedSend(m) \/ RefundThrows(m)
    \/ RecordOutcome(m) \/ OuterCatch(m)

(* The server process dies: no in-memory step of any call is taken again. *)
NotifyCrash ==
    notifying' = [m \in Messages |-> IF notifying[m] \in Running THEN "dead" ELSE notifying[m]]
=============================================================================

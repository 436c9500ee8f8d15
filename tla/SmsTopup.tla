------------------------------ MODULE SmsTopup ------------------------------
(***************************************************************************)
(* Buying SMS credit: startTopup and settleTopup of utils/smsTopup.ts, and *)
(* the Zibal gateway as lib/zibal.ts sees it.  A settler is one call of    *)
(* settleTopup, made by a return page; several may hold the same top-up.   *)
(***************************************************************************)
EXTENDS SmsWallet

CONSTANTS
    Settlers,   \* concurrent calls of POST /api/sms/wallet/verify
    Amounts     \* amounts a top-up may have, in rials

ASSUME TopupAssumption == Amounts \subseteq Nat \ {0}

VARIABLES
    topup,      \* sms_topups: status, amount_rials, whether track_id is set
    starter,    \* where the startTopup call of each top-up is
    gateway,    \* Zibal's record of each top-up: state and amount taken
    settler     \* where each settleTopup call is, and which top-up it read

topupVars == <<topup, starter, gateway, settler>>

TopupRow == [status  : {"none", "pending", "failed", "verified"},
             amount  : Amounts \cup {0},
             tracked : BOOLEAN]

GatewayRow == [state : {"none", "open", "paid", "verified"},
               taken : Amounts \cup {0}]

SettlerRow == [pc : {"idle", "verifying", "mismatch", "claiming"},
               of : Topups]

TopupInit ==
    /\ topup = [t \in Topups |-> [status |-> "none", amount |-> 0, tracked |-> FALSE]]
    /\ starter = [t \in Topups |-> "idle"]
    /\ gateway = [t \in Topups |-> [state |-> "none", taken |-> 0]]
    /\ settler \in [Settlers -> {[pc |-> "idle", of |-> t] : t \in Topups}]

StarterMoves(t, from, to) ==
    /\ starter[t] = from
    /\ starter' = [starter EXCEPT ![t] = to]

(* The row is written before the gateway is called. *)
StartTopup(t) ==
    /\ StarterMoves(t, "idle", "requesting")
    /\ \E a \in Amounts :
          topup' = [topup EXCEPT ![t].status = "pending", ![t].amount = a]
    /\ UNCHANGED <<gateway, settler, walletVars>>

RequestPayment(t) ==
    /\ StarterMoves(t, "requesting", "registered")
    /\ gateway' = [gateway EXCEPT ![t].state = "open"]
    /\ UNCHANGED <<topup, settler, walletVars>>

RequestThrows(t) ==
    /\ StarterMoves(t, "requesting", "done")
    /\ topup' = [topup EXCEPT ![t].status = "failed"]
    /\ UNCHANGED <<gateway, settler, walletVars>>

(* Only now does the customer get a link to pay by. *)
SaveTrackId(t) ==
    /\ StarterMoves(t, "registered", "done")
    /\ topup' = [topup EXCEPT ![t].tracked = TRUE]
    /\ UNCHANGED <<gateway, settler, walletVars>>

(* The customer pays; what Zibal takes need not be what was asked for. *)
CustomerPays(t) ==
    /\ topup[t].tracked
    /\ gateway[t].state = "open"
    /\ \E a \in Amounts : gateway' = [gateway EXCEPT ![t] = [state |-> "paid", taken |-> a]]
    /\ UNCHANGED <<topup, starter, settler, walletVars>>

(* settleTopup reads the row; a verified one ends the call at once. *)
ReadTopup(s, t) ==
    /\ settler[s].pc = "idle"
    /\ topup[t].tracked
    /\ topup[t].status # "verified"
    /\ settler' = [settler EXCEPT ![s] = [pc |-> "verifying", of |-> t]]
    /\ UNCHANGED <<topup, starter, gateway, walletVars>>

(* A wrong form: the amount Zibal took is not compared. *)
VerifyPaymentUnchecked(s) ==
    LET t == settler[s].of IN
    /\ settler[s].pc = "verifying"
    /\ gateway[t].state \in {"paid", "verified"}
    /\ gateway' = [gateway EXCEPT ![t].state = "verified"]
    /\ settler' = [settler EXCEPT ![s].pc = "claiming"]
    /\ UNCHANGED <<topup, starter, walletVars>>

(***************************************************************************)
(* verifyPayment: result 100 or, for one already verified, 201.  Both      *)
(* resolve, with the amount Zibal took, which the caller compares.         *)
(***************************************************************************)
VerifyPayment(s) ==
    LET t == settler[s].of IN
    /\ settler[s].pc = "verifying"
    /\ gateway[t].state \in {"paid", "verified"}
    /\ gateway' = [gateway EXCEPT ![t].state = "verified"]
    /\ settler' = [settler EXCEPT ![s].pc =
                      IF gateway[t].taken # topup[t].amount THEN "mismatch" ELSE "claiming"]
    /\ UNCHANGED <<topup, starter, walletVars>>

(* Not paid, or no answer; a lost answer still verifies at Zibal's end. *)
VerifyThrows(s) ==
    LET t == settler[s].of IN
    /\ settler[s].pc = "verifying"
    /\ \/ UNCHANGED gateway
       \/ /\ gateway[t].state = "paid"
          /\ gateway' = [gateway EXCEPT ![t].state = "verified"]
    /\ settler' = [settler EXCEPT ![s].pc = "idle"]
    /\ UNCHANGED <<topup, starter, walletVars>>

RecordMismatch(s) ==
    /\ settler[s].pc = "mismatch"
    /\ topup' = [topup EXCEPT ![settler[s].of].status = "failed"]
    /\ settler' = [settler EXCEPT ![s].pc = "idle"]
    /\ UNCHANGED <<starter, gateway, walletVars>>

(* One transaction: the status is the gate, whoever changes it credits. *)
ClaimAndCredit(s) ==
    LET t == settler[s].of IN
    /\ settler[s].pc = "claiming"
    /\ IF topup[t].status # "verified"
       THEN /\ topup' = [topup EXCEPT ![t].status = "verified"]
            /\ CreditWallet(t, topup[t].amount)
       ELSE UNCHANGED <<topup, walletVars>>
    /\ settler' = [settler EXCEPT ![s].pc = "idle"]
    /\ UNCHANGED <<starter, gateway>>

StartStep(t) ==
    \/ StartTopup(t) \/ RequestPayment(t) \/ RequestThrows(t)
    \/ SaveTrackId(t) \/ CustomerPays(t)

SettleStep(s) ==
    \/ \E t \in Topups : ReadTopup(s, t)
    \/ VerifyPayment(s) \/ VerifyThrows(s)
    \/ RecordMismatch(s) \/ ClaimAndCredit(s)

(* The server process dies: calls in flight end where they are. *)
TopupCrash ==
    /\ starter' = [t \in Topups |->
                      IF starter[t] = "idle" THEN "idle" ELSE "done"]
    /\ settler' = [s \in Settlers |-> [settler[s] EXCEPT !.pc = "idle"]]
=============================================================================

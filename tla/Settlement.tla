----------------------------- MODULE Settlement -----------------------------
(***************************************************************************)
(* settlePayment of subscriptionController.ts and the rewardReferrer it    *)
(* ends with.  Its callers are the return pages and the nightly job, which *)
(* run at once and may hold the same payment.                              *)
(*                                                                         *)
(* The transaction of a settlement locks the payment row, inserts the use  *)
(* of the code under two unique indexes and locks the workspace row, so it *)
(* is one step; a call may give up at any point, as a lost connection, a   *)
(* deadlock victim or a killed process does.                               *)
(***************************************************************************)
EXTENDS Checkout

CONSTANTS
    Pages,      \* concurrent calls of POST /api/subscription/verify
    Job,        \* the nightly job's own call
    RewardDays  \* REFERRAL_REWARD_DAYS

Callers == Pages \cup {Job}

ASSUME SettlementAssumption ==
    /\ RewardDays \in Nat \ {0}
    /\ Job \notin Pages

VARIABLES
    call,       \* where each settlePayment call is, and its payment
    rewarded,   \* the referred workspaces whose referrals row has rewarded_at set
    faults      \* failures so far that a retry may repair

settlementVars == <<call, rewarded, faults>>

CallRow == [pc : {"idle", "verifying", "mismatch", "committing",
                  "counting", "claiming", "rewarding"},
            of : Payments \cup {NoCause}]

NoCall == [pc |-> "idle", of |-> NoCause]

SettlementInit ==
    /\ call = [s \in Callers |-> NoCall]
    /\ rewarded = {}
    /\ faults = 0

Goes(s, from, to) ==
    /\ call[s].pc = from
    /\ call' = [call EXCEPT ![s] = IF to = "idle" THEN NoCall
                                   ELSE [pc |-> to, of |-> call[s].of]]

(* A payment already verified ends the call at once. *)
ReadPayment(s, p) ==
    /\ call[s].pc = "idle"
    /\ payment[p].tracked
    /\ payment[p].status # "verified"
    /\ call' = [call EXCEPT ![s] = [pc |-> "verifying", of |-> p]]
    /\ UNCHANGED <<subscriptionVars, checkoutVars, uses, rewarded, faults>>

(* A wrong form: the amount Zibal took is not compared. *)
VerifyPaymentUnchecked(s) ==
    LET p == call[s].of IN
    /\ Goes(s, "verifying", "committing")
    /\ gateway[p].state \in {"paid", "verified"}
    /\ gateway' = [gateway EXCEPT ![p].state = "verified"]
    /\ UNCHANGED <<subscriptionVars, payment, checkout, uses, rewarded, faults>>

(***************************************************************************)
(* verifyPayment resolves for 100 and for 201, already verified, and the   *)
(* caller looks at the amount and not at newlyVerified.                    *)
(***************************************************************************)
VerifyPayment(s) ==
    LET p == call[s].of IN
    /\ Goes(s, "verifying", IF gateway[p].exact THEN "committing" ELSE "mismatch")
    /\ gateway[p].state \in {"paid", "verified"}
    /\ gateway' = [gateway EXCEPT ![p].state = "verified"]
    /\ UNCHANGED <<subscriptionVars, payment, checkout, uses, rewarded, faults>>

(* Result 202: the row stays as it is and the customer may try again. *)
NotPaid(s) ==
    /\ Goes(s, "verifying", "idle")
    /\ gateway[call[s].of].state = "open"
    /\ UNCHANGED <<subscriptionVars, checkoutVars, uses, rewarded, faults>>

RecordMismatch(s) ==
    /\ Goes(s, "mismatch", "idle")
    /\ payment' = [payment EXCEPT ![call[s].of].status = "failed"]
    /\ UNCHANGED <<subscriptionVars, checkout, gateway, uses, rewarded, faults>>

(* The unique indexes of discount_code_uses: one use of a code by a        *)
(* workspace, one use by a payment.                                        *)
CodeIsSpent(p) ==
    /\ payment[p].code # NoCode
    /\ \E u \in uses : \/ u.code = payment[p].code /\ u.ws = Buyer[p]
                       \/ u.payment = p

SpendCode(p) ==
    uses' = IF payment[p].code = NoCode THEN uses
            ELSE uses \cup {[code |-> payment[p].code, ws |-> Buyer[p], payment |-> p]}

(* A wrong form: the use is an upsert, which no unique index refuses. *)
CommitUpserts(s) ==
    LET p == call[s].of IN
    /\ Goes(s, "committing", "counting")
    /\ payment' = [payment EXCEPT ![p].status = "verified"]
    /\ SpendCode(p)
    /\ ExtendSubscription(Buyer[p], "payment", payment[p].days, p)
    /\ UNCHANGED <<now, deleted, checkout, gateway, rewarded, faults>>

(* One transaction: the payment, the use of its code, the expiry and its   *)
(* event.  The UPDATE of the payment asks nothing of its status.           *)
CommitSettlement(s) ==
    LET p == call[s].of IN
    /\ Goes(s, "committing", "counting")
    /\ ~CodeIsSpent(p)
    /\ payment' = [payment EXCEPT ![p].status = "verified"]
    /\ SpendCode(p)
    /\ ExtendSubscription(Buyer[p], "payment", payment[p].days, p)
    /\ UNCHANGED <<now, deleted, checkout, gateway, rewarded, faults>>

(* A unique index refuses the use and the whole transaction goes. *)
AbortSettlement(s) ==
    /\ Goes(s, "committing", "idle")
    /\ CodeIsSpent(call[s].of)
    /\ UNCHANGED <<subscriptionVars, checkoutVars, uses, rewarded, faults>>

(* rewardReferrer: nobody invited this workspace, or not its first payment. *)
CountPayments(s) ==
    LET w == Buyer[call[s].of] IN
    /\ Goes(s, "counting", IF w \in Referred /\ Cardinality(VerifiedPayments(w)) <= 1
                           THEN "claiming" ELSE "idle")
    /\ UNCHANGED <<subscriptionVars, checkoutVars, uses, rewarded, faults>>

(* A wrong form: the claim does not ask whether the row is unclaimed. *)
ClaimReferralBlindly(s) ==
    /\ Goes(s, "claiming", "rewarding")
    /\ rewarded' = rewarded \cup {Buyer[call[s].of]}
    /\ UNCHANGED <<subscriptionVars, checkoutVars, uses, faults>>

(* updateMany on rewarded_at null: of two callers one gets the claim. *)
ClaimReferral(s) ==
    LET w == Buyer[call[s].of] IN
    /\ Goes(s, "claiming", IF w \in rewarded THEN "idle" ELSE "rewarding")
    /\ rewarded' = rewarded \cup {w}
    /\ UNCHANGED <<subscriptionVars, checkoutVars, uses, faults>>

RewardReferrer(s) ==
    LET w == Buyer[call[s].of] IN
    /\ Goes(s, "rewarding", "idle")
    /\ ExtendSubscription(Referrer[w], "referral", RewardDays, w)
    /\ UNCHANGED <<now, deleted, checkoutVars, uses, rewarded, faults>>

(* The extension throws: the claim is put back and the error swallowed. *)
RevertClaim(s) ==
    /\ Goes(s, "rewarding", "idle")
    /\ rewarded' = rewarded \ {Buyer[call[s].of]}
    /\ faults' = faults + 1
    /\ UNCHANGED <<subscriptionVars, checkoutVars, uses>>

(* A call ends where it is: no answer from Zibal, which may have verified  *)
(* all the same, or from the database, or its process is gone.             *)
CallDies(s) ==
    /\ call[s].pc # "idle"
    /\ call' = [call EXCEPT ![s] = NoCall]
    /\ faults' = faults + 1
    /\ \/ UNCHANGED gateway
       \/ /\ call[s].pc = "verifying"
          /\ gateway[call[s].of].state = "paid"
          /\ gateway' = [gateway EXCEPT ![call[s].of].state = "verified"]
    /\ UNCHANGED <<subscriptionVars, payment, checkout, uses, rewarded>>

SettleStep(s) ==
    \/ VerifyPayment(s) \/ NotPaid(s) \/ RecordMismatch(s)
    \/ CommitSettlement(s) \/ AbortSettlement(s)
    \/ CountPayments(s) \/ ClaimReferral(s) \/ RewardReferrer(s)

SettleFails(s) == RevertClaim(s) \/ CallDies(s)
=============================================================================

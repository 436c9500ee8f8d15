------------------------------- MODULE Billing -------------------------------
(***************************************************************************)
(* Subscription billing: the customers' checkouts, the return pages, the   *)
(* nightly job and the clock, over one database and one gateway.           *)
(***************************************************************************)
EXTENDS NightlyJob

CONSTANTS
    MaxNow,     \* bound: the last day of the clock
    MaxFaults,  \* bound: failures that a retry may repair
    Nights      \* bound: the days on which cron starts the job, once or more

ASSUME BoundsAssumption == MaxNow \in Nat /\ MaxFaults \in Nat /\ Nights \subseteq Nat

billingVars == <<subscriptionVars, checkoutVars, uses, settlementVars, jobVars>>

BillingInit == SubscriptionInit /\ CheckoutInit /\ SettlementInit /\ NightlyInit

Buy(p) ==
    /\ CheckoutStep(p)
    /\ UNCHANGED <<subscriptionVars, uses, settlementVars, jobVars>>

(* A return page is opened by a user of the workspace, again and again if  *)
(* they reload it; the users go when the workspace does.                   *)
OpenPage(s) ==
    /\ \E p \in Payments : Buyer[p] \notin deleted /\ ReadPayment(s, p)
    /\ UNCHANGED jobVars

Settle(s) == SettleStep(s) /\ UNCHANGED jobVars

CronRuns == now \in Nights /\ StartRun

(* An hour is less than a day and a checkout call less than an hour. *)
DayPasses ==
    /\ now < MaxNow
    /\ \A p \in Payments : checkout[p] # "requesting"
    /\ now' = now + 1
    /\ payment' = [p \in Payments |-> [payment[p] EXCEPT !.fresh = FALSE]]
    /\ UNCHANGED <<expires, deleted, status, events, checkout, gateway, uses,
                   settlementVars, jobVars>>

Fault ==
    /\ faults < MaxFaults
    /\ \/ \E p \in Payments : /\ CheckoutDies(p)
                              /\ faults' = faults + 1
                              /\ UNCHANGED <<subscriptionVars, uses, call, rewarded, jobVars>>
       \/ \E s \in Callers : SettleFails(s) /\ UNCHANGED jobVars
       \/ LoopCatches
       \/ JobDies

BillingNext ==
    \/ \E p \in Payments : Buy(p)
    \/ \E s \in Pages : OpenPage(s)
    \/ \E s \in Callers : Settle(s)
    \/ CronRuns
    \/ JobStep
    \/ DayPasses
    \/ Fault

BillingSpec == BillingInit /\ [][BillingNext]_billingVars

(***************************************************************************)
(* Cron starts the job night after night, and a run, a settlement or a     *)
(* checkout that is not killed goes on to its end: every call they make    *)
(* returns or times out.  The hour passes.  Whether a customer pays, buys  *)
(* or comes back to the page is not fair.                                  *)
(***************************************************************************)
Fairness ==
    /\ WF_billingVars(CronRuns)
    /\ WF_billingVars(JobStep)
    /\ \A s \in Callers : WF_billingVars(Settle(s))
    /\ \A p \in Payments : WF_billingVars(checkout[p] = "requesting" /\ Buy(p))
    /\ \A p \in Payments : WF_billingVars(HourPasses(p) /\ Buy(p))

FairSpec == BillingSpec /\ Fairness

BillingTypeOK ==
    /\ now \in Nat
    /\ expires \in [Workspaces -> Nat]
    /\ deleted \in SUBSET Workspaces
    /\ status \in [Workspaces -> StatusColumn]
    /\ events \in [Workspaces -> Seq(EventRow)]
    /\ payment \in [Payments -> PaymentRow]
    /\ checkout \in [Payments -> {"idle", "requesting", "done"}]
    /\ gateway \in [Payments -> GatewayRow]
    /\ uses \in SUBSET UseRow
    /\ call \in [Callers -> CallRow]
    /\ rewarded \in SUBSET Referred
    /\ faults \in Nat
    /\ job \in JobRow
    /\ IsABag(sms)

-----------------------------------------------------------------------------
(* A payment is verified exactly when its workspace was given its days,    *)
(* and only for money that Zibal confirmed and that is what was asked.     *)
VerifiedIffExtended ==
    \A p \in Payments :
        /\ payment[p].status = "verified" <=> EventsOf(Buyer[p], "payment", p) # {}
        /\ \A i \in EventsOf(Buyer[p], "payment", p) :
              /\ events[Buyer[p]][i].days = payment[p].days
              /\ gateway[p] = [state |-> "verified", exact |-> TRUE]

(* A code is spent with the payment that carried it, and with it only; no  *)
(* workspace spends a code twice and a payment with a code, however many   *)
(* callers settle it, gives its days once.                                 *)
CodeSpentOnceWithDays ==
    /\ \A p \in Payments :
          (payment[p].status = "verified" /\ payment[p].code # NoCode)
             <=> \E u \in uses : u.payment = p
    /\ \A u \in uses : u.code = payment[u.payment].code /\ u.ws = Buyer[u.payment]
    /\ \A u, v \in uses : u.code = v.code /\ u.ws = v.ws => u = v
    /\ \A p \in Payments : payment[p].code # NoCode =>
          \A i, j \in EventsOf(Buyer[p], "payment", p) : i = j

(* However many first payments are settled at once, one introduction pays  *)
(* the referrer once, after a payment and never without the claim.         *)
ReferrerRewardedOnce ==
    \A w \in Referred :
        LET rewards == EventsOf(Referrer[w], "referral", w) IN
        /\ \A i, j \in rewards : i = j
        /\ rewards # {} => w \in rewarded /\ VerifiedPayments(w) # {}

(* The job never writes off a purchase whose money has moved or still can. *)
PaidNeverWrittenOff ==
    \A p \in Payments : payment[p].status = "failed" =>
        /\ ~(gateway[p].state \in {"paid", "verified"} /\ gateway[p].exact)
        /\ ~(gateway[p].state = "open" /\ payment[p].tracked /\ payment[p].fresh)

(* The same message about the same expiry is sent once, over any number of *)
(* runs, killed or repeated in one night, and only after its row is there. *)
RemindersSentOnce ==
    \A x \in BagToSet(sms) : sms[x] = 1 /\ x \in notified

(* Nobody's data goes before an expiry of theirs is thirty days past, and  *)
(* long after the read-only guard has closed on that expiry.               *)
DeletedWasOverdue ==
    \A w \in deleted :
        /\ w \notin NeverExpires
        /\ \E i \in DOMAIN events[w] : now >= events[w][i].new + DeletionDays

(* Money that moved for what was asked ends as days, though the browser    *)
(* never came back and though calls fail, finitely often: the sweep.       *)
PaidGetsItsDays ==
    \A p \in Payments :
        (gateway[p].state = "paid" /\ gateway[p].exact /\ payment[p].code = NoCode)
           ~> (payment[p].status = "verified" \/ Buyer[p] \in deleted)

-----------------------------------------------------------------------------
(* What comments in the code say and a run refutes. *)

(* zibal.ts of result 201: "The subscription must not be extended a second *)
(* time for it".                                                           *)
ExtendedOnce ==
    \A p \in Payments : \A i, j \in EventsOf(Buyer[p], "payment", p) : i = j

(* subscriptionJob.ts of its sweep: "Gives every payment still open an     *)
(* ending".                                                                *)
OpenPaymentEnds ==
    \A p \in Payments :
        (checkout[p] = "done" /\ payment[p].status = "pending")
           ~> (payment[p].status # "pending")

(* schema.prisma: the data of a deleted workspace "was removed after 30    *)
(* days past expiry", of the expiry that it has when the data goes.        *)
DeletedOnlyLapsed ==
    [][\A w \in deleted' \ deleted : now >= expires[w] + DeletionDays]_billingVars
=============================================================================

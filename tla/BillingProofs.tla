---------------------------- MODULE BillingProofs ----------------------------
(***************************************************************************)
(* What billing keeps for every set of workspaces, payments, codes and     *)
(* callers and every length of the periods: the expiry is the chain of its *)
(* events, a payment gives days for money that moved, a code and an        *)
(* introduction are spent once, the nightly job warns once, deletes nobody *)
(* early and writes off no purchase that was paid.                         *)
(*                                                                         *)
(* The invariants the runs check say nothing of a call on its way, so none *)
(* of them is inductive.  BillingInv adds what a call or the run already   *)
(* knows: what stage the purchase in its hand has reached, that two calls  *)
(* never hold one claim, and that what the run read at its start was once  *)
(* true and is still true of the things that cannot change back.           *)
(***************************************************************************)
EXTENDS Billing, TLAPS

-----------------------------------------------------------------------------
(* A purchase passes its stages in one order, and only forwards. *)
StageKept(p) ==
    /\ checkout[p] = "idle" <=> payment[p].status = "none"
    /\ checkout[p] = "requesting" => payment[p].status = "pending" /\ ~payment[p].tracked
    /\ payment[p].tracked <=> gateway[p].state # "none"
    /\ payment[p].status # "none" => payment[p].days \in PlanDays
    /\ payment[p].status = "none" => ~payment[p].tracked
    /\ payment[p].status = "verified" => gateway[p] = [state |-> "verified", exact |-> TRUE]
    /\ payment[p].status = "failed" =>
          \/ gateway[p].state = "none"
          \/ gateway[p].state = "verified" /\ ~gateway[p].exact
          \/ gateway[p].state = "open" /\ ~payment[p].fresh

PurchaseStages == \A p \in Payments : StageKept(p)

(* A settlement in flight knows of its payment what it has seen of it. *)
CallKnows(s) ==
    /\ call[s].pc # "idle" => call[s].of \in Payments /\ payment[call[s].of].tracked
    /\ call[s].pc = "mismatch" =>
          gateway[call[s].of].state = "verified" /\ ~gateway[call[s].of].exact
    /\ call[s].pc = "committing" =>
          gateway[call[s].of] = [state |-> "verified", exact |-> TRUE]
    /\ call[s].pc \in {"counting", "claiming", "rewarding"} =>
          payment[call[s].of].status = "verified"
    /\ call[s].pc \in {"claiming", "rewarding"} => Buyer[call[s].of] \in Referred

CallsKnow == \A s \in Callers : CallKnows(s)

(* Who holds a claim holds it alone, and has not yet given the days. *)
ClaimHeldOnce ==
    /\ \A s \in Callers, w \in Referred :
          call[s].pc = "rewarding" /\ Buyer[call[s].of] = w =>
             w \in rewarded /\ EventsOf(Referrer[w], "referral", w) = {}
    /\ \A s, t \in Callers :
          call[s].pc = "rewarding" /\ call[t].pc = "rewarding"
             /\ Buyer[call[s].of] = Buyer[call[t].of] => s = t

(* What the run read when it began, and what it has in its hand. *)
RunKnows ==
    /\ job.clock =< now
    /\ job.pc # "off" => \A w \in Workspaces :
          \E i \in DOMAIN events[w] : events[w][i].new = job.snap[w]
    /\ \A p \in job.old : payment[p].status # "none" /\ ~payment[p].fresh
    /\ job.pc \in {"notifying", "sending", "marking", "deleting"} => job.at \in Workspaces
    /\ job.pc \in {"closing", "settling", "awaiting"} => job.at \in Payments
    /\ job.pc = "deleting" => DeletionDue(job.at)
    /\ job.pc = "closing" => job.at \in job.old /\ gateway[job.at].state = "open"

(* A message about to go has its row and has never gone. *)
AboutToSend ==
    job.pc = "sending" => /\ MessagesDue \subseteq notified
                          /\ MessagesDue \cap BagToSet(sms) = {}

BillingInv ==
    /\ BillingTypeOK
    /\ PurchaseStages
    /\ CallsKnow
    /\ ClaimHeldOnce
    /\ RunKnows
    /\ AboutToSend
    /\ ExpiryIsChainOfEvents
    /\ VerifiedIffExtended
    /\ CodeSpentOnceWithDays
    /\ ReferrerRewardedOnce
    /\ RemindersSentOnce
    /\ DeletedWasOverdue
-----------------------------------------------------------------------------
(* Appending a row to a sequence of events keeps the rows that were there. *)
LEMMA AppendEvent ==
    ASSUME NEW sq \in Seq(EventRow), NEW e \in EventRow
    PROVE  /\ Append(sq, e) \in Seq(EventRow)
           /\ Len(sq) \in Nat /\ DOMAIN sq = 1 .. Len(sq)
           /\ DOMAIN Append(sq, e) = 1 .. Len(sq) + 1
           /\ Len(Append(sq, e)) = Len(sq) + 1
           /\ \A i \in 1 .. Len(sq) : Append(sq, e)[i] = sq[i]
           /\ Append(sq, e)[Len(sq) + 1] = e
OBVIOUS

(* What extendSubscription does to a workspace: one more event, which adds *)
(* its days to what was left, and the expiry is what that event says.      *)
LEMMA Extends ==
    ASSUME BillingTypeOK, NEW w \in Workspaces, NEW type \in {"payment", "referral"},
           NEW days \in Nat \ {0}, NEW cause \in Workspaces \cup Payments,
           ExtendSubscription(w, type, days, cause)
    PROVE  /\ expires' \in [Workspaces -> Nat] /\ status' \in [Workspaces -> StatusColumn]
           /\ events' \in [Workspaces -> Seq(EventRow)]
           /\ Len(events[w]) \in Nat /\ DOMAIN events[w] = 1 .. Len(events[w])
           /\ DOMAIN events'[w] = 1 .. Len(events[w]) + 1
           /\ Len(events'[w]) = Len(events[w]) + 1
           /\ \A i \in 1 .. Len(events[w]) : events'[w][i] = events[w][i]
           /\ events'[w][Len(events[w]) + 1].type = type
           /\ events'[w][Len(events[w]) + 1].cause = cause
           /\ events'[w][Len(events[w]) + 1].days = days
           /\ events'[w][Len(events[w]) + 1].prev = expires[w]
           /\ events'[w][Len(events[w]) + 1].new = expires'[w]
           /\ expires'[w] >= expires[w] + days
           /\ \A v \in Workspaces \ {w} : events'[v] = events[v] /\ expires'[v] = expires[v]
<1> DEFINE base == IF expires[w] > now THEN expires[w] ELSE now
           e == [type |-> type, days |-> days, prev |-> expires[w],
                 new |-> base + days, cause |-> cause]
<1>1. /\ now \in Nat /\ expires \in [Workspaces -> Nat]
      /\ status \in [Workspaces -> StatusColumn] /\ events \in [Workspaces -> Seq(EventRow)]
  BY DEF BillingTypeOK
<1>2. base \in Nat /\ base >= expires[w]
  BY <1>1
<1>3. /\ expires' = [expires EXCEPT ![w] = base + days]
      /\ status' = [status EXCEPT ![w] = "active"]
      /\ events' = [events EXCEPT ![w] = Append(events[w], e)]
  BY DEF ExtendSubscription
<1> HIDE DEF base
<1>4. e \in EventRow
  BY <1>1, <1>2 DEF EventRow
<1>5. /\ e.type = type /\ e.cause = cause /\ e.days = days
      /\ e.prev = expires[w] /\ e.new = base + days
  OBVIOUS
<1> HIDE DEF e
<1>6. /\ events'[w] = Append(events[w], e)
      /\ \A v \in Workspaces \ {w} : events'[v] = events[v]
  BY <1>1, <1>3
<1>7. /\ Append(events[w], e) \in Seq(EventRow)
      /\ Len(events[w]) \in Nat /\ DOMAIN events[w] = 1 .. Len(events[w])
      /\ DOMAIN Append(events[w], e) = 1 .. Len(events[w]) + 1
      /\ Len(Append(events[w], e)) = Len(events[w]) + 1
      /\ \A i \in 1 .. Len(events[w]) : Append(events[w], e)[i] = events[w][i]
      /\ Append(events[w], e)[Len(events[w]) + 1] = e
  BY <1>1, <1>4, AppendEvent
<1>8. /\ expires' \in [Workspaces -> Nat] /\ expires'[w] = base + days
      /\ \A v \in Workspaces \ {w} : expires'[v] = expires[v]
      /\ status' \in [Workspaces -> StatusColumn]
  BY <1>1, <1>2, <1>3 DEF StatusColumn
<1>9. events' \in [Workspaces -> Seq(EventRow)]
  BY <1>1, <1>3, <1>7
<1> QED BY <1>1, <1>2, <1>5, <1>6, <1>7, <1>8, <1>9

(* The events of a cause gain the new one if it is theirs, and no other.   *)
LEMMA PaymentExtends ==
    ASSUME BillingTypeOK, NEW p \in Payments, NEW days \in Nat \ {0},
           ExtendSubscription(Buyer[p], "payment", days, p)
    PROVE  /\ \A q \in Payments : \A i \in EventsOf(Buyer[q], "payment", q) :
                 events'[Buyer[q]][i] = events[Buyer[q]][i]
           /\ \A q \in Payments \ {p} :
                 EventsOf(Buyer[q], "payment", q)' = EventsOf(Buyer[q], "payment", q)
           /\ EventsOf(Buyer[p], "payment", p)' =
                 EventsOf(Buyer[p], "payment", p) \cup {Len(events[Buyer[p]]) + 1}
           /\ events'[Buyer[p]][Len(events[Buyer[p]]) + 1].days = days
           /\ \A w \in Referred :
                 EventsOf(Referrer[w], "referral", w)' = EventsOf(Referrer[w], "referral", w)
<1> DEFINE b == Buyer[p]
           n == Len(events[b])
<1>1. Buyer \in [Payments -> Workspaces] /\ \A w \in Referred : Referrer[w] \in Workspaces
  BY CheckoutAssumption
<1>2. /\ n \in Nat /\ DOMAIN events[b] = 1 .. n /\ DOMAIN events'[b] = 1 .. n + 1
      /\ \A i \in 1 .. n : events'[b][i] = events[b][i]
      /\ events'[b][n + 1].type = "payment" /\ events'[b][n + 1].cause = p
      /\ events'[b][n + 1].days = days
      /\ \A v \in Workspaces \ {b} : events'[v] = events[v]
  BY <1>1, Extends
<1> HIDE DEF n
<1>3. 1 .. n + 1 = (1 .. n) \cup {n + 1} /\ n + 1 \notin 1 .. n
  BY <1>2
<1>4. \A q \in Payments : \A i \in EventsOf(Buyer[q], "payment", q) :
         events'[Buyer[q]][i] = events[Buyer[q]][i]
  BY <1>1, <1>2 DEF EventsOf
<1>5. ASSUME NEW q \in Payments \ {p}
      PROVE  EventsOf(Buyer[q], "payment", q)' = EventsOf(Buyer[q], "payment", q)
  <2>1. CASE Buyer[q] # b
    BY <1>1, <1>2, <2>1 DEF EventsOf
  <2>2. CASE Buyer[q] = b
    BY <1>2, <1>3, <2>2 DEF EventsOf
  <2> QED BY <2>1, <2>2
<1>6. EventsOf(Buyer[p], "payment", p)' = EventsOf(Buyer[p], "payment", p) \cup {n + 1}
  BY <1>2, <1>3 DEF EventsOf
<1>7. ASSUME NEW w \in Referred
      PROVE  EventsOf(Referrer[w], "referral", w)' = EventsOf(Referrer[w], "referral", w)
  <2>1. CASE Referrer[w] # b
    BY <1>1, <1>2, <2>1 DEF EventsOf
  <2>2. CASE Referrer[w] = b
    BY <1>2, <1>3, <2>2 DEF EventsOf
  <2> QED BY <2>1, <2>2
<1> QED BY <1>2, <1>4, <1>5, <1>6, <1>7 DEF n

(* A reward adds one event to those of the referrer and leaves every other as it is. *)
LEMMA ReferralExtends ==
    ASSUME BillingTypeOK, NEW w \in Referred, NEW days \in Nat \ {0},
           ExtendSubscription(Referrer[w], "referral", days, w)
    PROVE  /\ \A q \in Payments : \A i \in EventsOf(Buyer[q], "payment", q) :
                 events'[Buyer[q]][i] = events[Buyer[q]][i]
           /\ \A q \in Payments :
                 EventsOf(Buyer[q], "payment", q)' = EventsOf(Buyer[q], "payment", q)
           /\ \A v \in Referred \ {w} :
                 EventsOf(Referrer[v], "referral", v)' = EventsOf(Referrer[v], "referral", v)
           /\ EventsOf(Referrer[w], "referral", w)' =
                 EventsOf(Referrer[w], "referral", w) \cup {Len(events[Referrer[w]]) + 1}
<1> DEFINE b == Referrer[w]
           n == Len(events[b])
<1>1. /\ Buyer \in [Payments -> Workspaces] /\ \A v \in Referred : Referrer[v] \in Workspaces
      /\ w \in Workspaces
  BY CheckoutAssumption
<1>2. /\ n \in Nat /\ DOMAIN events[b] = 1 .. n /\ DOMAIN events'[b] = 1 .. n + 1
      /\ \A i \in 1 .. n : events'[b][i] = events[b][i]
      /\ events'[b][n + 1].type = "referral" /\ events'[b][n + 1].cause = w
      /\ \A v \in Workspaces \ {b} : events'[v] = events[v]
  BY <1>1, Extends
<1> HIDE DEF n
<1>3. 1 .. n + 1 = (1 .. n) \cup {n + 1} /\ n + 1 \notin 1 .. n
  BY <1>2
<1>4. \A q \in Payments : \A i \in EventsOf(Buyer[q], "payment", q) :
         events'[Buyer[q]][i] = events[Buyer[q]][i]
  BY <1>1, <1>2 DEF EventsOf
<1>5. ASSUME NEW q \in Payments
      PROVE  EventsOf(Buyer[q], "payment", q)' = EventsOf(Buyer[q], "payment", q)
  <2>1. CASE Buyer[q] # b
    BY <1>1, <1>2, <2>1 DEF EventsOf
  <2>2. CASE Buyer[q] = b
    BY <1>2, <1>3, <2>2 DEF EventsOf
  <2> QED BY <2>1, <2>2
<1>6. ASSUME NEW v \in Referred \ {w}
      PROVE  EventsOf(Referrer[v], "referral", v)' = EventsOf(Referrer[v], "referral", v)
  <2>1. CASE Referrer[v] # b
    BY <1>1, <1>2, <2>1 DEF EventsOf
  <2>2. CASE Referrer[v] = b
    BY <1>2, <1>3, <2>2 DEF EventsOf
  <2> QED BY <2>1, <2>2
<1>7. EventsOf(b, "referral", w)' = EventsOf(b, "referral", w) \cup {n + 1}
  BY <1>2, <1>3 DEF EventsOf
<1> QED BY <1>4, <1>5, <1>6, <1>7 DEF n

(* Where a purchase has begun its plan has days. *)
LEMMA PlanHasDays ==
    ASSUME PurchaseStages, NEW p \in Payments, payment[p].status # "none"
    PROVE  payment[p].days \in Nat \ {0}
BY CheckoutAssumption DEF PurchaseStages, StageKept

(* A call on its way holds a payment that was asked of the gateway and,    *)
(* once it commits or later, one that Zibal confirmed.                     *)
LEMMA CallHolds ==
    ASSUME BillingTypeOK, PurchaseStages, CallsKnow, NEW s \in Callers, call[s].pc # "idle"
    PROVE  /\ call[s].of \in Payments
           /\ Buyer[call[s].of] \in Workspaces
           /\ payment[call[s].of].tracked
           /\ payment[call[s].of].status # "none"
           /\ payment[call[s].of].days \in Nat \ {0}
<1>1. call[s].of \in Payments /\ payment[call[s].of].tracked
  BY DEF CallsKnow, CallKnows
<1>2. payment[call[s].of].status # "none"
  BY <1>1 DEF PurchaseStages, StageKept
<1>3. payment[call[s].of].days \in Nat \ {0}
  BY <1>1, <1>2, PlanHasDays
<1> QED BY <1>1, <1>2, <1>3, CheckoutAssumption

(* Moving a call from one stage to the next. *)
LEMMA GoesMoves ==
    ASSUME BillingTypeOK, NEW s \in Callers, NEW from, NEW to, Goes(s, from, to),
           to \in {"idle", "verifying", "mismatch", "committing",
                   "counting", "claiming", "rewarding"}
    PROVE  /\ call[s].pc = from
           /\ call' \in [Callers -> CallRow]
           /\ call'[s].pc = to
           /\ to # "idle" => call'[s].of = call[s].of
           /\ \A t \in Callers \ {s} : call'[t] = call[t]
<1>1. call \in [Callers -> CallRow] /\ call[s] \in CallRow
  BY DEF BillingTypeOK
<1>2. /\ call[s].pc = from
      /\ call' = [call EXCEPT ![s] = IF to = "idle" THEN NoCall
                                     ELSE [pc |-> to, of |-> call[s].of]]
  BY DEF Goes
<1>3. (IF to = "idle" THEN NoCall ELSE [pc |-> to, of |-> call[s].of]) \in CallRow
  BY <1>1 DEF NoCall, CallRow
<1>4. /\ (IF to = "idle" THEN NoCall ELSE [pc |-> to, of |-> call[s].of]).pc = to
      /\ to # "idle" => (IF to = "idle" THEN NoCall
                         ELSE [pc |-> to, of |-> call[s].of]).of = call[s].of
  BY DEF NoCall
<1> QED BY <1>1, <1>2, <1>3, <1>4

-----------------------------------------------------------------------------
(* What the steps of the checkouts, the settlements and the run leave      *)
(* alone.                                                                  *)
LEMMA SettleFrame ==
    ASSUME NEW s \in Callers, SettleStep(s) \/ SettleFails(s)
    PROVE  UNCHANGED <<now, deleted, checkout>>
BY DEF SettleStep, SettleFails, VerifyPayment, NotPaid, RecordMismatch, CommitSettlement,
       AbortSettlement, CountPayments, ClaimReferral, RewardReferrer, RevertClaim, CallDies,
       ExtendSubscription, subscriptionVars, checkoutVars

(* A step of the nightly job changes at most these, each by one kind of step. *)
LEMMA JobFrame ==
    ASSUME JobStep
    PROVE  /\ UNCHANGED <<now, expires, events, checkout, gateway, uses, rewarded, faults>>
           /\ \/ UNCHANGED payment
              \/ CloseUnpaid
           /\ \/ UNCHANGED call
              \/ ReadPayment(Job, job.at) /\ Turns("settling", "awaiting")
           /\ \/ UNCHANGED deleted
              \/ DeleteWorkspace
           /\ \/ UNCHANGED status
              \/ DeleteWorkspace
              \/ MarkStatus
           /\ \/ UNCHANGED sms
              \/ SendMessage
BY DEF JobStep, TakeWorkspace, ClaimNotification, SendMessage, MarkStatus, DeleteWorkspace,
       TurnToPayments, Inquire, CloseUnpaid, SettleOpen, SettlementReturns, EndRun,
       ReadPayment, subscriptionVars, checkoutVars, settlementVars

-----------------------------------------------------------------------------
(* The rows of payments and of the gateway after one of their columns is   *)
(* written.                                                                *)
LEMMA RowsMade ==
    /\ \A r \in PaymentRow :
          /\ [r EXCEPT !.tracked = TRUE] \in PaymentRow
          /\ [r EXCEPT !.fresh = FALSE] \in PaymentRow
          /\ [r EXCEPT !.status = "failed"] \in PaymentRow
          /\ [r EXCEPT !.status = "verified"] \in PaymentRow
    /\ \A r \in GatewayRow :
          /\ [r EXCEPT !.state = "open"] \in GatewayRow
          /\ [r EXCEPT !.state = "verified"] \in GatewayRow
BY DEF PaymentRow, GatewayRow

(* The checkouts and the customers keep the types. *)
LEMMA BuyTyped ==
    ASSUME BillingTypeOK, NEW p \in Payments, Buy(p)
    PROVE  BillingTypeOK'
<1>1. UNCHANGED <<now, expires, deleted, status, events, uses, call, rewarded, faults,
                  job, notified, sms>>
  BY DEF Buy, subscriptionVars, settlementVars, jobVars
<1>2. /\ payment \in [Payments -> PaymentRow] /\ gateway \in [Payments -> GatewayRow]
      /\ checkout \in [Payments -> {"idle", "requesting", "done"}] /\ now \in Nat
  BY DEF BillingTypeOK
<1> DEFINE Typed == /\ payment' \in [Payments -> PaymentRow]
                    /\ gateway' \in [Payments -> GatewayRow]
                    /\ checkout' \in [Payments -> {"idle", "requesting", "done"}]
<1>3. Typed
  <2>1. ASSUME NEW c \in Codes \cup {NoCode}, Checkout(p, c)
        PROVE  Typed
    <3>1. PICK d \in PlanDays : payment' = [payment EXCEPT ![p] =
                         [status |-> "pending", tracked |-> FALSE, days |-> d, code |-> c,
                          created |-> now, fresh |-> TRUE]]
      BY <2>1 DEF Checkout
    <3>2. [status |-> "pending", tracked |-> FALSE, days |-> d, code |-> c,
           created |-> now, fresh |-> TRUE] \in PaymentRow
      BY <1>2, <2>1, CheckoutAssumption DEF PaymentRow
    <3> QED BY <1>2, <2>1, <3>1, <3>2 DEF Checkout
  <2>2. CASE RequestPayment(p)
    BY <1>2, <2>2, RowsMade DEF RequestPayment
  <2>3. CASE RequestThrows(p)
    BY <1>2, <2>3, RowsMade DEF RequestThrows
  <2>4. CASE CustomerPays(p)
    BY <1>2, <2>4 DEF CustomerPays, GatewayRow
  <2>5. CASE HourPasses(p)
    BY <1>2, <2>5, RowsMade DEF HourPasses
  <2> HIDE DEF Typed
  <2> QED BY <2>1, <2>2, <2>3, <2>4, <2>5 DEF Buy, CheckoutStep
<1> QED BY <1>1, <1>3 DEF BillingTypeOK

(* A settlement keeps the types: the days of the commit are those of a     *)
(* plan and those of the reward are a constant.                            *)
LEMMA SettleTyped ==
    ASSUME BillingTypeOK, PurchaseStages, CallsKnow, NEW s \in Callers, SettleStep(s) \/ SettleFails(s),
           UNCHANGED jobVars
    PROVE  BillingTypeOK'
<1>1. UNCHANGED <<now, deleted, checkout, job, notified, sms>>
  BY SettleFrame DEF jobVars
<1>2. /\ payment \in [Payments -> PaymentRow] /\ gateway \in [Payments -> GatewayRow]
      /\ call \in [Callers -> CallRow] /\ rewarded \in SUBSET Referred
      /\ uses \in SUBSET UseRow /\ faults \in Nat
      /\ expires \in [Workspaces -> Nat] /\ status \in [Workspaces -> StatusColumn]
      /\ events \in [Workspaces -> Seq(EventRow)]
  BY DEF BillingTypeOK
<1>3. call[s].pc # "idle"
  BY DEF SettleStep, SettleFails, VerifyPayment, NotPaid, RecordMismatch, CommitSettlement,
         AbortSettlement, CountPayments, ClaimReferral, RewardReferrer, RevertClaim, CallDies, Goes
<1>4. /\ call[s].of \in Payments /\ Buyer[call[s].of] \in Workspaces
      /\ payment[call[s].of].days \in Nat \ {0}
  BY <1>3, CallHolds
<1>5. call' \in [Callers -> CallRow]
  <2>1. CASE CallDies(s)
    BY <1>2, <2>1 DEF CallDies, CallRow, NoCall
  <2>2. \/ \E from : \E to \in {"idle", "verifying", "mismatch", "committing",
                                "counting", "claiming", "rewarding"} : Goes(s, from, to)
        \/ CallDies(s)
    BY DEF SettleStep, SettleFails, VerifyPayment, NotPaid, RecordMismatch, CommitSettlement,
           AbortSettlement, CountPayments, ClaimReferral, RewardReferrer, RevertClaim
  <2> QED BY <2>1, <2>2, GoesMoves
<1>6. /\ gateway' \in [Payments -> GatewayRow] /\ payment' \in [Payments -> PaymentRow]
  <2> DEFINE p == call[s].of
  <2>1. /\ payment[p] \in PaymentRow /\ gateway[p] \in GatewayRow
    BY <1>2, <1>4
  <2>2. /\ [payment EXCEPT ![p].status = "failed"] \in [Payments -> PaymentRow]
        /\ [payment EXCEPT ![p].status = "verified"] \in [Payments -> PaymentRow]
        /\ [gateway EXCEPT ![p].state = "verified"] \in [Payments -> GatewayRow]
    BY <1>2, <2>1, RowsMade
  <2>3. /\ \/ payment' = payment
           \/ payment' = [payment EXCEPT ![p].status = "failed"]
           \/ payment' = [payment EXCEPT ![p].status = "verified"]
        /\ gateway' = gateway \/ gateway' = [gateway EXCEPT ![p].state = "verified"]
    BY DEF SettleStep, SettleFails, VerifyPayment, NotPaid, RecordMismatch,
       CommitSettlement, AbortSettlement, CountPayments, ClaimReferral, RewardReferrer,
       RevertClaim, CallDies, checkoutVars
  <2> QED BY <1>2, <2>2, <2>3
<1>7. /\ uses' \in SUBSET UseRow /\ faults' \in Nat
  <2>1. payment[call[s].of].code \in Codes \cup {NoCode}
    BY <1>2, <1>4 DEF PaymentRow
  <2>2. uses' = uses \/ SpendCode(call[s].of)
    BY DEF SettleStep, SettleFails, VerifyPayment, NotPaid, RecordMismatch,
       CommitSettlement, AbortSettlement, CountPayments, ClaimReferral, RewardReferrer,
       RevertClaim, CallDies
  <2>3. uses' \in SUBSET UseRow
    BY <1>2, <1>4, <2>1, <2>2 DEF SpendCode, UseRow
  <2>4. faults' = faults \/ faults' = faults + 1
    BY DEF SettleStep, SettleFails, VerifyPayment, NotPaid, RecordMismatch,
       CommitSettlement, AbortSettlement, CountPayments, ClaimReferral, RewardReferrer,
       RevertClaim, CallDies
  <2> QED BY <1>2, <2>3, <2>4
<1>8. rewarded' \in SUBSET Referred
  <2>1. ClaimReferral(s) => Buyer[call[s].of] \in Referred
    BY DEF ClaimReferral, Goes, CallsKnow, CallKnows
  <2>2. \/ rewarded' = rewarded \/ ClaimReferral(s)
        \/ rewarded' = rewarded \ {Buyer[call[s].of]}
    BY DEF SettleStep, SettleFails, VerifyPayment, NotPaid, RecordMismatch,
       CommitSettlement, AbortSettlement, CountPayments, RewardReferrer,
       RevertClaim, CallDies
  <2> QED BY <1>2, <2>1, <2>2 DEF ClaimReferral
<1>9. /\ expires' \in [Workspaces -> Nat] /\ status' \in [Workspaces -> StatusColumn]
      /\ events' \in [Workspaces -> Seq(EventRow)]
  <2>1. CASE CommitSettlement(s)
    <3> ExtendSubscription(Buyer[call[s].of], "payment", payment[call[s].of].days, call[s].of)
      BY <2>1 DEF CommitSettlement
    <3> QED BY <1>4, Extends
  <2>2. CASE RewardReferrer(s)
    <3>1. Buyer[call[s].of] \in Referred
      BY <2>2 DEF RewardReferrer, Goes, CallsKnow, CallKnows
    <3>2. Referrer[Buyer[call[s].of]] \in Workspaces
      BY <3>1, CheckoutAssumption
    <3>3. ExtendSubscription(Referrer[Buyer[call[s].of]], "referral", RewardDays, Buyer[call[s].of])
      BY <2>2 DEF RewardReferrer
    <3> QED BY <1>4, <3>2, <3>3, Extends, SettlementAssumption
  <2>3. CASE UNCHANGED <<expires, status, events>>
    BY <1>2, <2>3
  <2> QED BY <2>1, <2>2, <2>3 DEF SettleStep, SettleFails, VerifyPayment, NotPaid, RecordMismatch,
             AbortSettlement, CountPayments, ClaimReferral, RevertClaim, CallDies,
             subscriptionVars
<1> QED BY <1>1, <1>5, <1>6, <1>7, <1>8, <1>9 DEF BillingTypeOK

(* The run's own record and the messages keep their types. *)
LEMMA RunRecordTyped ==
    ASSUME BillingTypeOK, RunKnows, JobStep
    PROVE  job' \in JobRow
<1> DEFINE PCs == {"off", "workspaces", "notifying", "sending", "marking", "deleting",
                   "payments", "closing", "settling", "awaiting"}
<1>1. job \in JobRow
  BY DEF BillingTypeOK
<1>2. \A pc \in PCs : [job EXCEPT !.pc = pc] \in JobRow
  BY <1>1 DEF JobRow
<1>3. \A pc \in PCs, at \in Workspaces \cup Payments \cup {NoCause},
         rest \in SUBSET (Workspaces \cup Payments) :
         [job EXCEPT !.at = at, !.rest = rest, !.pc = pc] \in JobRow
  BY <1>1 DEF JobRow
<1>4. job.rest \in SUBSET (Workspaces \cup Payments)
  BY <1>1 DEF JobRow
<1>5. ASSUME NEW w \in Workspaces, TakeWorkspace(w)
      PROVE  job' \in JobRow
  BY <1>3, <1>4, <1>5 DEF TakeWorkspace
<1>6. CASE TurnToPayments
  <2>1. job' = [job EXCEPT !.at = NoCause, !.rest = OpenPayments, !.pc = "payments"]
    BY <1>1, <1>6 DEF TurnToPayments, JobRow
  <2>2. OpenPayments \in SUBSET (Workspaces \cup Payments)
    BY DEF OpenPayments
  <2> QED BY <1>3, <2>1, <2>2
<1>7. ASSUME NEW p \in Payments, Inquire(p)
      PROVE  job' \in JobRow
  BY <1>3, <1>4, <1>7 DEF Inquire
<1>8. CASE EndRun
  BY <1>8 DEF EndRun, NoRun, JobRow
<1>9. CASE \E from, to \in PCs : Turns(from, to)
  BY <1>2, <1>9 DEF Turns
<1>10. CASE ClaimNotification
  BY <1>2, <1>10 DEF ClaimNotification, Turns
<1> QED BY <1>5, <1>6, <1>7, <1>8, <1>9, <1>10 DEF JobStep, SendMessage, MarkStatus,
           DeleteWorkspace, CloseUnpaid, SettleOpen, SettlementReturns

(* A message is sent as one more copy in the bag of all that were sent. *)
LEMMA SentTyped ==
    ASSUME IsABag(sms), SendMessage
    PROVE  /\ IsABag(sms')
           /\ BagToSet(sms') = BagToSet(sms) \cup MessagesDue
           /\ \A x \in BagToSet(sms') :
                 sms'[x] = (IF x \in BagToSet(sms) THEN sms[x] ELSE 0)
                              + (IF x \in MessagesDue THEN 1 ELSE 0)
<1>1. sms' = sms (+) SetToBag(MessagesDue)
  BY DEF SendMessage
<1> DEFINE M == MessagesDue
<1>2. MessagesDue = M
  OBVIOUS
<1> HIDE DEF M
<1>3. /\ DOMAIN SetToBag(M) = M /\ \A x \in M : SetToBag(M)[x] = 1
  BY DEF SetToBag
<1>4. DOMAIN sms' = DOMAIN sms \cup M
  BY <1>1, <1>2, <1>3 DEF (+)
<1>5. \A x \in DOMAIN sms' :
         sms'[x] = (IF x \in DOMAIN sms THEN sms[x] ELSE 0) + (IF x \in M THEN 1 ELSE 0)
  BY <1>1, <1>2, <1>3, <1>4 DEF (+)
<1>6. \A x \in DOMAIN sms : sms[x] \in Nat /\ sms[x] > 0
  BY DEF IsABag
<1>7. \A x \in DOMAIN sms' : sms'[x] \in {n \in Nat : n > 0}
  BY <1>4, <1>5, <1>6
<1>8. sms' = [x \in DOMAIN sms' |-> sms'[x]]
  BY <1>1, <1>2, <1>3, <1>4 DEF (+)
<1>9. IsABag(sms')
  BY <1>7, <1>8 DEF IsABag
<1> QED BY <1>2, <1>4, <1>5, <1>9 DEF BagToSet

(* A step of the run keeps the types. *)
LEMMA JobTyped ==
    ASSUME BillingTypeOK, RunKnows, JobStep
    PROVE  BillingTypeOK'
<1>1. UNCHANGED <<now, expires, events, checkout, gateway, uses, rewarded, faults>>
  BY JobFrame
<1>2. job' \in JobRow
  BY RunRecordTyped
<1>3. payment' \in [Payments -> PaymentRow]
  <2>1. CASE CloseUnpaid
    <3>1. job.at \in Payments
      BY <2>1 DEF CloseUnpaid, Turns, RunKnows
    <3> QED BY <2>1, <3>1, RowsMade DEF CloseUnpaid, BillingTypeOK
  <2> QED BY <2>1, JobFrame DEF BillingTypeOK
<1>4. call' \in [Callers -> CallRow]
  <2>1. CASE ReadPayment(Job, job.at) /\ Turns("settling", "awaiting")
    <3>1. job.at \in Payments
      BY <2>1 DEF Turns, RunKnows
    <3> QED BY <2>1, <3>1 DEF ReadPayment, BillingTypeOK, CallRow
  <2> QED BY <2>1, JobFrame DEF BillingTypeOK
<1>5. deleted' \in SUBSET Workspaces /\ status' \in [Workspaces -> StatusColumn]
  <2>1. CASE DeleteWorkspace
    <3>1. job.at \in Workspaces
      BY <2>1 DEF DeleteWorkspace, Turns, RunKnows
    <3> QED BY <2>1, <3>1 DEF DeleteWorkspace, BillingTypeOK, StatusColumn
  <2>2. CASE MarkStatus
    BY <2>2 DEF MarkStatus, BillingTypeOK, StatusColumn, StatusDue
  <2> QED BY <2>1, <2>2, JobFrame DEF BillingTypeOK
<1>6. IsABag(sms')
  BY JobFrame, SentTyped DEF BillingTypeOK
<1> QED BY <1>1, <1>2, <1>3, <1>4, <1>5, <1>6 DEF BillingTypeOK

(* Every step keeps the types. *)
LEMMA TypeNext ==
    ASSUME BillingTypeOK, PurchaseStages, CallsKnow, RunKnows, [BillingNext]_billingVars
    PROVE  BillingTypeOK'
<1>1. ASSUME NEW p \in Payments, Buy(p) PROVE BillingTypeOK'
  BY <1>1, BuyTyped
<1>2. ASSUME NEW s \in Pages, OpenPage(s) PROVE BillingTypeOK'
  <2>1. PICK p \in Payments : ReadPayment(s, p)
    BY <1>2 DEF OpenPage
  <2>2. call' \in [Callers -> CallRow]
    BY <2>1 DEF ReadPayment, BillingTypeOK, CallRow, Callers
  <2> QED BY <1>2, <2>1, <2>2 DEF OpenPage, ReadPayment, BillingTypeOK, jobVars, subscriptionVars,
             checkoutVars
<1>3. ASSUME NEW s \in Callers, Settle(s) PROVE BillingTypeOK'
  BY <1>3, SettleTyped DEF Settle
<1>4. CASE CronRuns
  <2>1. job' \in JobRow
    BY <1>4 DEF CronRuns, StartRun, BillingTypeOK, JobRow
  <2> QED BY <1>4, <2>1 DEF CronRuns, StartRun, BillingTypeOK, subscriptionVars, checkoutVars, settlementVars
<1>5. CASE JobStep
  BY <1>5, JobTyped
<1>6. CASE DayPasses
  <2>1. now' \in Nat /\ payment' = [p \in Payments |-> [payment[p] EXCEPT !.fresh = FALSE]]
    BY <1>6 DEF DayPasses, BillingTypeOK
  <2>2. \A p \in Payments : [payment[p] EXCEPT !.fresh = FALSE] \in PaymentRow
    BY RowsMade DEF BillingTypeOK
  <2>3. payment' \in [Payments -> PaymentRow]
    BY <2>1, <2>2
  <2> QED BY <1>6, <2>1, <2>3 DEF DayPasses, BillingTypeOK, settlementVars, jobVars
<1>7. CASE Fault
  <2>1. ASSUME NEW p \in Payments, CheckoutDies(p), faults' = faults + 1,
               UNCHANGED <<subscriptionVars, uses, call, rewarded, jobVars>>
        PROVE  BillingTypeOK'
    BY <2>1 DEF CheckoutDies, BillingTypeOK, subscriptionVars, jobVars
  <2>2. ASSUME NEW s \in Callers, SettleFails(s), UNCHANGED jobVars PROVE BillingTypeOK'
    BY <2>2, SettleTyped
  <2>3. CASE LoopCatches
    <3>1. job' \in JobRow
      <4>1. job \in JobRow
        BY DEF BillingTypeOK
      <4>2. \/ \E pc \in {"workspaces", "payments"} : job' = [job EXCEPT !.pc = pc]
            \/ \E p \in job.rest : job' = [job EXCEPT !.rest = job.rest \ {p}]
        BY <2>3, <4>1 DEF LoopCatches, Turns
      <4> QED BY <4>1, <4>2 DEF JobRow
    <3> QED BY <2>3, <3>1 DEF LoopCatches, BillingTypeOK, subscriptionVars, checkoutVars
  <2>4. CASE JobDies
    <3>1. job' \in JobRow /\ call' \in [Callers -> CallRow]
      BY <2>4 DEF JobDies, NoRun, NoCall, BillingTypeOK, JobRow, CallRow
    <3> QED BY <2>4, <3>1 DEF JobDies, BillingTypeOK, subscriptionVars, checkoutVars
  <2> QED BY <1>7, <2>1, <2>2, <2>3, <2>4 DEF Fault
<1>8. CASE UNCHANGED billingVars
  BY <1>8 DEF billingVars, BillingTypeOK, subscriptionVars, checkoutVars, settlementVars, jobVars
<1> QED BY <1>1, <1>2, <1>3, <1>4, <1>5, <1>6, <1>7, <1>8 DEF BillingNext

-----------------------------------------------------------------------------
(* What nothing takes back: what a purchase is for, that it was asked of   *)
(* the gateway, that its hour is over, that it was settled and what Zibal  *)
(* has verified; and once the hour is over nobody pays what is open.       *)
Forward(p) ==
    /\ payment[p].status # "none" =>
          /\ payment'[p].status # "none"
          /\ payment'[p].days = payment[p].days
          /\ payment'[p].code = payment[p].code
          /\ payment[p].tracked => payment'[p].tracked
          /\ ~payment[p].fresh => ~payment'[p].fresh
    /\ payment[p].status = "verified" => payment'[p].status = "verified"
    /\ gateway[p].state = "verified" => gateway'[p] = gateway[p]
    /\ gateway[p].state = "open" /\ ~payment[p].fresh => gateway'[p] = gateway[p]

PurchasesMove == PurchaseStages' /\ \A p \in Payments : Forward(p)

(* A step moves one purchase at a time, but for the day that passes. *)
LEMMA OneMoves ==
    ASSUME PurchaseStages, NEW p \in Payments, StageKept(p)', Forward(p),
           \A q \in Payments \ {p} : /\ payment'[q] = payment[q]
                                     /\ gateway'[q] = gateway[q]
                                     /\ checkout'[q] = checkout[q]
    PROVE  PurchasesMove
<1>1. ASSUME NEW q \in Payments \ {p} PROVE StageKept(q)' /\ Forward(q)
  BY <1>1 DEF StageKept, Forward, PurchaseStages
<1> QED BY <1>1 DEF PurchaseStages, PurchasesMove

(* Where no purchase moves. *)
LEMMA NoneMoves ==
    ASSUME PurchaseStages, UNCHANGED <<payment, checkout, gateway>>
    PROVE  PurchasesMove
BY DEF PurchaseStages, PurchasesMove, StageKept, Forward

(* The checkouts and the customers move a purchase forwards. *)
LEMMA BuyMoves ==
    ASSUME BillingTypeOK, PurchaseStages, NEW p \in Payments, Buy(p)
    PROVE  PurchasesMove
<1>1. /\ payment \in [Payments -> PaymentRow] /\ gateway \in [Payments -> GatewayRow]
      /\ checkout \in [Payments -> {"idle", "requesting", "done"}]
      /\ payment[p] \in PaymentRow /\ gateway[p] \in GatewayRow
  BY DEF BillingTypeOK
<1>2. StageKept(p)
  BY DEF PurchaseStages
<1>3. ASSUME NEW c \in Codes \cup {NoCode}, Checkout(p, c) PROVE PurchasesMove
  <2>1. PICK d \in PlanDays : payment' = [payment EXCEPT ![p] =
                         [status |-> "pending", tracked |-> FALSE, days |-> d, code |-> c,
                          created |-> now, fresh |-> TRUE]]
    BY <1>3 DEF Checkout
  <2>2. /\ payment'[p].status = "pending" /\ ~payment'[p].tracked /\ payment'[p].days = d
        /\ checkout[p] = "idle" /\ checkout'[p] = "requesting" /\ gateway' = gateway
        /\ \A q \in Payments \ {p} : payment'[q] = payment[q] /\ checkout'[q] = checkout[q]
    BY <1>1, <1>3, <2>1 DEF Checkout
  <2>3. StageKept(p)' /\ Forward(p)
    BY <1>1, <1>2, <2>2 DEF StageKept, Forward
  <2> QED BY <2>2, <2>3, OneMoves
<1>4. CASE RequestPayment(p)
  <2>1. /\ checkout[p] = "requesting" /\ checkout'[p] = "done"
        /\ payment'[p] = [payment[p] EXCEPT !.tracked = TRUE]
        /\ gateway'[p] = [gateway[p] EXCEPT !.state = "open"]
        /\ \A q \in Payments \ {p} : /\ payment'[q] = payment[q] /\ checkout'[q] = checkout[q]
                                     /\ gateway'[q] = gateway[q]
    BY <1>1, <1>4 DEF RequestPayment
  <2>2. /\ payment'[p].tracked /\ payment'[p].status = payment[p].status
        /\ payment'[p].days = payment[p].days /\ payment'[p].code = payment[p].code
        /\ payment'[p].fresh = payment[p].fresh /\ gateway'[p].state = "open"
    BY <1>1, <2>1 DEF PaymentRow, GatewayRow
  <2>3. StageKept(p)' /\ Forward(p)
    BY <1>2, <2>1, <2>2 DEF StageKept, Forward
  <2> QED BY <2>1, <2>3, OneMoves
<1>5. CASE RequestThrows(p)
  <2>1. /\ checkout[p] = "requesting" /\ checkout'[p] = "done"
        /\ payment'[p] = [payment[p] EXCEPT !.status = "failed"]
        /\ gateway' = gateway
        /\ \A q \in Payments \ {p} : /\ payment'[q] = payment[q] /\ checkout'[q] = checkout[q]
    BY <1>1, <1>5 DEF RequestThrows
  <2>2. /\ payment'[p].status = "failed" /\ payment'[p].tracked = payment[p].tracked
        /\ payment'[p].days = payment[p].days /\ payment'[p].code = payment[p].code
        /\ payment'[p].fresh = payment[p].fresh
    BY <1>1, <2>1 DEF PaymentRow
  <2>3. StageKept(p)' /\ Forward(p)
    BY <1>2, <2>1, <2>2 DEF StageKept, Forward
  <2> QED BY <2>1, <2>3, OneMoves
<1>6. CASE CustomerPays(p)
  <2>1. PICK e \in BOOLEAN : gateway' = [gateway EXCEPT ![p] = [state |-> "paid", exact |-> e]]
    BY <1>6 DEF CustomerPays
  <2>2. /\ gateway[p].state = "open" /\ payment[p].fresh /\ gateway'[p].state = "paid"
        /\ payment' = payment /\ checkout' = checkout
        /\ \A q \in Payments \ {p} : gateway'[q] = gateway[q]
    BY <1>1, <1>6, <2>1 DEF CustomerPays
  <2>3. StageKept(p)' /\ Forward(p)
    BY <1>2, <2>2 DEF StageKept, Forward
  <2> QED BY <2>2, <2>3, OneMoves
<1>7. CASE HourPasses(p)
  <2>1. /\ payment'[p] = [payment[p] EXCEPT !.fresh = FALSE]
        /\ gateway' = gateway /\ checkout' = checkout
        /\ \A q \in Payments \ {p} : payment'[q] = payment[q]
    BY <1>1, <1>7 DEF HourPasses
  <2>2. /\ payment'[p].status = payment[p].status /\ payment'[p].tracked = payment[p].tracked
        /\ payment'[p].days = payment[p].days /\ payment'[p].code = payment[p].code
        /\ payment'[p].fresh = FALSE
    BY <1>1, <2>1 DEF PaymentRow
  <2>3. StageKept(p)' /\ Forward(p)
    BY <1>2, <2>1, <2>2 DEF StageKept, Forward
  <2> QED BY <2>1, <2>3, OneMoves
<1> QED BY <1>3, <1>4, <1>5, <1>6, <1>7 DEF Buy, CheckoutStep

(* A settlement writes its own purchase off for a wrong amount only, and   *)
(* makes it verified for the right one only.                               *)
LEMMA SettleMoves ==
    ASSUME BillingTypeOK, PurchaseStages, CallsKnow, NEW s \in Callers, SettleStep(s) \/ SettleFails(s)
    PROVE  PurchasesMove
<1>1. call[s].pc # "idle"
  BY DEF SettleStep, SettleFails, VerifyPayment, NotPaid, RecordMismatch, CommitSettlement,
         AbortSettlement, CountPayments, ClaimReferral, RewardReferrer, RevertClaim, CallDies, Goes
<1> PICK p \in Payments : p = call[s].of
  BY <1>1, CallHolds
<1>2. p \in Payments /\ payment[p].tracked /\ payment[p].status # "none"
  BY <1>1, CallHolds
<1>3. /\ payment \in [Payments -> PaymentRow] /\ gateway \in [Payments -> GatewayRow]
      /\ payment[p] \in PaymentRow /\ gateway[p] \in GatewayRow /\ StageKept(p)
  BY <1>2 DEF BillingTypeOK, PurchaseStages
<1>4. /\ call[s].pc = "mismatch" => gateway[p].state = "verified" /\ ~gateway[p].exact
      /\ call[s].pc = "committing" => gateway[p] = [state |-> "verified", exact |-> TRUE]
  BY DEF CallsKnow, CallKnows
<1>5. checkout' = checkout
  BY SettleFrame
<1>6. \/ UNCHANGED <<payment, gateway>>
      \/ /\ gateway' = [gateway EXCEPT ![p].state = "verified"] /\ payment' = payment
         /\ gateway[p].state \in {"paid", "verified"}
      \/ /\ payment' = [payment EXCEPT ![p].status = "failed"] /\ gateway' = gateway
         /\ call[s].pc = "mismatch"
      \/ /\ payment' = [payment EXCEPT ![p].status = "verified"] /\ gateway' = gateway
         /\ call[s].pc = "committing"
  BY DEF SettleStep, SettleFails, VerifyPayment, NotPaid, RecordMismatch, CommitSettlement,
         AbortSettlement, CountPayments, ClaimReferral, RewardReferrer, RevertClaim, CallDies, Goes,
         checkoutVars
<1>7. CASE UNCHANGED <<payment, gateway>>
  BY <1>5, <1>7, NoneMoves
<1>8. CASE /\ gateway' = [gateway EXCEPT ![p].state = "verified"] /\ payment' = payment
           /\ gateway[p].state \in {"paid", "verified"}
  <2>1. /\ gateway'[p].state = "verified" /\ gateway'[p].exact = gateway[p].exact
        /\ gateway[p].state = "verified" => gateway'[p] = gateway[p]
        /\ \A q \in Payments \ {p} : gateway'[q] = gateway[q]
    BY <1>2, <1>3, <1>8 DEF GatewayRow
  <2>2. StageKept(p)' /\ Forward(p)
    BY <1>3, <1>5, <1>8, <2>1 DEF StageKept, Forward
  <2> QED BY <1>2, <1>5, <1>8, <2>1, <2>2, OneMoves
<1>9. CASE /\ payment' = [payment EXCEPT ![p].status = "failed"] /\ gateway' = gateway
           /\ call[s].pc = "mismatch"
  <2>1. /\ payment'[p] = [payment[p] EXCEPT !.status = "failed"]
        /\ \A q \in Payments \ {p} : payment'[q] = payment[q]
    BY <1>2, <1>3, <1>9
  <2>2. /\ payment'[p].status = "failed" /\ payment'[p].tracked = payment[p].tracked
        /\ payment'[p].days = payment[p].days /\ payment'[p].code = payment[p].code
        /\ payment'[p].fresh = payment[p].fresh
    BY <1>3, <2>1 DEF PaymentRow
  <2>3. payment[p].status # "verified"
    BY <1>3, <1>4, <1>9 DEF StageKept
  <2>4. StageKept(p)' /\ Forward(p)
    BY <1>2, <1>3, <1>4, <1>5, <1>9, <2>2, <2>3 DEF StageKept, Forward
  <2> QED BY <1>2, <1>5, <1>9, <2>1, <2>4, OneMoves
<1>10. CASE /\ payment' = [payment EXCEPT ![p].status = "verified"] /\ gateway' = gateway
            /\ call[s].pc = "committing"
  <2>1. /\ payment'[p] = [payment[p] EXCEPT !.status = "verified"]
        /\ \A q \in Payments \ {p} : payment'[q] = payment[q]
    BY <1>2, <1>3, <1>10
  <2>2. /\ payment'[p].status = "verified" /\ payment'[p].tracked = payment[p].tracked
        /\ payment'[p].days = payment[p].days /\ payment'[p].code = payment[p].code
        /\ payment'[p].fresh = payment[p].fresh
    BY <1>3, <2>1 DEF PaymentRow
  <2>3. StageKept(p)' /\ Forward(p)
    BY <1>2, <1>3, <1>4, <1>5, <1>10, <2>2 DEF StageKept, Forward
  <2> QED BY <1>2, <1>5, <1>10, <2>1, <2>3, OneMoves
<1> QED BY <1>6, <1>7, <1>8, <1>9, <1>10

(* Every step moves purchases forwards, whoever takes it. *)
LEMMA PurchasesNext ==
    ASSUME BillingTypeOK, PurchaseStages, CallsKnow, RunKnows, [BillingNext]_billingVars
    PROVE  PurchasesMove
<1>1. ASSUME NEW p \in Payments, Buy(p) PROVE PurchasesMove
  BY <1>1, BuyMoves
<1>2. ASSUME NEW s \in Pages, OpenPage(s) PROVE PurchasesMove
  BY <1>2, NoneMoves DEF OpenPage, ReadPayment, checkoutVars
<1>3. ASSUME NEW s \in Callers, Settle(s) PROVE PurchasesMove
  BY <1>3, SettleMoves DEF Settle
<1>4. CASE CronRuns
  BY <1>4, NoneMoves DEF CronRuns, StartRun, checkoutVars
<1>5. CASE JobStep
  <2>1. CASE CloseUnpaid
    <3>1. /\ job.pc = "closing" /\ UNCHANGED <<checkout, gateway>>
          /\ payment' = IF payment[job.at].status = "pending"
                        THEN [payment EXCEPT ![job.at].status = "failed"] ELSE payment
      BY <2>1 DEF CloseUnpaid, Turns
    <3> PICK p \in Payments : p = job.at
      BY <3>1 DEF RunKnows
    <3>2. /\ gateway[p].state = "open" /\ ~payment[p].fresh /\ StageKept(p)
          /\ payment \in [Payments -> PaymentRow] /\ payment[p] \in PaymentRow
      BY <3>1 DEF RunKnows, PurchaseStages, BillingTypeOK
    <3>3. CASE payment[p].status = "pending"
      <4>1. /\ payment'[p] = [payment[p] EXCEPT !.status = "failed"]
            /\ \A q \in Payments \ {p} : payment'[q] = payment[q]
        BY <3>1, <3>2, <3>3
      <4>2. /\ payment'[p].status = "failed" /\ payment'[p].tracked = payment[p].tracked
            /\ payment'[p].days = payment[p].days /\ payment'[p].code = payment[p].code
            /\ payment'[p].fresh = payment[p].fresh
        BY <3>2, <4>1 DEF PaymentRow
      <4>3. StageKept(p)' /\ Forward(p)
        BY <3>1, <3>2, <3>3, <4>2 DEF StageKept, Forward
      <4> QED BY <3>1, <4>1, <4>3, OneMoves
    <3>4. CASE payment[p].status # "pending"
      BY <3>1, <3>4, NoneMoves
    <3> QED BY <3>3, <3>4
  <2> QED BY <1>5, <2>1, JobFrame, NoneMoves
<1>6. CASE DayPasses
  <2>1. /\ UNCHANGED <<checkout, gateway>>
        /\ \A p \in Payments : payment'[p] = [payment[p] EXCEPT !.fresh = FALSE]
    BY <1>6 DEF DayPasses
  <2>2. ASSUME NEW p \in Payments PROVE StageKept(p)' /\ Forward(p)
    <3> payment[p] \in PaymentRow
      BY DEF BillingTypeOK
    <3>1. /\ payment'[p].status = payment[p].status /\ payment'[p].tracked = payment[p].tracked
          /\ payment'[p].days = payment[p].days /\ payment'[p].code = payment[p].code
          /\ payment'[p].fresh = FALSE
      BY <2>1 DEF PaymentRow
    <3>2. StageKept(p)
      BY DEF PurchaseStages
    <3> QED BY <2>1, <3>1, <3>2 DEF StageKept, Forward
  <2> QED BY <2>2 DEF PurchasesMove, PurchaseStages
<1>7. CASE Fault
  <2>1. ASSUME NEW p \in Payments, CheckoutDies(p) PROVE PurchasesMove
    <3>1. /\ checkout[p] = "requesting" /\ checkout'[p] = "done" /\ UNCHANGED <<payment, gateway>>
          /\ \A q \in Payments \ {p} : checkout'[q] = checkout[q]
      BY <2>1 DEF CheckoutDies, BillingTypeOK
    <3>2. StageKept(p)' /\ Forward(p)
      BY <3>1 DEF StageKept, Forward, PurchaseStages
    <3> QED BY <3>1, <3>2, OneMoves
  <2>2. ASSUME NEW s \in Callers, SettleFails(s) PROVE PurchasesMove
    BY <2>2, SettleMoves
  <2>3. CASE LoopCatches \/ JobDies
    BY <2>3, NoneMoves DEF LoopCatches, JobDies, checkoutVars
  <2> QED BY <1>7, <2>1, <2>2, <2>3 DEF Fault
<1>8. CASE UNCHANGED billingVars
  BY <1>8, NoneMoves DEF billingVars, checkoutVars
<1> QED BY <1>1, <1>2, <1>3, <1>4, <1>5, <1>6, <1>7, <1>8 DEF BillingNext

-----------------------------------------------------------------------------
(* What a call knows stays true while others move. *)
LEMMA CallStillKnows ==
    ASSUME PurchaseStages, PurchasesMove, NEW s \in Callers, CallKnows(s), call'[s] = call[s]
    PROVE  CallKnows(s)'
<1>1. CASE call[s].pc = "idle"
  BY <1>1 DEF CallKnows
<1>2. CASE call[s].pc # "idle"
  <2> PICK p \in Payments : p = call[s].of
    BY <1>2 DEF CallKnows
  <2>1. payment[p].tracked /\ payment[p].status # "none" /\ Forward(p)
    BY <1>2 DEF CallKnows, PurchaseStages, StageKept, PurchasesMove
  <2>2. /\ payment'[p].tracked
        /\ payment[p].status = "verified" => payment'[p].status = "verified"
        /\ gateway[p].state = "verified" => gateway'[p] = gateway[p]
    BY <2>1 DEF Forward
  <2> QED BY <1>2, <2>2 DEF CallKnows
<1> QED BY <1>1, <1>2

(* A call that ends knows nothing. *)
LEMMA IdleKnows ==
    ASSUME NEW s \in Callers, call'[s].pc = "idle"
    PROVE  CallKnows(s)'
BY DEF CallKnows

(* Each stage of a settlement learns what the next one relies on. *)
LEMMA StageLearns ==
    ASSUME BillingTypeOK, PurchaseStages, CallsKnow, PurchasesMove,
           NEW s \in Callers, SettleStep(s) \/ SettleFails(s)
    PROVE  CallKnows(s)' /\ \A t \in Callers \ {s} : call'[t] = call[t]
<1>1. call \in [Callers -> CallRow] /\ CallKnows(s)
  BY DEF BillingTypeOK, CallsKnow
<1>2. call[s].pc # "idle"
  BY DEF SettleStep, SettleFails, VerifyPayment, NotPaid, RecordMismatch, CommitSettlement,
         AbortSettlement, CountPayments, ClaimReferral, RewardReferrer, RevertClaim, CallDies, Goes
<1> PICK p \in Payments : p = call[s].of
  BY <1>2, CallHolds
<1>3. payment[p].tracked /\ payment'[p].tracked /\ gateway[p] \in GatewayRow
  BY <1>2, CallHolds DEF PurchasesMove, Forward, BillingTypeOK
<1>4. CASE CallDies(s)
  BY <1>1, <1>4, IdleKnows DEF CallDies, NoCall
<1>5. CASE NotPaid(s) \/ RecordMismatch(s) \/ AbortSettlement(s) \/ RewardReferrer(s) \/ RevertClaim(s)
  <2>1. \E from : Goes(s, from, "idle")
    BY <1>5 DEF NotPaid, RecordMismatch, AbortSettlement, RewardReferrer, RevertClaim
  <2>2. call'[s].pc = "idle" /\ \A t \in Callers \ {s} : call'[t] = call[t]
    BY <2>1, GoesMoves
  <2> QED BY <2>2, IdleKnows
<1>6. CASE VerifyPayment(s)
  <2>1. /\ Goes(s, "verifying", IF gateway[p].exact THEN "committing" ELSE "mismatch")
        /\ gateway' = [gateway EXCEPT ![p].state = "verified"]
    BY <1>6 DEF VerifyPayment
  <2>2. gateway'[p] = [gateway[p] EXCEPT !.state = "verified"]
    BY <2>1 DEF BillingTypeOK
  <2>3. gateway'[p] = [state |-> "verified", exact |-> gateway[p].exact] /\ gateway[p].exact \in BOOLEAN
    BY <1>3, <2>2 DEF GatewayRow
  <2>4. /\ call'[s].pc = (IF gateway[p].exact THEN "committing" ELSE "mismatch")
        /\ call'[s].of = p /\ \A t \in Callers \ {s} : call'[t] = call[t]
    BY <2>1, GoesMoves
  <2>5. CASE gateway[p].exact
    <3>1. gateway'[p] = [state |-> "verified", exact |-> TRUE] /\ call'[s].pc = "committing"
      BY <2>3, <2>4, <2>5
    <3> QED BY <1>3, <2>4, <3>1 DEF CallKnows
  <2>6. CASE ~gateway[p].exact
    <3>1. /\ gateway'[p].state = "verified" /\ ~gateway'[p].exact
          /\ call'[s].pc = "mismatch"
      BY <2>3, <2>4, <2>6
    <3> QED BY <1>3, <2>4, <3>1 DEF CallKnows
  <2> QED BY <2>5, <2>6
<1>7. CASE CommitSettlement(s)
  <2>1. /\ Goes(s, "committing", "counting")
        /\ payment' = [payment EXCEPT ![p].status = "verified"]
    BY <1>7 DEF CommitSettlement
  <2>2. payment'[p].status = "verified"
    BY <2>1 DEF BillingTypeOK, PaymentRow
  <2>3. /\ call'[s].pc = "counting" /\ call'[s].of = p
        /\ \A t \in Callers \ {s} : call'[t] = call[t]
    BY <2>1, GoesMoves
  <2> QED BY <1>3, <2>2, <2>3 DEF CallKnows
<1>8. CASE CountPayments(s) \/ ClaimReferral(s)
  <2>1. PICK from \in {"counting", "claiming"}, to \in {"idle", "claiming", "rewarding"} :
           Goes(s, from, to) /\ (to # "idle" => Buyer[p] \in Referred)
    BY <1>1, <1>8 DEF CountPayments, ClaimReferral, CallKnows, Goes
  <2>2. payment[p].status = "verified" /\ payment'[p].status = "verified"
    BY <1>1, <2>1 DEF Goes, CallKnows, PurchasesMove, Forward
  <2>3. /\ call'[s].pc = to /\ (to # "idle" => call'[s].of = p)
        /\ \A t \in Callers \ {s} : call'[t] = call[t]
    BY <2>1, GoesMoves
  <2> QED BY <1>3, <2>1, <2>2, <2>3 DEF CallKnows
<1> QED BY <1>4, <1>5, <1>6, <1>7, <1>8 DEF SettleStep, SettleFails

(* Every step keeps what the calls know. *)
LEMMA CallsNext ==
    ASSUME BillingTypeOK, PurchaseStages, CallsKnow, RunKnows, PurchasesMove, [BillingNext]_billingVars
    PROVE  CallsKnow'
<1>1. ASSUME call' = call PROVE CallsKnow'
  BY <1>1, CallStillKnows DEF CallsKnow
<1>2. ASSUME NEW s \in Callers, NEW p \in Payments, ReadPayment(s, p) PROVE CallsKnow'
  <2>1. /\ call'[s] = [pc |-> "verifying", of |-> p] /\ payment[p].tracked /\ payment' = payment
        /\ \A t \in Callers \ {s} : call'[t] = call[t]
    BY <1>2 DEF ReadPayment, BillingTypeOK, checkoutVars
  <2>2. CallKnows(s)'
    BY <2>1 DEF CallKnows
  <2> QED BY <2>1, <2>2, CallStillKnows DEF CallsKnow
<1>3. ASSUME NEW s \in Callers, SettleStep(s) \/ SettleFails(s) PROVE CallsKnow'
  <2>1. CallKnows(s)' /\ \A t \in Callers \ {s} : call'[t] = call[t]
    BY <1>3, StageLearns
  <2> QED BY <2>1, CallStillKnows DEF CallsKnow
<1>4. CASE JobDies
  <2>1. call'[Job].pc = "idle" /\ \A t \in Callers \ {Job} : call'[t] = call[t]
    BY <1>4 DEF JobDies, BillingTypeOK, NoCall, Callers
  <2>2. \A t \in Callers : CallKnows(t)'
    BY <2>1, CallStillKnows, IdleKnows DEF CallsKnow
  <2> QED BY <2>2 DEF CallsKnow
<1>5. CASE JobStep
  <2>1. CASE ReadPayment(Job, job.at) /\ Turns("settling", "awaiting")
    <3> PICK p \in Payments : p = job.at
      BY <2>1 DEF Turns, RunKnows
    <3> QED BY <1>2, <2>1 DEF Callers
  <2> QED BY <1>1, <1>5, <2>1, JobFrame
<1>6. CASE \E s \in Pages : OpenPage(s)
  BY <1>2, <1>6 DEF OpenPage, Callers
<1>7. CASE (\E p \in Payments : Buy(p)) \/ CronRuns \/ DayPasses \/ UNCHANGED billingVars
  BY <1>1, <1>7 DEF Buy, CronRuns, StartRun, DayPasses, billingVars, settlementVars
<1>8. CASE Fault
  BY <1>1, <1>3, <1>4, <1>8 DEF Fault, LoopCatches
<1>9. CASE \E s \in Callers : Settle(s)
  BY <1>3, <1>9 DEF Settle
<1> QED BY <1>5, <1>6, <1>7, <1>8, <1>9 DEF BillingNext

-----------------------------------------------------------------------------
(* Only the commit of a settlement and the reward of a referrer write an   *)
(* event, and only the commit spends a code or makes a payment verified.   *)
Quiet ==
    /\ UNCHANGED <<events, expires, uses>>
    /\ \A p \in Payments : payment'[p].status = "verified" => payment[p].status = "verified"

(* Where a step leaves the status of every payment or writes another one.  *)
LEMMA QuietWrites ==
    ASSUME BillingTypeOK, UNCHANGED <<events, expires, uses>>,
           \/ payment' = payment
           \/ \E p \in Payments : \/ payment' = [payment EXCEPT ![p].status = "failed"]
                                  \/ payment' = [payment EXCEPT ![p].tracked = TRUE]
                                  \/ payment' = [payment EXCEPT ![p].fresh = FALSE]
    PROVE  Quiet
<1>1. payment \in [Payments -> PaymentRow] /\ \A p \in Payments : payment[p] \in PaymentRow
  BY DEF BillingTypeOK
<1>2. ASSUME NEW p \in Payments, payment' = [payment EXCEPT ![p].status = "failed"]
      PROVE  Quiet
  <2>1. payment'[p].status = "failed" /\ \A q \in Payments \ {p} : payment'[q] = payment[q]
    BY <1>1, <1>2 DEF PaymentRow
  <2> QED BY <2>1 DEF Quiet
<1>3. ASSUME NEW p \in Payments, \/ payment' = [payment EXCEPT ![p].tracked = TRUE]
                                 \/ payment' = [payment EXCEPT ![p].fresh = FALSE]
      PROVE  Quiet
  <2>1. /\ payment'[p].status = payment[p].status
        /\ \A q \in Payments \ {p} : payment'[q] = payment[q]
    BY <1>1, <1>3 DEF PaymentRow
  <2> QED BY <2>1 DEF Quiet
<1> QED BY <1>2, <1>3 DEF Quiet

(* Each step commits a settlement, pays a reward out, or touches no event and no use. *)
LEMMA StepKinds ==
    ASSUME BillingTypeOK, PurchaseStages, CallsKnow, RunKnows, [BillingNext]_billingVars
    PROVE  \/ \E s \in Callers : CommitSettlement(s) \/ RewardReferrer(s)
           \/ Quiet
<1>1. ASSUME NEW p \in Payments, Buy(p) PROVE Quiet
  <2>1. UNCHANGED <<events, expires, uses>>
    BY <1>1 DEF Buy, subscriptionVars
  <2>2. ASSUME NEW c, Checkout(p, c) PROVE Quiet
    <3>1. payment'[p].status = "pending" /\ \A q \in Payments \ {p} : payment'[q] = payment[q]
      BY <2>2 DEF Checkout, BillingTypeOK
    <3> QED BY <2>1, <3>1 DEF Quiet
  <2> QED BY <1>1, <2>1, <2>2, QuietWrites DEF Buy, CheckoutStep, RequestPayment, RequestThrows,
             CustomerPays, HourPasses
<1>2. ASSUME NEW s \in Callers, SettleStep(s) \/ SettleFails(s)
      PROVE  \/ CommitSettlement(s) \/ RewardReferrer(s)
             \/ Quiet
  <2>1. CASE RecordMismatch(s)
    <3>1. call[s].of \in Payments
      BY <2>1 DEF RecordMismatch, Goes, CallsKnow, CallKnows
    <3> QED BY <2>1, <3>1, QuietWrites DEF RecordMismatch, subscriptionVars
  <2>2. CASE \/ VerifyPayment(s) \/ NotPaid(s) \/ AbortSettlement(s) \/ CountPayments(s)
             \/ ClaimReferral(s) \/ RevertClaim(s) \/ CallDies(s)
    BY <2>2, QuietWrites DEF VerifyPayment, NotPaid, AbortSettlement, CountPayments,
       ClaimReferral, RevertClaim, CallDies, subscriptionVars, checkoutVars
  <2> QED BY <1>2, <2>1, <2>2 DEF SettleStep, SettleFails
<1>3. CASE JobStep
  <2>1. UNCHANGED <<events, expires, uses>> /\ (UNCHANGED payment \/ CloseUnpaid)
    BY <1>3, JobFrame
  <2>2. CASE CloseUnpaid
    <3>1. job.at \in Payments
      BY <2>2 DEF CloseUnpaid, Turns, RunKnows
    <3> QED BY <2>1, <2>2, <3>1, QuietWrites DEF CloseUnpaid
  <2> QED BY <2>1, <2>2, QuietWrites
<1>4. CASE DayPasses
  <2>1. /\ UNCHANGED <<events, expires, uses>>
        /\ \A p \in Payments : payment'[p] = [payment[p] EXCEPT !.fresh = FALSE]
    BY <1>4 DEF DayPasses
  <2>2. \A p \in Payments : payment'[p].status = payment[p].status
    <3> \A p \in Payments : payment[p] \in PaymentRow
      BY DEF BillingTypeOK
    <3> QED BY <2>1 DEF PaymentRow
  <2> QED BY <2>1, <2>2 DEF Quiet
<1>5. CASE (\E s \in Pages : OpenPage(s)) \/ CronRuns \/ UNCHANGED billingVars
  BY <1>5, QuietWrites DEF OpenPage, ReadPayment, CronRuns, StartRun, billingVars, subscriptionVars, checkoutVars
<1>6. CASE Fault
  <2>1. CASE LoopCatches \/ JobDies \/ \E p \in Payments :
                CheckoutDies(p) /\ UNCHANGED <<subscriptionVars, uses, call, rewarded, jobVars>>
    BY <2>1, QuietWrites DEF LoopCatches, JobDies, CheckoutDies, subscriptionVars, checkoutVars
  <2> QED BY <1>2, <1>6, <2>1 DEF Fault
<1> QED BY <1>1, <1>2, <1>3, <1>4, <1>5, <1>6 DEF BillingNext, Settle

(* The commit: the payment, its code and its days at once. *)
LEMMA Commits ==
    ASSUME BillingTypeOK, PurchaseStages, CallsKnow, NEW s \in Callers, CommitSettlement(s)
    PROVE  \E p \in Payments :
              /\ p = call[s].of /\ call[s].pc = "committing"
              /\ gateway[p] = [state |-> "verified", exact |-> TRUE]
              /\ payment[p].status # "none" /\ payment[p].days \in Nat \ {0}
              /\ payment[p].code \in Codes \cup {NoCode}
              /\ Buyer[p] \in Workspaces /\ ~CodeIsSpent(p) /\ SpendCode(p)
              /\ payment'[p].status = "verified" /\ payment'[p].days = payment[p].days
              /\ payment'[p].code = payment[p].code
              /\ \A q \in Payments \ {p} : payment'[q] = payment[q]
              /\ ExtendSubscription(Buyer[p], "payment", payment[p].days, p)
              /\ call'[s].pc = "counting" /\ \A t \in Callers \ {s} : call'[t] = call[t]
              /\ UNCHANGED <<gateway, rewarded>>
<1>1. /\ Goes(s, "committing", "counting") /\ ~CodeIsSpent(call[s].of) /\ SpendCode(call[s].of)
      /\ payment' = [payment EXCEPT ![call[s].of].status = "verified"]
      /\ ExtendSubscription(Buyer[call[s].of], "payment", payment[call[s].of].days, call[s].of)
      /\ UNCHANGED <<gateway, rewarded>>
  BY DEF CommitSettlement
<1>2. /\ call[s].pc = "committing" /\ call'[s].pc = "counting"
      /\ \A t \in Callers \ {s} : call'[t] = call[t]
  BY <1>1, GoesMoves
<1> PICK p \in Payments : p = call[s].of
  BY <1>2, CallHolds
<1>3. /\ payment[p].status # "none" /\ payment[p].days \in Nat \ {0} /\ Buyer[p] \in Workspaces
      /\ gateway[p] = [state |-> "verified", exact |-> TRUE]
  BY <1>2, CallHolds DEF CallsKnow, CallKnows
<1>4. payment \in [Payments -> PaymentRow] /\ payment[p] \in PaymentRow
  BY DEF BillingTypeOK
<1>5. /\ payment'[p].status = "verified" /\ payment'[p].days = payment[p].days
      /\ payment'[p].code = payment[p].code /\ payment[p].code \in Codes \cup {NoCode}
      /\ \A q \in Payments \ {p} : payment'[q] = payment[q]
  BY <1>1, <1>4 DEF PaymentRow
<1> QED BY <1>1, <1>2, <1>3, <1>5

(* The reward: the days of a referrer, for a claim that is held. *)
LEMMA Rewards ==
    ASSUME BillingTypeOK, PurchaseStages, CallsKnow, NEW s \in Callers, RewardReferrer(s)
    PROVE  \E p \in Payments :
              /\ p = call[s].of /\ call[s].pc = "rewarding"
              /\ Buyer[p] \in Referred /\ Buyer[p] \in Workspaces
              /\ Referrer[Buyer[p]] \in Workspaces
              /\ payment[p].status = "verified"
              /\ ExtendSubscription(Referrer[Buyer[p]], "referral", RewardDays, Buyer[p])
              /\ call'[s].pc = "idle" /\ \A t \in Callers \ {s} : call'[t] = call[t]
              /\ UNCHANGED <<payment, checkout, gateway, uses, rewarded>>
<1>1. /\ Goes(s, "rewarding", "idle") /\ UNCHANGED <<payment, checkout, gateway, uses, rewarded>>
      /\ ExtendSubscription(Referrer[Buyer[call[s].of]], "referral", RewardDays, Buyer[call[s].of])
  BY DEF RewardReferrer, checkoutVars
<1>2. /\ call[s].pc = "rewarding" /\ call'[s].pc = "idle"
      /\ \A t \in Callers \ {s} : call'[t] = call[t]
  BY <1>1, GoesMoves
<1> PICK p \in Payments : p = call[s].of
  BY <1>2, CallHolds
<1>3. Buyer[p] \in Referred /\ payment[p].status = "verified"
  BY <1>2 DEF CallsKnow, CallKnows
<1>4. Buyer[p] \in Workspaces /\ Referrer[Buyer[p]] \in Workspaces
  BY <1>3, CheckoutAssumption
<1> QED BY <1>1, <1>2, <1>3, <1>4

-----------------------------------------------------------------------------
(* Events are only added: what was written stays where it is. *)
EventsGrow ==
    \A w \in Workspaces : \A i \in DOMAIN events[w] :
        i \in DOMAIN events'[w] /\ events'[w][i] = events[w][i]

(* An extension keeps the chain, whoever extends, for whatever cause.      *)
LEMMA ExtendKeepsChain ==
    ASSUME BillingTypeOK, ExpiryIsChainOfEvents,
           NEW w \in Workspaces, NEW type \in {"payment", "referral"},
           NEW days \in Nat \ {0}, NEW cause \in Workspaces \cup Payments,
           ExtendSubscription(w, type, days, cause)
    PROVE  ExpiryIsChainOfEvents' /\ EventsGrow
<1> DEFINE n == Len(events[w])
<1>1. /\ n \in Nat /\ DOMAIN events[w] = 1 .. n /\ DOMAIN events'[w] = 1 .. n + 1
      /\ Len(events'[w]) = n + 1
      /\ \A i \in 1 .. n : events'[w][i] = events[w][i]
      /\ events'[w][n + 1].days = days /\ events'[w][n + 1].prev = expires[w]
      /\ events'[w][n + 1].new = expires'[w] /\ expires'[w] >= expires[w] + days
      /\ \A v \in Workspaces \ {w} : events'[v] = events[v] /\ expires'[v] = expires[v]
  BY Extends
<1>2. events[w] # <<>> /\ expires[w] = events[w][n].new /\ n > 0
  <2>1. events[w] # <<>> /\ expires[w] = events[w][n].new
    BY DEF ExpiryIsChainOfEvents
  <2>2. events[w] \in Seq(EventRow)
    BY DEF BillingTypeOK
  <2> QED BY <2>1, <2>2
<1> HIDE DEF n
<1>3. ASSUME NEW i \in 1 .. n + 1
      PROVE  /\ events'[w][i].new >= events'[w][i].prev + events'[w][i].days
             /\ i > 1 => events'[w][i].prev = events'[w][i - 1].new
  <2>1. CASE i = n + 1
    <3>1. n \in 1 .. n /\ events'[w][n] = events[w][n]
      BY <1>1, <1>2
    <3>2. events'[w][i].prev = events'[w][n].new /\ i - 1 = n
      BY <1>1, <1>2, <2>1, <3>1
    <3> QED BY <1>1, <2>1, <3>2
  <2>2. CASE i # n + 1
    <3>1. i \in 1 .. n /\ (i > 1 => i - 1 \in 1 .. n)
      BY <1>1, <2>2
    <3>2. /\ events[w][i].new >= events[w][i].prev + events[w][i].days
          /\ i > 1 => events[w][i].prev = events[w][i - 1].new
      BY <1>1, <3>1 DEF ExpiryIsChainOfEvents
    <3> QED BY <1>1, <3>1, <3>2
  <2> QED BY <2>1, <2>2
<1>4. events'[w] # <<>>
  BY <1>1
<1>5. ASSUME NEW v \in Workspaces
      PROVE  /\ events'[v] # <<>>
             /\ expires'[v] = events'[v][Len(events'[v])].new
             /\ \A i \in DOMAIN events'[v] :
                   /\ events'[v][i].new >= events'[v][i].prev + events'[v][i].days
                   /\ i > 1 => events'[v][i].prev = events'[v][i - 1].new
  <2>1. CASE v = w
    BY <1>1, <1>3, <1>4, <2>1
  <2>2. CASE v # w
    BY <1>1, <2>2 DEF ExpiryIsChainOfEvents
  <2> QED BY <2>1, <2>2
<1>6. EventsGrow
  BY <1>1 DEF EventsGrow
<1> QED BY <1>5, <1>6 DEF ExpiryIsChainOfEvents

(* Every step keeps the chain of events and takes nothing out of it. *)
LEMMA ChainNext ==
    ASSUME BillingTypeOK, PurchaseStages, CallsKnow, RunKnows, ExpiryIsChainOfEvents, [BillingNext]_billingVars
    PROVE  ExpiryIsChainOfEvents' /\ EventsGrow
<1>1. ASSUME NEW s \in Callers, CommitSettlement(s) PROVE ExpiryIsChainOfEvents' /\ EventsGrow
  <2> PICK p \in Payments :
         /\ payment[p].days \in Nat \ {0} /\ Buyer[p] \in Workspaces
         /\ ExtendSubscription(Buyer[p], "payment", payment[p].days, p)
    BY <1>1, Commits
  <2> QED BY ExtendKeepsChain
<1>2. ASSUME NEW s \in Callers, RewardReferrer(s) PROVE ExpiryIsChainOfEvents' /\ EventsGrow
  <2> PICK p \in Payments :
         /\ Buyer[p] \in Workspaces /\ Referrer[Buyer[p]] \in Workspaces
         /\ ExtendSubscription(Referrer[Buyer[p]], "referral", RewardDays, Buyer[p])
    BY <1>2, Rewards
  <2> QED BY ExtendKeepsChain, SettlementAssumption
<1>3. CASE Quiet
  BY <1>3 DEF Quiet, ExpiryIsChainOfEvents, EventsGrow
<1> QED BY <1>1, <1>2, <1>3, StepKinds

(* A payment is verified and has its days in one transaction. *)
LEMMA VerifiedNext ==
    ASSUME BillingTypeOK, PurchaseStages, CallsKnow, RunKnows, VerifiedIffExtended, PurchasesMove,
           [BillingNext]_billingVars
    PROVE  VerifiedIffExtended'
<1> DEFINE Kept(p) == /\ payment[p].status = "verified" <=> EventsOf(Buyer[p], "payment", p) # {}
                      /\ \A i \in EventsOf(Buyer[p], "payment", p) :
                            /\ events[Buyer[p]][i].days = payment[p].days
                            /\ gateway[p] = [state |-> "verified", exact |-> TRUE]
<1>1. \A p \in Payments : Kept(p) /\ Forward(p) /\ StageKept(p) /\ Buyer[p] \in Workspaces
  BY CheckoutAssumption DEF VerifiedIffExtended, PurchasesMove, PurchaseStages
<1>2. ASSUME NEW p \in Payments, EventsOf(Buyer[p], "payment", p)' = EventsOf(Buyer[p], "payment", p),
             \A i \in EventsOf(Buyer[p], "payment", p) : events'[Buyer[p]][i] = events[Buyer[p]][i],
             payment'[p].status = "verified" => payment[p].status = "verified"
      PROVE  Kept(p)'
  <2>1. CASE payment[p].status = "verified"
    <3>1. /\ payment'[p].status = "verified" /\ payment'[p].days = payment[p].days
          /\ gateway'[p] = gateway[p] /\ gateway[p].state = "verified"
      BY <1>1, <2>1 DEF Forward, StageKept
    <3> QED BY <1>1, <1>2, <2>1, <3>1
  <2>2. CASE payment[p].status # "verified"
    BY <1>1, <1>2, <2>2
  <2> QED BY <2>1, <2>2
<1>3. ASSUME NEW s \in Callers, CommitSettlement(s), NEW q \in Payments PROVE Kept(q)'
  <2> PICK p \in Payments :
         /\ p = call[s].of
         /\ gateway[p] = [state |-> "verified", exact |-> TRUE]
         /\ payment[p].days \in Nat \ {0} /\ Buyer[p] \in Workspaces
         /\ payment'[p].status = "verified" /\ payment'[p].days = payment[p].days
         /\ \A o \in Payments \ {p} : payment'[o] = payment[o]
         /\ ExtendSubscription(Buyer[p], "payment", payment[p].days, p)
         /\ UNCHANGED gateway
    BY <1>3, Commits
  <2>1. /\ \A o \in Payments : \A i \in EventsOf(Buyer[o], "payment", o) :
              events'[Buyer[o]][i] = events[Buyer[o]][i]
        /\ \A o \in Payments \ {p} :
              EventsOf(Buyer[o], "payment", o)' = EventsOf(Buyer[o], "payment", o)
        /\ EventsOf(Buyer[p], "payment", p)' =
              EventsOf(Buyer[p], "payment", p) \cup {Len(events[Buyer[p]]) + 1}
        /\ events'[Buyer[p]][Len(events[Buyer[p]]) + 1].days = payment[p].days
    BY PaymentExtends
  <2>2. CASE q = p
    <3>1. \A i \in EventsOf(Buyer[p], "payment", p) : events'[Buyer[p]][i].days = payment'[p].days
      <4>1. \A i \in EventsOf(Buyer[p], "payment", p) : events[Buyer[p]][i].days = payment[p].days
        BY <1>1
      <4>2. \A i \in EventsOf(Buyer[p], "payment", p) : events'[Buyer[p]][i] = events[Buyer[p]][i]
        BY <2>1
      <4> QED BY <4>1, <4>2
    <3>2. \A i \in EventsOf(Buyer[p], "payment", p)' : events'[Buyer[p]][i].days = payment'[p].days
      BY <2>1, <3>1
    <3>3. EventsOf(Buyer[p], "payment", p)' # {}
      BY <2>1
    <3>4. Kept(p)'
      BY <3>2, <3>3
    <3> QED BY <2>2, <3>4
  <2>3. CASE q # p
    <3>1. /\ EventsOf(Buyer[q], "payment", q)' = EventsOf(Buyer[q], "payment", q)
          /\ \A i \in EventsOf(Buyer[q], "payment", q) : events'[Buyer[q]][i] = events[Buyer[q]][i]
          /\ payment'[q].status = "verified" => payment[q].status = "verified"
      BY <2>1, <2>3
    <3> HIDE DEF Kept
    <3> QED BY <1>2, <3>1
  <2> QED BY <2>2, <2>3
<1>4. ASSUME NEW s \in Callers, RewardReferrer(s), NEW q \in Payments PROVE Kept(q)'
  <2> PICK p \in Payments :
         /\ Buyer[p] \in Referred
         /\ ExtendSubscription(Referrer[Buyer[p]], "referral", RewardDays, Buyer[p])
         /\ UNCHANGED payment
    BY <1>4, Rewards
  <2>1. /\ \A o \in Payments : \A i \in EventsOf(Buyer[o], "payment", o) :
              events'[Buyer[o]][i] = events[Buyer[o]][i]
        /\ \A o \in Payments :
              EventsOf(Buyer[o], "payment", o)' = EventsOf(Buyer[o], "payment", o)
    BY ReferralExtends, SettlementAssumption
  <2> HIDE DEF Kept
  <2> QED BY <1>2, <2>1
<1>5. ASSUME Quiet, NEW q \in Payments PROVE Kept(q)'
  <2>1. /\ EventsOf(Buyer[q], "payment", q)' = EventsOf(Buyer[q], "payment", q)
        /\ \A i \in EventsOf(Buyer[q], "payment", q) : events'[Buyer[q]][i] = events[Buyer[q]][i]
        /\ payment'[q].status = "verified" => payment[q].status = "verified"
    BY <1>5 DEF Quiet, EventsOf
  <2> QED BY <1>2, <2>1
<1>6. \A q \in Payments : Kept(q)'
  BY <1>3, <1>4, <1>5, StepKinds
<1> QED BY <1>6 DEF VerifiedIffExtended

(* A code and the payment it was on are spent together, and once. *)
LEMMA CodeNext ==
    ASSUME BillingTypeOK, PurchaseStages, CallsKnow, RunKnows, VerifiedIffExtended,
           CodeSpentOnceWithDays, PurchasesMove, [BillingNext]_billingVars
    PROVE  CodeSpentOnceWithDays'
<1>1. /\ \A p \in Payments : Forward(p) /\ StageKept(p) /\ Buyer[p] \in Workspaces
      /\ uses \in SUBSET UseRow
  BY CheckoutAssumption DEF PurchasesMove, PurchaseStages, BillingTypeOK
<1>2. /\ \A p \in Payments :
           (payment[p].status = "verified" /\ payment[p].code # NoCode)
              <=> \E u \in uses : u.payment = p
      /\ \A u \in uses : u.code = payment[u.payment].code /\ u.ws = Buyer[u.payment]
      /\ \A u, v \in uses : u.code = v.code /\ u.ws = v.ws => u = v
      /\ \A p \in Payments : payment[p].code # NoCode =>
           \A i, j \in EventsOf(Buyer[p], "payment", p) : i = j
  BY DEF CodeSpentOnceWithDays
<1>3. \A p \in Payments : /\ payment[p].status # "verified" => EventsOf(Buyer[p], "payment", p) = {}
                          /\ payment[p].status = "verified" =>
                                payment'[p].status = "verified" /\ payment'[p].code = payment[p].code
  BY <1>1 DEF VerifiedIffExtended, Forward
<1>4. \A u \in uses : u.payment \in Payments /\ payment[u.payment].status = "verified"
                      /\ payment[u.payment].code # NoCode
  BY <1>1, <1>2 DEF UseRow
<1>5. ASSUME UNCHANGED uses,
             \A p \in Payments : /\ payment'[p].status = "verified" => payment[p].status = "verified"
                                 /\ EventsOf(Buyer[p], "payment", p)' = EventsOf(Buyer[p], "payment", p)
      PROVE  CodeSpentOnceWithDays'
  <2>1. \A p \in Payments :
           (payment'[p].status = "verified" /\ payment'[p].code # NoCode)
              <=> \E u \in uses' : u.payment = p
    BY <1>2, <1>3, <1>4, <1>5
  <2>2. \A u \in uses' : u.code = payment'[u.payment].code /\ u.ws = Buyer[u.payment]
    BY <1>2, <1>3, <1>4, <1>5
  <2>3. \A p \in Payments : payment'[p].code # NoCode =>
           \A i, j \in EventsOf(Buyer[p], "payment", p)' : i = j
    BY <1>2, <1>3, <1>5
  <2>4. \A u, v \in uses' : u.code = v.code /\ u.ws = v.ws => u = v
    BY <1>2, <1>5
  <2> QED BY <2>1, <2>2, <2>3, <2>4 DEF CodeSpentOnceWithDays
<1>6. ASSUME NEW s \in Callers, CommitSettlement(s) PROVE CodeSpentOnceWithDays'
  <2> PICK p \in Payments :
         /\ p = call[s].of
         /\ payment[p].status # "none" /\ payment[p].days \in Nat \ {0}
         /\ payment[p].code \in Codes \cup {NoCode}
         /\ Buyer[p] \in Workspaces /\ ~CodeIsSpent(p) /\ SpendCode(p)
         /\ payment'[p].status = "verified" /\ payment'[p].code = payment[p].code
         /\ \A q \in Payments \ {p} : payment'[q] = payment[q]
         /\ ExtendSubscription(Buyer[p], "payment", payment[p].days, p)
    BY <1>6, Commits
  <2> DEFINE new == [code |-> payment[p].code, ws |-> Buyer[p], payment |-> p]
  <2>1. EventsOf(Buyer[p], "payment", p)' =
           EventsOf(Buyer[p], "payment", p) \cup {Len(events[Buyer[p]]) + 1}
    BY PaymentExtends
  <2>2. \A q \in Payments \ {p} :
           EventsOf(Buyer[q], "payment", q)' = EventsOf(Buyer[q], "payment", q)
    BY PaymentExtends
  <2>3. /\ new.code = payment[p].code /\ new.ws = Buyer[p] /\ new.payment = p
        /\ payment[p].code = NoCode => uses' = uses
        /\ payment[p].code # NoCode => uses' = uses \cup {new}
    BY DEF SpendCode
  <2> HIDE DEF new
  <2>4. payment[p].code # NoCode =>
           /\ ~\E u \in uses : u.payment = p
           /\ ~\E u \in uses : u.code = payment[p].code /\ u.ws = Buyer[p]
           /\ payment[p].status # "verified"
    BY <1>2 DEF CodeIsSpent
  <2>5. \A q \in Payments :
           (payment'[q].status = "verified" /\ payment'[q].code # NoCode)
              <=> \E u \in uses' : u.payment = q
    <3>1. CASE payment[p].code = NoCode
      BY <1>2, <2>3, <3>1
    <3>2. CASE payment[p].code # NoCode
      <4>1. \A q \in Payments \ {p} : (\E u \in uses' : u.payment = q) <=> (\E u \in uses : u.payment = q)
        BY <2>3, <3>2
      <4> QED BY <1>2, <2>3, <3>2, <4>1
    <3> QED BY <3>1, <3>2
  <2>6. \A u \in uses' : u.code = payment'[u.payment].code /\ u.ws = Buyer[u.payment]
    <3>1. \A u \in uses : u.code = payment'[u.payment].code /\ u.ws = Buyer[u.payment]
      BY <1>2, <1>3, <1>4
    <3> QED BY <2>3, <3>1
  <2>7. \A u, v \in uses' : u.code = v.code /\ u.ws = v.ws => u = v
    BY <1>2, <2>3, <2>4
  <2>8. \A q \in Payments : payment'[q].code # NoCode =>
           \A i, j \in EventsOf(Buyer[q], "payment", q)' : i = j
    <3>1. payment[p].code # NoCode =>
             EventsOf(Buyer[p], "payment", p)' = {Len(events[Buyer[p]]) + 1}
      BY <1>3, <2>1, <2>4
    <3>2. \A q \in Payments \ {p} : payment'[q].code # NoCode =>
             \A i, j \in EventsOf(Buyer[q], "payment", q)' : i = j
      BY <1>2, <2>2
    <3>3. payment'[p].code # NoCode => \A i, j \in EventsOf(Buyer[p], "payment", p)' : i = j
      BY <3>1
    <3> QED BY <3>2, <3>3
  <2> QED BY <2>5, <2>6, <2>7, <2>8 DEF CodeSpentOnceWithDays
<1>7. ASSUME NEW s \in Callers, RewardReferrer(s) PROVE CodeSpentOnceWithDays'
  <2> PICK p \in Payments :
         /\ Buyer[p] \in Referred
         /\ ExtendSubscription(Referrer[Buyer[p]], "referral", RewardDays, Buyer[p])
         /\ UNCHANGED <<payment, uses>>
    BY <1>7, Rewards
  <2>1. \A q \in Payments :
           EventsOf(Buyer[q], "payment", q)' = EventsOf(Buyer[q], "payment", q)
    BY ReferralExtends, SettlementAssumption
  <2> QED BY <1>5, <2>1
<1>8. CASE Quiet
  <2>1. \A p \in Payments : EventsOf(Buyer[p], "payment", p)' = EventsOf(Buyer[p], "payment", p)
    BY <1>8 DEF Quiet, EventsOf
  <2> QED BY <1>5, <1>8, <2>1 DEF Quiet
<1> QED BY <1>6, <1>7, <1>8, StepKinds

-----------------------------------------------------------------------------
(* Only a claim, its revert and the reward take a call in or out of the    *)
(* stage that holds the claim, and only the first two write rewarded_at.   *)
NoClaimMoves ==
    /\ UNCHANGED rewarded
    /\ \A s \in Callers : call'[s].pc = "rewarding" => call'[s] = call[s]

(* Each step makes a claim, pays it, gives it back, or moves none. *)
LEMMA ClaimKinds ==
    ASSUME BillingTypeOK, RunKnows, [BillingNext]_billingVars
    PROVE  \/ \E s \in Callers : ClaimReferral(s) \/ RewardReferrer(s) \/ RevertClaim(s)
           \/ NoClaimMoves
<1>1. call \in [Callers -> CallRow]
  BY DEF BillingTypeOK
<1>2. ASSUME NEW s \in Callers, SettleStep(s) \/ SettleFails(s)
      PROVE  \/ ClaimReferral(s) \/ RewardReferrer(s) \/ RevertClaim(s)
             \/ NoClaimMoves
  <2>1. CASE \/ VerifyPayment(s) \/ NotPaid(s) \/ RecordMismatch(s) \/ CommitSettlement(s)
             \/ AbortSettlement(s) \/ CountPayments(s)
    <3>1. PICK to \in {"idle", "mismatch", "committing", "counting", "claiming"} :
             \E from : Goes(s, from, to)
      BY <2>1 DEF VerifyPayment, NotPaid, RecordMismatch, CommitSettlement, AbortSettlement,
                  CountPayments
    <3>2. call'[s].pc = to /\ \A t \in Callers \ {s} : call'[t] = call[t]
      BY <3>1, GoesMoves
    <3>3. UNCHANGED rewarded
      BY <2>1 DEF VerifyPayment, NotPaid, RecordMismatch, CommitSettlement, AbortSettlement,
                  CountPayments
    <3> QED BY <3>2, <3>3 DEF NoClaimMoves
  <2>2. CASE CallDies(s)
    <3>1. call'[s].pc = "idle" /\ \A t \in Callers \ {s} : call'[t] = call[t]
      BY <1>1, <2>2 DEF CallDies, NoCall
    <3> QED BY <2>2, <3>1 DEF CallDies, NoClaimMoves
  <2> QED BY <1>2, <2>1, <2>2 DEF SettleStep, SettleFails
<1>3. ASSUME NEW s \in Callers, NEW p \in Payments, ReadPayment(s, p) PROVE NoClaimMoves
  <2>1. call'[s].pc = "verifying" /\ \A t \in Callers \ {s} : call'[t] = call[t]
    BY <1>1, <1>3 DEF ReadPayment
  <2> QED BY <1>3, <2>1 DEF ReadPayment, NoClaimMoves
<1>4. CASE JobStep
  <2>1. CASE ReadPayment(Job, job.at) /\ Turns("settling", "awaiting")
    <3>1. job.at \in Payments
      BY <2>1 DEF Turns, RunKnows
    <3> QED BY <1>3, <2>1, <3>1 DEF Callers
  <2> QED BY <1>4, <2>1, JobFrame DEF NoClaimMoves
<1>5. CASE JobDies
  <2>1. call'[Job].pc = "idle" /\ \A t \in Callers \ {Job} : call'[t] = call[t]
    BY <1>1, <1>5 DEF JobDies, NoCall, Callers
  <2> QED BY <1>5, <2>1 DEF JobDies, NoClaimMoves
<1>6. CASE (\E p \in Payments : Buy(p)) \/ CronRuns \/ DayPasses \/ UNCHANGED billingVars
  BY <1>6 DEF Buy, CronRuns, StartRun, DayPasses, billingVars, settlementVars, NoClaimMoves
<1>7. CASE \E s \in Pages : OpenPage(s)
  BY <1>3, <1>7 DEF OpenPage, Callers
<1>8. CASE Fault
  <2>1. CASE LoopCatches \/ \E p \in Payments :
                CheckoutDies(p) /\ UNCHANGED <<subscriptionVars, uses, call, rewarded, jobVars>>
    BY <2>1 DEF LoopCatches, NoClaimMoves
  <2> QED BY <1>2, <1>5, <1>8, <2>1 DEF Fault
<1>9. CASE \E s \in Callers : Settle(s)
  BY <1>2, <1>9 DEF Settle
<1> QED BY <1>4, <1>5, <1>6, <1>7, <1>8, <1>9 DEF BillingNext

(* The claim before the reward: among all that hold or want the claim of   *)
(* one introduction, one extends the referrer, once.                       *)
LEMMA ClaimNext ==
    ASSUME BillingTypeOK, PurchaseStages, CallsKnow, RunKnows, ClaimHeldOnce, ReferrerRewardedOnce,
           PurchasesMove, [BillingNext]_billingVars
    PROVE  ClaimHeldOnce' /\ ReferrerRewardedOnce'
<1> DEFINE Given(w) == EventsOf(Referrer[w], "referral", w)
           Holds(s, w) == call[s].pc = "rewarding" /\ Buyer[call[s].of] = w
<1>1. /\ \A s \in Callers, w \in Referred : Holds(s, w) => w \in rewarded /\ Given(w) = {}
      /\ \A s, t \in Callers, w \in Referred : Holds(s, w) /\ Holds(t, w) => s = t
  BY DEF ClaimHeldOnce
<1>2. \A w \in Referred : /\ \A i, j \in Given(w) : i = j
                          /\ Given(w) # {} => w \in rewarded /\ VerifiedPayments(w) # {}
  BY DEF ReferrerRewardedOnce
<1>3. \A w : VerifiedPayments(w) # {} => VerifiedPayments(w)' # {}
  BY DEF VerifiedPayments, PurchasesMove, Forward
<1>4. ASSUME \A s \in Callers, w \in Referred :
                Holds(s, w)' => w \in rewarded' /\ Given(w)' = {},
             \A s, t \in Callers, w \in Referred : Holds(s, w)' /\ Holds(t, w)' => s = t
      PROVE  ClaimHeldOnce'
  <2>1. CallsKnow'
    BY CallsNext
  <2>2. \A s \in Callers : call'[s].pc = "rewarding" => Buyer[call'[s].of] \in Referred
    BY <2>1 DEF CallsKnow, CallKnows
  <2> QED BY <1>4, <2>2 DEF ClaimHeldOnce
<1>5. ASSUME \A w \in Referred :
                /\ \A i, j \in Given(w)' : i = j
                /\ Given(w)' # {} => w \in rewarded' /\ VerifiedPayments(w)' # {}
      PROVE  ReferrerRewardedOnce'
  BY <1>5 DEF ReferrerRewardedOnce
<1> HIDE DEF Given
<1>6. ASSUME NEW s \in Callers, RewardReferrer(s)
      PROVE  ClaimHeldOnce' /\ ReferrerRewardedOnce'
  <2> PICK p \in Payments :
         /\ p = call[s].of /\ call[s].pc = "rewarding"
         /\ Buyer[p] \in Referred
         /\ payment[p].status = "verified"
         /\ ExtendSubscription(Referrer[Buyer[p]], "referral", RewardDays, Buyer[p])
         /\ call'[s].pc = "idle" /\ \A t \in Callers \ {s} : call'[t] = call[t]
         /\ UNCHANGED <<payment, rewarded>>
    BY <1>6, Rewards
  <2>1. /\ \A v \in Referred \ {Buyer[p]} : Given(v)' = Given(v)
        /\ Given(Buyer[p])' = Given(Buyer[p]) \cup {Len(events[Referrer[Buyer[p]]]) + 1}
    BY ReferralExtends, SettlementAssumption DEF Given
  <2>2. Given(Buyer[p]) = {} /\ Buyer[p] \in rewarded /\ Holds(s, Buyer[p])
    BY <1>1
  <2>3. VerifiedPayments(Buyer[p])' # {}
    BY DEF VerifiedPayments
  <2>4. ASSUME NEW w \in Referred
        PROVE  /\ \A i, j \in Given(w)' : i = j
               /\ Given(w)' # {} => w \in rewarded' /\ VerifiedPayments(w)' # {}
    <3>1. CASE w = Buyer[p]
      BY <2>1, <2>2, <2>3, <3>1
    <3>2. CASE w # Buyer[p]
      BY <1>2, <1>3, <2>1, <3>2
    <3> QED BY <3>1, <3>2
  <2>5. \A t \in Callers, w \in Referred : Holds(t, w)' => Holds(t, w) /\ t # s /\ w # Buyer[p]
    BY <1>1, <2>2
  <2>6. \A t \in Callers, w \in Referred : Holds(t, w)' => w \in rewarded' /\ Given(w)' = {}
    <3>1. ASSUME NEW t \in Callers, NEW w \in Referred, Holds(t, w)'
          PROVE  w \in rewarded' /\ Given(w)' = {}
      <4>1. Holds(t, w) /\ w # Buyer[p]
        BY <2>5, <3>1
      <4>2. w \in rewarded /\ Given(w) = {}
        BY <1>1, <4>1
      <4>3. Given(w)' = Given(w)
        BY <2>1, <4>1
      <4> QED BY <4>2, <4>3
    <3> QED BY <3>1
  <2>7. \A t, u \in Callers, w \in Referred : Holds(t, w)' /\ Holds(u, w)' => t = u
    <3>1. ASSUME NEW t \in Callers, NEW u \in Callers, NEW w \in Referred,
                 Holds(t, w)', Holds(u, w)'
          PROVE  t = u
      <4>1. Holds(t, w) /\ Holds(u, w)
        BY <2>5, <3>1
      <4> QED BY <1>1, <4>1
    <3> QED BY <3>1
  <2> HIDE DEF Holds
  <2> QED BY <1>4, <1>5, <2>4, <2>6, <2>7
<1>7. ASSUME events' = events PROVE \A w \in Referred : Given(w)' = Given(w)
  BY <1>7 DEF Given, EventsOf
<1>8. ASSUME NEW s \in Callers, ClaimReferral(s)
      PROVE  ClaimHeldOnce' /\ ReferrerRewardedOnce'
  <2> PICK v \in Referred : v = Buyer[call[s].of]
    BY <1>8 DEF ClaimReferral, Goes, CallsKnow, CallKnows
  <2>1. /\ Goes(s, "claiming", IF v \in rewarded THEN "idle" ELSE "rewarding")
        /\ rewarded' = rewarded \cup {v} /\ UNCHANGED events
    BY <1>8 DEF ClaimReferral, subscriptionVars
  <2>2. /\ call'[s].pc = (IF v \in rewarded THEN "idle" ELSE "rewarding")
        /\ v \notin rewarded => call'[s].of = call[s].of
        /\ \A t \in Callers \ {s} : call'[t] = call[t]
    BY <2>1, GoesMoves
  <2>3. \A w \in Referred : Given(w)' = Given(w)
    BY <1>7, <2>1
  <2>4. \A t \in Callers, w \in Referred : Holds(t, w)' =>
           \/ t # s /\ Holds(t, w)
           \/ t = s /\ w = v /\ v \notin rewarded
    BY <2>2
  <2>5. \A t \in Callers, w \in Referred : Holds(t, w)' => w \in rewarded' /\ Given(w)' = {}
    BY <1>1, <1>2, <2>1, <2>3, <2>4
  <2>6. \A t, u \in Callers, w \in Referred : Holds(t, w)' /\ Holds(u, w)' => t = u
    BY <1>1, <2>4
  <2>7. \A w \in Referred :
           /\ \A i, j \in Given(w)' : i = j
           /\ Given(w)' # {} => w \in rewarded' /\ VerifiedPayments(w)' # {}
    BY <1>2, <1>3, <2>1, <2>3
  <2> HIDE DEF Holds
  <2> QED BY <1>4, <1>5, <2>5, <2>6, <2>7
<1>9. ASSUME NEW s \in Callers, RevertClaim(s)
      PROVE  ClaimHeldOnce' /\ ReferrerRewardedOnce'
  <2> PICK v \in Referred : v = Buyer[call[s].of] /\ Holds(s, v)
    BY <1>9 DEF RevertClaim, Goes, CallsKnow, CallKnows
  <2>1. /\ Goes(s, "rewarding", "idle")
        /\ rewarded' = rewarded \ {v} /\ UNCHANGED events
    BY <1>9 DEF RevertClaim, subscriptionVars
  <2>2. call'[s].pc = "idle" /\ \A t \in Callers \ {s} : call'[t] = call[t]
    BY <2>1, GoesMoves
  <2>3. \A w \in Referred : Given(w)' = Given(w)
    BY <1>7, <2>1
  <2>4. \A t \in Callers, w \in Referred : Holds(t, w)' => Holds(t, w) /\ w # v
    BY <1>1, <2>2
  <2>5. \A t \in Callers, w \in Referred : Holds(t, w)' => w \in rewarded' /\ Given(w)' = {}
    BY <1>1, <2>1, <2>3, <2>4
  <2>6. \A t, u \in Callers, w \in Referred : Holds(t, w)' /\ Holds(u, w)' => t = u
    BY <1>1, <2>4
  <2>7. \A w \in Referred :
           /\ \A i, j \in Given(w)' : i = j
           /\ Given(w)' # {} => w \in rewarded' /\ VerifiedPayments(w)' # {}
    BY <1>1, <1>2, <1>3, <2>1, <2>3
  <2> HIDE DEF Holds
  <2> QED BY <1>4, <1>5, <2>5, <2>6, <2>7
<1>10. ASSUME NoClaimMoves, \A w \in Referred : Given(w)' = Given(w)
       PROVE  ClaimHeldOnce' /\ ReferrerRewardedOnce'
  <2>1. \A t \in Callers, w \in Referred : Holds(t, w)' => Holds(t, w)
    BY <1>10 DEF NoClaimMoves
  <2>2. \A t \in Callers, w \in Referred : Holds(t, w)' => w \in rewarded' /\ Given(w)' = {}
    BY <1>1, <1>10, <2>1 DEF NoClaimMoves
  <2>3. \A t, u \in Callers, w \in Referred : Holds(t, w)' /\ Holds(u, w)' => t = u
    BY <1>1, <2>1
  <2>4. \A w \in Referred :
           /\ \A i, j \in Given(w)' : i = j
           /\ Given(w)' # {} => w \in rewarded' /\ VerifiedPayments(w)' # {}
    BY <1>2, <1>3, <1>10 DEF NoClaimMoves
  <2> HIDE DEF Holds
  <2> QED BY <1>4, <1>5, <2>2, <2>3, <2>4
<1>11. ASSUME NEW s \in Callers, CommitSettlement(s)
       PROVE  \A w \in Referred : Given(w)' = Given(w)
  <2> PICK p \in Payments :
         /\ payment[p].days \in Nat \ {0}
         /\ ExtendSubscription(Buyer[p], "payment", payment[p].days, p)
    BY <1>11, Commits
  <2> QED BY PaymentExtends DEF Given
<1>12. Quiet => \A w \in Referred : Given(w)' = Given(w)
  BY <1>7 DEF Quiet
<1> QED BY <1>6, <1>8, <1>9, <1>10, <1>11, <1>12, StepKinds, ClaimKinds

-----------------------------------------------------------------------------
(* Of one workspace at most one kind of message is due on one night: the   *)
(* reminders are before the expiry, the warnings after it and no two on    *)
(* the same day.                                                           *)
LEMMA OneKindDue ==
    ASSUME BillingTypeOK, NEW w \in Workspaces
    PROVE  \A k, l \in KindsDue(w) : k = l
<1>1. job.clock \in Nat /\ job.snap[w] \in Nat
  BY DEF BillingTypeOK, JobRow
<1> DEFINE e == Elapsed(w)
<1>2. e \in Int
  BY <1>1 DEF Elapsed
<1> HIDE DEF e
<1> SUFFICES ASSUME NEW k \in KindsDue(w), NEW l \in KindsDue(w) PROVE k = l
  OBVIOUS
<1>3. ASSUME NEW m \in KindsDue(w)
      PROVE  \/ \E d \in ReminderDays : m = <<"before_expiry", d>> /\ e = -d
             \/ m = <<"on_expiry", GraceDays>> /\ e = 0
             \/ \E d \in {GraceDays, DeletionDays - WarningDays} :
                   m = <<"after_expiry", d>> /\ e = d /\ e # 0
  BY <1>3 DEF KindsDue, e
<1>4. /\ \A d \in ReminderDays : d \in Nat /\ d > 0
      /\ \A d \in {GraceDays, DeletionDays - WarningDays} : d \in Nat
  BY JobAssumption, SubscriptionAssumption
<1>5. CASE e < 0
  BY <1>2, <1>3, <1>4, <1>5
<1>6. CASE e = 0
  BY <1>2, <1>3, <1>4, <1>6
<1>7. CASE e > 0
  BY <1>2, <1>3, <1>4, <1>7
<1> QED BY <1>2, <1>5, <1>6, <1>7

(* What is due does not change while the run has the workspace in hand. *)
LEMMA SameMessagesDue ==
    ASSUME job'.clock = job.clock, job'.snap = job.snap, job'.at = job.at
    PROVE  MessagesDue' = MessagesDue
BY DEF MessagesDue, KindsDue, Elapsed

(* The fields of the run's record after a turn. *)
LEMMA TurnFields ==
    ASSUME BillingTypeOK, NEW from, NEW to, Turns(from, to)
    PROVE  /\ job.pc = from /\ job'.pc = to
           /\ job'.clock = job.clock /\ job'.snap = job.snap /\ job'.old = job.old
           /\ job'.at = job.at
BY DEF Turns, BillingTypeOK, JobRow

(* What the run knows stays true while it walks on and others move. *)
LEMMA RunWalksOn ==
    ASSUME BillingTypeOK, RunKnows, PurchasesMove, EventsGrow, now' \in Nat, now' >= now,
           job'.clock = job.clock, job'.snap = job.snap, job'.old = job.old, job.pc # "off",
           job'.pc \in {"notifying", "sending", "marking", "deleting"} => job'.at \in Workspaces,
           job'.pc \in {"closing", "settling", "awaiting"} => job'.at \in Payments,
           job'.pc = "deleting" => /\ job'.at \notin NeverExpires
                                   /\ job.clock - job.snap[job'.at] >= DeletionDays,
           job'.pc = "closing" => job'.at \in job.old /\ gateway[job'.at].state = "open"
    PROVE  RunKnows'
<1>1. job.clock \in Nat /\ now \in Nat /\ job.old \subseteq Payments
  BY DEF BillingTypeOK, JobRow
<1>2. job'.clock =< now'
  BY <1>1 DEF RunKnows
<1>3. \A w \in Workspaces : \E i \in DOMAIN events'[w] : events'[w][i].new = job.snap[w]
  BY DEF RunKnows, EventsGrow
<1>4. \A p \in job.old : payment'[p].status # "none" /\ ~payment'[p].fresh
  BY <1>1 DEF RunKnows, PurchasesMove, Forward
<1>5. job'.pc = "closing" => job'.at \in job.old /\ gateway'[job'.at].state = "open"
  BY <1>1 DEF RunKnows, PurchasesMove, Forward
<1>6. job'.pc = "deleting" => DeletionDue(job.at)'
  BY DEF DeletionDue, Elapsed
<1> QED BY <1>2, <1>3, <1>4, <1>5, <1>6 DEF RunKnows

(* A run that is off has nothing in its hand. *)
LEMMA NoRunKnows ==
    ASSUME now' \in Nat, job' = NoRun
    PROVE  RunKnows' /\ AboutToSend'
BY DEF RunKnows, NoRun, AboutToSend

(* Where the run itself does not step. *)
LEMMA RunWaits ==
    ASSUME BillingTypeOK, RunKnows, AboutToSend, PurchasesMove, EventsGrow, now' \in Nat, now' >= now,
           UNCHANGED jobVars
    PROVE  RunKnows' /\ AboutToSend'
<1>1. UNCHANGED <<job, notified, sms>>
  BY DEF jobVars
<1>2. AboutToSend'
  BY <1>1 DEF AboutToSend, MessagesDue, KindsDue, Elapsed
<1>3. CASE job.pc = "off"
  <2>1. job.clock \in Nat /\ now \in Nat /\ job.old \subseteq Payments
    BY DEF BillingTypeOK, JobRow
  <2>2. \A p \in job.old : payment'[p].status # "none" /\ ~payment'[p].fresh
    BY <2>1 DEF RunKnows, PurchasesMove, Forward
  <2> QED BY <1>1, <1>2, <1>3, <2>1, <2>2 DEF RunKnows
<1>4. CASE job.pc # "off"
  <2>1. /\ job.pc = "deleting" => /\ job.at \notin NeverExpires
                                  /\ job.clock - job.snap[job.at] >= DeletionDays
    BY DEF RunKnows, DeletionDue, Elapsed
  <2>2. RunKnows'
    BY <1>1, <1>4, <2>1, RunWalksOn DEF RunKnows
  <2> QED BY <1>2, <2>2
<1> QED BY <1>3, <1>4

(* The run begins with what is true when it begins. *)
LEMMA RunBegins ==
    ASSUME BillingTypeOK, ExpiryIsChainOfEvents, StartRun
    PROVE  RunKnows' /\ AboutToSend'
<1>1. /\ job'.pc = "workspaces" /\ job'.clock = now /\ job'.snap = expires
      /\ job'.old = {p \in Payments : payment[p].status # "none" /\ ~payment[p].fresh}
      /\ UNCHANGED <<now, events, payment, gateway>>
  BY DEF StartRun, BillingTypeOK, JobRow, subscriptionVars, checkoutVars
<1>2. \A w \in Workspaces : \E i \in DOMAIN events[w] : events[w][i].new = expires[w]
  <2> TAKE w \in Workspaces
  <2>1. events[w] \in Seq(EventRow) /\ events[w] # <<>> /\ expires[w] = events[w][Len(events[w])].new
    BY DEF BillingTypeOK, ExpiryIsChainOfEvents
  <2>2. Len(events[w]) \in DOMAIN events[w]
    BY <2>1
  <2> QED BY <2>1, <2>2
<1>3. now \in Nat
  BY DEF BillingTypeOK
<1> QED BY <1>1, <1>2, <1>3 DEF RunKnows, AboutToSend

(* The steps of the run. *)
LEMMA RunSteps ==
    ASSUME BillingTypeOK, RunKnows, AboutToSend, RemindersSentOnce, PurchasesMove, EventsGrow, JobStep
    PROVE  RunKnows' /\ AboutToSend' /\ RemindersSentOnce'
<1>1. now' = now /\ now \in Nat /\ job \in JobRow /\ IsABag(sms)
  BY JobFrame DEF BillingTypeOK
<1> DEFINE Kept == RunKnows' /\ AboutToSend' /\ RemindersSentOnce'
<1>2. ASSUME job'.clock = job.clock, job'.snap = job.snap, job'.old = job.old, job.pc # "off",
             job'.pc \in {"notifying", "sending", "marking", "deleting"} => job'.at \in Workspaces,
             job'.pc \in {"closing", "settling", "awaiting"} => job'.at \in Payments,
             job'.pc = "deleting" => /\ job'.at \notin NeverExpires
                                     /\ job.clock - job.snap[job'.at] >= DeletionDays,
             job'.pc = "closing" => job'.at \in job.old /\ gateway[job'.at].state = "open"
      PROVE  RunKnows'
  BY <1>1, <1>2, RunWalksOn
<1>3. ASSUME UNCHANGED <<notified, sms>>, job'.pc # "sending"
      PROVE  AboutToSend' /\ RemindersSentOnce'
  BY <1>3 DEF AboutToSend, RemindersSentOnce
<1>4. ASSUME NEW w \in Workspaces, TakeWorkspace(w) PROVE Kept
  <2>1. /\ job.pc = "workspaces" /\ job'.at = w
        /\ job'.clock = job.clock /\ job'.snap = job.snap /\ job'.old = job.old
        /\ job'.pc \in {"deleting", "notifying", "marking"}
        /\ job'.pc = "deleting" => DeletionDue(w)
        /\ UNCHANGED <<notified, sms>>
    BY <1>1, <1>4 DEF TakeWorkspace, JobRow
  <2>2. RunKnows'
    BY <1>2, <2>1 DEF DeletionDue, Elapsed
  <2> QED BY <1>3, <2>1, <2>2
<1>5. CASE ClaimNotification
  <2>1. /\ job.pc = "notifying" /\ job'.clock = job.clock /\ job'.snap = job.snap
        /\ job'.old = job.old /\ job'.at = job.at
        /\ job'.pc = (IF MessagesDue \subseteq notified THEN "marking" ELSE "sending")
        /\ notified' = notified \cup MessagesDue /\ UNCHANGED sms
    BY <1>5, TurnFields DEF ClaimNotification
  <2>2. job.at \in Workspaces
    BY <2>1 DEF RunKnows
  <2>3. RunKnows'
    BY <1>2, <2>1, <2>2
  <2>4. RemindersSentOnce'
    BY <2>1 DEF RemindersSentOnce
  <2>5. MessagesDue' = MessagesDue
    BY <2>1, SameMessagesDue
  <2>6. ASSUME job'.pc = "sending" PROVE MessagesDue \cap BagToSet(sms) = {}
    <3>1. \A k, l \in KindsDue(job.at) : k = l
      BY <2>2, OneKindDue
    <3>2. \A x, y \in MessagesDue : x = y
      BY <3>1 DEF MessagesDue
    <3>3. PICK x \in MessagesDue : x \notin notified
      BY <2>1, <2>6
    <3>4. x \notin BagToSet(sms)
      BY <3>3 DEF RemindersSentOnce
    <3> QED BY <3>2, <3>4
  <2>7. AboutToSend'
    BY <2>1, <2>5, <2>6 DEF AboutToSend
  <2> QED BY <2>3, <2>4, <2>7
<1>6. CASE SendMessage
  <2>1. /\ job.pc = "sending" /\ job'.pc = "marking" /\ job'.clock = job.clock
        /\ job'.snap = job.snap /\ job'.old = job.old /\ job'.at = job.at /\ UNCHANGED notified
    BY <1>6, TurnFields DEF SendMessage
  <2>2. RunKnows'
    BY <1>2, <2>1 DEF RunKnows
  <2>3. AboutToSend'
    BY <2>1 DEF AboutToSend
  <2>4. /\ BagToSet(sms') = BagToSet(sms) \cup MessagesDue
        /\ \A x \in BagToSet(sms') :
              sms'[x] = (IF x \in BagToSet(sms) THEN sms[x] ELSE 0)
                           + (IF x \in MessagesDue THEN 1 ELSE 0)
    BY <1>1, <1>6, SentTyped
  <2>5. MessagesDue \subseteq notified /\ MessagesDue \cap BagToSet(sms) = {}
    BY <2>1 DEF AboutToSend
  <2>6. \A x \in BagToSet(sms') : sms'[x] = 1 /\ x \in notified
    <3> TAKE x \in BagToSet(sms')
    <3>1. CASE x \in MessagesDue
      BY <2>4, <2>5, <3>1
    <3>2. CASE x \notin MessagesDue
      <4>1. x \in BagToSet(sms) /\ sms[x] = 1 /\ x \in notified
        BY <2>4, <3>2 DEF RemindersSentOnce
      <4> QED BY <2>4, <3>2, <4>1
    <3> QED BY <3>1, <3>2
  <2>7. RemindersSentOnce'
    BY <2>1, <2>6 DEF RemindersSentOnce
  <2> QED BY <2>2, <2>3, <2>7
<1>7. ASSUME NEW from \in {"settling", "awaiting", "closing", "marking", "deleting"},
             NEW to \in {"workspaces", "payments", "awaiting"}, Turns(from, to),
             to = "awaiting" => from = "settling", UNCHANGED <<notified, sms>>
      PROVE  Kept
  <2>1. /\ job.pc = from /\ job'.pc = to /\ job'.clock = job.clock
        /\ job'.snap = job.snap /\ job'.old = job.old /\ job'.at = job.at
    BY <1>7, TurnFields
  <2>2. RunKnows'
    BY <1>2, <1>7, <2>1 DEF RunKnows
  <2> QED BY <1>3, <1>7, <2>1, <2>2
<1>8. CASE TurnToPayments
  <2>1. /\ job.pc = "workspaces" /\ job'.pc = "payments" /\ job'.clock = job.clock
        /\ job'.snap = job.snap /\ job'.old = job.old /\ UNCHANGED <<notified, sms>>
    BY <1>1, <1>8 DEF TurnToPayments, JobRow
  <2>2. RunKnows'
    BY <1>2, <2>1
  <2> QED BY <1>3, <2>1, <2>2
<1>9. ASSUME NEW p \in Payments, Inquire(p) PROVE Kept
  <2>1. /\ job.pc = "payments" /\ job'.at = p /\ job'.clock = job.clock
        /\ job'.snap = job.snap /\ job'.old = job.old /\ UNCHANGED <<notified, sms>>
        /\ job'.pc \in {"payments", "closing", "settling"}
        /\ job'.pc = "closing" => p \in job.old /\ gateway[p].state = "open"
    BY <1>1, <1>9 DEF Inquire, JobRow
  <2>2. RunKnows'
    BY <1>2, <2>1
  <2> QED BY <1>3, <2>1, <2>2
<1>10. CASE EndRun
  <2>1. job' = NoRun /\ UNCHANGED <<notified, sms>>
    BY <1>10 DEF EndRun
  <2> QED BY <1>1, <2>1, NoRunKnows DEF RemindersSentOnce
<1>11. CASE MarkStatus \/ DeleteWorkspace \/ CloseUnpaid \/ SettleOpen \/ SettlementReturns
  BY <1>7, <1>11 DEF MarkStatus, DeleteWorkspace, CloseUnpaid, SettleOpen, SettlementReturns
<1>12. Kept
  BY <1>4, <1>5, <1>6, <1>8, <1>9, <1>10, <1>11 DEF JobStep
<1> QED BY <1>12 DEF Kept

(* Every step keeps what the run knows and no step of another actor sends. *)
LEMMA RunNext ==
    ASSUME BillingTypeOK, RunKnows, AboutToSend, RemindersSentOnce, ExpiryIsChainOfEvents,
           PurchasesMove, EventsGrow, [BillingNext]_billingVars
    PROVE  RunKnows' /\ AboutToSend' /\ RemindersSentOnce'
<1> DEFINE Kept == RunKnows' /\ AboutToSend' /\ RemindersSentOnce'
<1>1. now \in Nat /\ job \in JobRow
  BY DEF BillingTypeOK
<1>2. ASSUME UNCHANGED jobVars, now' \in Nat, now' >= now PROVE Kept
  <2>1. UNCHANGED <<notified, sms>>
    BY <1>2 DEF jobVars
  <2> QED BY <1>2, <2>1, RunWaits DEF RemindersSentOnce
<1>3. CASE JobStep
  BY <1>3, RunSteps
<1>4. CASE CronRuns
  <2>1. UNCHANGED <<notified, sms>>
    BY <1>4 DEF CronRuns, StartRun
  <2> QED BY <1>4, <2>1, RunBegins DEF CronRuns, RemindersSentOnce
<1>5. CASE JobDies
  <2>1. job' = NoRun /\ now' = now /\ UNCHANGED <<notified, sms>>
    BY <1>5 DEF JobDies, subscriptionVars
  <2> QED BY <1>1, <2>1, NoRunKnows DEF RemindersSentOnce
<1>6. CASE LoopCatches
  <2>1. /\ now' = now /\ UNCHANGED <<notified, sms>>
        /\ job.pc # "off" /\ job'.pc \in {"workspaces", "payments"}
        /\ job'.clock = job.clock /\ job'.snap = job.snap /\ job'.old = job.old
    BY <1>1, <1>6 DEF LoopCatches, Turns, subscriptionVars, JobRow
  <2>2. RunKnows'
    BY <1>1, <2>1, RunWalksOn
  <2> QED BY <2>1, <2>2 DEF RemindersSentOnce, AboutToSend
<1>7. CASE (\E p \in Payments : Buy(p)) \/ (\E s \in Pages : OpenPage(s)) \/ UNCHANGED billingVars
  <2>1. UNCHANGED jobVars /\ now' = now
    BY <1>7 DEF Buy, OpenPage, ReadPayment, billingVars, subscriptionVars
  <2> QED BY <1>1, <1>2, <2>1
<1>8. ASSUME NEW s \in Callers, SettleStep(s) \/ SettleFails(s), UNCHANGED jobVars PROVE Kept
  BY <1>1, <1>2, <1>8, SettleFrame
<1>9. CASE DayPasses
  BY <1>1, <1>2, <1>9 DEF DayPasses
<1>10. CASE Fault
  <2>1. CASE \E p \in Payments :
                CheckoutDies(p) /\ UNCHANGED <<subscriptionVars, uses, call, rewarded, jobVars>>
    BY <1>1, <1>2, <2>1 DEF subscriptionVars
  <2> QED BY <1>5, <1>6, <1>8, <1>10, <2>1 DEF Fault
<1>11. CASE \E s \in Callers : Settle(s)
  BY <1>8, <1>11 DEF Settle
<1>12. Kept
  BY <1>3, <1>4, <1>7, <1>9, <1>10, <1>11 DEF BillingNext
<1> QED BY <1>12 DEF Kept

(* The clock only goes forwards and only the run deletes, when it is due. *)
LEMMA DeletedNext ==
    ASSUME BillingTypeOK, RunKnows, DeletedWasOverdue, EventsGrow, [BillingNext]_billingVars
    PROVE  DeletedWasOverdue'
<1>1. now \in Nat /\ job \in JobRow /\ deleted \in SUBSET Workspaces
      /\ events \in [Workspaces -> Seq(EventRow)]
  BY DEF BillingTypeOK
<1> DEFINE Overdue(w) == /\ w \notin NeverExpires
                         /\ \E i \in DOMAIN events[w] : now >= events[w][i].new + DeletionDays
<1>2. \A w \in Workspaces : \A i \in DOMAIN events[w] : events[w][i].new \in Nat
  <2>1. \A e \in EventRow : e.new \in Nat
    BY DEF EventRow
  <2>2. \A w \in Workspaces : \A i \in DOMAIN events[w] : events[w][i] \in EventRow
    BY <1>1
  <2> QED BY <2>1, <2>2
<1>3. DeletionDays \in Nat
  BY SubscriptionAssumption
<1>4. ASSUME NEW w \in Workspaces, Overdue(w), now' \in Nat, now' >= now PROVE Overdue(w)'
  BY <1>1, <1>2, <1>3, <1>4 DEF EventsGrow
<1>5. ASSUME UNCHANGED deleted, now' \in Nat, now' >= now PROVE DeletedWasOverdue'
  BY <1>1, <1>4, <1>5 DEF DeletedWasOverdue
<1>6. CASE JobStep
  <2>1. now' = now /\ (UNCHANGED deleted \/ DeleteWorkspace)
    BY <1>6, JobFrame
  <2>2. CASE DeleteWorkspace
    <3> PICK w \in Workspaces : w = job.at
      BY <2>2 DEF DeleteWorkspace, Turns, RunKnows
    <3>1. deleted' = deleted \cup {w} /\ DeletionDue(w) /\ job.clock =< now /\ job.pc # "off"
      BY <2>2 DEF DeleteWorkspace, Turns, RunKnows
    <3>2. PICK i \in DOMAIN events[w] : events[w][i].new = job.snap[w]
      BY <3>1 DEF RunKnows
    <3>3. job.clock \in Nat /\ job.snap[w] \in Nat
      BY <1>1 DEF JobRow
    <3>4. Overdue(w)
      BY <1>1, <1>3, <3>1, <3>2, <3>3 DEF DeletionDue, Elapsed
    <3>5. \A v \in deleted' : Overdue(v)
      BY <3>1, <3>4 DEF DeletedWasOverdue
    <3>6. \A v \in deleted' : v \in Workspaces
      BY <1>1, <3>1
    <3>7. \A v \in deleted' : Overdue(v)'
      BY <1>1, <1>4, <2>1, <3>5, <3>6
    <3> QED BY <3>7 DEF DeletedWasOverdue
  <2> QED BY <1>1, <1>5, <2>1, <2>2
<1>7. CASE DayPasses
  BY <1>1, <1>5, <1>7 DEF DayPasses
<1>8. ASSUME NEW s \in Callers, SettleStep(s) \/ SettleFails(s) PROVE DeletedWasOverdue'
  BY <1>1, <1>5, <1>8, SettleFrame
<1>9. CASE \/ \E p \in Payments : Buy(p)
           \/ \E s \in Pages : OpenPage(s)
           \/ CronRuns
           \/ UNCHANGED billingVars
  <2>1. UNCHANGED <<now, deleted>>
    BY <1>9 DEF Buy, OpenPage, ReadPayment, CronRuns, StartRun, billingVars, subscriptionVars
  <2> QED BY <1>1, <1>5, <2>1
<1>10. CASE Fault
  <2>1. CASE \/ LoopCatches \/ JobDies
             \/ \E p \in Payments :
                   CheckoutDies(p) /\ UNCHANGED <<subscriptionVars, uses, call, rewarded, jobVars>>
    <3>1. UNCHANGED <<now, deleted>>
      BY <2>1 DEF LoopCatches, JobDies, subscriptionVars
    <3> QED BY <1>1, <1>5, <3>1
  <2> QED BY <1>8, <1>10, <2>1 DEF Fault
<1> QED BY <1>6, <1>7, <1>8, <1>9, <1>10 DEF BillingNext, Settle

-----------------------------------------------------------------------------
(* At the start nobody bought, nothing runs and every trial has begun. *)
LEMMA BillingInitInv == BillingInit => BillingInv
<1> SUFFICES ASSUME BillingInit PROVE BillingInv
  OBVIOUS
<1> DEFINE trial == [type |-> "trial", days |-> TrialDays, prev |-> 0,
                     new |-> TrialDays, cause |-> NoCause]
<1>1. /\ SubscriptionInit /\ CheckoutInit /\ SettlementInit /\ NightlyInit
      /\ TrialDays \in Nat \ {0}
  BY SubscriptionAssumption DEF BillingInit
<1>2. trial \in EventRow
  BY <1>1 DEF EventRow
<1>3. /\ trial.type = "trial" /\ trial.new = TrialDays /\ trial.prev = 0
      /\ trial.days = TrialDays
  OBVIOUS
<1>4. events = [w \in Workspaces |-> <<trial>>]
  BY <1>1 DEF SubscriptionInit
<1> HIDE DEF trial
<1>5. \A w \in Workspaces : /\ Len(events[w]) = 1 /\ DOMAIN events[w] = {1}
                            /\ events[w][1] = trial /\ events[w] # <<>>
  <2>1. Len(<<trial>>) = 1 /\ <<trial>>[1] = trial /\ <<trial>> # <<>>
    OBVIOUS
  <2>2. <<trial>> \in Seq(EventRow)
    BY <1>2
  <2>3. DOMAIN <<trial>> = 1 .. 1 /\ 1 .. 1 = {1}
    BY <2>1, <2>2
  <2> QED BY <1>4, <2>1, <2>3
<1>6. events \in [Workspaces -> Seq(EventRow)]
  BY <1>2, <1>4
<1>7. /\ payment \in [Payments -> PaymentRow] /\ gateway \in [Payments -> GatewayRow]
      /\ checkout \in [Payments -> {"idle", "requesting", "done"}] /\ uses = {}
      /\ \A p \in Payments : /\ payment[p].status = "none" /\ ~payment[p].tracked
                             /\ checkout[p] = "idle" /\ gateway[p].state = "none"
                             /\ payment[p].code = NoCode
  BY <1>1 DEF CheckoutInit, PaymentRow, GatewayRow
<1>8. /\ call \in [Callers -> CallRow] /\ \A s \in Callers : call[s].pc = "idle"
      /\ rewarded = {} /\ faults = 0
  BY <1>1 DEF SettlementInit, NoCall, CallRow
<1>9. job = NoRun /\ job \in JobRow /\ sms = EmptyBag /\ notified = {}
  BY <1>1 DEF NightlyInit, NoRun, JobRow
<1>10. IsABag(sms) /\ BagToSet(sms) = {}
  BY <1>9 DEF EmptyBag, SetToBag, IsABag, BagToSet
<1>11. BillingTypeOK
  BY <1>1, <1>6, <1>7, <1>8, <1>9, <1>10 DEF BillingTypeOK, SubscriptionInit, StatusColumn
<1>12. PurchaseStages /\ CallsKnow /\ ClaimHeldOnce
  BY <1>7, <1>8 DEF PurchaseStages, StageKept, CallsKnow, CallKnows, ClaimHeldOnce
<1>13. RunKnows /\ AboutToSend /\ RemindersSentOnce
  BY <1>1, <1>9, <1>10 DEF RunKnows, NoRun, AboutToSend, RemindersSentOnce, SubscriptionInit
<1>14. ExpiryIsChainOfEvents
  <2> SUFFICES ASSUME NEW w \in Workspaces
               PROVE  /\ events[w] # <<>>
                      /\ expires[w] = events[w][Len(events[w])].new
                      /\ \A i \in DOMAIN events[w] :
                            /\ events[w][i].new >= events[w][i].prev + events[w][i].days
                            /\ i > 1 => events[w][i].prev = events[w][i - 1].new
    BY DEF ExpiryIsChainOfEvents
  <2>1. expires[w] = TrialDays
    BY <1>1 DEF SubscriptionInit
  <2> QED BY <1>1, <1>3, <1>5, <2>1
<1>15. /\ \A p \in Payments : EventsOf(Buyer[p], "payment", p) = {}
       /\ \A w \in Referred : EventsOf(Referrer[w], "referral", w) = {}
  BY <1>3, <1>5, CheckoutAssumption DEF EventsOf
<1>16. VerifiedIffExtended /\ CodeSpentOnceWithDays /\ ReferrerRewardedOnce
  BY <1>7, <1>15 DEF VerifiedIffExtended, CodeSpentOnceWithDays, ReferrerRewardedOnce
<1>17. DeletedWasOverdue
  BY <1>1 DEF DeletedWasOverdue, SubscriptionInit
<1> QED BY <1>11, <1>12, <1>13, <1>14, <1>16, <1>17 DEF BillingInv

(* Every step of every actor keeps the invariant. *)
LEMMA BillingNextInv == BillingInv /\ [BillingNext]_billingVars => BillingInv' /\ PurchasesMove
<1> SUFFICES ASSUME BillingInv, [BillingNext]_billingVars PROVE BillingInv' /\ PurchasesMove
  OBVIOUS
<1> USE DEF BillingInv
<1>1. BillingTypeOK'
  BY TypeNext
<1>2. PurchasesMove /\ PurchaseStages'
  BY PurchasesNext DEF PurchasesMove
<1>3. CallsKnow'
  BY <1>2, CallsNext
<1>4. ExpiryIsChainOfEvents' /\ EventsGrow
  BY ChainNext
<1>5. VerifiedIffExtended'
  BY <1>2, VerifiedNext
<1>6. CodeSpentOnceWithDays'
  BY <1>2, CodeNext
<1>7. ClaimHeldOnce' /\ ReferrerRewardedOnce'
  BY <1>2, ClaimNext
<1>8. RunKnows' /\ AboutToSend' /\ RemindersSentOnce'
  BY <1>2, <1>4, RunNext
<1>9. DeletedWasOverdue'
  BY <1>4, DeletedNext
<1> QED BY <1>1, <1>2, <1>3, <1>4, <1>5, <1>6, <1>7, <1>8, <1>9

(* In every reachable state of billing, whatever is bought, paid, settled  *)
(* at once, killed or run again, the invariant holds.                      *)
THEOREM BillingInvariant == BillingSpec => []BillingInv
BY BillingInitInv, BillingNextInv, PTL DEF BillingSpec

(* Nobody loses a day: the expiry of every workspace is the end of an      *)
(* unbroken chain of events, each of which adds its days to what was left. *)
THEOREM BillingExpiryIsChain == BillingSpec => []ExpiryIsChainOfEvents
<1>1. BillingInv => ExpiryIsChainOfEvents
  BY DEF BillingInv
<1> QED BY <1>1, BillingInvariant, PTL

(* A payment is verified exactly when its workspace was given its days,    *)
(* and only for the money that was asked.                                  *)
THEOREM BillingVerifiedIffExtended == BillingSpec => []VerifiedIffExtended
<1>1. BillingInv => VerifiedIffExtended
  BY DEF BillingInv
<1> QED BY <1>1, BillingInvariant, PTL

(* A discount code is spent with the payment that carried it, once by any  *)
(* workspace, and a payment with a code gives its days once.               *)
THEOREM BillingCodeSpentOnce == BillingSpec => []CodeSpentOnceWithDays
<1>1. BillingInv => CodeSpentOnceWithDays
  BY DEF BillingInv
<1> QED BY <1>1, BillingInvariant, PTL

(* One introduction pays the referrer once, however many first payments    *)
(* are settled at once.                                                    *)
THEOREM BillingReferrerRewardedOnce == BillingSpec => []ReferrerRewardedOnce
<1>1. BillingInv => ReferrerRewardedOnce
  BY DEF BillingInv
<1> QED BY <1>1, BillingInvariant, PTL

(* The nightly job, killed and repeated as it may be, sends one message    *)
(* about one expiry once and only with its row behind it.                  *)
THEOREM BillingRemindersSentOnce == BillingSpec => []RemindersSentOnce
<1>1. BillingInv => RemindersSentOnce
  BY DEF BillingInv
<1> QED BY <1>1, BillingInvariant, PTL

(* The nightly job deletes nobody before an expiry of theirs is the        *)
(* deletion period past, however stale its list is.                        *)
THEOREM BillingDeletedWasOverdue == BillingSpec => []DeletedWasOverdue
<1>1. BillingInv => DeletedWasOverdue
  BY DEF BillingInv
<1> QED BY <1>1, BillingInvariant, PTL

(* No purchase is written off whose money has moved or still can. *)
THEOREM BillingPaidNeverWrittenOff == BillingSpec => []PaidNeverWrittenOff
<1>1. BillingInv => PaidNeverWrittenOff
  <2> SUFFICES ASSUME BillingInv, NEW p \in Payments, payment[p].status = "failed"
               PROVE  /\ ~(gateway[p].state \in {"paid", "verified"} /\ gateway[p].exact)
                      /\ ~(gateway[p].state = "open" /\ payment[p].tracked /\ payment[p].fresh)
    BY DEF PaidNeverWrittenOff
  <2> QED BY DEF BillingInv, PurchaseStages, StageKept
<1> QED BY <1>1, BillingInvariant, PTL

(* Purchases only move forwards: what was bought, asked of the gateway and *)
(* settled stays so, and nothing is paid once its hour is over.            *)
THEOREM BillingPurchasesMove == BillingSpec => [][\A p \in Payments : Forward(p)]_billingVars
<1>1. BillingInv /\ [BillingNext]_billingVars => \A p \in Payments : Forward(p)
  BY BillingNextInv DEF PurchasesMove
<1> QED BY <1>1, BillingInvariant, PTL DEF BillingSpec
=============================================================================

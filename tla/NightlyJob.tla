----------------------------- MODULE NightlyJob -----------------------------
(***************************************************************************)
(* runSubscriptionJob of utils/subscriptionJob.ts: a process of its own    *)
(* that walks the workspaces as they were when it began, warns, marks or   *)
(* deletes each, and then resolves the payments still open.                *)
(*                                                                         *)
(* Workspaces and payments are taken in any order, where the code goes by  *)
(* id, and the open payments of all workspaces are read at once.  A day of *)
(* the clock is the night's run, so an expiry counts as the first night at *)
(* or after it, which is what Math.floor makes of it.                      *)
(***************************************************************************)
EXTENDS Settlement, Bags

CONSTANTS
    NeverExpires,       \* workspaces.never_expires: ours and the demo accounts
    ReminderDays,       \* days before expiry that bring a message: 7 and 1
    WarningDays,        \* days before deletion that bring the last one: 7
    SettlementWindow,   \* SETTLEMENT_WINDOW_DAYS
    OwnerLess           \* workspaces without an active super admin

ASSUME JobAssumption ==
    /\ NeverExpires \subseteq Workspaces
    /\ ReminderDays \subseteq Nat \ {0}
    /\ WarningDays \in 0 .. DeletionDays
    /\ SettlementWindow \in Nat
    /\ OwnerLess \subseteq Workspaces

VARIABLES
    job,        \* the run: where it is, its clock, what it read and what is left of it
    notified,   \* subscription_notifications rows: workspace, kind, expiry
    sms         \* the messages that sms.ir was asked to send: the same triples, as a bag

jobVars == <<job, notified, sms>>

(***************************************************************************)
(* snap and listed are what app_all_workspaces() answered; old is which    *)
(* payments were past ABANDON_AFTER_MS at the run's own clock; at is the   *)
(* workspace or payment in hand and rest what is left of the loop.         *)
(***************************************************************************)
JobRow == [pc     : {"off", "workspaces", "notifying", "sending", "marking", "deleting",
                     "payments", "closing", "settling", "awaiting"},
           clock  : Nat,
           snap   : [Workspaces -> Nat],
           listed : SUBSET Workspaces,
           old    : SUBSET Payments,
           at     : Workspaces \cup Payments \cup {NoCause},
           rest   : SUBSET (Workspaces \cup Payments)]

NoRun == [pc |-> "off", clock |-> 0, snap |-> [w \in Workspaces |-> 0],
          listed |-> {}, old |-> {}, at |-> NoCause, rest |-> {}]

NightlyInit ==
    /\ job = NoRun
    /\ notified = {}
    /\ sms = EmptyBag

Elapsed(w) == job.clock - job.snap[w]

(* verdictFor: the message that is due, by its kind: before_expiry_7 and   *)
(* _1, on_expiry, after_expiry_3 and after_expiry_23.                      *)
KindsDue(w) ==
    LET e == Elapsed(w) IN
    IF w \in NeverExpires \/ e >= DeletionDays THEN {}
    ELSE {<<"before_expiry", d>> : d \in {d \in ReminderDays : e = -d}}
         \cup {<<"on_expiry", d>> : d \in {d \in {GraceDays} : e = 0}}
         \cup {<<"after_expiry", d>> : d \in {d \in {GraceDays, DeletionDays - WarningDays} :
                                                 e = d /\ e # 0}}

StatusDue(w) == IF w \in NeverExpires \/ Elapsed(w) < 0 THEN "active" ELSE "expired"

(* A wrong form: the data goes at the end of the grace period. *)
DeletionDueAtGrace(w) == w \notin NeverExpires /\ Elapsed(w) >= GraceDays

DeletionDue(w) == w \notin NeverExpires /\ Elapsed(w) >= DeletionDays

Turns(from, to) == job.pc = from /\ job' = [job EXCEPT !.pc = to]

(* The list is read once, and a second run may begin the same night. *)
StartRun ==
    /\ job.pc = "off"
    /\ job' = [job EXCEPT !.pc = "workspaces", !.clock = now, !.snap = expires,
                  !.listed = Workspaces \ deleted,
                  !.old = {p \in Payments : payment[p].status # "none" /\ ~payment[p].fresh},
                  !.rest = Workspaces \ deleted]
    /\ UNCHANGED <<subscriptionVars, checkoutVars, uses, settlementVars, notified, sms>>

TakeWorkspace(w) ==
    /\ job.pc = "workspaces"
    /\ w \in job.rest
    /\ job' = [job EXCEPT !.at = w, !.rest = @ \ {w},
                  !.pc = IF DeletionDue(w) THEN "deleting"
                         ELSE IF KindsDue(w) # {} /\ w \notin OwnerLess THEN "notifying"
                         ELSE "marking"]
    /\ UNCHANGED <<subscriptionVars, checkoutVars, uses, settlementVars, notified, sms>>

MessagesDue == {<<job.at, k, job.snap[job.at]>> : k \in KindsDue(job.at)}

(* A wrong form: the unique index's refusal is read as a claim. *)
ClaimNotificationAlways ==
    /\ Turns("notifying", "sending")
    /\ notified' = notified \cup MessagesDue
    /\ UNCHANGED <<subscriptionVars, checkoutVars, uses, settlementVars, sms>>

(* The row is claimed before the message goes: a run that dies in between  *)
(* loses the message and never doubles it.                                 *)
ClaimNotification ==
    /\ Turns("notifying", IF MessagesDue \subseteq notified THEN "marking" ELSE "sending")
    /\ notified' = notified \cup MessagesDue
    /\ UNCHANGED <<subscriptionVars, checkoutVars, uses, settlementVars, sms>>

(* sms.ir is asked; a refusal is logged and the row stays. *)
SendMessage ==
    /\ Turns("sending", "marking")
    /\ sms' = sms (+) SetToBag(MessagesDue)
    /\ UNCHANGED <<subscriptionVars, checkoutVars, uses, settlementVars, notified>>

MarkStatus ==
    /\ Turns("marking", "workspaces")
    /\ status' = [status EXCEPT ![job.at] = StatusDue(job.at)]
    /\ UNCHANGED <<now, expires, deleted, events, checkoutVars, uses, settlementVars,
                   notified, sms>>

(* The transaction of deleteWorkspaceData, once the objects are gone.      *)
(* Payments, events, uses and referrals outlive the workspace.             *)
DeleteWorkspace ==
    /\ Turns("deleting", "workspaces")
    /\ deleted' = deleted \cup {job.at}
    /\ status' = [status EXCEPT ![job.at] = "deleted"]
    /\ UNCHANGED <<now, expires, events, checkoutVars, uses, settlementVars, notified, sms>>

(* A wrong form: only what was opened since the last night is looked at. *)
OpenPaymentsOfToday ==
    {p \in Payments : /\ Buyer[p] \in job.listed
                      /\ payment[p].status = "pending"
                      /\ payment[p].tracked
                      /\ job.clock = payment[p].created}

(* The open payments of the workspaces that were listed, those deleted in  *)
(* this very run included.                                                 *)
OpenPayments ==
    {p \in Payments : /\ Buyer[p] \in job.listed
                      /\ payment[p].status = "pending"
                      /\ payment[p].tracked}

TurnToPayments ==
    /\ job.rest = {}
    /\ job.pc = "workspaces"
    /\ job' = [job EXCEPT !.pc = "payments", !.at = NoCause, !.rest = OpenPayments]
    /\ UNCHANGED <<subscriptionVars, checkoutVars, uses, settlementVars, notified, sms>>

(* A wrong form: the abandonment hour is not looked at. *)
InquireIgnoresHour(p) ==
    /\ job.pc = "payments"
    /\ p \in job.rest
    /\ job' = [job EXCEPT !.at = p, !.rest = @ \ {p},
                  !.pc = IF gateway[p].state = "open" THEN "closing"
                         ELSE IF job.clock - payment[p].created > SettlementWindow
                              THEN "payments" ELSE "settling"]
    /\ UNCHANGED <<subscriptionVars, checkoutVars, uses, settlementVars, notified, sms>>

(***************************************************************************)
(* inquirePayment: unpaid is written off once its hour was up when the run *)
(* began, paid is settled inside the window and only logged after it.      *)
(***************************************************************************)
Inquire(p) ==
    /\ job.pc = "payments"
    /\ p \in job.rest
    /\ job' = [job EXCEPT !.at = p, !.rest = @ \ {p},
                  !.pc = IF gateway[p].state = "open"
                         THEN IF p \in job.old THEN "closing" ELSE "payments"
                         ELSE IF job.clock - payment[p].created > SettlementWindow
                              THEN "payments" ELSE "settling"]
    /\ UNCHANGED <<subscriptionVars, checkoutVars, uses, settlementVars, notified, sms>>

(* updateMany with the status in its where clause. *)
CloseUnpaid ==
    /\ Turns("closing", "payments")
    /\ payment' = IF payment[job.at].status = "pending"
                  THEN [payment EXCEPT ![job.at].status = "failed"] ELSE payment
    /\ UNCHANGED <<subscriptionVars, checkout, gateway, uses, settlementVars, notified, sms>>

(* The job's settlePayment begins by reading the row again. *)
SettleOpen ==
    \/ /\ Turns("settling", "payments")
       /\ payment[job.at].status = "verified"
       /\ UNCHANGED <<subscriptionVars, checkoutVars, uses, settlementVars, notified, sms>>
    \/ /\ Turns("settling", "awaiting")
       /\ ReadPayment(Job, job.at)
       /\ UNCHANGED <<notified, sms>>

(* Whatever came of it, the loop goes on to the next payment. *)
SettlementReturns ==
    /\ call[Job].pc = "idle"
    /\ Turns("awaiting", "payments")
    /\ UNCHANGED <<subscriptionVars, checkoutVars, uses, settlementVars, notified, sms>>

EndRun ==
    /\ job.pc = "payments"
    /\ job.rest = {}
    /\ job' = NoRun
    /\ UNCHANGED <<subscriptionVars, checkoutVars, uses, settlementVars, notified, sms>>

JobStep ==
    \/ \E w \in Workspaces : TakeWorkspace(w)
    \/ ClaimNotification \/ SendMessage \/ MarkStatus \/ DeleteWorkspace
    \/ TurnToPayments
    \/ \E p \in Payments : Inquire(p)
    \/ CloseUnpaid \/ SettleOpen \/ SettlementReturns \/ EndRun

(* One workspace or one payment fails and the loop carries on: the         *)
(* statement in hand throws, or Zibal does not answer the inquiry.         *)
LoopCatches ==
    /\ \/ job.pc \in {"notifying", "marking", "deleting"} /\ Turns(job.pc, "workspaces")
       \/ job.pc = "closing" /\ Turns("closing", "payments")
       \/ \E p \in job.rest : job.pc = "payments" /\ job' = [job EXCEPT !.rest = @ \ {p}]
    /\ faults' = faults + 1
    /\ UNCHANGED <<subscriptionVars, checkoutVars, uses, call, rewarded, notified, sms>>

(* The job's process is killed, and the call it was waiting for with it.   *)
JobDies ==
    /\ job.pc # "off"
    /\ job' = NoRun
    /\ call' = [call EXCEPT ![Job] = NoCall]
    /\ faults' = faults + 1
    /\ UNCHANGED <<subscriptionVars, checkoutVars, uses, rewarded, notified, sms>>
=============================================================================

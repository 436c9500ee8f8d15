---------------------------- MODULE Subscription ----------------------------
(***************************************************************************)
(* The subscription of every workspace: utils/subscription.ts, the only    *)
(* code that moves workspaces.expires_at, and the subscription_events it   *)
(* leaves behind.  Time is counted in days.                                *)
(*                                                                         *)
(* extendSubscription runs inside a transaction of its caller and takes    *)
(* the workspace row FOR UPDATE before it reads the expiry, so two of them *)
(* never interleave on one workspace and each is a single step here.       *)
(***************************************************************************)
EXTENDS Integers, Sequences

CONSTANTS
    Workspaces,     \* ids of workspaces rows
    Payments,       \* ids of payments rows
    NoCause,        \* what a trial event has for its payment or note
    TrialDays,      \* TRIAL_DAYS
    GraceDays,      \* GRACE_DAYS
    DeletionDays    \* DELETION_DAYS

ASSUME SubscriptionAssumption ==
    /\ TrialDays \in Nat \ {0}
    /\ GraceDays \in Nat
    /\ DeletionDays \in Nat \ {0}
    /\ Workspaces \cap Payments = {}
    /\ NoCause \notin Workspaces \cup Payments

VARIABLES
    now,        \* the clock, in days
    expires,    \* workspaces.expires_at
    deleted,    \* the workspaces whose deleted_at is set
    status,     \* workspaces.status
    events      \* subscription_events of each workspace in id order

subscriptionVars == <<now, expires, deleted, status, events>>

(***************************************************************************)
(* cause stands for payment_id, or for the referred workspace in the note. *)
(***************************************************************************)
EventRow == [type  : {"trial", "payment", "referral"},
             days  : Nat \ {0},
             prev  : Nat,
             new   : Nat,
             cause : Workspaces \cup Payments \cup {NoCause}]

StatusColumn == {"trial", "active", "expired", "deleted"}

(* Every workspace has just registered: startTrial in populateWorkspace. *)
SubscriptionInit ==
    /\ now = 0
    /\ expires = [w \in Workspaces |-> TrialDays]
    /\ deleted = {}
    /\ status = [w \in Workspaces |-> "trial"]
    /\ events = [w \in Workspaces |->
                    <<[type |-> "trial", days |-> TrialDays, prev |-> 0,
                       new |-> TrialDays, cause |-> NoCause]>>]

(* A wrong form: what was left of the old subscription is thrown away. *)
ExtendFromToday(w, type, days, cause) ==
    /\ expires' = [expires EXCEPT ![w] = now + days]
    /\ status' = [status EXCEPT ![w] = "active"]
    /\ events' = [events EXCEPT ![w] =
                     Append(@, [type |-> type, days |-> days, prev |-> expires[w],
                                new |-> now + days, cause |-> cause])]

(* extendSubscription after the trial: from today, or from the expiry      *)
(* when there is time left.                                                *)
ExtendSubscription(w, type, days, cause) ==
    LET base == IF expires[w] > now THEN expires[w] ELSE now IN
    /\ expires' = [expires EXCEPT ![w] = base + days]
    /\ status' = [status EXCEPT ![w] = "active"]
    /\ events' = [events EXCEPT ![w] =
                     Append(@, [type |-> type, days |-> days, prev |-> expires[w],
                                new |-> base + days, cause |-> cause])]

EventsOf(w, type, cause) ==
    {i \in DOMAIN events[w] : events[w][i].type = type /\ events[w][i].cause = cause}

-----------------------------------------------------------------------------
(* The expiry is what the events say it is and nobody loses a day: the     *)
(* events chain from one to the next, each adds at least its days to what  *)
(* was left, and the last one is the expiry, whoever extends at once.      *)
ExpiryIsChainOfEvents ==
    \A w \in Workspaces :
        /\ events[w] # <<>>
        /\ expires[w] = events[w][Len(events[w])].new
        /\ \A i \in DOMAIN events[w] :
              /\ events[w][i].new >= events[w][i].prev + events[w][i].days
              /\ i > 1 => events[w][i].prev = events[w][i - 1].new
=============================================================================

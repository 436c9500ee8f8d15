------------------------------ MODULE Checkout ------------------------------
(***************************************************************************)
(* Starting the purchase of a plan: checkout of subscriptionController.ts, *)
(* and the Zibal gateway as lib/zibal.ts sees it.                          *)
(*                                                                         *)
(* checkout reads the code's uses and then inserts a row that nothing      *)
(* reads before its trackId is set; the reads and the INSERT are one step. *)
(* The trackId is only of use once Zibal has answered, so its answer and   *)
(* the UPDATE are one step too.                                            *)
(***************************************************************************)
EXTENDS Subscription, FiniteSets

CONSTANTS
    Buyer,      \* the workspace of each payment: [Payments -> Workspaces]
    PlanDays,   \* durations of the plans, in days
    Codes,      \* ids of discount_codes rows
    NoCode,     \* no discount code: the null of discount_code_id
    MaxUses,    \* discount_codes.max_uses: [Codes -> Nat]
    Referrer    \* who invited whom: the referrals rows, by referred workspace

Referred == DOMAIN Referrer

ASSUME CheckoutAssumption ==
    /\ Buyer \in [Payments -> Workspaces]
    /\ PlanDays \subseteq Nat \ {0}
    /\ NoCode \notin Codes
    /\ MaxUses \in [Codes -> Nat]
    /\ Referred \subseteq Workspaces
    /\ Referrer \in [Referred -> Workspaces]
    /\ \A w \in Referred : Referrer[w] # w

VARIABLES
    payment,    \* payments rows
    checkout,   \* where the checkout call of each payment is
    gateway,    \* Zibal's record of each payment: state, and whether it took the amount asked
    uses        \* discount_code_uses rows

checkoutVars == <<payment, checkout, gateway>>

(***************************************************************************)
(* fresh says that less than ABANDON_AFTER_MS has passed since created_at, *)
(* which is the time Zibal's session may still be open.                    *)
(***************************************************************************)
PaymentRow == [status  : {"none", "pending", "failed", "verified"},
               tracked : BOOLEAN,
               days    : Nat,
               code    : Codes \cup {NoCode},
               created : Nat,
               fresh   : BOOLEAN]

GatewayRow == [state : {"none", "open", "paid", "verified"}, exact : BOOLEAN]

UseRow == [code : Codes, ws : Workspaces, payment : Payments]

CheckoutInit ==
    /\ payment = [p \in Payments |->
                     [status |-> "none", tracked |-> FALSE, days |-> 0,
                      code |-> NoCode, created |-> 0, fresh |-> FALSE]]
    /\ checkout = [p \in Payments |-> "idle"]
    /\ gateway = [p \in Payments |-> [state |-> "none", exact |-> FALSE]]
    /\ uses = {}

VerifiedPayments(w) == {q \in Payments : Buyer[q] = w /\ payment[q].status = "verified"}

(* usableDiscountCode: not spent by this workspace, and uses left.  A code *)
(* that expired or was switched off is one this workspace never enters.    *)
UsableDiscountCode(c, w) ==
    /\ ~\E u \in uses : u.code = c /\ u.ws = w
    /\ Cardinality({u \in uses : u.code = c}) < MaxUses[c]

(* The row is written before the gateway is called, with the code on it    *)
(* whichever discount set the price.                                       *)
Checkout(p, c) ==
    /\ checkout[p] = "idle"
    /\ Buyer[p] \notin deleted
    /\ c # NoCode => UsableDiscountCode(c, Buyer[p])
    /\ checkout' = [checkout EXCEPT ![p] = "requesting"]
    /\ \E d \in PlanDays :
          payment' = [payment EXCEPT ![p] =
                         [status |-> "pending", tracked |-> FALSE, days |-> d, code |-> c,
                          created |-> now, fresh |-> TRUE]]
    /\ UNCHANGED gateway

RequestPayment(p) ==
    /\ checkout[p] = "requesting"
    /\ checkout' = [checkout EXCEPT ![p] = "done"]
    /\ gateway' = [gateway EXCEPT ![p].state = "open"]
    /\ payment' = [payment EXCEPT ![p].tracked = TRUE]

RequestThrows(p) ==
    /\ checkout[p] = "requesting"
    /\ checkout' = [checkout EXCEPT ![p] = "done"]
    /\ payment' = [payment EXCEPT ![p].status = "failed"]
    /\ UNCHANGED gateway

(* The customer pays while the session lives, a little under an hour;      *)
(* what Zibal takes need not be what was asked for.                        *)
CustomerPays(p) ==
    /\ payment[p].tracked
    /\ payment[p].fresh
    /\ gateway[p].state = "open"
    /\ \E e \in BOOLEAN : gateway' = [gateway EXCEPT ![p] = [state |-> "paid", exact |-> e]]
    /\ UNCHANGED <<payment, checkout>>

(* ABANDON_AFTER_MS has passed since the checkout, or the checkout's own   *)
(* call has ended long before.                                             *)
HourPasses(p) ==
    /\ payment[p].fresh
    /\ checkout[p] # "requesting"
    /\ payment' = [payment EXCEPT ![p].fresh = FALSE]
    /\ UNCHANGED <<checkout, gateway>>

(* The process dies, or the UPDATE that follows the answer does: the row   *)
(* stays pending without a trackId.                                        *)
CheckoutDies(p) ==
    /\ checkout[p] = "requesting"
    /\ checkout' = [checkout EXCEPT ![p] = "done"]
    /\ UNCHANGED <<payment, gateway>>

CheckoutStep(p) ==
    \/ \E c \in Codes \cup {NoCode} : Checkout(p, c)
    \/ RequestPayment(p) \/ RequestThrows(p)
    \/ CustomerPays(p) \/ HourPasses(p)
=============================================================================

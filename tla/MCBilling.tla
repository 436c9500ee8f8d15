---- MODULE MCBilling ----
(* A shop that a friend invited, its payments and up to two return pages. *)
EXTENDS Billing

CONSTANTS shop, friend, p1, p2, g1, g2, cron, code1, none, nocode

MCShop == {shop}
MCShops == {shop, friend}
MCOnePayment == {p1}
MCPayments == {p1, p2}
MCOnePage == {g1}
MCPages == {g1, g2}
MCNoCodes == {}
MCCodes == {code1}
MCPlanDays == {2}
MCReminders == {1}
MCNoNights == {}
MCEveryNight == 0..9
MCNoOne == {}

MCBuysOne == [p \in MCOnePayment |-> shop]
MCBuysTwo == [p \in MCPayments |-> shop]
MCNotInvited == [w \in {} |-> shop]
MCInvited == [w \in {shop} |-> friend]
MCAnyUses == [c \in MCCodes |-> 2]
MCNoUses == [c \in {} |-> 0]
====

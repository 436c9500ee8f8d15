------------------------------ MODULE MCSessions ------------------------------
(* One account, a desktop with two tabs; and, in a scene of its own while  *)
(* nobody signs in, the SMS credit of the workspace: two messages, one     *)
(* top-up and two return pages.  They share no variable.                   *)
EXTENDS Sessions, SmsCredit, TLC

CONSTANTS owner, nobody, t1, t2, desktop, q1, q2, m1, m2, topup1, p1, p2

MCUsers == {owner}
MCTabs == {t1, t2}
MCBrowsers == {desktop}
MCBrowserOf == [t \in MCTabs |-> desktop]
MCRequests == {q1, q2}
MCTabOf == [q \in MCRequests |-> t1]
MCFormTabs == {t1}
MCRows == 1..11

MCMessages == {m1, m2}
MCOneTopup == {topup1}
MCSettlers == {p1, p2}
MCCosts == {1, 2}
MCAmounts == {2, 3}

VARIABLE scene

MCInit == Init /\ CreditInit /\ scene \in {"sessions", "credit"}

MCNext ==
    /\ \/ scene = "sessions" /\ Next /\ UNCHANGED creditVars
       \/ scene = "credit" /\ CreditNext /\ UNCHANGED vars
    /\ UNCHANGED scene

(* What is fair of one is not enabled where it starts, and so asks nothing *)
(* of it while the other runs.                                             *)
MCSpec == MCInit /\ [][MCNext]_<<scene, vars, creditVars>> /\ Fairness /\ CreditFairness
=============================================================================

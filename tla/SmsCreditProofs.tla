-------------------------- MODULE SmsCreditProofs --------------------------
(***************************************************************************)
(* The safety of the SMS credit for every set of messages, top-ups,        *)
(* settlers, costs and amounts, by one inductive invariant.                *)
(***************************************************************************)
EXTENDS SmsCredit, TLAPS

(* Where a call is decides what its row and the ledger say of its message. *)
CallInv ==
    \A m \in Messages :
        /\ notifying[m] = "idle" => message[m].status = "none"
        /\ notifying[m] \in Running => message[m].status = "pending"
        /\ notifying[m] \in Running \ {"refunded"} => ~HasRow("refund", m)
        /\ notifying[m] = "refunded" => HasRow("refund", m)

(* A top-up reaches Zibal and its link reaches the customer in that order. *)
StarterInv ==
    \A t \in Topups :
        /\ starter[t] = "idle" <=> topup[t].status = "none"
        /\ starter[t] # "done" => ~topup[t].tracked
        /\ starter[t] \in {"idle", "requesting"} => gateway[t].state = "none"

(* What a settler found out about its top-up is still so when it acts.     *)
SettlerInv ==
    \A s \in Settlers :
        LET t == settler[s].of IN
        /\ settler[s].pc # "idle" => topup[t].tracked
        /\ settler[s].pc = "claiming" =>
              gateway[t] = [state |-> "verified", taken |-> topup[t].amount]
        /\ settler[s].pc = "mismatch" =>
              gateway[t].state = "verified" /\ gateway[t].taken # topup[t].amount

IInv ==
    /\ CreditTypeOK
    /\ BalanceIsLedgerSum
    /\ NeverOverdrawn
    /\ RefundMatchesSend
    /\ MessageAgreesWithLedger
    /\ NoFreeMessage
    /\ CallInv
    /\ TopupCreditedOnce
    /\ StarterInv
    /\ SettlerInv

-----------------------------------------------------------------------------
(* A new ledger line keeps the ledger sound, and adds one row and no other.*)
LEMMA NewLine ==
    ASSUME CreditTypeOK, BalanceIsLedgerSum, NeverOverdrawn,
           NEW type \in {"send", "refund", "topup"},
           NEW ref \in Messages \cup Topups,
           NEW amount \in Int,
           balance' = balance + amount, balance' >= 0,
           LedgerLine(type, ref, amount)
    PROVE  /\ balance' \in Int
           /\ ledger' \in Seq(LedgerRow)
           /\ BalanceIsLedgerSum'
           /\ NeverOverdrawn'
           /\ Len(ledger') = Len(ledger) + 1
           /\ \A i \in 1..Len(ledger) : ledger'[i] = ledger[i]
           /\ ledger'[Len(ledger')].type = type
           /\ ledger'[Len(ledger')].ref = ref
           /\ ledger'[Len(ledger')].amount = amount
<1> DEFINE row == [type |-> type, ref |-> ref, amount |-> amount,
                   before |-> balance' - amount, after |-> balance']
<1>1. balance \in Int /\ balance' \in Int /\ balance' - amount = balance
  BY DEF CreditTypeOK
<1>2. ledger \in Seq(LedgerRow) /\ row \in LedgerRow
  BY <1>1 DEF CreditTypeOK, LedgerRow
<1>3. ledger' = Append(ledger, row)
  BY DEF LedgerLine
<1>4. /\ ledger' \in Seq(LedgerRow)
      /\ Len(ledger') = Len(ledger) + 1
      /\ DOMAIN ledger' = 1..(Len(ledger) + 1)
      /\ DOMAIN ledger = 1..Len(ledger)
      /\ \A i \in 1..Len(ledger) : ledger'[i] = ledger[i]
      /\ ledger'[Len(ledger) + 1] = row
      /\ Len(ledger) \in Nat
  BY <1>2, <1>3
<1>5. ledger' # <<>> /\ (ledger = <<>> <=> Len(ledger) = 0)
  BY <1>2, <1>4
<1>6. BalanceIsLedgerSum'
  <2>1. ASSUME NEW i \in 1..(Len(ledger) + 1)
        PROVE  /\ ledger'[i].after = ledger'[i].before + ledger'[i].amount
               /\ ledger'[i].before = IF i = 1 THEN 0 ELSE ledger'[i - 1].after
    <3>1. CASE i \in 1..Len(ledger)
      <4>1. i # 1 => i - 1 \in 1..Len(ledger)
        BY <3>1
      <4> QED BY <3>1, <4>1, <1>4 DEF BalanceIsLedgerSum
    <3>2. CASE i = Len(ledger) + 1
      <4>1. ledger'[i] = row /\ row.after = row.before + row.amount /\ row.before = balance
        BY <3>2, <1>1, <1>4
      <4>2. i # 1 => i - 1 \in 1..Len(ledger) /\ i - 1 = Len(ledger)
        BY <3>2, <1>4
      <4>3. CASE i = 1
        BY <4>1, <4>3, <3>2, <1>4, <1>5 DEF BalanceIsLedgerSum
      <4>4. CASE i # 1
        <5>1. ledger # <<>> /\ ledger'[i - 1] = ledger[Len(ledger)]
          BY <4>2, <4>4, <1>4, <1>5, <3>2
        <5> QED BY <5>1, <4>1, <4>4 DEF BalanceIsLedgerSum
      <4> QED BY <4>3, <4>4
    <3> QED BY <3>1, <3>2, <1>4
  <2>2. balance' = ledger'[Len(ledger')].after
    BY <1>4
  <2> QED BY <2>1, <2>2, <1>4, <1>5 DEF BalanceIsLedgerSum
<1>7. NeverOverdrawn'
  <2>1. ASSUME NEW i \in 1..(Len(ledger) + 1)
        PROVE  ledger'[i].before >= 0 /\ ledger'[i].after >= 0
    <3>1. CASE i \in 1..Len(ledger)
      BY <3>1, <1>4 DEF NeverOverdrawn
    <3>2. CASE i = Len(ledger) + 1
      BY <3>2, <1>1, <1>4 DEF NeverOverdrawn
    <3> QED BY <3>1, <3>2, <1>4
  <2> QED BY <2>1, <1>4 DEF NeverOverdrawn
<1> QED BY <1>1, <1>4, <1>6, <1>7

(* What the extended ledger says of a reference: the old rows and the new. *)
LEMMA NewRow ==
    ASSUME CreditTypeOK, BalanceIsLedgerSum, NeverOverdrawn, RefundMatchesSend,
           NEW type \in {"send", "refund", "topup"},
           NEW ref \in Messages \cup Topups,
           NEW amount \in Int,
           balance' = balance + amount, balance' >= 0,
           LedgerLine(type, ref, amount),
           type = "refund" => \E j \in RowsOf("send", ref) : ledger[j].amount = -amount
    PROVE  /\ RefundMatchesSend'
           /\ HasRow(type, ref)'
           /\ \A y, r : ~(y = type /\ r = ref) => RowsOf(y, r)' = RowsOf(y, r)
           /\ RowsOf(type, ref)' = {Len(ledger')}
<1>1. /\ Len(ledger') = Len(ledger) + 1
      /\ \A i \in 1..Len(ledger) : ledger'[i] = ledger[i]
      /\ ledger'[Len(ledger')].type = type
      /\ ledger'[Len(ledger')].ref = ref
      /\ ledger'[Len(ledger')].amount = amount
      /\ ledger' \in Seq(LedgerRow)
  BY NewLine
<1>2. /\ DOMAIN ledger = 1..Len(ledger)
      /\ DOMAIN ledger' = 1..(Len(ledger) + 1)
      /\ Len(ledger) \in Nat
  BY <1>1 DEF CreditTypeOK
<1>3. \A i \in 1..Len(ledger) : ~(ledger[i].type = type /\ ledger[i].ref = ref)
  BY <1>2 DEF LedgerLine, HasRow, RowsOf
<1>4. \A y, r : ~(y = type /\ r = ref) => RowsOf(y, r)' = RowsOf(y, r)
  BY <1>1, <1>2 DEF RowsOf
<1>5. RowsOf(type, ref)' = {Len(ledger')}
  BY <1>1, <1>2, <1>3 DEF RowsOf
<1>6. \A i, j \in DOMAIN ledger' :
         ledger'[i].ref = ledger'[j].ref /\ ledger'[i].type = ledger'[j].type => i = j
  BY <1>1, <1>2, <1>3 DEF RefundMatchesSend
<1>7. ASSUME NEW i \in DOMAIN ledger', ledger'[i].type = "refund"
      PROVE  \E j \in DOMAIN ledger' :
                /\ j < i
                /\ ledger'[j].type = "send"
                /\ ledger'[j].ref = ledger'[i].ref
                /\ ledger'[j].amount = -ledger'[i].amount
  <2>1. CASE i \in DOMAIN ledger
    <3>1. PICK j \in DOMAIN ledger : /\ j < i
                                     /\ ledger[j].type = "send"
                                     /\ ledger[j].ref = ledger[i].ref
                                     /\ ledger[j].amount = -ledger[i].amount
      BY <2>1, <1>1, <1>2, <1>7 DEF RefundMatchesSend
    <3> QED BY <2>1, <3>1, <1>1, <1>2
  <2>2. CASE i = Len(ledger) + 1
    <3>1. PICK j \in RowsOf("send", ref) : ledger[j].amount = -amount
      BY <2>2, <1>1, <1>7
    <3>2. j \in DOMAIN ledger /\ ledger[j].type = "send" /\ ledger[j].ref = ref
      BY <3>1 DEF RowsOf
    <3> QED BY <2>2, <3>1, <3>2, <1>1, <1>2
  <2> QED BY <2>1, <2>2, <1>2
<1> QED BY <1>4, <1>5, <1>6, <1>7 DEF RefundMatchesSend, HasRow

(* A line that was there keeps its place when the ledger only grows. *)
LEMMA OldRows ==
    ASSUME CreditTypeOK, \A i \in 1..Len(ledger) : ledger'[i] = ledger[i]
    PROVE  \A y, r : \A i \in RowsOf(y, r) : ledger'[i] = ledger[i]
<1>1. DOMAIN ledger = 1..Len(ledger)
  <2>1. ledger \in Seq(LedgerRow)
    BY DEF CreditTypeOK
  <2> QED BY <2>1
<1> QED BY <1>1 DEF RowsOf

-----------------------------------------------------------------------------
(* What a row says a message cost is a whole number of rials. *)
LEMMA CostIsNat == \A c \in Costs \cup {0} : c \in Nat
BY WalletAssumption DEF WalletAssumption

(* No row, no call and no top-up exists yet. *)
LEMMA InitIInv == CreditInit => IInv
BY WalletAssumption, TopupAssumption
   DEF CreditInit, WalletInit, NotifyInit, TopupInit, IInv, CreditTypeOK, MessageRow, MessageStatus,
       CallState, Running, TopupRow, GatewayRow, SettlerRow, BalanceIsLedgerSum, NeverOverdrawn,
       RefundMatchesSend, MessageAgreesWithLedger, NoFreeMessage, CallInv,
       TopupCreditedOnce, StarterInv, SettlerInv, HasRow, RowsOf, Refusals

(* Each step of a notifyCustomer call keeps the invariant. *)
LEMMA NotifyKeeps ==
    ASSUME IInv, NEW m \in Messages, Notify(m)
    PROVE  IInv'
<1> USE WalletAssumption DEF IInv
<1>t. UNCHANGED topupVars /\ NotifyStep(m)
  BY DEF Notify
<1>m. m \notin Topups /\ m \in Messages \cup Topups
  OBVIOUS
(* A step that leaves the wallet alone leaves every ledger fact alone. *)
<1>w. ASSUME UNCHANGED walletVars
      PROVE  /\ \A y, r : RowsOf(y, r)' = RowsOf(y, r) /\ HasRow(y, r)' = HasRow(y, r)
             /\ \A n \in Messages : message'[n].cost = message[n].cost => Charged(n)' = Charged(n)
             /\ BalanceIsLedgerSum' /\ NeverOverdrawn' /\ RefundMatchesSend'
             /\ TopupCreditedOnce' /\ StarterInv' /\ SettlerInv'
  <2>1. \A y, r : RowsOf(y, r)' = RowsOf(y, r) /\ HasRow(y, r)' = HasRow(y, r)
    BY <1>w DEF walletVars, RowsOf, HasRow
  <2>2. BalanceIsLedgerSum' /\ NeverOverdrawn' /\ RefundMatchesSend'
    BY <1>w DEF walletVars, BalanceIsLedgerSum, NeverOverdrawn, RefundMatchesSend
  <2>3. TopupCreditedOnce' /\ StarterInv' /\ SettlerInv'
    BY <1>w, <1>t, <2>1 DEF walletVars, topupVars, TopupCreditedOnce, StarterInv, SettlerInv
  <2>4. \A n \in Messages : message'[n].cost = message[n].cost => Charged(n)' = Charged(n)
    BY <1>w, <2>1 DEF walletVars, Charged
  <2> QED BY <2>1, <2>2, <2>3, <2>4
<1>1. CASE RecordRefusal(m)
  <2> USE <1>1 DEF RecordRefusal, Moves, SetMessage
  <2>1. CreditTypeOK'
    BY <1>t DEF topupVars, walletVars, CreditTypeOK, MessageRow, MessageStatus, CallState
  <2>m. MessageAgreesWithLedger'
    <3>1. /\ \A n \in Messages \ {m} : message'[n] = message[n]
          /\ message'[m].status \in Refusals /\ message[m].status = "none"
      BY DEF CreditTypeOK, CallInv
    <3>2. ASSUME NEW status \in Refusals PROVE status \notin {"sent", "failed", "pending", "refunded"}
      BY DEF Refusals
    <3> QED BY <1>w, <3>1, <3>2 DEF MessageAgreesWithLedger
  <2>f. NoFreeMessage'
    BY <1>w DEF NoFreeMessage, walletVars
  <2>c. CallInv'
    BY <1>w DEF CreditTypeOK, CallInv, Running, CallState, walletVars
  <2> QED BY <1>w, <2>1, <2>m, <2>f, <2>c
<1>2. CASE Charge(m)
  <2>1. PICK cost \in Costs : SetMessage(m, "pending", cost) /\ DebitWallet(m, cost)
    BY <1>2 DEF Charge
  <2>2. /\ cost \in Nat /\ -cost \in Int /\ balance' = balance + (-cost) /\ balance' >= 0
        /\ LedgerLine("send", m, -cost)
    BY <2>1 DEF DebitWallet, MoveBalance, CreditTypeOK
  <2>3. /\ balance' \in Int /\ ledger' \in Seq(LedgerRow)
        /\ BalanceIsLedgerSum' /\ NeverOverdrawn'
        /\ Len(ledger') = Len(ledger) + 1
        /\ \A i \in 1..Len(ledger) : ledger'[i] = ledger[i]
        /\ ledger'[Len(ledger')].amount = -cost
    BY <1>m, <2>2, NewLine
  <2>4. /\ RefundMatchesSend'
        /\ \A y, r : ~(y = "send" /\ r = m) => RowsOf(y, r)' = RowsOf(y, r)
        /\ RowsOf("send", m)' = {Len(ledger')}
    BY <1>m, <2>2, NewRow
  <2>5. CreditTypeOK'
    BY <1>t, <1>2, <2>1, <2>3
       DEF topupVars, CreditTypeOK, MessageRow, MessageStatus, CallState, SetMessage, Charge, Moves
  <2>6. ASSUME NEW n \in Messages, n # m
        PROVE  Charged(n)' <=> Charged(n)
    <3>1. \A i \in RowsOf("send", n) : ledger'[i] = ledger[i]
      BY <2>3, OldRows
    <3>2. RowsOf("send", n)' = RowsOf("send", n) /\ message'[n] = message[n]
      BY <2>1, <2>4, <2>6 DEF SetMessage, CreditTypeOK
    <3> QED BY <3>1, <3>2 DEF Charged
  <2>7. Charged(m)'
    BY <2>1, <2>3, <2>4 DEF Charged, SetMessage, CreditTypeOK
  <2>8. MessageAgreesWithLedger' /\ CallInv' /\ NoFreeMessage'
    BY <1>2, <2>1, <2>4, <2>6, <2>7
       DEF MessageAgreesWithLedger, CallInv, NoFreeMessage, Charge, Moves, SetMessage, HasRow,
           Refusals, Running, CallState, CreditTypeOK
  <2>9. TopupCreditedOnce' /\ StarterInv' /\ SettlerInv'
    <3>1. \A t \in Topups : \A i \in RowsOf("topup", t) : ledger'[i] = ledger[i]
      BY <2>3, OldRows
    <3> QED BY <1>t, <2>4, <3>1 DEF topupVars, TopupCreditedOnce, StarterInv, SettlerInv, HasRow
  <2> QED BY <2>3, <2>4, <2>5, <2>8, <2>9
<1>3. CASE InsufficientBalance(m)
  <2> USE <1>3 DEF InsufficientBalance, Moves, SetMessage
  <2>1. CreditTypeOK'
    BY <1>t DEF topupVars, walletVars, CreditTypeOK, MessageRow, MessageStatus, CallState
  <2>m. MessageAgreesWithLedger'
    BY <1>w, SMTT(40)
       DEF CreditTypeOK, MessageAgreesWithLedger, CallInv, Refusals, Running, CallState, MessageRow,
           walletVars
  <2>f. NoFreeMessage'
    BY <1>w DEF NoFreeMessage, walletVars
  <2>c. CallInv'
    BY <1>w DEF CreditTypeOK, CallInv, Running, CallState, walletVars
  <2> QED BY <1>w, <2>1, <2>m, <2>f, <2>c
<1>4. CASE SendAccepted(m) \/ SendThrows(m)
  <2> USE <1>4 DEF SendAccepted, SendThrows, Moves
  <2>1. CreditTypeOK'
    BY <1>t DEF topupVars, walletVars, CreditTypeOK, CallState
  <2>2. HasRow("send", m)
    BY DEF CallInv, MessageAgreesWithLedger, Running, CallState, Charged, HasRow
  <2>m. MessageAgreesWithLedger'
    BY <1>w, SMTT(40)
       DEF CreditTypeOK, MessageAgreesWithLedger, CallInv, Refusals, Running, CallState, MessageRow,
           walletVars
  <2>f. NoFreeMessage'
    BY <1>w, <2>2 DEF NoFreeMessage, walletVars
  <2>c. CallInv'
    BY <1>w DEF CreditTypeOK, CallInv, Running, CallState, walletVars
  <2> QED BY <1>w, <2>1, <2>m, <2>f, <2>c
<1>5. CASE MarkSent(m)
  <2> USE <1>5 DEF MarkSent, Moves, SetMessage
  <2>1. CreditTypeOK'
    BY <1>t DEF topupVars, walletVars, CreditTypeOK, MessageRow, MessageStatus, CallState
  <2>m. MessageAgreesWithLedger'
    BY <1>w, SMTT(40)
       DEF CreditTypeOK, MessageAgreesWithLedger, CallInv, Refusals, Running, CallState, MessageRow,
           walletVars
  <2>f. NoFreeMessage'
    BY <1>w DEF NoFreeMessage, walletVars
  <2>c. CallInv'
    BY <1>w DEF CreditTypeOK, CallInv, Running, CallState, walletVars
  <2> QED BY <1>w, <2>1, <2>m, <2>f, <2>c
<1>6. CASE MarkSentThrows(m) \/ RefundThrows(m)
  <2> USE <1>6 DEF MarkSentThrows, RefundThrows, Moves
  <2>1. CreditTypeOK'
    BY <1>t DEF topupVars, walletVars, CreditTypeOK, CallState
  <2>m. MessageAgreesWithLedger'
    BY <1>w, SMTT(40)
       DEF CreditTypeOK, MessageAgreesWithLedger, CallInv, Refusals, Running, CallState, MessageRow,
           walletVars
  <2>f. NoFreeMessage'
    BY <1>w DEF NoFreeMessage, walletVars
  <2>c. CallInv'
    BY <1>w DEF CreditTypeOK, CallInv, Running, CallState, walletVars
  <2> QED BY <1>w, <2>1, <2>m, <2>f, <2>c
<1>7. CASE RefundFailedSend(m)
  <2>1. /\ ~HasRow("refund", m) /\ message[m].status = "pending" /\ Charged(m)
        /\ notifying[m] = "caught" /\ notifying' = [notifying EXCEPT ![m] = "refunded"]
        /\ UNCHANGED <<message, delivered>>
    BY <1>7 DEF RefundFailedSend, Moves, CallInv, MessageAgreesWithLedger, Running, CallState
  <2> DEFINE cost == message[m].cost
  <2>2. RefundMessage(m, cost)
    BY <1>7, <2>1 DEF RefundFailedSend
  <2>a. cost \in Nat /\ balance \in Int /\ balance >= 0
    <3>1. message[m] \in MessageRow
      BY DEF CreditTypeOK
    <3>2. cost \in Costs \cup {0}
      BY <3>1 DEF MessageRow
    <3>3. cost \in Nat
      BY <3>2, CostIsNat
    <3>4. balance \in Int
      BY DEF CreditTypeOK
    <3> QED BY <3>3, <3>4 DEF NeverOverdrawn
  <2>b. balance' = balance + cost /\ LedgerLine("refund", m, cost)
    BY <2>2 DEF RefundMessage, MoveBalance
  <2>3. /\ cost \in Nat /\ balance' = balance + cost /\ balance' >= 0
        /\ LedgerLine("refund", m, cost)
        /\ \E j \in RowsOf("send", m) : ledger[j].amount = -cost
    BY <2>1, <2>a, <2>b DEF Charged
  <2> HIDE DEF cost
  <2>4. /\ balance' \in Int /\ ledger' \in Seq(LedgerRow)
        /\ BalanceIsLedgerSum' /\ NeverOverdrawn'
        /\ Len(ledger') = Len(ledger) + 1
        /\ \A i \in 1..Len(ledger) : ledger'[i] = ledger[i]
    BY <1>m, <2>3, NewLine
  <2>5. /\ RefundMatchesSend'
        /\ \A y, r : ~(y = "refund" /\ r = m) => RowsOf(y, r)' = RowsOf(y, r)
        /\ HasRow("refund", m)'
    BY <1>m, <2>3, NewRow
  <2>6. CreditTypeOK'
    BY <1>t, <2>1, <2>4 DEF topupVars, CreditTypeOK, CallState
  <2>7. ASSUME NEW n \in Messages
        PROVE  Charged(n)' <=> Charged(n)
    <3>1. \A i \in RowsOf("send", n) : ledger'[i] = ledger[i]
      BY <2>4, OldRows
    <3>2. RowsOf("send", n)' = RowsOf("send", n) /\ message'[n] = message[n]
      BY <2>1, <2>5
    <3> QED BY <3>1, <3>2 DEF Charged
  <2>8. MessageAgreesWithLedger' /\ CallInv' /\ NoFreeMessage'
    BY <2>1, <2>5, <2>7
       DEF MessageAgreesWithLedger, CallInv, NoFreeMessage, HasRow, Refusals, Running, CallState,
           CreditTypeOK
  <2>9. TopupCreditedOnce' /\ StarterInv' /\ SettlerInv'
    <3>1. \A t \in Topups : \A i \in RowsOf("topup", t) : ledger'[i] = ledger[i]
      BY <2>4, OldRows
    <3> QED BY <1>t, <2>5, <3>1 DEF topupVars, TopupCreditedOnce, StarterInv, SettlerInv, HasRow
  <2> QED BY <2>4, <2>5, <2>6, <2>8, <2>9
<1>8. CASE RecordOutcome(m)
  <2> USE <1>8 DEF RecordOutcome, Moves, SetMessage
  <2>1. CreditTypeOK'
    <3>1. message[m].cost \in Costs \cup {0}
      BY DEF CreditTypeOK, MessageRow
    <3>2. message' \in [Messages -> MessageRow]
      BY <3>1 DEF CreditTypeOK, MessageRow, MessageStatus
    <3>3. notifying' \in [Messages -> CallState]
      BY DEF CreditTypeOK, CallState
    <3> QED BY <1>t, <3>2, <3>3 DEF topupVars, walletVars, CreditTypeOK
  <2>m. MessageAgreesWithLedger'
    <3>1. \A n \in Messages \ {m} : message'[n] = message[n]
      BY DEF CreditTypeOK
    <3>2. message[m].status = "pending" /\ HasRow("send", m) /\ Charged(m)
      BY DEF CallInv, Running, CallState, MessageAgreesWithLedger, Charged, HasRow
    <3>3. CASE notifying[m] = "refunded"
      <4>1. message'[m] = [status |-> "refunded", cost |-> 0] /\ HasRow("refund", m)
        BY <3>3 DEF CreditTypeOK, CallInv
      <4> QED BY <1>w, <3>1, <3>2, <4>1 DEF MessageAgreesWithLedger, Refusals
    <3>4. CASE notifying[m] = "unrefunded"
      <4>1. message'[m] = [status |-> "failed", cost |-> message[m].cost] /\ ~HasRow("refund", m)
        BY <3>4 DEF CreditTypeOK, CallInv, Running, CallState
      <4> QED BY <1>w, <3>1, <3>2, <4>1 DEF MessageAgreesWithLedger, Refusals
    <3> QED BY <3>3, <3>4
  <2>f. NoFreeMessage'
    BY <1>w DEF NoFreeMessage, walletVars
  <2>c. CallInv'
    BY <1>w DEF CreditTypeOK, CallInv, Running, CallState, walletVars
  <2> QED BY <1>w, <2>1, <2>m, <2>f, <2>c
<1>9. CASE OuterCatch(m)
  <2> USE <1>9 DEF OuterCatch
  <2>1. CreditTypeOK'
    BY <1>t DEF topupVars, walletVars, CreditTypeOK, CallState
  <2>m. MessageAgreesWithLedger'
    BY <1>w, SMTT(40)
       DEF CreditTypeOK, MessageAgreesWithLedger, CallInv, Refusals, Running, CallState, MessageRow,
           walletVars
  <2>f. NoFreeMessage'
    BY <1>w DEF NoFreeMessage, walletVars
  <2>c. CallInv'
    BY <1>w DEF CreditTypeOK, CallInv, Running, CallState, walletVars
  <2> QED BY <1>w, <2>1, <2>m, <2>f, <2>c
<1> QED BY <1>t, <1>1, <1>2, <1>3, <1>4, <1>5, <1>6, <1>7, <1>8, <1>9 DEF NotifyStep

(* What the steps of the top-up side do not touch: the messages' facts,    *)
(* when the wallet stays as it is or gains a line for a top-up.            *)
LEMMA OtherSide ==
    ASSUME IInv, UNCHANGED notifyVars,
           \A m \in Messages : /\ RowsOf("send", m)' = RowsOf("send", m)
                              /\ RowsOf("refund", m)' = RowsOf("refund", m)
                              /\ \A i \in RowsOf("send", m) : ledger'[i] = ledger[i]
    PROVE  MessageAgreesWithLedger' /\ NoFreeMessage' /\ CallInv'
<1>1. \A m \in Messages : /\ HasRow("send", m)' <=> HasRow("send", m)
                          /\ HasRow("refund", m)' <=> HasRow("refund", m)
  BY DEF HasRow
<1>2. ASSUME NEW m \in Messages
      PROVE  Charged(m)' <=> Charged(m)
  BY DEF Charged, notifyVars
<1> QED BY <1>1, <1>2 DEF IInv, MessageAgreesWithLedger, NoFreeMessage, CallInv, notifyVars, CreditTypeOK

(* A top-up that Zibal has not verified has no ledger line.                *)
LEMMA UncreditedTopup ==
    ASSUME TopupCreditedOnce, NEW t \in Topups, gateway[t].state # "verified"
    PROVE  RowsOf("topup", t) = {}
<1>1. ASSUME NEW i \in RowsOf("topup", t) PROVE FALSE
  <2>1. gateway[t] = [state |-> "verified", taken |-> topup[t].amount]
    BY DEF TopupCreditedOnce
  <2> QED BY <2>1
<1> QED BY <1>1

(* Each step of startTopup, and the customer paying, keeps the invariant.  *)
LEMMA StartKeeps ==
    ASSUME IInv, NEW t \in Topups, Start(t)
    PROVE  IInv'
<1> USE DEF IInv
<1>1. UNCHANGED notifyVars /\ StartStep(t)
  BY DEF Start
<1>2. UNCHANGED walletVars
  BY <1>1 DEF StartStep, StartTopup, RequestPayment, RequestThrows, SaveTrackId, CustomerPays
<1>3. \A y, r : RowsOf(y, r)' = RowsOf(y, r) /\ HasRow(y, r)' = HasRow(y, r)
  BY <1>2 DEF walletVars, RowsOf, HasRow
<1>4. BalanceIsLedgerSum' /\ NeverOverdrawn' /\ RefundMatchesSend'
  BY <1>2 DEF walletVars, BalanceIsLedgerSum, NeverOverdrawn, RefundMatchesSend
<1>5. MessageAgreesWithLedger' /\ NoFreeMessage' /\ CallInv'
  BY <1>1, <1>2, <1>3, OtherSide DEF walletVars
<1>6. CreditTypeOK' /\ StarterInv'
  <2>1. CASE StartTopup(t)
    <3>1. PICK a \in Amounts :
             topup' = [topup EXCEPT ![t].status = "pending", ![t].amount = a]
      BY <2>1 DEF StartTopup
    <3>2. topup' \in [Topups -> TopupRow]
      <4>1. topup \in [Topups -> TopupRow]
        BY DEF CreditTypeOK
      <4>2. [topup[t] EXCEPT !.status = "pending", !.amount = a] \in TopupRow
        BY <4>1 DEF TopupRow
      <4>3. topup' = [topup EXCEPT ![t] = [topup[t] EXCEPT !.status = "pending", !.amount = a]]
        BY <3>1, <4>1 DEF TopupRow
      <4> QED BY <4>1, <4>2, <4>3
    <3>3. CreditTypeOK'
      BY <1>1, <1>2, <2>1, <3>2 DEF StartTopup, StarterMoves, notifyVars, walletVars, CreditTypeOK
    <3>4. topup'[t].status = "pending" /\ topup'[t].tracked = topup[t].tracked
      BY <3>1 DEF CreditTypeOK, TopupRow
    <3>5. \A u \in Topups \ {t} : topup'[u] = topup[u] /\ starter'[u] = starter[u]
      BY <2>1, <3>1 DEF StartTopup, StarterMoves, CreditTypeOK
    <3>6. /\ starter[t] = "idle" /\ starter'[t] = "requesting"
          /\ gateway' = gateway /\ gateway[t].state = "none" /\ ~topup[t].tracked
      BY <2>1 DEF StartTopup, StarterMoves, StarterInv, CreditTypeOK
    <3> QED BY <3>3, <3>4, <3>5, <3>6 DEF StarterInv
  <2>2. CASE RequestPayment(t)
    <3>1. gateway' \in [Topups -> GatewayRow]
      BY <2>2 DEF RequestPayment, CreditTypeOK, GatewayRow
    <3>2. CreditTypeOK'
      BY <1>1, <1>2, <2>2, <3>1 DEF RequestPayment, StarterMoves, notifyVars, walletVars, CreditTypeOK
    <3>3. \A u \in Topups \ {t} : gateway'[u] = gateway[u] /\ starter'[u] = starter[u]
      BY <2>2 DEF RequestPayment, StarterMoves, CreditTypeOK
    <3>4. starter[t] = "requesting" /\ starter'[t] = "registered" /\ topup' = topup
      BY <2>2 DEF RequestPayment, StarterMoves, CreditTypeOK
    <3> QED BY <3>2, <3>3, <3>4 DEF StarterInv
  <2>3. CASE RequestThrows(t) \/ SaveTrackId(t)
    <3>1. topup' \in [Topups -> TopupRow]
      <4>1. topup \in [Topups -> TopupRow]
        BY DEF CreditTypeOK
      <4> QED BY <2>3, <4>1 DEF RequestThrows, SaveTrackId, TopupRow
    <3>2. CreditTypeOK'
      BY <1>1, <1>2, <2>3, <3>1
         DEF RequestThrows, SaveTrackId, StarterMoves, notifyVars, walletVars, CreditTypeOK
    <3>3. \A u \in Topups \ {t} : topup'[u] = topup[u] /\ starter'[u] = starter[u]
      BY <2>3 DEF RequestThrows, SaveTrackId, StarterMoves, CreditTypeOK
    <3>4. starter[t] # "idle" /\ starter'[t] = "done" /\ gateway' = gateway
      BY <2>3 DEF RequestThrows, SaveTrackId, StarterMoves, CreditTypeOK
    <3>5. topup'[t].status # "none"
      BY <2>3, <3>4 DEF RequestThrows, SaveTrackId, StarterInv, CreditTypeOK, TopupRow
    <3> QED BY <3>2, <3>3, <3>4, <3>5 DEF StarterInv
  <2>4. CASE CustomerPays(t)
    <3>1. PICK a \in Amounts :
             gateway' = [gateway EXCEPT ![t] = [state |-> "paid", taken |-> a]]
      BY <2>4 DEF CustomerPays
    <3>2. gateway' \in [Topups -> GatewayRow]
      BY <3>1 DEF CreditTypeOK, GatewayRow
    <3>3. CreditTypeOK'
      BY <1>1, <1>2, <2>4, <3>2 DEF CustomerPays, notifyVars, walletVars, CreditTypeOK
    <3>4. \A u \in Topups \ {t} : gateway'[u] = gateway[u]
      BY <3>1 DEF CreditTypeOK
    <3>5. gateway[t].state = "open" /\ UNCHANGED <<topup, starter>>
      BY <2>4 DEF CustomerPays
    <3> QED BY <3>3, <3>4, <3>5 DEF StarterInv
  <2> QED BY <1>1, <2>1, <2>2, <2>3, <2>4 DEF StartStep
<1>7. TopupCreditedOnce' /\ SettlerInv'
  <2>1. CASE StartTopup(t)
    <3>1. topup[t].status = "none" /\ ~topup[t].tracked /\ ~HasRow("topup", t)
      BY <2>1 DEF StartTopup, StarterMoves, StarterInv, TopupCreditedOnce
    <3>2. /\ topup'[t].status = "pending" /\ topup'[t].tracked = topup[t].tracked
          /\ \A u \in Topups \ {t} : topup'[u] = topup[u]
          /\ gateway' = gateway /\ settler' = settler
      BY <2>1 DEF StartTopup, CreditTypeOK, TopupRow
    <3>3. TopupCreditedOnce'
      BY <3>1, <3>2, <1>2, <1>3 DEF TopupCreditedOnce, walletVars, HasRow
    <3>4. SettlerInv'
      BY <3>1, <3>2 DEF SettlerInv, CreditTypeOK, SettlerRow
    <3> QED BY <3>3, <3>4
  <2>2. CASE RequestPayment(t)
    <3>1. ~topup[t].tracked /\ gateway[t].state = "none"
      BY <2>2 DEF RequestPayment, StarterMoves, StarterInv
    <3>2. /\ \A u \in Topups \ {t} : gateway'[u] = gateway[u]
          /\ topup' = topup /\ settler' = settler
      BY <2>2 DEF RequestPayment, CreditTypeOK
    <3>3. RowsOf("topup", t) = {}
      BY <3>1, UncreditedTopup
    <3>4. TopupCreditedOnce'
      BY <3>2, <3>3, <1>2, <1>3 DEF TopupCreditedOnce, walletVars
    <3>5. SettlerInv'
      BY <3>1, <3>2 DEF SettlerInv, CreditTypeOK, SettlerRow
    <3> QED BY <3>4, <3>5
  <2>3. CASE RequestThrows(t)
    <3>1. ~topup[t].tracked /\ gateway[t].state = "none" /\ RowsOf("topup", t) = {}
      BY <2>3, UncreditedTopup DEF RequestThrows, StarterMoves, StarterInv
    <3>2. /\ \A u \in Topups \ {t} : topup'[u] = topup[u]
          /\ topup'[t].status = "failed" /\ topup'[t].tracked = topup[t].tracked
          /\ gateway' = gateway /\ settler' = settler
      BY <2>3 DEF RequestThrows, CreditTypeOK, TopupRow
    <3>3. TopupCreditedOnce'
      BY <3>1, <3>2, <1>2, <1>3 DEF TopupCreditedOnce, walletVars, HasRow
    <3>4. SettlerInv'
      BY <3>1, <3>2 DEF SettlerInv, CreditTypeOK, SettlerRow
    <3> QED BY <3>3, <3>4
  <2>4. CASE SaveTrackId(t)
    <3>1. /\ \A u \in Topups : /\ topup'[u].status = topup[u].status
                               /\ topup'[u].amount = topup[u].amount
                               /\ topup[u].tracked => topup'[u].tracked
          /\ gateway' = gateway /\ settler' = settler
      BY <2>4 DEF SaveTrackId, CreditTypeOK, TopupRow
    <3>2. TopupCreditedOnce'
      BY <3>1, <1>2, <1>3 DEF TopupCreditedOnce, walletVars
    <3>3. \A s \in Settlers : settler[s].of \in Topups
      BY DEF CreditTypeOK, SettlerRow
    <3>4. SettlerInv'
      BY <3>1, <3>3 DEF SettlerInv
    <3> QED BY <3>2, <3>4
  <2>5. CASE CustomerPays(t)
    <3>1. gateway[t].state = "open" /\ RowsOf("topup", t) = {}
      BY <2>5, UncreditedTopup DEF CustomerPays
    <3>2. /\ \A u \in Topups \ {t} : gateway'[u] = gateway[u]
          /\ topup' = topup /\ settler' = settler
      BY <2>5 DEF CustomerPays, CreditTypeOK
    <3>3. TopupCreditedOnce'
      BY <3>1, <3>2, <1>2, <1>3 DEF TopupCreditedOnce, walletVars
    <3>4. SettlerInv'
      BY <3>1, <3>2 DEF SettlerInv, CreditTypeOK, SettlerRow
    <3> QED BY <3>3, <3>4
  <2> QED BY <1>1, <2>1, <2>2, <2>3, <2>4, <2>5 DEF StartStep
<1> QED BY <1>4, <1>5, <1>6, <1>7

(* Each step of settleTopup keeps the invariant. *)
LEMMA SettleKeeps ==
    ASSUME IInv, NEW s \in Settlers, Settle(s)
    PROVE  IInv'
<1> USE DEF IInv
<1>1. UNCHANGED notifyVars /\ SettleStep(s)
  BY DEF Settle
<1>2. \A p \in Settlers : settler[p].of \in Topups
  BY DEF CreditTypeOK, SettlerRow
<1>t. PICK t \in Topups : t = settler[s].of
  BY <1>2
<1>3. t \in Topups /\ t \in Messages \cup Topups /\ t \notin Messages
  BY WalletAssumption DEF WalletAssumption
(* The steps that leave the wallet alone. *)
<1>w. ASSUME UNCHANGED walletVars
      PROVE  /\ \A y, r : RowsOf(y, r)' = RowsOf(y, r) /\ HasRow(y, r)' = HasRow(y, r)
             /\ BalanceIsLedgerSum' /\ NeverOverdrawn' /\ RefundMatchesSend'
             /\ MessageAgreesWithLedger' /\ NoFreeMessage' /\ CallInv'
  <2>1. \A y, r : RowsOf(y, r)' = RowsOf(y, r) /\ HasRow(y, r)' = HasRow(y, r)
    BY <1>w DEF walletVars, RowsOf, HasRow
  <2>2. BalanceIsLedgerSum' /\ NeverOverdrawn' /\ RefundMatchesSend'
    BY <1>w DEF walletVars, BalanceIsLedgerSum, NeverOverdrawn, RefundMatchesSend
  <2> QED BY <1>1, <1>w, <2>1, <2>2, OtherSide DEF walletVars
<1>4. CASE \E u \in Topups : ReadTopup(s, u)
  <2>1. PICK u \in Topups : ReadTopup(s, u)
    BY <1>4
  <2>2. /\ UNCHANGED <<topup, starter, gateway, walletVars>>
        /\ settler' = [settler EXCEPT ![s] = [pc |-> "verifying", of |-> u]]
        /\ topup[u].tracked
    BY <2>1 DEF ReadTopup
  <2>3. CreditTypeOK'
    BY <1>1, <2>2 DEF CreditTypeOK, SettlerRow, notifyVars, walletVars
  <2>4. TopupCreditedOnce' /\ StarterInv'
    BY <1>w, <2>2 DEF TopupCreditedOnce, StarterInv, walletVars
  <2>5. SettlerInv'
    BY <1>2, <2>2 DEF SettlerInv, CreditTypeOK
  <2> QED BY <1>w, <2>2, <2>3, <2>4, <2>5
<1>5. CASE VerifyPayment(s)
  <2>1. /\ UNCHANGED <<topup, starter, walletVars>>
        /\ settler[s].pc = "verifying"
        /\ gateway[t].state \in {"paid", "verified"}
        /\ gateway' = [gateway EXCEPT ![t].state = "verified"]
        /\ settler' = [settler EXCEPT ![s].pc =
                           IF gateway[t].taken # topup[t].amount THEN "mismatch" ELSE "claiming"]
    BY <1>5, <1>t DEF VerifyPayment
  <2>2. CreditTypeOK'
    <3>1. gateway' \in [Topups -> GatewayRow]
      BY <2>1, <1>3 DEF CreditTypeOK, GatewayRow
    <3>2. settler' \in [Settlers -> SettlerRow]
      BY <2>1 DEF CreditTypeOK, SettlerRow
    <3> QED BY <1>1, <2>1, <3>1, <3>2 DEF CreditTypeOK, notifyVars, walletVars
  <2>3. /\ \A u \in Topups \ {t} : gateway'[u] = gateway[u]
        /\ gateway'[t] = [state |-> "verified", taken |-> gateway[t].taken]
    BY <1>3, <2>1 DEF CreditTypeOK, GatewayRow
  <2>4. TopupCreditedOnce'
    BY <1>3, <1>w, <2>1, <2>3 DEF TopupCreditedOnce, walletVars
  <2>5. StarterInv'
    BY <1>3, <2>1, <2>3 DEF StarterInv
  <2>6. SettlerInv'
    <3>1. ASSUME NEW p \in Settlers, p # s
          PROVE  settler'[p] = settler[p]
      BY <2>1, <3>1 DEF CreditTypeOK
    <3>2. settler'[s].of = t /\ topup[t].tracked
      BY <1>2, <1>t, <2>1 DEF CreditTypeOK, SettlerInv, SettlerRow
    <3>3. settler'[s].pc = IF gateway[t].taken # topup[t].amount THEN "mismatch" ELSE "claiming"
      BY <2>1 DEF CreditTypeOK, SettlerRow
    <3> QED BY <1>2, <2>1, <2>3, <3>1, <3>2, <3>3 DEF SettlerInv
  <2> QED BY <1>w, <2>1, <2>2, <2>4, <2>5, <2>6
<1>6. CASE VerifyThrows(s)
  <2>1. /\ UNCHANGED <<topup, starter, walletVars>>
        /\ settler' = [settler EXCEPT ![s].pc = "idle"]
    BY <1>6, <1>t DEF VerifyThrows
  <2>2. \/ gateway' = gateway
        \/ gateway[t].state = "paid" /\ gateway' = [gateway EXCEPT ![t].state = "verified"]
    BY <1>6, <1>t DEF VerifyThrows
  <2>3. gateway' \in [Topups -> GatewayRow]
    <3>1. gateway \in [Topups -> GatewayRow]
      BY DEF CreditTypeOK
    <3>2. \A r \in GatewayRow : [r EXCEPT !["state"] = "verified"] \in GatewayRow
      BY DEF GatewayRow
    <3>3. CASE gateway' = gateway
      BY <3>1, <3>3
    <3>4. CASE gateway' = [gateway EXCEPT ![t].state = "verified"]
      BY <3>1, <3>2, <3>4, <1>3
    <3> QED BY <2>2, <3>3, <3>4
  <2>4. CreditTypeOK'
    <3>1. settler' \in [Settlers -> SettlerRow]
      BY <2>1 DEF CreditTypeOK, SettlerRow
    <3> QED BY <1>1, <2>1, <2>3, <3>1 DEF CreditTypeOK, notifyVars, walletVars
  <2>5. \A u \in Topups : /\ gateway'[u].taken = gateway[u].taken
                          /\ gateway[u].state = "verified" => gateway'[u] = gateway[u]
                          /\ gateway[u].state = "none" => gateway'[u] = gateway[u]
    BY <1>3, <2>2 DEF CreditTypeOK, GatewayRow
  <2>6. TopupCreditedOnce'
    BY <1>w, <2>1, <2>5 DEF TopupCreditedOnce, walletVars
  <2>7. StarterInv'
    <3>1. gateway[t].state = "none" => gateway'[t] = gateway[t]
      BY <1>3, <2>5
    <3> QED BY <2>1, <2>5 DEF StarterInv
  <2>8. SettlerInv'
    <3>1. \A p \in Settlers : settler'[p].of = settler[p].of /\ (p # s => settler'[p] = settler[p])
      BY <2>1 DEF CreditTypeOK, SettlerRow
    <3>2. settler'[s].pc = "idle"
      BY <2>1 DEF CreditTypeOK, SettlerRow
    <3> QED BY <1>2, <2>1, <2>5, <3>1, <3>2 DEF SettlerInv
  <2> QED BY <1>w, <2>1, <2>4, <2>6, <2>7, <2>8
<1>7. CASE RecordMismatch(s)
  <2>1. /\ UNCHANGED <<starter, gateway, walletVars>>
        /\ settler[s].pc = "mismatch"
        /\ topup' = [topup EXCEPT ![t].status = "failed"]
        /\ settler' = [settler EXCEPT ![s].pc = "idle"]
    BY <1>7, <1>t DEF RecordMismatch
  <2>2. gateway[t].taken # topup[t].amount /\ topup[t].tracked
    BY <1>t, <2>1 DEF SettlerInv
  <2>3. CreditTypeOK'
    <3>1. topup' \in [Topups -> TopupRow]
      BY <2>1, <1>3 DEF CreditTypeOK, TopupRow
    <3>2. settler' \in [Settlers -> SettlerRow]
      BY <2>1 DEF CreditTypeOK, SettlerRow
    <3> QED BY <1>1, <2>1, <3>1, <3>2 DEF CreditTypeOK, notifyVars, walletVars
  <2>4. /\ \A u \in Topups \ {t} : topup'[u] = topup[u]
        /\ \A u \in Topups : topup'[u].amount = topup[u].amount /\ topup'[u].tracked = topup[u].tracked
        /\ topup'[t].status = "failed"
    BY <1>3, <2>1 DEF CreditTypeOK, TopupRow
  <2>5. RowsOf("topup", t) = {}
    <3>1. ASSUME NEW i \in RowsOf("topup", t) PROVE FALSE
      <4>1. gateway[t] = [state |-> "verified", taken |-> topup[t].amount]
        BY <1>3 DEF TopupCreditedOnce
      <4> QED BY <2>2, <4>1
    <3> QED BY <3>1
  <2>6. TopupCreditedOnce'
    BY <1>3, <1>w, <2>1, <2>4, <2>5 DEF TopupCreditedOnce, walletVars, HasRow
  <2>7. StarterInv'
    BY <1>3, <2>1, <2>2, <2>4 DEF StarterInv
  <2>8. SettlerInv'
    <3>1. \A p \in Settlers : settler'[p].of = settler[p].of /\ (p # s => settler'[p] = settler[p])
      BY <2>1 DEF CreditTypeOK, SettlerRow
    <3>2. settler'[s].pc = "idle"
      BY <2>1 DEF CreditTypeOK, SettlerRow
    <3> QED BY <1>2, <2>1, <2>4, <3>1, <3>2 DEF SettlerInv
  <2> QED BY <1>w, <2>1, <2>3, <2>6, <2>7, <2>8
<1>8. CASE ClaimAndCredit(s) /\ topup[t].status = "verified"
  <2>1. /\ UNCHANGED <<topup, starter, gateway, walletVars>>
        /\ settler' = [settler EXCEPT ![s].pc = "idle"]
    BY <1>8, <1>t DEF ClaimAndCredit
  <2>2. CreditTypeOK'
    BY <1>1, <2>1 DEF CreditTypeOK, SettlerRow, notifyVars, walletVars
  <2>3. TopupCreditedOnce' /\ StarterInv'
    BY <1>w, <2>1 DEF TopupCreditedOnce, StarterInv, walletVars
  <2>4. SettlerInv'
    <3>1. \A p \in Settlers : settler'[p].of = settler[p].of /\ (p # s => settler'[p] = settler[p])
      BY <2>1 DEF CreditTypeOK, SettlerRow
    <3>2. settler'[s].pc = "idle"
      BY <2>1 DEF CreditTypeOK, SettlerRow
    <3> QED BY <1>2, <2>1, <3>1, <3>2 DEF SettlerInv
  <2> QED BY <1>w, <2>1, <2>2, <2>3, <2>4
<1>9. CASE ClaimAndCredit(s) /\ topup[t].status # "verified"
  <2> DEFINE amount == topup[t].amount
  <2>1. /\ UNCHANGED <<starter, gateway>>
        /\ settler[s].pc = "claiming"
        /\ topup' = [topup EXCEPT ![t].status = "verified"]
        /\ CreditWallet(t, amount)
        /\ settler' = [settler EXCEPT ![s].pc = "idle"]
    BY <1>9, <1>t DEF ClaimAndCredit
  <2>2. gateway[t] = [state |-> "verified", taken |-> topup[t].amount] /\ topup[t].tracked
    BY <1>t, <2>1 DEF SettlerInv
  <2>a. amount \in Nat
    <3>1. topup[t] \in TopupRow
      BY <1>3 DEF CreditTypeOK
    <3>2. amount \in Amounts \cup {0}
      BY <3>1 DEF TopupRow
    <3> HIDE DEF amount
    <3> QED BY <3>2, TopupAssumption DEF TopupAssumption
  <2>3. /\ amount \in Int /\ balance' = balance + amount /\ balance' >= 0
        /\ LedgerLine("topup", t, amount)
    <3>1. balance \in Int /\ balance >= 0
      BY DEF CreditTypeOK, NeverOverdrawn
    <3> HIDE DEF amount
    <3> QED BY <2>1, <2>a, <3>1 DEF CreditWallet, MoveBalance
  <2> HIDE DEF amount
  <2>4. /\ balance' \in Int /\ ledger' \in Seq(LedgerRow)
        /\ BalanceIsLedgerSum' /\ NeverOverdrawn'
        /\ Len(ledger') = Len(ledger) + 1
        /\ \A i \in 1..Len(ledger) : ledger'[i] = ledger[i]
        /\ ledger'[Len(ledger')].amount = amount
    BY <1>3, <2>3, NewLine
  <2>5. /\ RefundMatchesSend'
        /\ \A y, r : ~(y = "topup" /\ r = t) => RowsOf(y, r)' = RowsOf(y, r)
        /\ RowsOf("topup", t)' = {Len(ledger')}
    BY <1>3, <2>3, NewRow
  <2>6. CreditTypeOK'
    <3>1. topup' \in [Topups -> TopupRow]
      BY <2>1, <1>3 DEF CreditTypeOK, TopupRow
    <3>2. settler' \in [Settlers -> SettlerRow]
      BY <2>1 DEF CreditTypeOK, SettlerRow
    <3> QED BY <1>1, <2>1, <2>4, <3>1, <3>2 DEF CreditTypeOK, notifyVars
  <2>7. MessageAgreesWithLedger' /\ NoFreeMessage' /\ CallInv'
    <3>1. \A m \in Messages : \A i \in RowsOf("send", m) : i \in 1..Len(ledger)
      BY DEF RowsOf, CreditTypeOK
    <3> QED BY <1>1, <1>3, <2>4, <2>5, <3>1, OtherSide
  <2>8. /\ \A u \in Topups \ {t} : topup'[u] = topup[u]
        /\ \A u \in Topups : topup'[u].amount = topup[u].amount /\ topup'[u].tracked = topup[u].tracked
        /\ topup'[t].status = "verified"
    BY <1>3, <2>1 DEF CreditTypeOK, TopupRow
  <2>9. TopupCreditedOnce'
    <3>1. ASSUME NEW u \in Topups, u # t
          PROVE  /\ topup'[u] = topup[u] /\ gateway'[u] = gateway[u]
                 /\ RowsOf("topup", u)' = RowsOf("topup", u)
                 /\ \A i \in RowsOf("topup", u) : ledger'[i] = ledger[i]
      <4>1. \A i \in RowsOf("topup", u) : i \in 1..Len(ledger)
        BY DEF RowsOf, CreditTypeOK
      <4> QED BY <2>1, <2>4, <2>5, <2>8, <3>1, <4>1
    <3>2. /\ topup'[t].status = "verified" /\ HasRow("topup", t)'
          /\ \A i \in RowsOf("topup", t)' :
                /\ ledger'[i].amount = topup'[t].amount
                /\ gateway'[t] = [state |-> "verified", taken |-> topup'[t].amount]
      BY <1>3, <2>1, <2>2, <2>4, <2>5, <2>8 DEF HasRow, amount
    <3>3. \A u \in Topups \ {t} : HasRow("topup", u)' <=> HasRow("topup", u)
      BY <3>1 DEF HasRow
    <3>4. ASSUME NEW u \in Topups
          PROVE  /\ topup'[u].status = "verified" <=> HasRow("topup", u)'
                 /\ \A i \in RowsOf("topup", u)' :
                       /\ ledger'[i].amount = topup'[u].amount
                       /\ gateway'[u] = [state |-> "verified", taken |-> topup'[u].amount]
      <4>1. CASE u = t
        BY <3>2, <4>1
      <4>2. CASE u # t
        BY <3>1, <3>3, <4>2 DEF TopupCreditedOnce
      <4> QED BY <4>1, <4>2
    <3> QED BY <3>4 DEF TopupCreditedOnce
  <2>10. StarterInv'
    BY <1>3, <2>1, <2>2, <2>8 DEF StarterInv
  <2>11. SettlerInv'
    <3>1. \A p \in Settlers : settler'[p].of = settler[p].of /\ (p # s => settler'[p] = settler[p])
      BY <2>1 DEF CreditTypeOK, SettlerRow
    <3>2. settler'[s].pc = "idle"
      BY <2>1 DEF CreditTypeOK, SettlerRow
    <3> QED BY <1>2, <2>1, <2>8, <3>1, <3>2 DEF SettlerInv
  <2> QED BY <2>4, <2>5, <2>6, <2>7, <2>9, <2>10, <2>11
<1> QED BY <1>1, <1>4, <1>5, <1>6, <1>7, <1>8, <1>9 DEF SettleStep

(* A crash forgets where the calls were, which only weakens the invariant. *)
LEMMA CrashKeeps ==
    ASSUME IInv, Crash
    PROVE  IInv'
<1> USE DEF IInv
<1>1. /\ UNCHANGED <<walletVars, message, delivered, topup, gateway>>
      /\ notifying' = [m \in Messages |-> IF notifying[m] \in Running THEN "dead" ELSE notifying[m]]
      /\ starter' = [t \in Topups |-> IF starter[t] = "idle" THEN "idle" ELSE "done"]
      /\ settler' = [s \in Settlers |-> [settler[s] EXCEPT !.pc = "idle"]]
  BY DEF Crash, NotifyCrash, TopupCrash
<1>2. \A y, r : RowsOf(y, r)' = RowsOf(y, r) /\ HasRow(y, r)' = HasRow(y, r)
  BY <1>1 DEF walletVars, RowsOf, HasRow
<1>3. BalanceIsLedgerSum' /\ NeverOverdrawn' /\ RefundMatchesSend'
  BY <1>1 DEF walletVars, BalanceIsLedgerSum, NeverOverdrawn, RefundMatchesSend
<1>4. CreditTypeOK'
  <2>1. settler' \in [Settlers -> SettlerRow]
    BY <1>1 DEF CreditTypeOK, SettlerRow
  <2>2. notifying' \in [Messages -> CallState]
    BY <1>1 DEF CreditTypeOK, CallState
  <2> QED BY <1>1, <2>1, <2>2 DEF CreditTypeOK, walletVars
<1>5. MessageAgreesWithLedger' /\ NoFreeMessage' /\ TopupCreditedOnce'
  <2>1. \A m \in Messages : Charged(m)' <=> Charged(m)
    BY <1>1, <1>2 DEF Charged, walletVars
  <2> QED BY <1>1, <1>2, <2>1 DEF MessageAgreesWithLedger, NoFreeMessage, TopupCreditedOnce, walletVars
<1>6. CallInv'
  BY <1>1, <1>2 DEF CallInv, Running, CallState
<1>7. StarterInv'
  <2>1. \A t \in Topups : starter'[t] = IF starter[t] = "idle" THEN "idle" ELSE "done"
    BY <1>1
  <2> QED BY <1>1, <2>1 DEF StarterInv
<1>8. SettlerInv'
  <2>1. \A s \in Settlers : settler'[s].pc = "idle"
    BY <1>1 DEF CreditTypeOK, SettlerRow
  <2> QED BY <2>1 DEF SettlerInv
<1> QED BY <1>3, <1>4, <1>5, <1>6, <1>7, <1>8

(* A stuttering step changes nothing the invariant speaks of. *)
LEMMA StutterKeeps ==
    ASSUME IInv, UNCHANGED creditVars
    PROVE  IInv'
<1>1. \A y, r : RowsOf(y, r)' = RowsOf(y, r) /\ HasRow(y, r)' = HasRow(y, r)
  BY DEF creditVars, walletVars, RowsOf, HasRow
<1>2. \A m \in Messages : Charged(m)' <=> Charged(m)
  BY <1>1 DEF creditVars, walletVars, notifyVars, Charged
<1> QED
  BY <1>1, <1>2
     DEF creditVars, walletVars, notifyVars, topupVars, IInv, CreditTypeOK, BalanceIsLedgerSum, NeverOverdrawn,
         RefundMatchesSend, MessageAgreesWithLedger, NoFreeMessage, CallInv, TopupCreditedOnce,
         StarterInv, SettlerInv

-----------------------------------------------------------------------------
(* The inductive invariant holds in every state of every behaviour: of any *)
(* number of notifications, top-ups and settlements, with crashes.         *)
THEOREM CreditInvariant == CreditSpec => []IInv
<1>1. CreditInit => IInv
  BY InitIInv
<1>2. IInv /\ [CreditNext]_creditVars => IInv'
  BY NotifyKeeps, StartKeeps, SettleKeeps, CrashKeeps, StutterKeeps DEF CreditNext
<1> QED BY <1>1, <1>2, PTL DEF CreditSpec

(* Every variable of the SMS credit keeps its type. *)
THEOREM CreditTyped == CreditSpec => []CreditTypeOK
<1>1. IInv => CreditTypeOK
  BY DEF IInv
<1> QED BY <1>1, CreditInvariant, PTL

(* The balance is the sum of the ledger, and no order of sends, refunds    *)
(* and top-ups ever takes it below zero.                                   *)
THEOREM WalletSound == CreditSpec => [](BalanceIsLedgerSum /\ NeverOverdrawn)
<1>1. IInv => BalanceIsLedgerSum /\ NeverOverdrawn
  BY DEF IInv
<1> QED BY <1>1, CreditInvariant, PTL

(* A message is charged at most once and refunded at most once, for what   *)
(* it was charged; its row says what the ledger says; none is sent free.   *)
THEOREM MessagesPaidOnce == CreditSpec => [](RefundMatchesSend /\ MessageAgreesWithLedger /\ NoFreeMessage)
<1>1. IInv => RefundMatchesSend /\ MessageAgreesWithLedger /\ NoFreeMessage
  BY DEF IInv
<1> QED BY <1>1, CreditInvariant, PTL

(* At rest, the row of a message says what the ledger says: sent and paid,  *)
(* failed and paid back, or never charged; however its call ended.          *)
THEOREM RowsAgreeWithLedger == CreditSpec => []MessageAgreesWithLedger
<1>1. IInv => MessageAgreesWithLedger
  BY DEF IInv
<1> QED BY <1>1, CreditInvariant, PTL

(* A top-up is verified exactly when the wallet was credited for it, once. *)
THEOREM TopupsCreditedOnce == CreditSpec => []TopupCreditedOnce
<1>1. IInv => TopupCreditedOnce
  BY DEF IInv
<1> QED BY <1>1, CreditInvariant, PTL

(* No step takes a credited top-up out of "verified": the settler that     *)
(* writes "failed" has seen an amount that no credited top-up can have.    *)
THEOREM CreditedStaysVerified == CreditSpec => VerifiedIsFinal
<1> DEFINE Final == \A t \in Topups : topup[t].status = "verified" => topup'[t].status = "verified"
<1>1. ASSUME IInv, [CreditNext]_creditVars
      PROVE  [Final]_creditVars
  <2>1. ASSUME NEW u \in Topups, Start(u) PROVE Final
    <3>2. topup' = topup \/ topup[u].status # "verified" \/ topup'[u].status = topup[u].status
      <4>1. CASE StartTopup(u) \/ RequestThrows(u)
        <5>1. gateway[u].state # "verified"
          BY <1>1, <4>1 DEF StartTopup, RequestThrows, StarterMoves, IInv, StarterInv
        <5>2. RowsOf("topup", u) = {}
          BY <1>1, <5>1, UncreditedTopup DEF IInv
        <5> QED BY <1>1, <5>2 DEF IInv, TopupCreditedOnce, HasRow
      <4>2. CASE SaveTrackId(u)
        BY <1>1, <4>2 DEF SaveTrackId, IInv, CreditTypeOK, TopupRow
      <4>3. CASE RequestPayment(u) \/ CustomerPays(u)
        BY <4>3 DEF RequestPayment, CustomerPays
      <4> QED BY <2>1, <4>1, <4>2, <4>3 DEF Start, StartStep
    <3>3. \A t \in Topups \ {u} : topup'[t] = topup[t]
      BY <1>1, <2>1 DEF Start, StartStep, StartTopup, RequestPayment, RequestThrows, SaveTrackId,
                        CustomerPays, IInv, CreditTypeOK
    <3> QED BY <3>2, <3>3
  <2>2. ASSUME NEW s \in Settlers, Settle(s) PROVE Final
    <3>1. settler[s].of \in Topups
      BY <1>1 DEF IInv, CreditTypeOK, SettlerRow
    <3>2. CASE RecordMismatch(s)
      <4>1. PICK t \in Topups : t = settler[s].of
        BY <3>1
      <4>2. gateway[t].taken # topup[t].amount
        BY <1>1, <3>2, <4>1 DEF RecordMismatch, IInv, SettlerInv
      <4>3. topup[t].status # "verified"
        <5>1. \A i \in RowsOf("topup", t) : gateway[t] = [state |-> "verified", taken |-> topup[t].amount]
          BY <1>1 DEF IInv, TopupCreditedOnce
        <5>2. RowsOf("topup", t) = {}
          BY <4>2, <5>1
        <5> QED BY <1>1, <5>2 DEF IInv, TopupCreditedOnce, HasRow
      <4>4. topup' = [topup EXCEPT ![t].status = "failed"]
        BY <3>2, <4>1 DEF RecordMismatch
      <4> QED BY <1>1, <4>3, <4>4 DEF IInv, CreditTypeOK
    <3>3. CASE ClaimAndCredit(s)
      BY <1>1, <3>1, <3>3 DEF ClaimAndCredit, IInv, CreditTypeOK, TopupRow
    <3>4. CASE topup' = topup
      BY <3>4
    <3> QED BY <2>2, <3>2, <3>3, <3>4
            DEF Settle, SettleStep, ReadTopup, VerifyPayment, VerifyThrows
  <2>3. CASE (\E m \in Messages : Notify(m)) \/ Crash \/ UNCHANGED creditVars
    BY <2>3 DEF Notify, Crash, creditVars, topupVars
  <2> QED BY <1>1, <2>1, <2>2, <2>3 DEF CreditNext
<1> QED BY <1>1, CreditInvariant, PTL DEF CreditSpec, VerifiedIsFinal
=============================================================================

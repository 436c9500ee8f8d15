------------------------------- MODULE Kardex -------------------------------
(***************************************************************************)
(* The kardex of one item and its opening stock, which the edit form may   *)
(* correct long after goods were bought and sold (itemController.ts, with  *)
(* ItemFormModal.tsx): entries are only ever added, so a correction posts  *)
(* the new opening and a reversal of the old one, at a cost that should    *)
(* leave the moving average where the corrected history would have it.     *)
(*                                                                         *)
(* One warehouse.  Costs are exact fractions <<n, d>> where the columns    *)
(* keep two decimals.                                                      *)
(***************************************************************************)
EXTENDS Integers, Sequences, FiniteSetsExt

CONSTANTS
    Forms,       \* edit forms
    Requests,    \* requests to the API that send nothing but an opening
    Openings,    \* what an item may open with
    Purchases,   \* what may be bought at a time
    Sales,       \* how much may be sold at a time
    MaxEntries   \* bound: the length of the kardex

Lot == [quantity : Nat \ {0}, price : Nat \ {0}]

ASSUME KardexAssumption ==
    /\ Openings \subseteq Lot /\ Purchases \subseteq Lot
    /\ Sales \subseteq Nat \ {0}
    /\ Forms \cap Requests = {}
    /\ MaxEntries \in Nat

VARIABLES
    item,       \* the row in items: "new", here or gone
    kardex,     \* inventory_transactions of the item
    onHand,     \* items.current_stock
    average,    \* items.avg_purchase_price
    edit,       \* what each form and request has in hand
    draft,      \* a repair draft that lists the item: none, checked or saved
    entered,    \* the opening that somebody last entered on purpose
    overtook,   \* a correction posted after another had replaced what it read
    outdated,   \* a form that left the opening alone saved one that was out of date
    slipped     \* the item went while a draft had checked it

kardexVars == <<item, kardex, onHand, average, edit, draft, entered, overtook, outdated, slipped>>

-----------------------------------------------------------------------------
(* Fractions, in lowest terms. *)

Fraction(n, d) ==
    LET g == Max({k \in 1..d : n % k = 0 /\ d % k = 0}) IN <<n \div g, d \div g>>

Whole(n) == <<n, 1>>

(* a of the one and b of the other, over c. *)
Blend(a, x, b, y, c) ==
    LET n == a * x[1] * y[2] + b * y[1] * x[2]
    IN Fraction(IF n < 0 THEN 0 ELSE n, c * x[2] * y[2])

(* averageAfterAdding and averageAfterRemoving. *)
AverageAfterAdding(avg, stock, quantity, price) ==
    Blend(stock, avg, quantity, price, stock + quantity)

AverageAfterRemoving(avg, stock, quantity, price) ==
    IF stock <= quantity THEN avg ELSE Blend(stock, avg, -quantity, price, stock - quantity)

Entry(type, quantity, cost, ref) ==
    [type |-> type, quantity |-> quantity, cost |-> cost, ref |-> ref]

(* The stock and the average that an entry leaves: planStockMovements. *)
Leaving(s, e) ==
    [stock |-> s.stock + e.quantity,
     avg |-> IF e.type = "sale" THEN s.avg
             ELSE IF e.quantity > 0 THEN AverageAfterAdding(s.avg, s.stock, e.quantity, e.cost)
             ELSE AverageAfterRemoving(s.avg, s.stock, -e.quantity, e.cost)]

Held == [stock |-> onHand, avg |-> average]

(* One call to the stock service, which takes all of its lines or none. *)
Posted(entries) ==
    LET after[n \in 0..Len(entries)] ==
            IF n = 0 THEN Held ELSE Leaving(after[n - 1], entries[n])
    IN /\ Len(kardex) + Len(entries) <= MaxEntries
       /\ \A n \in DOMAIN entries : after[n].stock >= 0
       /\ kardex' = kardex \o entries
       /\ onHand' = after[Len(entries)].stock
       /\ average' = after[Len(entries)].avg

-----------------------------------------------------------------------------
(* The opening that counts. *)

(* A wrong form: the newest opening, whether or not it was taken back. *)
LiveOpeningNewest == Max({0} \cup {n \in DOMAIN kardex : kardex[n].type = "opening"})

(* The newest opening that no reversal points at, or 0. *)
LiveOpening ==
    LET superseded == {kardex[n].ref : n \in {m \in DOMAIN kardex : kardex[m].type = "reversal"}}
    IN Max({0} \cup {n \in DOMAIN kardex : kardex[n].type = "opening" /\ n \notin superseded})

Nothing == [quantity |-> 0, price |-> 0]

OpeningFigures ==
    IF LiveOpening = 0 THEN Nothing
    ELSE [quantity |-> kardex[LiveOpening].quantity, price |-> kardex[LiveOpening].cost[1]]

Targets == {Nothing} \cup Openings

(* openingRetention: the fraction of the opening's value still on the      *)
(* shelf, as each sale since took its share of every layer.                *)
Retention(live) ==
    LET kept[n \in live..Len(kardex)] ==
            IF n = live
            THEN [stock |-> MapThenSumSet(LAMBDA k : kardex[k].quantity, 1..live),
                  share |-> Whole(1)]
            ELSE LET s == kept[n - 1]
                     left == s.stock + kardex[n].quantity
                 IN [stock |-> left,
                     share |-> IF kardex[n].type = "sale" /\ s.stock > 0
                               THEN Fraction(s.share[1] * left, s.share[2] * s.stock)
                               ELSE s.share]
    IN kept[Len(kardex)].share

(* A wrong form, as the code once was: the old opening leaves at its cost. *)
ReversalCostOfOld(live, share, target) == kardex[live].cost

(* The old cost for the share still there, and for the rest the new one,   *)
(* or the average when the opening is being taken away.                    *)
ReversalCost(live, share, target) ==
    LET rest == IF target.quantity > 0 THEN Whole(target.price) ELSE average
    IN Blend(share[1], kardex[live].cost, share[2] - share[1], rest, share[2])

(* The lines of a correction: the new opening first, so that an opening    *)
(* of which some is sold can be corrected.                                 *)
Correction(live, share, target) ==
    (IF target.quantity = 0 THEN <<>>
     ELSE <<Entry("opening", target.quantity, Whole(target.price), live)>>)
    \o (IF live = 0 THEN <<>>
        ELSE <<Entry("reversal", -kardex[live].quantity,
                     ReversalCost(live, share, target), live)>>)

-----------------------------------------------------------------------------
NoEdit == [pc |-> "closed", target |-> Nothing, own |-> FALSE, live |-> 0, share |-> Whole(1)]

KardexInit ==
    /\ item = "new"
    /\ kardex = <<>>
    /\ onHand = 0
    /\ average = Whole(0)
    /\ edit = [c \in Forms \cup Requests |-> NoEdit]
    /\ draft = "none"
    /\ entered = Nothing
    /\ overtook = FALSE /\ outdated = FALSE /\ slipped = FALSE

(* The item and what it opens with, in one transaction. *)
CreateItem(t) ==
    /\ item = "new"
    /\ item' = "here"
    /\ Posted(IF t = Nothing THEN <<>>
              ELSE <<Entry("opening", t.quantity, Whole(t.price), 0)>>)
    /\ entered' = t
    /\ UNCHANGED <<edit, draft, overtook, outdated, slipped>>

(* Quick purchase and quick sale, as one line of an invoice does. *)
BuyIn(g) ==
    /\ item = "here"
    /\ Posted(<<Entry("purchase", g.quantity, Whole(g.price), 0)>>)
    /\ UNCHANGED <<item, edit, draft, entered, overtook, outdated, slipped>>

SellOut(q) ==
    /\ item = "here"
    /\ Posted(<<Entry("sale", -q, average, 0)>>)
    /\ UNCHANGED <<item, edit, draft, entered, overtook, outdated, slipped>>

(* A purchase is deleted: its units leave at what they cost. *)
TakeBack(n) ==
    /\ item = "here"
    /\ kardex[n].type = "purchase"
    /\ ~\E m \in DOMAIN kardex : kardex[m].type = "return" /\ kardex[m].ref = n
    /\ Posted(<<Entry("return", -kardex[n].quantity, kardex[n].cost, n)>>)
    /\ UNCHANGED <<item, edit, draft, entered, overtook, outdated, slipped>>

-----------------------------------------------------------------------------
(* The edit form.  It is filled once, when it opens, and sends the opening *)
(* back with every save; its other fields lock the item before the opening *)
(* is read, so that a save is one step.                                    *)

OpenForm(c) ==
    /\ item = "here"
    /\ edit[c].pc = "closed"
    /\ edit' = [edit EXCEPT ![c].pc = "open", ![c].target = OpeningFigures]
    /\ UNCHANGED <<item, kardex, onHand, average, draft, entered, overtook, outdated, slipped>>

TypeOpening(c, t) ==
    /\ edit[c].pc = "open"
    /\ ~edit[c].own
    /\ t # edit[c].target
    /\ edit' = [edit EXCEPT ![c].target = t, ![c].own = TRUE]
    /\ UNCHANGED <<item, kardex, onHand, average, draft, entered, overtook, outdated, slipped>>

(* A correction that the stock refuses leaves the whole save undone. *)
SaveForm(c) ==
    LET t == edit[c].target
        live == LiveOpening
    IN /\ item = "here"
       /\ edit[c].pc = "open"
       /\ IF t = OpeningFigures THEN UNCHANGED <<kardex, onHand, average>>
          ELSE Posted(Correction(live, IF live = 0 THEN Whole(1) ELSE Retention(live), t))
       /\ edit' = [edit EXCEPT ![c] = NoEdit]
       /\ entered' = IF edit[c].own THEN t ELSE entered
       /\ outdated' = (outdated \/ (~edit[c].own /\ t # OpeningFigures))
       /\ UNCHANGED <<item, draft, overtook, slipped>>

CloseForm(c) ==
    /\ edit[c].pc # "closed"
    /\ edit' = [edit EXCEPT ![c] = NoEdit]
    /\ UNCHANGED <<item, kardex, onHand, average, draft, entered, overtook, outdated, slipped>>

-----------------------------------------------------------------------------
(* A request with nothing but an opening locks the item only when the      *)
(* service does: what it read before may be out of date by then.           *)

ReadLive(c, t) ==
    /\ item = "here"
    /\ edit[c].pc = "closed"
    /\ t # OpeningFigures
    /\ edit' = [edit EXCEPT ![c] = [pc |-> IF LiveOpening = 0 THEN "posting" ELSE "weighing",
                                    target |-> t, own |-> TRUE, live |-> LiveOpening,
                                    share |-> Whole(1)]]
    /\ UNCHANGED <<item, kardex, onHand, average, draft, entered, overtook, outdated, slipped>>

Weigh(c) ==
    /\ item = "here"
    /\ edit[c].pc = "weighing"
    /\ edit' = [edit EXCEPT ![c].pc = "posting", ![c].share = Retention(edit[c].live)]
    /\ UNCHANGED <<item, kardex, onHand, average, draft, entered, overtook, outdated, slipped>>

PostCorrection(c) ==
    LET e == edit[c] IN
    /\ item = "here"
    /\ e.pc = "posting"
    /\ Posted(Correction(e.live, e.share, e.target))
    /\ edit' = [edit EXCEPT ![c] = NoEdit]
    /\ entered' = e.target
    /\ overtook' = (overtook \/ e.live # LiveOpening \/ e.share # Retention(e.live))
    /\ UNCHANGED <<item, draft, outdated, slipped>>

(* The service refuses it, or the item is gone. *)
RequestFails(c) ==
    /\ edit[c].pc # "closed"
    /\ edit' = [edit EXCEPT ![c] = NoEdit]
    /\ UNCHANGED <<item, kardex, onHand, average, draft, entered, overtook, outdated, slipped>>

-----------------------------------------------------------------------------
(* A repair draft names its items without a key to them: it reads them,    *)
(* waits for its number, and writes its lines.                             *)

CheckDraft ==
    /\ item = "here" /\ draft = "none"
    /\ draft' = "checked"
    /\ UNCHANGED <<item, kardex, onHand, average, edit, entered, overtook, outdated, slipped>>

SaveDraft ==
    /\ draft = "checked"
    /\ draft' \in {"saved", "none"}
    /\ UNCHANGED <<item, kardex, onHand, average, edit, entered, overtook, outdated, slipped>>

DropDraft ==
    /\ draft = "saved"
    /\ draft' = "none"
    /\ UNCHANGED <<item, kardex, onHand, average, edit, entered, overtook, outdated, slipped>>

(* A wrong form: only what has moved stock is asked for. *)
RemoveItemUnasked ==
    /\ item = "here"
    /\ \A n \in DOMAIN kardex : kardex[n].type \in {"opening", "reversal"}
    /\ item' = "gone"
    /\ kardex' = <<>> /\ onHand' = 0 /\ average' = Whole(0)
    /\ slipped' = (slipped \/ draft = "checked")
    /\ UNCHANGED <<edit, draft, entered, overtook, outdated>>

(* An item that no document names goes, with its own entries. *)
RemoveItem ==
    /\ item = "here"
    /\ draft # "saved"
    /\ \A n \in DOMAIN kardex : kardex[n].type \in {"opening", "reversal"}
    /\ item' = "gone"
    /\ kardex' = <<>> /\ onHand' = 0 /\ average' = Whole(0)
    /\ slipped' = (slipped \/ draft = "checked")
    /\ UNCHANGED <<edit, draft, entered, overtook, outdated>>

KardexNext ==
    \/ \E t \in Targets : CreateItem(t)
    \/ \E g \in Purchases : BuyIn(g)
    \/ \E q \in Sales : SellOut(q)
    \/ \E n \in DOMAIN kardex : TakeBack(n)
    \/ \E c \in Forms : OpenForm(c) \/ SaveForm(c) \/ CloseForm(c)
                        \/ \E t \in Targets : TypeOpening(c, t)
    \/ \E c \in Requests : Weigh(c) \/ PostCorrection(c) \/ RequestFails(c)
                           \/ \E t \in Targets : ReadLive(c, t)
    \/ CheckDraft \/ SaveDraft \/ DropDraft \/ RemoveItem

KardexSpec == KardexInit /\ [][KardexNext]_kardexVars

-----------------------------------------------------------------------------
EntriesOf(types) == {n \in DOMAIN kardex : kardex[n].type \in types}

(* However often the opening is corrected, by whom and with what sold in   *)
(* between, the kardex holds one opening, the one last entered on purpose. *)
(* It fails for two causes only: a request without other fields read the   *)
(* old one before another correction, or a form that was open all the      *)
(* while sent an old one back with something else.                         *)
OpeningAsTyped ==
    item = "here" =>
        \/ overtook \/ outdated
        \/ MapThenSumSet(LAMBDA n : kardex[n].quantity, EntriesOf({"opening", "reversal"}))
               = entered.quantity

(* What the kardex would have come to had the entry n cost p, without the  *)
(* entries of skip.                                                        *)
History(n, p, skip) ==
    LET f[k \in 0..Len(kardex)] ==
            IF k = 0 THEN [stock |-> 0, avg |-> Whole(0)]
            ELSE IF k \in skip THEN f[k - 1]
            ELSE Leaving(f[k - 1], IF k = n THEN [kardex[k] EXCEPT !.cost = p] ELSE kardex[k])
    IN f[Len(kardex)]

(* correctOpening: the average after a correction "is exactly the average  *)
(* a corrected history would have reached".  It is so, sales before and    *)
(* after included, for the first correction of a cost in a history without *)
(* purchases taken back, if nothing overtook it; a second correction or one *)
(* of the quantity after a sale lands elsewhere.                           *)
CorrectedHistory ==
    \A n \in EntriesOf({"opening"}), m \in EntriesOf({"opening"}) :
        (/\ ~overtook
         /\ EntriesOf({"return"}) = {}
         /\ EntriesOf({"opening"}) = {n, m}
         /\ EntriesOf({"reversal"}) = {m + 1}
         /\ kardex[m].ref = n
         /\ kardex[m].quantity = kardex[n].quantity
         /\ onHand > 0)
            => Held = History(n, kardex[m].cost, {m, m + 1})

(* An item goes only when nothing names it: a repair draft that lists it   *)
(* has not lost it, unless the item went between the draft's reading and   *)
(* its saving.                                                             *)
DraftKeepsItem == draft = "saved" => item = "here" \/ slipped
=============================================================================

------------------------------ MODULE StockCount ------------------------------
(***************************************************************************)
(* Stock counts of one warehouse while the shop keeps selling from it: the *)
(* counting page on a phone (StockCountDetail.tsx), the requests it sends, *)
(* their transactions (stockCountController.ts), and the documents that    *)
(* move the same shelves in between.                                       *)
(*                                                                         *)
(* The service that moves stock is one step here, for it holds its items   *)
(* from its first read to its COMMIT: StockService has its locks.  A       *)
(* quantity is a whole number.  created_at of a document's rows is some    *)
(* moment between its first statement and its COMMIT, which Begin is.      *)
(***************************************************************************)
EXTENDS Integers, Sequences, FiniteSetsExt

CONSTANTS
    Items,      \* ids of the items the warehouse holds
    Counts,     \* ids of stock_counts rows
    Documents,  \* invoices and adjustments that move stock meanwhile
    Opening,    \* what the shelves hold when the model begins
    Scope,      \* the active items of each count's category
    Lines,      \* what each document moves: a sequence of [item, qty, type]
    Figures,    \* what a counter may type
    Blank,      \* an empty field
    Notes,      \* what a counter may note of a line: texts that no trim makes alike
    NoNote,     \* an empty note
    MaxTyped,   \* bound: figures and notes typed
    MaxDrops    \* bound: fields whose connection drops

MovementType == {"purchase", "sale", "repair_use", "transfer_out", "transfer_in", "reversal",
                 "adjustment", "count"}

DocumentLine == [item : Items, qty : Int, type : MovementType]

ASSUME CountAssumption ==
    /\ Items \subseteq Nat /\ IsFiniteSet(Items)
    /\ Opening \in [Items -> Nat]
    /\ Scope \in [Counts -> SUBSET Items]
    /\ Figures \subseteq Nat /\ Blank \notin Nat
    /\ Counts \cap Documents = {}
    /\ Lines \in [Documents -> Seq(DocumentLine)]
    /\ NoNote \in Notes
    /\ MaxTyped \in Nat /\ MaxDrops \in Nat

VARIABLES
    shelf,      \* item_stocks.quantity of the warehouse
    rows,       \* its inventory_transactions
    document,   \* how far each document has got
    count,      \* stock_counts with their stock_count_lines
    desk,       \* the apply of a count that has reviewed and not yet posted
    field,      \* the fields of the counting pages
    requests,   \* saves on their way to the server, in it, or back
    typed       \* figures and notes typed so far

vars == <<shelf, rows, document, count, desk, field, requests, typed>>

(* at, since and before are of no column: how many rows there were when    *)
(* the snapshot was read and when the figure was first stored as it        *)
(* stands, and which transactions had begun by counted_at.                 *)
Line == [counted : Figures \cup {Blank}, note : Notes, system : Nat, at : Nat, since : Nat,
         before : SUBSET (Documents \cup Counts)]

Uncounted == [counted |-> Blank, note |-> NoNote, system |-> 0, at |-> 0, since |-> 0,
              before |-> {}]

(* A row of stock_counts with its lines; acked and seen are of no column:  *)
(* how the apply went that was made.                                       *)
IsCountRow(r) ==
    /\ r.status \in {"none", "draft", "applied", "cancelled"}
    /\ DOMAIN r.lines \subseteq Items
    /\ \A i \in DOMAIN r.lines : r.lines[i] \in Line
    /\ r.acked \in BOOLEAN /\ r.seen \in Nat

(* What the two fields of a line hold, and what one request carries. *)
Entry == [counted : Figures \cup {Blank}, note : Notes]

Empty == [counted |-> Blank, note |-> NoNote]

Field == [value : Entry, saved : Entry, focus : {"none", "figure", "note"},
          state : {"idle", "saving", "saved", "error"}, doubt : BOOLEAN]

Request == [count : Counts, item : Items, value : Entry, live : BOOLEAN,
            stage : {"sent", "read", "stored", "refused"}, system : Nat, at : Nat]

Closed == [open |-> FALSE, ack |-> FALSE, seen |-> 0, post |-> <<>>]

NoLines == [i \in {} |-> Uncounted]

Init ==
    /\ shelf = Opening
    /\ rows = <<>>
    /\ document = [d \in Documents |-> "none"]
    /\ count = [c \in Counts |-> [status |-> "none", lines |-> NoLines,
                                  acked |-> FALSE, seen |-> 0]]
    /\ desk = [c \in Counts |-> Closed]
    /\ field = [c \in Counts |-> [i \in Items |->
                   [value |-> Empty, saved |-> Empty, focus |-> "none", state |-> "idle",
                    doubt |-> FALSE]]]
    /\ requests = {}
    /\ typed = 0

-----------------------------------------------------------------------------
(* The stock service: lines of one document, at once or not at all. *)

Sum(lines, ks, i) == MapThenSumSet(LAMBDA k : lines[k].qty, {k \in ks : lines[k].item = i})

(* A wrong form: what the shelf does not hold is written off anyway. *)
NeverTooLittle(lines) == FALSE

TooLittle(lines) ==
    \E k \in DOMAIN lines : shelf[lines[k].item] + Sum(lines, 1..k, lines[k].item) < 0

Row(doc, line, before) ==
    [item |-> line.item, qty |-> line.qty, type |-> line.type, doc |-> doc,
     before |-> before, after |-> before + line.qty]

Moves(doc, lines) ==
    /\ shelf' = [i \in Items |-> shelf[i] + Sum(lines, DOMAIN lines, i)]
    /\ rows' = rows \o [k \in DOMAIN lines |->
                  Row(doc, lines[k],
                      shelf[lines[k].item] + Sum(lines, 1..(k - 1), lines[k].item))]

(* An invoice, a quick purchase or sale, an adjustment. *)
Begin(d) ==
    /\ document[d] = "none"
    /\ document' = [document EXCEPT ![d] = "begun"]
    /\ UNCHANGED <<shelf, rows, count, desk, field, requests, typed>>

Commit(d) ==
    /\ document[d] = "begun"
    /\ document' = [document EXCEPT ![d] = "done"]
    /\ IF TooLittle(Lines[d]) THEN UNCHANGED <<shelf, rows>> ELSE Moves(d, Lines[d])
    /\ UNCHANGED <<count, desk, field, requests, typed>>

-----------------------------------------------------------------------------
(* Counts.  A save shares the count's row, an apply or a cancel owns it. *)

Shared(c) == \E r \in requests : r.count = c /\ r.stage = "read"

Free(c) == ~desk[c].open /\ ~Shared(c)

(* create: a line for every item in scope. *)
Create(c) ==
    /\ count[c].status = "none"
    /\ Scope[c] # {}
    /\ count' = [count EXCEPT ![c].status = "draft",
                              ![c].lines = [i \in Scope[c] |-> Uncounted]]
    /\ UNCHANGED <<shelf, rows, document, desk, field, requests, typed>>

AddLine(c, i) ==
    /\ count[c].status = "draft"
    /\ ~desk[c].open
    /\ i \notin DOMAIN count[c].lines
    /\ count' = [count EXCEPT ![c].lines =
                    [j \in DOMAIN @ \cup {i} |-> IF j = i THEN Uncounted ELSE @[j]]]
    /\ UNCHANGED <<shelf, rows, document, desk, field, requests, typed>>

Counted(c) == {i \in DOMAIN count[c].lines : count[c].lines[i].counted # Blank}

(* A wrong form: one moment for the whole count, that of its last line. *)
MovedSinceLast(c, i) ==
    \E n \in DOMAIN rows :
        /\ rows[n].item = i
        /\ \A j \in Counted(c) : rows[n].doc \notin count[c].lines[j].before

(* reviewOf: a row of the item whose created_at is after its counted_at. *)
MovedSince(c, i) ==
    \E n \in DOMAIN rows : rows[n].item = i /\ rows[n].doc \notin count[c].lines[i].before

(* A wrong form: against what the shelf holds now. *)
DifferenceNow(c, i) == count[c].lines[i].counted - shelf[i]

Difference(c, i) == count[c].lines[i].counted - count[c].lines[i].system

(* apply as far as its review, which reads the ledger without a lock. *)
ApplyReview(c, ack) ==
    /\ count[c].status = "draft"
    /\ Free(c)
    /\ Counted(c) # {}
    /\ ack \/ \A i \in Counted(c) : ~MovedSince(c, i)
    /\ desk' = [desk EXCEPT ![c] =
          [open |-> TRUE, ack |-> ack, seen |-> Len(rows),
           post |-> [i \in {j \in Counted(c) : Difference(c, j) # 0} |-> Difference(c, i)]]]
    /\ UNCHANGED <<shelf, rows, document, count, field, requests, typed>>

InOrder(S) == [k \in 1..Cardinality(S) |-> CHOOSE x \in S : Cardinality({y \in S : y < x}) = k - 1]

CountLines(c) ==
    LET items == InOrder(DOMAIN desk[c].post)
    IN [k \in DOMAIN items |-> [item |-> items[k], qty |-> desk[c].post[items[k]],
                                type |-> "count"]]

(* The rest of apply: the movements and the status, or a rollback. *)
ApplyPost(c) ==
    /\ desk[c].open
    /\ desk' = [desk EXCEPT ![c] = Closed]
    /\ IF TooLittle(CountLines(c))
       THEN UNCHANGED <<shelf, rows, count>>
       ELSE /\ Moves(c, CountLines(c))
            /\ count' = [count EXCEPT ![c].status = "applied", ![c].acked = desk[c].ack,
                                      ![c].seen = desk[c].seen]
    /\ UNCHANGED <<document, field, requests, typed>>

Cancel(c) ==
    /\ count[c].status = "draft"
    /\ Free(c)
    /\ count' = [count EXCEPT ![c].status = "cancelled"]
    /\ UNCHANGED <<shelf, rows, document, desk, field, requests, typed>>

-----------------------------------------------------------------------------
(* The counting page: CountRow, whose fields save when they are left. *)

InFlight(c, i) == \E r \in requests : r.count = c /\ r.item = i /\ r.live

Save(c, i, f) == [count |-> c, item |-> i, value |-> f.value, live |-> TRUE,
                  stage |-> "sent", system |-> 0, at |-> 0]

(* The fields of a count that is no draft are disabled. *)
Typing(c, i) ==
    /\ count[c].status = "draft"
    /\ i \in DOMAIN count[c].lines
    /\ typed < MaxTyped
    /\ typed' = typed + 1
    /\ UNCHANGED <<shelf, rows, document, count, desk, requests>>

Type(c, i, v) ==
    /\ Typing(c, i)
    /\ v # field[c][i].value.counted /\ field[c][i].focus # "note"
    /\ field' = [field EXCEPT ![c][i].value.counted = v, ![c][i].focus = "figure",
                              ![c][i].state = "idle"]

TypeNote(c, i, n) ==
    /\ Typing(c, i)
    /\ n # field[c][i].value.note /\ field[c][i].focus # "figure"
    /\ field' = [field EXCEPT ![c][i].value.note = n, ![c][i].focus = "note",
                              ![c][i].state = "idle"]

(* onBlur of either field and Enter: save, one request at a time, of a     *)
(* figure and a note of which one is not saved.  A field may be entered    *)
(* and left with nothing typed, which sends again what was not saved.      *)
Leave(c, i) ==
    LET f == field[c][i]
        sends == ~InFlight(c, i) /\ f.value # f.saved
    IN /\ i \in DOMAIN count[c].lines
       /\ f.focus # "none" \/ count[c].status = "draft"
       /\ field' = [field EXCEPT ![c][i].focus = "none",
                                 ![c][i].state = IF sends THEN "saving" ELSE @]
       /\ requests' = IF sends THEN requests \cup {Save(c, i, f)} ELSE requests
       /\ UNCHANGED <<shelf, rows, document, count, desk, typed>>

Advance(r, s) == requests' = (requests \ {r}) \cup {s}

(* updateLine: the count's row, shared, and the snapshot. *)
SaveRead(r) ==
    /\ r.stage = "sent"
    /\ ~desk[r.count].open
    /\ count[r.count].status = "draft"
    /\ Advance(r, [r EXCEPT !.stage = "read", !.system = shelf[r.item], !.at = Len(rows)])
    /\ UNCHANGED <<shelf, rows, document, count, desk, field, typed>>

SaveRefused(r) ==
    /\ r.stage = "sent"
    /\ ~desk[r.count].open
    /\ count[r.count].status # "draft"
    /\ IF r.live THEN Advance(r, [r EXCEPT !.stage = "refused"]) ELSE requests' = requests \ {r}
    /\ UNCHANGED <<shelf, rows, document, count, desk, field, typed>>

(* Transactions whose rows' created_at is already in the past. *)
Begun == {d \in Documents : document[d] # "none"}
         \cup {c \in Counts : desk[c].open \/ count[c].status = "applied"}

(* A figure that is stored again as it stands was counted before. *)
FirstStored(r) ==
    LET old == count[r.count].lines[r.item]
    IN IF old.counted = r.value.counted THEN old.since ELSE r.at

(* A wrong form: the snapshot is kept from the first time it was counted. *)
StampedOnce(r) ==
    LET old == count[r.count].lines[r.item]
    IN IF r.value.counted = Blank THEN [Uncounted EXCEPT !.note = r.value.note]
       ELSE [counted |-> r.value.counted, note |-> r.value.note,
             system |-> IF old.counted = Blank THEN r.system ELSE old.system,
             at |-> r.at, since |-> FirstStored(r), before |-> Begun]

Stamped(r) ==
    IF r.value.counted = Blank THEN [Uncounted EXCEPT !.note = r.value.note]
    ELSE [counted |-> r.value.counted, note |-> r.value.note, system |-> r.system,
          at |-> r.at, since |-> FirstStored(r), before |-> Begun]

(* The rest of updateLine: counted_at is read here, after the snapshot. *)
SaveWrite(r) ==
    /\ r.stage = "read"
    /\ count' = [count EXCEPT ![r.count].lines[r.item] = Stamped(r)]
    /\ IF r.live THEN Advance(r, [r EXCEPT !.stage = "stored"]) ELSE requests' = requests \ {r}
    /\ UNCHANGED <<shelf, rows, document, desk, field, typed>>

(* A wrong form: what was typed meanwhile waits for the next blur. *)
SavedSilent(r) ==
    /\ r.stage = "stored" /\ r.live
    /\ field' = [field EXCEPT ![r.count][r.item].saved = r.value,
                              ![r.count][r.item].state = "saved"]
    /\ requests' = requests \ {r}
    /\ UNCHANGED <<shelf, rows, document, count, desk, typed>>

(* Saved, and a figure or a note typed meanwhile is sent after it. *)
Saved(r) ==
    LET f == field[r.count][r.item]
        again == f.value # r.value
    IN /\ r.stage = "stored" /\ r.live
       /\ field' = [field EXCEPT ![r.count][r.item].saved = r.value,
                                 ![r.count][r.item].state = IF again THEN "saving" ELSE "saved"]
       /\ requests' = (requests \ {r}) \cup
                      (IF again THEN {Save(r.count, r.item, f)} ELSE {})
       /\ UNCHANGED <<shelf, rows, document, count, desk, typed>>

NotSaved(r) ==
    /\ r.stage = "refused" /\ r.live
    /\ field' = [field EXCEPT ![r.count][r.item].state = "error"]
    /\ requests' = requests \ {r}
    /\ UNCHANGED <<shelf, rows, document, count, desk, typed>>

(* The connection drops: the page reads an error, and the server may never *)
(* have heard of the save, or still be at it, or be done.                  *)
Drop(r) ==
    /\ r.live
    /\ Cardinality({x \in Counts \X Items : field[x[1]][x[2]].doubt}) < MaxDrops
    /\ field' = [field EXCEPT ![r.count][r.item].state = "error",
                              ![r.count][r.item].doubt = TRUE]
    /\ \/ r.stage # "read" /\ requests' = requests \ {r}
       \/ r.stage \in {"sent", "read"} /\ Advance(r, [r EXCEPT !.live = FALSE])
    /\ UNCHANGED <<shelf, rows, document, count, desk, typed>>

Next ==
    \/ \E d \in Documents : Begin(d) \/ Commit(d)
    \/ \E c \in Counts : Create(c) \/ ApplyPost(c) \/ Cancel(c)
    \/ \E c \in Counts, ack \in BOOLEAN : ApplyReview(c, ack)
    \/ \E c \in Counts, i \in Items : AddLine(c, i) \/ Leave(c, i)
    \/ \E c \in Counts, i \in Items, v \in Figures \cup {Blank} : Type(c, i, v)
    \/ \E c \in Counts, i \in Items, n \in Notes : TypeNote(c, i, n)
    \/ \E r \in requests : \/ SaveRead(r) \/ SaveRefused(r) \/ SaveWrite(r)
                           \/ Saved(r) \/ NotSaved(r) \/ Drop(r)

Spec == Init /\ [][Next]_vars

-----------------------------------------------------------------------------
(***************************************************************************)
(* Properties.                                                             *)
(***************************************************************************)
TypeOK ==
    /\ shelf \in [Items -> Nat]
    /\ document \in [Documents -> {"none", "begun", "done"}]
    /\ \A c \in Counts :
          /\ IsCountRow(count[c])
          /\ desk[c].open => count[c].status = "draft" /\ DOMAIN desk[c].post \subseteq Counted(c)
    /\ field \in [Counts -> [Items -> Field]]
    /\ requests \subseteq Request

MovedAfter(c, i, mark) ==
    Sum(rows, {n \in DOMAIN rows : n > mark /\ rows[n].doc # c}, i)

(* Once a count is applied, a shelf holds the figure that was stored of it *)
(* and what moved since the save that stamped it last, whichever documents *)
(* and other counts came before, between and after, and whatever was       *)
(* retyped, noted, lost or sent again.                                     *)
AppliedFromLastStamp ==
    \A c \in Counts : count[c].status = "applied" =>
        \A i \in Counted(c) :
            LET line == count[c].lines[i]
            IN shelf[i] = line.counted + MovedAfter(c, i, line.at)

(* stockCountController.ts:33: each line keeps the system's quantity at    *)
(* the moment that line was counted, and "a sale made after the shelf was  *)
(* counted is neither undone nor counted twice": the shelf holds what      *)
(* moved since the figure was stored. A save of the note alone, and one    *)
(* sent again after a lost answer, stamps the same figure anew.            *)
NeitherUndoneNorTwice ==
    \A c \in Counts : count[c].status = "applied" =>
        \A i \in Counted(c) :
            LET line == count[c].lines[i]
            IN shelf[i] = line.counted + MovedAfter(c, i, line.since)

(* A count that was applied without an acknowledgement had no movement on  *)
(* any of its lines since their last snapshots, but for the two that its   *)
(* review cannot see: of a transaction that had begun when the line was    *)
(* stamped, and one that committed after the review.                       *)
UnflaggedHasCause ==
    \A c \in Counts : count[c].status = "applied" /\ ~count[c].acked =>
        \A i \in Counted(c), n \in DOMAIN rows :
            /\ rows[n].item = i /\ rows[n].doc # c
            /\ n > count[c].lines[i].at /\ n <= count[c].seen
            => rows[n].doc \in count[c].lines[i].before

EntryOf(line) == [counted |-> line.counted, note |-> line.note]

(* A line's fields that its counter has left, with no save out and no      *)
(* error shown, hold what the server acknowledged last; and that is the    *)
(* figure and the note of the line, unless a connection dropped and left   *)
(* the page in doubt.                                                      *)
FieldIsStored ==
    \A c \in Counts, i \in Items :
        LET f == field[c][i] IN
        f.focus = "none" /\ ~InFlight(c, i) /\ f.state # "error" =>
            /\ f.value = f.saved
            /\ ~f.doubt /\ i \in DOMAIN count[c].lines => f.saved = EntryOf(count[c].lines[i])

(* Every document and every applied count is one Post of the abstract      *)
(* ledger: all of its lines at once, none below nothing, each row the      *)
(* before and after of its shelf.                                          *)
Ledger == INSTANCE StockLedger WITH
    Warehouses <- {1},
    Documents <- Documents \cup Counts,
    Opening <- [i \in Items |-> [w \in {1} |-> Opening[i]]],
    stock <- [i \in Items |-> [w \in {1} |-> shelf[i]]],
    total <- shelf,
    ledger <- [n \in DOMAIN rows |->
                 [line |-> [item |-> rows[n].item, wh |-> 1, qty |-> rows[n].qty,
                            type |-> rows[n].type],
                  doc |-> rows[n].doc, before |-> rows[n].before, after |-> rows[n].after]]

MovesAsLedger == Ledger!LedgerSpec
===============================================================================

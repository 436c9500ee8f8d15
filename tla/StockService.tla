---------------------------- MODULE StockService ----------------------------
(***************************************************************************)
(* Invoices, transfers and warehouse settings as Postgres runs them: many  *)
(* requests at once, each a transaction that takes its row locks one after *)
(* another and keeps them until it ends.  applyStockMovements locks the    *)
(* items in id order and then shares the warehouses; an INSERT that names  *)
(* a row shares that row's key.                                            *)
(*                                                                         *)
(* What a transaction reads under a lock it reads when it gets the lock.   *)
(* The rows of item_stocks are only locked by a holder of their item, so   *)
(* their locks never wait and are left out.                                *)
(***************************************************************************)
EXTENDS StockLedger

CONSTANTS
    Clerks,     \* requests that run at once
    Goods,      \* what an invoice or transfer may list: one [item, qty] or more
    Main,       \* the default warehouse that every workspace is born with
    Nobody,     \* no document in hand
    MaxRows     \* bound: ledger rows after which no request starts

ASSUME ServiceAssumption ==
    /\ Goods \subseteq Seq([item : Items, qty : Nat \ {0}]) \ {<<>>}
    /\ Main \in Warehouses
    /\ Nobody \notin Documents
    /\ MaxRows \in Nat

VARIABLES
    doc,        \* invoices and transfers: their number and the lines they hold
    seq,        \* the last number of each kind: workspaces.*_seq
    active,     \* the warehouses with is_active
    default,    \* the warehouses with is_default
    tx          \* the transaction of each clerk

serviceVars == <<doc, seq, active, default, tx>>
vars == <<ledgerVars, serviceVars>>

Kinds == {"purchase", "sale", "transfer"}

DocumentRow == [state : {"none", "live", "gone"}, kind : Kinds \cup {"none"},
                number : Nat, lines : Seq(StockLine)]

(***************************************************************************)
(* Row locks: FOR UPDATE excludes every other holder, FOR SHARE and the    *)
(* foreign keys' FOR KEY SHARE only FOR UPDATE.  The row of the number     *)
(* counters is the workspace's own.                                        *)
(***************************************************************************)
Rows == ({"counter"} \X {0}) \cup ({"item"} \X Items) \cup ({"wh"} \X Warehouses)
        \cup ({"doc"} \X Documents)

Lock == [row : Rows, mode : {"share", "update"}]

Update(kind, id) == [row |-> <<kind, id>>, mode |-> "update"]
Share(kind, id) == [row |-> <<kind, id>>, mode |-> "share"]

(* wants are the locks still to take, in order; open and read are what was *)
(* read under those it holds; target is the warehouse of a setting.        *)
Transaction == [op     : {"none", "create", "edit", "delete", "retire", "revive", "default"},
                doc    : Documents \cup {Nobody},
                lines  : Seq(StockLine),
                keeps  : Seq(StockLine),
                number : Nat,
                wants  : Seq(Lock),
                held   : SUBSET Lock,
                open   : SUBSET Warehouses,
                read   : [Items -> Int],
                target : Warehouses]

Idle == [op |-> "none", doc |-> Nobody, lines |-> <<>>, keeps |-> <<>>, number |-> 0,
         wants |-> <<>>, held |-> {}, open |-> {}, read |-> [i \in Items |-> 0],
         target |-> Main]

ServiceInit ==
    /\ doc = [d \in Documents |-> [state |-> "none", kind |-> "none", number |-> 0,
                                   lines |-> <<>>]]
    /\ seq = [k \in Kinds |-> 0]
    /\ active = Warehouses
    /\ default = {Main}
    /\ tx = [c \in Clerks |-> Idle]

-----------------------------------------------------------------------------
(* Lines. *)

Purchase(goods, w) ==
    [k \in DOMAIN goods |-> [item |-> goods[k].item, wh |-> w, qty |-> goods[k].qty,
                             type |-> "purchase"]]

Sale(goods, w) ==
    [k \in DOMAIN goods |-> [item |-> goods[k].item, wh |-> w, qty |-> -goods[k].qty,
                             type |-> "sale"]]

(* Out, then in, line by line. *)
Transfer(goods, from, to) ==
    [k \in 1..(2 * Len(goods)) |->
        LET g == goods[(k + 1) \div 2] IN
        IF k % 2 = 1
        THEN [item |-> g.item, wh |-> from, qty |-> -g.qty, type |-> "transfer_out"]
        ELSE [item |-> g.item, wh |-> to, qty |-> g.qty, type |-> "transfer_in"]]

(* The stored lines taken back, from the warehouse they went through. *)
Reversal(lines) ==
    [k \in DOMAIN lines |-> [lines[k] EXCEPT !.qty = -@, !.type = "reversal"]]

(* The new lines of a purchase go in before the old ones come out; those   *)
(* of a sale come back before the new ones leave.                          *)
Edited(old, new) ==
    IF new[1].type = "purchase" THEN new \o Reversal(old) ELSE Reversal(old) \o new

KindOf(lines) == IF lines[1].type = "transfer_out" THEN "transfer" ELSE lines[1].type

(* The ids of S in order: the one with k - 1 below it is the k-th. *)
Ascending(S) ==
    [k \in 1..Cardinality(S) |-> CHOOSE x \in S : Cardinality({y \in S : y < x}) = k - 1]

(* A wrong form: the rows are locked as the lines come. *)
ServiceLocksAsListed(lines) ==
    [k \in DOMAIN lines |-> Update("item", lines[k].item)]
    \o [k \in DOMAIN lines |-> Share("wh", lines[k].wh)]

(* applyStockMovements: the items FOR UPDATE, then the warehouses FOR      *)
(* SHARE, each in id order.                                                *)
ServiceLocks(lines) ==
    LET items == Ascending({lines[k].item : k \in DOMAIN lines})
        whs == Ascending({lines[k].wh : k \in DOMAIN lines})
    IN [k \in DOMAIN items |-> Update("item", items[k])]
       \o [k \in DOMAIN whs |-> Share("wh", whs[k])]

(* The foreign keys of the rows that a document writes before it calls the *)
(* service: a new header names its warehouses, as does a purchase's that   *)
(* changes them, and purchase lines, alone of all lines, are written first *)
(* and name their items.                                                   *)
HeaderLocks(lines) == <<Share("wh", lines[1].wh), Share("wh", lines[Len(lines)].wh)>>

LineLocks(lines) ==
    IF lines[1].type = "purchase"
    THEN [k \in DOMAIN lines |-> Share("item", lines[k].item)] ELSE <<>>

-----------------------------------------------------------------------------
(* Beginning a request. *)

Begins(c, t) ==
    /\ tx[c] = Idle
    /\ Len(ledger) < MaxRows
    /\ tx' = [tx EXCEPT ![c] = t]
    /\ UNCHANGED <<ledgerVars, doc, seq, active, default>>

(* resolveWarehouseId: the one that is named, if it is active, or the      *)
(* default, whatever becomes of it before the lines are moved.             *)
Resolved == active \cup default

(* create of an invoice or transfer, its number drawn before its header.   *)
BeginCreate(c, d, lines) ==
    /\ doc[d].state = "none"
    /\ \A o \in Clerks : tx[o].doc # d
    /\ \A k \in DOMAIN lines : lines[k].wh \in Resolved
    /\ Begins(c, [Idle EXCEPT !.op = "create", !.doc = d, !.lines = lines, !.keeps = lines,
                     !.wants = <<Update("counter", 0)>> \o HeaderLocks(lines)
                               \o LineLocks(lines) \o ServiceLocks(lines)])

(* update and remove of an invoice; a transfer is never edited. *)
BeginChange(c, d, op) ==
    /\ doc[d].state = "live"
    /\ doc[d].kind # "transfer"
    /\ Begins(c, [Idle EXCEPT !.op = op, !.doc = d])

BeginSetting(c, op, w) ==
    Begins(c, [Idle EXCEPT !.op = op, !.target = w,
                 !.wants = IF op = "default"
                           THEN [k \in DOMAIN Ascending(Warehouses) |->
                                    Update("wh", Ascending(Warehouses)[k])]
                           ELSE <<Update("wh", w)>>])

-----------------------------------------------------------------------------
(* Locks. *)

(* A wrong form: nobody waits for an item. *)
FreeItems(c, l) ==
    \/ l.row[1] = "item"
    \/ \A o \in Clerks \ {c} : \A h \in tx[o].held :
          h.row = l.row => h.mode = "share" /\ l.mode = "share"

Free(c, l) ==
    \A o \in Clerks \ {c} : \A h \in tx[o].held :
        h.row = l.row => h.mode = "share" /\ l.mode = "share"

(* A wrong form: what is shared is read and not held. *)
TakeNoShare(c) ==
    LET t == tx[c]
        l == Head(t.wants)
        id == l.row[2]
    IN /\ t.wants # <<>>
       /\ l.mode = "share" \/ Free(c, l)
       /\ tx' = [tx EXCEPT ![c] = [t EXCEPT
             !.wants = Tail(t.wants),
             !.held = IF l.mode = "share" THEN t.held ELSE t.held \cup {l},
             !.read = IF l = Update("item", id) THEN [t.read EXCEPT ![id] = total[id]]
                      ELSE t.read,
             !.open = IF l.row[1] = "wh" /\ id \in active THEN t.open \cup {id} ELSE t.open,
             !.number = IF l.row[1] = "counter" THEN seq[KindOf(t.lines)] + 1 ELSE t.number]]
       /\ UNCHANGED <<ledgerVars, doc, seq, active, default>>

(* The next lock, and what is read under it: an item's total, whether a    *)
(* warehouse is active, the number that the counter gives.                 *)
Take(c) ==
    LET t == tx[c]
        l == Head(t.wants)
        id == l.row[2]
    IN /\ t.wants # <<>>
       /\ Free(c, l)
       /\ tx' = [tx EXCEPT ![c] = [t EXCEPT
             !.wants = Tail(t.wants),
             !.held = t.held \cup {l},
             !.read = IF l = Update("item", id) THEN [t.read EXCEPT ![id] = total[id]]
                      ELSE t.read,
             !.open = IF l.row[1] = "wh" /\ id \in active THEN t.open \cup {id} ELSE t.open,
             !.number = IF l.row[1] = "counter" THEN seq[KindOf(t.lines)] + 1 ELSE t.number]]
       /\ UNCHANGED <<ledgerVars, doc, seq, active, default>>

(* The document as it reads once it is locked, and the rest of the work:   *)
(* an edit takes its new lines' warehouse as resolved, or leaves it.       *)
Works(c, keeps, lines, first) ==
    tx' = [tx EXCEPT ![c] = [tx[c] EXCEPT !.held = {Update("doc", tx[c].doc)}, !.keeps = keeps,
                                          !.lines = lines,
                                          !.wants = first \o ServiceLocks(lines)]]

NeedsDocument(c) == tx[c].op \in {"edit", "delete"} /\ tx[c].held = {}

(* A wrong form: the document is read before it is locked. *)
LockDocumentUnlocked(c) ==
    LET d == tx[c].doc IN
    /\ NeedsDocument(c)
    /\ doc[d].state = "live"
    /\ tx[c].op = "delete"
    /\ Works(c, <<>>, Reversal(doc[d].lines), <<>>)
    /\ UNCHANGED <<ledgerVars, doc, seq, active, default>>

LockDocument(c) ==
    LET d == tx[c].doc
        old == doc[d].lines
        Lines(g, w) == IF doc[d].kind = "purchase" THEN Purchase(g, w) ELSE Sale(g, w)
    IN /\ NeedsDocument(c)
       /\ Free(c, Update("doc", d))
       /\ doc[d].state = "live"
       /\ \/ /\ tx[c].op = "delete"
             /\ Works(c, <<>>, Reversal(old), <<>>)
          \/ /\ tx[c].op = "edit"
             /\ \E g \in Goods, w \in Resolved \cup {old[1].wh} :
                   Works(c, Lines(g, w), Edited(old, Lines(g, w)),
                         (IF doc[d].kind = "purchase" /\ w # old[1].wh
                          THEN HeaderLocks(Lines(g, w)) ELSE <<>>)
                         \o LineLocks(Lines(g, w)))
       /\ UNCHANGED <<ledgerVars, doc, seq, active, default>>

-----------------------------------------------------------------------------
(* Ends. *)

Ready(c, ops) ==
    /\ tx[c].op \in ops
    /\ ~NeedsDocument(c)
    /\ tx[c].wants = <<>>

Ends(c) == tx' = [tx EXCEPT ![c] = Idle]

(* The plan, its four tables and the document, and the COMMIT. *)
CommitDocument(c) ==
    LET t == tx[c] IN
    /\ Ready(c, {"create", "edit", "delete"})
    /\ ~Refused(t.lines, t.open)
    /\ PostLines(t.doc, t.lines, t.read)
    /\ doc' = [doc EXCEPT ![t.doc] =
                  [state |-> IF t.op = "delete" THEN "gone" ELSE "live",
                   kind |-> IF t.op = "create" THEN KindOf(t.lines) ELSE @.kind,
                   number |-> IF t.op = "create" THEN t.number ELSE @.number,
                   lines |-> t.keeps]]
    /\ seq' = IF t.op = "create" THEN [seq EXCEPT ![KindOf(t.lines)] = t.number] ELSE seq
    /\ Ends(c)
    /\ UNCHANGED <<active, default>>

(* A wrong form: the shelves are counted before the lock is there. *)
CommitStatusUnchecked(c) ==
    /\ Ready(c, {"retire", "revive"})
    /\ tx[c].op = "retire" => tx[c].target \notin default
    /\ active' = IF tx[c].op = "retire" THEN active \ {tx[c].target}
                 ELSE active \cup {tx[c].target}
    /\ Ends(c)
    /\ UNCHANGED <<ledgerVars, doc, seq, default>>

(* setStatus: not the default, and nothing on its shelves. *)
CommitStatus(c) ==
    LET w == tx[c].target IN
    /\ Ready(c, {"retire", "revive"})
    /\ tx[c].op = "retire" => w \notin default /\ \A i \in Items : stock[i][w] <= 0
    /\ active' = IF tx[c].op = "retire" THEN active \ {w} ELSE active \cup {w}
    /\ Ends(c)
    /\ UNCHANGED <<ledgerVars, doc, seq, default>>

(* A wrong form: nobody asks whether the new default is active. *)
CommitDefaultUnchecked(c) ==
    /\ Ready(c, {"default"})
    /\ default' = {tx[c].target}
    /\ Ends(c)
    /\ UNCHANGED <<ledgerVars, doc, seq, active>>

(* setDefault: the flag moves to a warehouse that was active under the     *)
(* lock of every warehouse.                                                *)
CommitDefault(c) ==
    /\ Ready(c, {"default"})
    /\ tx[c].target \in tx[c].open
    /\ default' = {tx[c].target}
    /\ Ends(c)
    /\ UNCHANGED <<ledgerVars, doc, seq, active>>

(* A wrong form: the number is drawn in a transaction of its own. *)
RollbackKeepsNumber(c) ==
    /\ tx[c] # Idle
    /\ Ends(c)
    /\ seq' = IF tx[c].number > 0 THEN [seq EXCEPT ![KindOf(tx[c].lines)] = tx[c].number]
              ELSE seq
    /\ UNCHANGED <<ledgerVars, doc, active, default>>

(* The request is refused, its connection breaks, its five seconds pass or *)
(* Postgres picks it as a deadlock's victim: everything is undone, the     *)
(* number included.                                                        *)
Rollback(c) ==
    /\ tx[c] # Idle
    /\ Ends(c)
    /\ UNCHANGED <<ledgerVars, doc, seq, active, default>>

Request(c) ==
    \/ \E d \in Documents, g \in Goods, w \in Warehouses :
          \/ BeginCreate(c, d, Purchase(g, w))
          \/ BeginCreate(c, d, Sale(g, w))
          \/ \E v \in Warehouses \ {w} : BeginCreate(c, d, Transfer(g, w, v))
    \/ \E d \in Documents, op \in {"edit", "delete"} : BeginChange(c, d, op)
    \/ \E op \in {"retire", "revive", "default"}, w \in Warehouses : BeginSetting(c, op, w)

Statement(c) == Take(c) \/ LockDocument(c)

End(c) == CommitDocument(c) \/ CommitStatus(c) \/ CommitDefault(c) \/ Rollback(c)

Init == LedgerInit /\ ServiceInit

Next == \E c \in Clerks : Request(c) \/ Statement(c) \/ End(c)

Spec == Init /\ [][Next]_vars

TypeOK ==
    /\ stock \in [Items -> [Warehouses -> Nat]]
    /\ total \in [Items -> Int]
    /\ ledger \in Seq(LedgerRow)
    /\ doc \in [Documents -> DocumentRow]
    /\ seq \in [Kinds -> Nat]
    /\ active \in SUBSET Warehouses
    /\ default \in SUBSET Warehouses
    /\ tx \in [Clerks -> Transaction]

-----------------------------------------------------------------------------
(* However its edits and deletion interleave with other requests, what a   *)
(* document has moved is what its lines say now, and nothing once deleted. *)
DocumentMovedItsLines ==
    \A d \in Documents, i \in Items, w \in Warehouses :
        MapThenSumSet(LAMBDA n : ledger[n].line.qty,
                      {n \in DOMAIN ledger : /\ ledger[n].doc = d
                                             /\ ledger[n].line.item = i
                                             /\ ledger[n].line.wh = w})
          = Moved(doc[d].lines, DOMAIN doc[d].lines, i, {w})

(* The numbers of a kind run from one without a gap or a double, whatever  *)
(* is refused or rolled back; a deleted document's is not given again.     *)
NumbersHaveNoGaps ==
    \A k \in Kinds :
        LET numbered == {d \in Documents : doc[d].kind = k}
        IN /\ {doc[d].number : d \in numbered} = 1..seq[k]
           /\ \A d, e \in numbered : doc[d].number = doc[e].number => d = e

(* A warehouse is retired only empty and nothing but an old document's     *)
(* reversal reaches it afterwards, although a purchase may have read it as *)
(* active.                                                                 *)
RetiredStaysEmpty ==
    [][\A w \in Warehouses :
          /\ w \in active \ active' => \A i \in Items : stock'[i][w] = 0
          /\ w \notin active =>
                \A n \in DOMAIN ledger' \ DOMAIN ledger :
                   ledger'[n].line.wh = w => ledger'[n].line.type = "reversal"]_vars

(* Exactly one default, and never a retired one, whoever moves the flag    *)
(* and retires a warehouse at once.                                        *)
DefaultIsOneActive == \E w \in active : default = {w}

WaitsFor(c, o) ==
    /\ tx[c].wants # <<>>
    /\ \E h \in tx[o].held :
          /\ h.row = Head(tx[c].wants).row
          /\ "update" \in {h.mode, Head(tx[c].wants).mode}

SharesAnItem(c) == \E h \in tx[c].held : h.row[1] = "item" /\ h.mode = "share"

(* stock.ts of the locks: "Two documents touching the same items in a      *)
(* different order therefore queue rather than deadlock".  It is so of     *)
(* sales, transfers, edits and deletions.  Where two wait for one another, *)
(* one is a purchase that writes its line rows before it calls the         *)
(* service, and shares their items in the order of its lines.              *)
DeadlockHasCause ==
    \A c, o \in Clerks :
        /\ c # o
        /\ {tx[c].op, tx[o].op} \subseteq {"create", "edit", "delete"}
        /\ WaitsFor(c, o) /\ WaitsFor(o, c)
        => SharesAnItem(c) \/ SharesAnItem(o)
=============================================================================

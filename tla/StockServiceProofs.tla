------------------------- MODULE StockServiceProofs -------------------------
(***************************************************************************)
(* The stock service implements the stock ledger, and its warehouses stay  *)
(* right, for every set of requests, items, warehouses and documents: by   *)
(* what a row lock keeps true until its transaction ends.  And the opening *)
(* of an item stands in its kardex as it was entered, however often it is  *)
(* corrected and whatever is bought and sold in between; its columns are   *)
(* what its kardex comes to when replayed; and a first correction of the   *)
(* opening's cost leaves the average where it would have been.             *)
(***************************************************************************)
EXTENDS StockService, Kardex, StockLedgerProofs

-----------------------------------------------------------------------------
(* The locks that a document's lines ask for. *)

(* Ids in order are all of the ids and nothing else, and they rise.        *)
LEMMA AscendingLists ==
    ASSUME NEW S \in SUBSET Nat, IsFiniteSet(S)
    PROVE  /\ Ascending(S) \in Seq(S)
           /\ \A x \in S : \E j \in DOMAIN Ascending(S) : Ascending(S)[j] = x
           /\ \A j, k \in DOMAIN Ascending(S) : j < k => Ascending(S)[j] < Ascending(S)[k]
<1>1. Ascending(S) = Ids(S)
  BY DEF Ascending, Ids
<1> QED BY <1>1, IdsInOrder

-----------------------------------------------------------------------------
(* The lines of documents. *)

Lines == Seq(StockLine) \ {<<>>}

(* A list of lines has a first one, and each names an item and a warehouse.*)
LEMMA LineFields ==
    ASSUME NEW lines \in Lines
    PROVE  /\ lines \in Seq(StockLine)
           /\ Len(lines) \in Nat \ {0} /\ DOMAIN lines = 1..Len(lines)
           /\ 1 \in 1..Len(lines) /\ Len(lines) \in 1..Len(lines)
           /\ \A k \in 1..Len(lines) : /\ lines[k] \in StockLine
                                       /\ lines[k].item \in Items /\ lines[k].wh \in Warehouses
<1>1. /\ lines \in Seq(StockLine)
      /\ Len(lines) \in Nat \ {0} /\ DOMAIN lines = 1..Len(lines)
  BY DEF Lines
<1>2. \A S : lines \in Seq(S) => \A k \in 1..Len(lines) : lines[k] \in S
  OBVIOUS
<1>3. \A l \in StockLine : l.item \in Items /\ l.wh \in Warehouses
  BY DEF StockLine
<1>4. \A k \in 1..Len(lines) : lines[k] \in StockLine
  BY <1>1, <1>2
<1> QED BY <1>1, <1>3, <1>4

(* What every request asks to move is a list of lines, never empty, whose  *)
(* first line tells the kind of document.                                  *)
LEMMA GoodsGiveLines ==
    ASSUME NEW g \in Goods, NEW w \in Warehouses, NEW v \in Warehouses
    PROVE  /\ Purchase(g, w) \in Lines /\ KindOf(Purchase(g, w)) \in Kinds
           /\ Sale(g, w) \in Lines /\ KindOf(Sale(g, w)) \in Kinds
           /\ Transfer(g, w, v) \in Lines /\ KindOf(Transfer(g, w, v)) \in Kinds
<1>1. /\ g \in Seq([item : Items, qty : Nat \ {0}])
      /\ Len(g) \in Nat \ {0}
      /\ DOMAIN g = 1..Len(g)
      /\ \A k \in 1..Len(g) : g[k].item \in Items /\ g[k].qty \in Nat
  <2>1. g \in Seq([item : Items, qty : Nat \ {0}]) /\ g # <<>>
    BY ServiceAssumption DEF ServiceAssumption
  <2>2. Len(g) \in Nat /\ Len(g) # 0 /\ DOMAIN g = 1..Len(g)
    BY <2>1
  <2>3. \A k \in 1..Len(g) : g[k] \in [item : Items, qty : Nat \ {0}]
    <3>1. \A S : g \in Seq(S) => \A k \in 1..Len(g) : g[k] \in S
      OBVIOUS
    <3> QED BY <2>1, <3>1, Zenon
  <2>4. \A k \in 1..Len(g) : g[k].item \in Items /\ g[k].qty \in Nat \ {0}
    BY <2>3
  <2> QED BY <2>1, <2>2, <2>4
<1>2. /\ Purchase(g, w) \in Seq(StockLine)
      /\ Len(Purchase(g, w)) = Len(g)
      /\ Purchase(g, w)[1].type = "purchase"
  <2>1. ASSUME NEW k \in 1..Len(g)
        PROVE  Purchase(g, w)[k] \in StockLine /\ Purchase(g, w)[k].type = "purchase"
    BY <1>1 DEF Purchase, StockLine, MovementType
  <2>2. /\ DOMAIN Purchase(g, w) = 1..Len(g)
        /\ Purchase(g, w) = [k \in 1..Len(g) |-> Purchase(g, w)[k]]
    BY <1>1 DEF Purchase
  <2> QED BY <1>1, <2>1, <2>2
<1>3. /\ Sale(g, w) \in Seq(StockLine)
      /\ Len(Sale(g, w)) = Len(g)
      /\ Sale(g, w)[1].type = "sale"
  <2>1. ASSUME NEW k \in 1..Len(g)
        PROVE  Sale(g, w)[k] \in StockLine /\ Sale(g, w)[k].type = "sale"
    BY <1>1 DEF Sale, StockLine, MovementType
  <2>2. /\ DOMAIN Sale(g, w) = 1..Len(g)
        /\ Sale(g, w) = [k \in 1..Len(g) |-> Sale(g, w)[k]]
    BY <1>1 DEF Sale
  <2> QED BY <1>1, <2>1, <2>2
<1>4. /\ Transfer(g, w, v) \in Seq(StockLine)
      /\ Len(Transfer(g, w, v)) = 2 * Len(g)
      /\ Transfer(g, w, v)[1].type = "transfer_out"
  <2>1. \A k \in 1..(2 * Len(g)) : (k + 1) \div 2 \in 1..Len(g)
    BY <1>1
  <2>2. ASSUME NEW k \in 1..(2 * Len(g))
        PROVE  Transfer(g, w, v)[k] \in StockLine
    BY <1>1, <2>1 DEF Transfer, StockLine, MovementType
  <2>3. /\ DOMAIN Transfer(g, w, v) = 1..(2 * Len(g))
        /\ Transfer(g, w, v) = [k \in 1..(2 * Len(g)) |-> Transfer(g, w, v)[k]]
        /\ 2 * Len(g) \in Nat
    BY <1>1 DEF Transfer
  <2>4. Transfer(g, w, v)[1].type = "transfer_out"
    <3>1. 1 \in 1..(2 * Len(g)) /\ 1 % 2 = 1
      BY <1>1
    <3> QED BY <3>1 DEF Transfer
  <2> QED BY <2>2, <2>3, <2>4
<1>5. \A s \in Seq(StockLine) : Len(s) # 0 => s \in Lines
  BY DEF Lines
<1> QED BY <1>1, <1>2, <1>3, <1>4, <1>5 DEF KindOf, Kinds

(* Lines taken back are lines, and so is an edit.                          *)
LEMMA EditsGiveLines ==
    ASSUME NEW old \in Lines
    PROVE  /\ Reversal(old) \in Lines
           /\ \A new \in Lines : Edited(old, new) \in Lines
<1>1. /\ old \in Seq(StockLine) /\ Len(old) \in Nat \ {0}
      /\ DOMAIN old = 1..Len(old)
      /\ \A k \in 1..Len(old) : old[k] \in StockLine
  BY DEF Lines
<1>2. /\ Reversal(old) \in Seq(StockLine)
      /\ Len(Reversal(old)) = Len(old)
  <2>1. ASSUME NEW k \in 1..Len(old)
        PROVE  Reversal(old)[k] \in StockLine
    <3>1. Reversal(old)[k] = [old[k] EXCEPT !.qty = -@, !.type = "reversal"]
      BY <1>1 DEF Reversal
    <3>2. old[k] \in [item : Items, wh : Warehouses, qty : Int, type : MovementType]
      BY <1>1 DEF StockLine
    <3>3. Reversal(old)[k] = [item |-> old[k].item, wh |-> old[k].wh,
                              qty |-> -old[k].qty, type |-> "reversal"]
      BY <3>1, <3>2
    <3>4. -old[k].qty \in Int /\ old[k].item \in Items /\ old[k].wh \in Warehouses
      BY <3>2
    <3> QED BY <3>3, <3>4 DEF StockLine, MovementType
  <2>2. /\ DOMAIN Reversal(old) = 1..Len(old)
        /\ Reversal(old) = [k \in 1..Len(old) |-> Reversal(old)[k]]
    BY <1>1 DEF Reversal
  <2> QED BY <1>1, <2>1, <2>2
<1>3. Reversal(old) \in Lines
  BY <1>1, <1>2 DEF Lines
<1>4. ASSUME NEW new \in Lines
      PROVE  Edited(old, new) \in Lines
  <2>1. new \in Seq(StockLine) /\ Len(new) \in Nat \ {0}
    BY DEF Lines
  <2>2. ASSUME NEW s \in Seq(StockLine), NEW t \in Seq(StockLine),
               Len(s) \in Nat \ {0}
        PROVE  s \o t \in Lines
    <3>1. s \o t \in Seq(StockLine) /\ Len(s \o t) = Len(s) + Len(t) /\ Len(t) \in Nat
      OBVIOUS
    <3> QED BY <2>2, <3>1 DEF Lines
  <2> QED BY <1>1, <1>2, <2>1, <2>2 DEF Edited
<1> QED BY <1>3, <1>4

-----------------------------------------------------------------------------
(* Lists of locks. *)

Elements(s) == {s[j] : j \in DOMAIN s}

(* What is in two lists joined, and what is left when the first one goes.  *)
LEMMA ElementsOfLists ==
    ASSUME NEW S
    PROVE  /\ \A s, t \in Seq(S) : s \o t \in Seq(S) /\ Elements(s \o t) = Elements(s) \cup Elements(t)
           /\ \A s \in Seq(S) : s # <<>> =>
                 /\ Tail(s) \in Seq(S)
                 /\ Head(s) \in S
                 /\ Elements(s) = {Head(s)} \cup Elements(Tail(s))
           /\ Elements(<<>>) = {}
           /\ \A x \in S : <<x>> \in Seq(S) /\ Elements(<<x>>) = {x}
<1>1. ASSUME NEW s \in Seq(S), NEW t \in Seq(S)
      PROVE  s \o t \in Seq(S) /\ Elements(s \o t) = Elements(s) \cup Elements(t)
  <2>1. /\ s \o t \in Seq(S)
        /\ DOMAIN s = 1..Len(s) /\ DOMAIN t = 1..Len(t)
        /\ DOMAIN (s \o t) = 1..(Len(s) + Len(t))
        /\ Len(s) \in Nat /\ Len(t) \in Nat
        /\ \A j \in 1..Len(s) : (s \o t)[j] = s[j]
        /\ \A j \in 1..Len(t) : (s \o t)[Len(s) + j] = t[j]
    OBVIOUS
  <2>2. ASSUME NEW x \in Elements(s \o t)
        PROVE  x \in Elements(s) \cup Elements(t)
    <3>1. PICK j \in 1..(Len(s) + Len(t)) : x = (s \o t)[j]
      BY <2>1 DEF Elements
    <3>2. CASE j \in 1..Len(s)
      BY <2>1, <3>1, <3>2 DEF Elements
    <3>3. CASE j \notin 1..Len(s)
      <4>1. j - Len(s) \in 1..Len(t) /\ j = Len(s) + (j - Len(s))
        BY <2>1, <3>3
      <4> QED BY <2>1, <3>1, <4>1 DEF Elements
    <3> QED BY <3>2, <3>3
  <2>3. ASSUME NEW x \in Elements(s)
        PROVE  x \in Elements(s \o t)
    <3>1. PICK j \in 1..Len(s) : x = s[j]
      BY <2>1 DEF Elements
    <3>2. j \in 1..(Len(s) + Len(t))
      BY <2>1
    <3> QED BY <2>1, <3>1, <3>2 DEF Elements
  <2>4. ASSUME NEW x \in Elements(t)
        PROVE  x \in Elements(s \o t)
    <3>1. PICK j \in 1..Len(t) : x = t[j]
      BY <2>1 DEF Elements
    <3>2. Len(s) + j \in 1..(Len(s) + Len(t))
      BY <2>1
    <3> QED BY <2>1, <3>1, <3>2 DEF Elements
  <2> QED BY <2>1, <2>2, <2>3, <2>4
<1>2. ASSUME NEW s \in Seq(S), s # <<>>
      PROVE  /\ Tail(s) \in Seq(S)
             /\ Head(s) \in S
             /\ Elements(s) = {Head(s)} \cup Elements(Tail(s))
  <2>1. /\ Tail(s) \in Seq(S) /\ Head(s) \in S /\ Head(s) = s[1]
        /\ Len(s) \in Nat \ {0} /\ DOMAIN s = 1..Len(s)
        /\ DOMAIN Tail(s) = 1..(Len(s) - 1)
        /\ \A j \in 1..(Len(s) - 1) : Tail(s)[j] = s[j + 1]
    BY <1>2
  <2>2. ASSUME NEW x \in Elements(s)
        PROVE  x \in {Head(s)} \cup Elements(Tail(s))
    <3>1. PICK j \in 1..Len(s) : x = s[j]
      BY <2>1 DEF Elements
    <3>2. CASE j = 1
      BY <2>1, <3>1, <3>2
    <3>3. CASE j # 1
      <4>1. j - 1 \in 1..(Len(s) - 1) /\ j = (j - 1) + 1
        BY <2>1, <3>3
      <4> QED BY <2>1, <3>1, <4>1 DEF Elements
    <3> QED BY <3>2, <3>3
  <2>3. Head(s) \in Elements(s)
    <3>1. 1 \in 1..Len(s)
      BY <2>1
    <3> QED BY <2>1, <3>1 DEF Elements
  <2>4. ASSUME NEW x \in Elements(Tail(s))
        PROVE  x \in Elements(s)
    <3>1. PICK j \in 1..(Len(s) - 1) : x = s[j + 1]
      BY <2>1 DEF Elements
    <3>2. j + 1 \in 1..Len(s)
      BY <2>1
    <3> QED BY <2>1, <3>1, <3>2 DEF Elements
  <2> QED BY <2>1, <2>2, <2>3, <2>4
<1>3. Elements(<<>>) = {}
  BY DEF Elements
<1>4. ASSUME NEW x \in S
      PROVE  <<x>> \in Seq(S) /\ Elements(<<x>>) = {x}
  BY DEF Elements
<1> QED BY <1>1, <1>2, <1>3, <1>4

(* The service locks every item that its lines move, to write it.          *)
LEMMA ServiceLocksItems ==
    ASSUME NEW lines \in Lines
    PROVE  /\ ServiceLocks(lines) \in Seq(Lock)
           /\ \A k \in DOMAIN lines : Update("item", lines[k].item) \in Elements(ServiceLocks(lines))
<1>1. /\ lines \in Seq(StockLine)
      /\ \A k \in DOMAIN lines : lines[k].item \in Items /\ lines[k].wh \in Warehouses
  BY LineFields
<1> DEFINE itemIds == {lines[k].item : k \in DOMAIN lines}
           whIds == {lines[k].wh : k \in DOMAIN lines}
<1>2. /\ itemIds \in SUBSET Items /\ whIds \in SUBSET Warehouses
      /\ itemIds \in SUBSET Nat /\ whIds \in SUBSET Nat
      /\ IsFiniteSet(itemIds) /\ IsFiniteSet(whIds)
  <2>1. itemIds \in SUBSET Items /\ whIds \in SUBSET Warehouses
    BY <1>1
  <2> HIDE DEF itemIds, whIds
  <2> QED BY <2>1, FS_Subset, LedgerAssumption DEF LedgerAssumption
<1> HIDE DEF itemIds, whIds
<1> DEFINE items == Ascending(itemIds)
           whs == Ascending(whIds)
           first == [k \in DOMAIN items |-> Update("item", items[k])]
           last == [k \in DOMAIN whs |-> Share("wh", whs[k])]
<1>3. /\ items \in Seq(itemIds) /\ whs \in Seq(whIds)
      /\ \A x \in itemIds : \E j \in DOMAIN items : items[j] = x
  BY <1>2, AscendingLists
<1> HIDE DEF items, whs
<1>4. /\ DOMAIN items = 1..Len(items) /\ Len(items) \in Nat
      /\ DOMAIN whs = 1..Len(whs) /\ Len(whs) \in Nat
      /\ \A k \in 1..Len(items) : items[k] \in itemIds
      /\ \A k \in 1..Len(whs) : whs[k] \in whIds
  BY <1>3
<1>5. /\ \A i \in Items : Update("item", i) \in Lock
      /\ \A w \in Warehouses : Share("wh", w) \in Lock
  BY DEF Update, Share, Lock, Rows
<1>6. first \in Seq(Lock) /\ last \in Seq(Lock)
  <2>1. \A k \in 1..Len(items) : Update("item", items[k]) \in Lock
    BY <1>2, <1>4, <1>5
  <2>2. \A k \in 1..Len(whs) : Share("wh", whs[k]) \in Lock
    BY <1>2, <1>4, <1>5
  <2> HIDE DEF Update
  <2> QED BY <1>4, <2>1, <2>2
<1>7. ServiceLocks(lines) = first \o last
  BY DEF ServiceLocks, items, whs, itemIds, whIds
<1>8. \A x \in itemIds : Update("item", x) \in Elements(first)
  BY <1>3 DEF Elements
<1>9. \A k \in DOMAIN lines : lines[k].item \in itemIds
  BY DEF itemIds
<1> HIDE DEF first, last
<1> QED BY <1>6, <1>7, <1>8, <1>9, ElementsOfLists

(* The locks of headers and line rows are locks.                           *)
LEMMA RowLocksTyped ==
    ASSUME NEW lines \in Lines
    PROVE  HeaderLocks(lines) \in Seq(Lock) /\ LineLocks(lines) \in Seq(Lock)
<1>1. /\ lines \in Seq(StockLine)
      /\ Len(lines) \in Nat \ {0} /\ DOMAIN lines = 1..Len(lines)
      /\ 1 \in 1..Len(lines) /\ Len(lines) \in 1..Len(lines)
      /\ \A k \in 1..Len(lines) : lines[k].item \in Items /\ lines[k].wh \in Warehouses
  BY LineFields
<1>2. /\ \A i \in Items : Share("item", i) \in Lock
      /\ \A w \in Warehouses : Share("wh", w) \in Lock
  BY DEF Share, Lock, Rows
<1>3. HeaderLocks(lines) \in Seq(Lock)
  BY <1>1, <1>2 DEF HeaderLocks
<1>4. LineLocks(lines) \in Seq(Lock)
  BY <1>1, <1>2 DEF LineLocks
<1> QED BY <1>3, <1>4

-----------------------------------------------------------------------------
(* What holds of every transaction, and of what it holds.                  *)

(* A transaction's fields.  What it read of the totals is only known to be *)
(* one figure for each item, since a sum over lines has no type without    *)
(* induction, and its number is told by NumberIsNext.                      *)
Fields(t) ==
    t \in [op     : {"none", "create", "edit", "delete", "retire", "revive", "default"},
           doc    : Documents \cup {Nobody},
           lines  : Seq(StockLine),
           keeps  : Seq(StockLine),
           number : {t.number},
           wants  : Seq(Lock),
           held   : SUBSET Lock,
           open   : SUBSET Warehouses,
           read   : [Items -> {t.read[i] : i \in Items}],
           target : Warehouses]

Shape ==
    /\ tx = [c \in Clerks |-> tx[c]]
    /\ \A c \in Clerks : Fields(tx[c])
    /\ doc \in [Documents -> DocumentRow]
    /\ seq \in [Kinds -> Nat]
    /\ active \in SUBSET Warehouses
    /\ ledger \in Seq({ledger[n] : n \in DOMAIN ledger})

LocksExclude ==
    \A c, o \in Clerks : c # o =>
        \A l \in tx[c].held, h \in tx[o].held :
            l.row = h.row => l.mode = "share" /\ h.mode = "share"

(* What was read under a lock is still so. *)
ReadIsCurrent ==
    \A c \in Clerks, i \in Items :
        Update("item", i) \in tx[c].held => tx[c].read[i] = total[i]

OpenIsActive ==
    \A c \in Clerks : \A w \in tx[c].open :
        w \in active /\ \E l \in tx[c].held : l.row = <<"wh", w>>

NumberIsNext ==
    \A c \in Clerks :
        tx[c].op = "create" /\ Update("counter", 0) \in tx[c].held =>
            tx[c].number = seq[KindOf(tx[c].lines)] + 1

(* What a transaction needs is among the locks it has or still asks for. *)
Ahead(c) == tx[c].held \cup Elements(tx[c].wants)

LocksAhead ==
    \A c \in Clerks :
        /\ NeedsDocument(c) => tx[c].wants = <<>>
        /\ tx[c].op \in {"retire", "revive"} => Update("wh", tx[c].target) \in Ahead(c)
        /\ tx[c].op = "create" => Update("counter", 0) \in Ahead(c)
        /\ tx[c].op \in {"create", "edit", "delete"} /\ ~NeedsDocument(c) =>
              /\ tx[c].lines \in Lines
              /\ \A k \in DOMAIN tx[c].lines :
                    Update("item", tx[c].lines[k].item) \in Ahead(c)

(* A creation has a new document of its own; a live document has lines. *)
DocumentsKept ==
    /\ \A d \in Documents : /\ doc[d].state = "none" <=> doc[d].kind = "none"
                            /\ doc[d].state = "live" => doc[d].lines \in Lines
    /\ \A c \in Clerks :
          /\ tx[c].op \in {"create", "edit", "delete"} => tx[c].doc \in Documents
          /\ tx[c].op \in {"edit", "delete"} => doc[tx[c].doc].state # "none"
          /\ tx[c].op = "edit" /\ ~NeedsDocument(c) => tx[c].keeps \in Lines
          /\ tx[c].op = "create" =>
                /\ doc[tx[c].doc].state = "none"
                /\ KindOf(tx[c].lines) \in Kinds
                /\ tx[c].keeps \in Lines
                /\ \A o \in Clerks \ {c} : tx[o].doc # tx[c].doc

IInv ==
    /\ Shape
    /\ LocksExclude
    /\ ReadIsCurrent
    /\ OpenIsActive
    /\ NumberIsNext
    /\ LocksAhead
    /\ DocumentsKept
    /\ DefaultIsOneActive
    /\ NumbersHaveNoGaps

-----------------------------------------------------------------------------
(* What each kind of step makes of the transaction it moves.               *)

OnlyMoves(c) ==
    /\ tx' = [o \in Clerks |-> tx'[o]]
    /\ \A o \in Clerks \ {c} : tx'[o] = tx[o]

(* A transaction that has not begun holds and wants nothing.               *)
LEMMA IdleFields ==
    /\ Fields(Idle)
    /\ Idle.op = "none" /\ Idle.doc = Nobody /\ Idle.wants = <<>>
    /\ Idle.held = {} /\ Idle.open = {} /\ Idle.lines = <<>>
<1>1. Main \in Warehouses
  BY ServiceAssumption DEF ServiceAssumption
<1>2. <<>> \in Seq(StockLine) /\ <<>> \in Seq(Lock)
  OBVIOUS
<1> QED BY <1>1, <1>2 DEF Fields, Idle

(* A step that replaces one transaction leaves the others.                 *)
LEMMA Replaces ==
    ASSUME tx = [c \in Clerks |-> tx[c]], NEW c \in Clerks, NEW t,
           tx' = [tx EXCEPT ![c] = t]
    PROVE  OnlyMoves(c) /\ tx'[c] = t
BY DEF OnlyMoves

(* A lock taken.                                                           *)
LEMMA TakeFields ==
    ASSUME Shape, NEW c \in Clerks, Take(c)
    PROVE  LET l == Head(tx[c].wants)
               id == l.row[2]
           IN /\ OnlyMoves(c)
              /\ Fields(tx'[c])
              /\ l \in Lock
              /\ Elements(tx[c].wants) = {l} \cup Elements(tx'[c].wants)
              /\ tx'[c].op = tx[c].op /\ tx'[c].doc = tx[c].doc
              /\ tx'[c].lines = tx[c].lines /\ tx'[c].keeps = tx[c].keeps
              /\ tx'[c].target = tx[c].target
              /\ tx'[c].wants = Tail(tx[c].wants)
              /\ tx'[c].held = tx[c].held \cup {l}
              /\ tx'[c].read = IF l = Update("item", id)
                               THEN [tx[c].read EXCEPT ![id] = total[id]] ELSE tx[c].read
              /\ tx'[c].open = IF l.row[1] = "wh" /\ id \in active
                               THEN tx[c].open \cup {id} ELSE tx[c].open
              /\ tx'[c].number = IF l.row[1] = "counter" THEN seq[KindOf(tx[c].lines)] + 1
                                 ELSE tx[c].number
<1> DEFINE l == Head(tx[c].wants)
           id == l.row[2]
           read == IF l = Update("item", id)
                   THEN [tx[c].read EXCEPT ![id] = total[id]] ELSE tx[c].read
           open == IF l.row[1] = "wh" /\ id \in active THEN tx[c].open \cup {id} ELSE tx[c].open
           number == IF l.row[1] = "counter" THEN seq[KindOf(tx[c].lines)] + 1 ELSE tx[c].number
           next == [tx[c] EXCEPT !.wants = Tail(tx[c].wants), !.held = tx[c].held \cup {l},
                                 !.read = read, !.open = open, !.number = number]
<1>1. Fields(tx[c]) /\ active \in SUBSET Warehouses /\ tx = [o \in Clerks |-> tx[o]]
  BY DEF Shape
<1>2. tx[c].wants # <<>> /\ tx' = [tx EXCEPT ![c] = next]
  BY DEF Take
<1>3. /\ l \in Lock
      /\ Tail(tx[c].wants) \in Seq(Lock)
      /\ Elements(tx[c].wants) = {l} \cup Elements(Tail(tx[c].wants))
  BY <1>1, <1>2, ElementsOfLists DEF Fields
<1>4. open \in SUBSET Warehouses
  BY <1>1 DEF Fields
<1>5. read \in [Items -> {read[i] : i \in Items}]
  BY <1>1 DEF Fields
<1> HIDE DEF l, read, open, number
<1>6. /\ next.wants = Tail(tx[c].wants)
      /\ next.held = tx[c].held \cup {l}
      /\ next.read = read /\ next.open = open /\ next.number = number
      /\ next.op = tx[c].op /\ next.doc = tx[c].doc
      /\ next.lines = tx[c].lines /\ next.keeps = tx[c].keeps
      /\ next.target = tx[c].target
      /\ Fields(next)
  BY <1>1, <1>3, <1>4, <1>5 DEF Fields
<1> HIDE DEF next
<1>7. OnlyMoves(c) /\ tx'[c] = next
  BY <1>1, <1>2, Replaces
<1> QED BY <1>3, <1>6, <1>7 DEF l, read, open, number

(* A request that begins holds nothing, so that it is enough that it asks  *)
(* for the locks it needs and names a document that is its own to name.    *)
LEMMA BeginKeeps ==
    ASSUME IInv, NEW c \in Clerks, NEW t, Begins(c, t), Fields(t),
           t.held = {}, t.open = {},
           t.op \in {"edit", "delete"} =>
              t.wants = <<>> /\ t.doc \in Documents /\ doc[t.doc].state = "live",
           t.op \in {"retire", "revive", "default"} => t.doc = Nobody,
           t.op \in {"retire", "revive"} => Update("wh", t.target) \in Elements(t.wants),
           t.op = "create" =>
              /\ t.doc \in Documents /\ doc[t.doc].state = "none"
              /\ \A o \in Clerks : tx[o].doc # t.doc
              /\ t.lines \in Lines /\ t.keeps \in Lines /\ KindOf(t.lines) \in Kinds
              /\ Update("counter", 0) \in Elements(t.wants)
              /\ \A k \in DOMAIN t.lines : Update("item", t.lines[k].item) \in Elements(t.wants),
           t.op # "none"
    PROVE  IInv'
<1>1. /\ OnlyMoves(c) /\ tx'[c] = t
      /\ UNCHANGED <<ledgerVars, doc, seq, active, default>>
  BY Replaces DEF Begins, IInv, Shape
<1>2. /\ tx' = [o \in Clerks |-> tx'[o]]
      /\ \A o \in Clerks : o = c \/ tx'[o] = tx[o]
      /\ stock' = stock /\ total' = total /\ ledger' = ledger
      /\ doc' = doc /\ seq' = seq /\ active' = active /\ default' = default
  BY <1>1 DEF OnlyMoves, ledgerVars
<1>3. t.op \in {"create", "edit", "delete", "retire", "revive", "default"}
  BY DEF Fields
<1>4. Shape'
  <2>1. ASSUME NEW o \in Clerks
        PROVE  Fields(tx'[o])
    BY <1>1, <1>2 DEF IInv, Shape
  <2>2. /\ doc \in [Documents -> DocumentRow] /\ seq \in [Kinds -> Nat]
        /\ active \in SUBSET Warehouses /\ ledger \in Seq({ledger[n] : n \in DOMAIN ledger})
    BY DEF IInv, Shape
  <2> QED BY <1>2, <2>1, <2>2 DEF Shape
<1>5. LocksExclude'
  BY <1>1, <1>2 DEF IInv, LocksExclude
<1>6. ReadIsCurrent'
  BY <1>1, <1>2 DEF IInv, ReadIsCurrent, Update
<1>7. OpenIsActive'
  <2>1. ASSUME NEW o \in Clerks, NEW w \in tx'[o].open
        PROVE  w \in active' /\ \E l \in tx'[o].held : l.row = <<"wh", w>>
    <3>1. o # c /\ tx'[o] = tx[o]
      BY <1>1, <1>2, <2>1
    <3>2. w \in tx[o].open
      BY <2>1, <3>1
    <3> QED BY <1>2, <3>1, <3>2 DEF IInv, OpenIsActive
  <2> QED BY <2>1 DEF OpenIsActive
<1>8. NumberIsNext'
  BY <1>1, <1>2 DEF IInv, NumberIsNext, Update
<1>9. LocksAhead'
  <2>1. ASSUME NEW o \in Clerks, o # c
        PROVE  tx'[o] = tx[o] /\ NeedsDocument(o)' = NeedsDocument(o) /\ Ahead(o)' = Ahead(o)
    BY <1>2, <2>1 DEF NeedsDocument, Ahead
  <2>2. NeedsDocument(c)' = (t.op \in {"edit", "delete"}) /\ Ahead(c)' = Elements(t.wants)
    BY <1>1 DEF NeedsDocument, Ahead
  <2> QED BY <1>1, <2>1, <2>2 DEF IInv, LocksAhead
<1>10. DocumentsKept'
  <2>1. ASSUME NEW o \in Clerks, o # c, tx[o].op = "create"
        PROVE  tx[o].doc # t.doc
    BY <1>3, <2>1, ServiceAssumption DEF IInv, DocumentsKept, ServiceAssumption
  <2>2. ASSUME NEW o \in Clerks, o # c
        PROVE  tx'[o] = tx[o] /\ NeedsDocument(o)' = NeedsDocument(o)
    BY <1>2, <2>2 DEF NeedsDocument
  <2>3. NeedsDocument(c)' = (t.op \in {"edit", "delete"})
    BY <1>1 DEF NeedsDocument
  <2>4. \A d \in Documents : /\ doc'[d].state = "none" <=> doc'[d].kind = "none"
                             /\ doc'[d].state = "live" => doc'[d].lines \in Lines
    BY <1>2 DEF IInv, DocumentsKept
  <2>5. \A o \in Clerks : tx'[o].op = "create" => \A x \in Clerks \ {o} : tx'[x].doc # tx'[o].doc
    <3>1. ASSUME NEW o \in Clerks, NEW x \in Clerks, x # o, tx'[o].op = "create"
          PROVE  tx'[x].doc # tx'[o].doc
      BY <1>1, <2>1, <2>2, <3>1 DEF IInv, DocumentsKept
    <3> QED BY <3>1
  <2>6. ASSUME NEW o \in Clerks
        PROVE  /\ tx'[o].op \in {"create", "edit", "delete"} => tx'[o].doc \in Documents
               /\ tx'[o].op \in {"edit", "delete"} => doc'[tx'[o].doc].state # "none"
               /\ tx'[o].op = "edit" /\ ~NeedsDocument(o)' => tx'[o].keeps \in Lines
               /\ tx'[o].op = "create" =>
                     /\ doc'[tx'[o].doc].state = "none"
                     /\ KindOf(tx'[o].lines) \in Kinds
                     /\ tx'[o].keeps \in Lines
    <3>1. CASE o = c
      BY <1>1, <1>2, <2>3, <3>1
    <3>2. CASE o # c
      BY <1>2, <2>2, <3>2 DEF IInv, DocumentsKept
    <3> QED BY <3>1, <3>2
  <2> QED BY <2>4, <2>5, <2>6 DEF DocumentsKept
<1>11. DefaultIsOneActive' /\ NumbersHaveNoGaps'
  BY <1>2 DEF IInv, DefaultIsOneActive, NumbersHaveNoGaps
<1> QED BY <1>4, <1>5, <1>6, <1>7, <1>8, <1>9, <1>10, <1>11 DEF IInv

(* A transaction that ends leaves the others theirs, when what it wrote is *)
(* nothing that another one has locked.                                    *)
LEMMA EndKeeps ==
    ASSUME IInv, NEW c \in Clerks, Ends(c),
           doc' \in [Documents -> DocumentRow], seq' \in [Kinds -> Nat],
           active' \in SUBSET Warehouses,
           ledger' \in Seq({ledger'[n] : n \in DOMAIN ledger'}),
           \A d \in Documents : /\ doc'[d].state = "none" <=> doc'[d].kind = "none"
                                /\ doc'[d].state = "live" => doc'[d].lines \in Lines
                                /\ doc'[d].state = doc[d].state
                                   \/ (d = tx[c].doc /\ doc'[d].state # "none"),
           \A o \in Clerks \ {c} :
              /\ \A i \in Items : Update("item", i) \in tx[o].held => total'[i] = total[i]
              /\ \A w \in tx[o].open : w \in active'
              /\ tx[o].op = "create" /\ Update("counter", 0) \in tx[o].held => seq' = seq,
           DefaultIsOneActive', NumbersHaveNoGaps'
    PROVE  IInv'
<1>1. OnlyMoves(c) /\ tx'[c] = Idle
  BY Replaces DEF Ends, IInv, Shape
<1>2. /\ tx' = [o \in Clerks |-> tx'[o]]
      /\ \A o \in Clerks : o = c \/ tx'[o] = tx[o]
  BY <1>1 DEF OnlyMoves
<1>3. /\ Fields(Idle)
      /\ Idle.op = "none" /\ Idle.doc = Nobody /\ Idle.wants = <<>>
      /\ Idle.held = {} /\ Idle.open = {} /\ Idle.lines = <<>>
  BY IdleFields
<1> HIDE DEF Idle
<1>4. Shape'
  <2>1. ASSUME NEW o \in Clerks
        PROVE  Fields(tx'[o])
    BY <1>1, <1>2, <1>3 DEF IInv, Shape
  <2> QED BY <1>2, <2>1 DEF IInv, Shape, Fields
<1>5. LocksExclude'
  BY <1>1, <1>2, <1>3 DEF IInv, LocksExclude
<1>6. ReadIsCurrent'
  <2>1. ASSUME NEW o \in Clerks, NEW i \in Items, Update("item", i) \in tx'[o].held
        PROVE  tx'[o].read[i] = total'[i]
    <3>1. o # c /\ tx'[o] = tx[o]
      BY <1>1, <1>2, <1>3, <2>1
    <3>2. Update("item", i) \in tx[o].held /\ total'[i] = total[i]
      BY <2>1, <3>1
    <3> QED BY <3>1, <3>2 DEF IInv, ReadIsCurrent
  <2> QED BY <2>1 DEF ReadIsCurrent
<1>7. OpenIsActive'
  <2>1. ASSUME NEW o \in Clerks, NEW w \in tx'[o].open
        PROVE  w \in active' /\ \E l \in tx'[o].held : l.row = <<"wh", w>>
    <3>1. o # c /\ tx'[o] = tx[o]
      BY <1>1, <1>2, <1>3
    <3> QED BY <3>1 DEF IInv, OpenIsActive
  <2> QED BY <2>1 DEF OpenIsActive
<1>8. NumberIsNext'
  BY <1>1, <1>2, <1>3 DEF IInv, NumberIsNext
<1>9. LocksAhead'
  <2>1. ASSUME NEW o \in Clerks, o # c
        PROVE  tx'[o] = tx[o] /\ NeedsDocument(o)' = NeedsDocument(o) /\ Ahead(o)' = Ahead(o)
    BY <1>2, <2>1 DEF NeedsDocument, Ahead
  <2>2. ~NeedsDocument(c)' /\ tx'[c].op = "none"
    BY <1>1, <1>3 DEF NeedsDocument
  <2> QED BY <2>1, <2>2 DEF IInv, LocksAhead
<1>10. DocumentsKept'
  <2>1. ASSUME NEW o \in Clerks, o # c, tx[o].op = "create"
        PROVE  doc'[tx[o].doc].state = "none" /\ tx[o].doc # Nobody
    BY <2>1, ServiceAssumption DEF IInv, DocumentsKept, ServiceAssumption
  <2>2. ASSUME NEW o \in Clerks, o # c
        PROVE  tx'[o] = tx[o] /\ NeedsDocument(o)' = NeedsDocument(o)
    BY <1>2, <2>2 DEF NeedsDocument
  <2>3. ~NeedsDocument(c)' /\ tx'[c].op = "none" /\ tx'[c].doc = Nobody
    BY <1>1, <1>3 DEF NeedsDocument
  <2>4. \A o \in Clerks : tx'[o].op = "create" => \A x \in Clerks \ {o} : tx'[x].doc # tx'[o].doc
    <3>1. ASSUME NEW o \in Clerks, NEW x \in Clerks, x # o, tx'[o].op = "create"
          PROVE  tx'[x].doc # tx'[o].doc
      BY <2>1, <2>2, <2>3, <3>1 DEF IInv, DocumentsKept
    <3> QED BY <3>1
  <2>5. ASSUME NEW o \in Clerks, o # c
        PROVE  /\ tx'[o].op \in {"create", "edit", "delete"} => tx'[o].doc \in Documents
               /\ tx'[o].op \in {"edit", "delete"} => doc'[tx'[o].doc].state # "none"
               /\ tx'[o].op = "edit" /\ ~NeedsDocument(o)' => tx'[o].keeps \in Lines
               /\ tx'[o].op = "create" =>
                     /\ doc'[tx'[o].doc].state = "none"
                     /\ KindOf(tx'[o].lines) \in Kinds
                     /\ tx'[o].keeps \in Lines
    <3>1. tx[o].op \in {"edit", "delete"} =>
             tx[o].doc \in Documents /\ doc[tx[o].doc].state # "none"
      BY DEF IInv, DocumentsKept
    <3>2. tx[o].op \in {"edit", "delete"} => doc'[tx[o].doc].state # "none"
      BY <3>1
    <3> QED BY <2>1, <2>2, <2>5, <3>2 DEF IInv, DocumentsKept
  <2> QED BY <2>3, <2>4, <2>5 DEF DocumentsKept
<1> QED BY <1>4, <1>5, <1>6, <1>7, <1>8, <1>9, <1>10 DEF IInv

(* A new document asks for the counter of its number and for its items.    *)
LEMMA BeginCreateKeeps ==
    ASSUME IInv, NEW c \in Clerks, NEW d \in Documents, NEW lines \in Lines,
           KindOf(lines) \in Kinds, BeginCreate(c, d, lines)
    PROVE  IInv'
<1> DEFINE first == <<Update("counter", 0)>>
           rows == HeaderLocks(lines) \o LineLocks(lines)
           wants == <<Update("counter", 0)>> \o HeaderLocks(lines)
                    \o LineLocks(lines) \o ServiceLocks(lines)
           t == [Idle EXCEPT !.op = "create", !.doc = d, !.lines = lines, !.keeps = lines,
                             !.wants = wants]
<1>1. /\ doc[d].state = "none"
      /\ \A o \in Clerks : tx[o].doc # d
      /\ Begins(c, t)
  BY DEF BeginCreate
<1>2. Update("counter", 0) \in Lock
  BY DEF Update, Lock, Rows
<1>3. /\ first \in Seq(Lock) /\ Elements(first) = {Update("counter", 0)}
      /\ HeaderLocks(lines) \in Seq(Lock) /\ LineLocks(lines) \in Seq(Lock)
      /\ ServiceLocks(lines) \in Seq(Lock)
  BY <1>2, ElementsOfLists, RowLocksTyped, ServiceLocksItems
<1>4. /\ wants \in Seq(Lock)
      /\ Update("counter", 0) \in Elements(wants)
      /\ Elements(ServiceLocks(lines)) \subseteq Elements(wants)
  <2> HIDE DEF first
  <2>0. \A p, q \in Seq(Lock) :
           p \o q \in Seq(Lock) /\ Elements(p \o q) = Elements(p) \cup Elements(q)
    BY ElementsOfLists
  <2>1. /\ first \o HeaderLocks(lines) \in Seq(Lock)
        /\ Elements(first \o HeaderLocks(lines)) = Elements(first) \cup Elements(HeaderLocks(lines))
    BY <1>3, <2>0, Zenon
  <2>2. /\ first \o HeaderLocks(lines) \o LineLocks(lines) \in Seq(Lock)
        /\ Elements(first \o HeaderLocks(lines) \o LineLocks(lines))
              = Elements(first \o HeaderLocks(lines)) \cup Elements(LineLocks(lines))
    BY <1>3, <2>0, <2>1, Zenon
  <2>3. wants = first \o HeaderLocks(lines) \o LineLocks(lines) \o ServiceLocks(lines)
    BY DEF first
  <2> HIDE DEF wants
  <2>4. /\ wants \in Seq(Lock)
        /\ Elements(wants) = Elements(first \o HeaderLocks(lines) \o LineLocks(lines))
                             \cup Elements(ServiceLocks(lines))
    BY <1>3, <2>0, <2>2, <2>3, Zenon
  <2> QED BY <1>3, <2>1, <2>2, <2>4
<1>5. \A k \in DOMAIN lines : Update("item", lines[k].item) \in Elements(wants)
  BY <1>4, ServiceLocksItems
<1> HIDE DEF wants
<1>6. /\ t.op = "create" /\ t.doc = d /\ t.lines = lines /\ t.keeps = lines
      /\ t.wants = wants /\ t.held = {} /\ t.open = {}
      /\ Fields(t)
  <2>1. lines \in Seq(StockLine)
    BY DEF Lines
  <2> QED BY <1>4, <2>1, IdleFields DEF Fields, Idle
<1> HIDE DEF t
<1> QED BY <1>1, <1>4, <1>5, <1>6, BeginKeeps

(* An edit or a deletion begins with nothing in hand.                      *)
LEMMA BeginChangeKeeps ==
    ASSUME IInv, NEW c \in Clerks, NEW d \in Documents, NEW op \in {"edit", "delete"},
           BeginChange(c, d, op)
    PROVE  IInv'
<1> DEFINE t == [Idle EXCEPT !.op = op, !.doc = d]
<1>1. doc[d].state = "live" /\ Begins(c, t)
  BY DEF BeginChange
<1>2. /\ t.op = op /\ t.doc = d /\ t.wants = <<>> /\ t.held = {} /\ t.open = {}
      /\ Fields(t)
  BY IdleFields DEF Fields, Idle
<1> HIDE DEF t
<1> QED BY <1>1, <1>2, BeginKeeps

(* A setting asks for the row of its warehouse, or for those of all.       *)
LEMMA BeginSettingKeeps ==
    ASSUME IInv, NEW c \in Clerks, NEW op \in {"retire", "revive", "default"},
           NEW w \in Warehouses, BeginSetting(c, op, w)
    PROVE  IInv'
<1> DEFINE ids == Ascending(Warehouses)
           all == [k \in DOMAIN Ascending(Warehouses) |-> Update("wh", Ascending(Warehouses)[k])]
           wants == IF op = "default" THEN all ELSE <<Update("wh", w)>>
           t == [Idle EXCEPT !.op = op, !.target = w, !.wants = wants]
<1>1. Begins(c, t)
  BY DEF BeginSetting
<1>2. \A v \in Warehouses : Update("wh", v) \in Lock
  BY DEF Update, Lock, Rows
<1>3. all \in Seq(Lock)
  <2>1. ids \in Seq(Warehouses)
    BY AscendingLists, LedgerAssumption DEF LedgerAssumption
  <2>2. all = [k \in DOMAIN ids |-> Update("wh", ids[k])]
    OBVIOUS
  <2> HIDE DEF ids, all
  <2>3. /\ DOMAIN ids = 1..Len(ids) /\ Len(ids) \in Nat
        /\ \A k \in 1..Len(ids) : ids[k] \in Warehouses
    BY <2>1
  <2>4. \A k \in 1..Len(ids) : Update("wh", ids[k]) \in Lock
    BY <1>2, <2>3
  <2> HIDE DEF Update
  <2> QED BY <2>2, <2>3, <2>4
<1>4. <<Update("wh", w)>> \in Seq(Lock) /\ Elements(<<Update("wh", w)>>) = {Update("wh", w)}
  BY <1>2, ElementsOfLists
<1> HIDE DEF all
<1>5. /\ wants \in Seq(Lock)
      /\ op # "default" => Update("wh", w) \in Elements(wants)
  BY <1>3, <1>4
<1> HIDE DEF wants
<1>6. /\ t.op = op /\ t.target = w /\ t.wants = wants /\ t.held = {} /\ t.open = {}
      /\ t.doc = Nobody
      /\ Fields(t)
  BY <1>5, IdleFields DEF Fields, Idle
<1> HIDE DEF t
<1> QED BY <1>1, <1>5, <1>6, BeginKeeps

(* A lock taken: what is read with it is read once nobody else can change  *)
(* it.                                                                     *)
LEMMA TakeKeeps ==
    ASSUME IInv, NEW c \in Clerks, Take(c)
    PROVE  IInv'
<1> DEFINE l == Head(tx[c].wants)
           id == l.row[2]
<1>1. /\ OnlyMoves(c)
      /\ Fields(tx'[c])
      /\ l \in Lock
      /\ Elements(tx[c].wants) = {l} \cup Elements(tx'[c].wants)
      /\ tx'[c].op = tx[c].op /\ tx'[c].doc = tx[c].doc
      /\ tx'[c].lines = tx[c].lines /\ tx'[c].keeps = tx[c].keeps
      /\ tx'[c].target = tx[c].target
      /\ tx'[c].held = tx[c].held \cup {l}
      /\ tx'[c].read = IF l = Update("item", id)
                       THEN [tx[c].read EXCEPT ![id] = total[id]] ELSE tx[c].read
      /\ tx'[c].open = IF l.row[1] = "wh" /\ id \in active
                       THEN tx[c].open \cup {id} ELSE tx[c].open
      /\ tx'[c].number = IF l.row[1] = "counter" THEN seq[KindOf(tx[c].lines)] + 1
                         ELSE tx[c].number
  BY TakeFields DEF IInv
<1>2. /\ tx[c].wants # <<>> /\ Free(c, l)
      /\ total' = total /\ ledger' = ledger
      /\ doc' = doc /\ seq' = seq /\ active' = active /\ default' = default
  BY DEF Take, ledgerVars
<1>3. l.row = <<l.row[1], id>>
  <2>1. l.row \in Rows
    BY <1>1 DEF Lock
  <2>2. \A r \in Rows : r = <<r[1], r[2]>>
    BY DEF Rows
  <2> QED BY <2>1, <2>2
<1>4. /\ tx' = [o \in Clerks |-> tx'[o]]
      /\ \A o \in Clerks : o = c \/ tx'[o] = tx[o]
  BY <1>1 DEF OnlyMoves
<1>5. \A o \in Clerks : /\ tx'[o].op = tx[o].op /\ tx'[o].doc = tx[o].doc
                        /\ tx'[o].lines = tx[o].lines /\ tx'[o].keeps = tx[o].keeps
                        /\ tx'[o].target = tx[o].target
  BY <1>1, <1>4
<1>6. ~NeedsDocument(c) /\ ~NeedsDocument(c)'
  BY <1>1, <1>2 DEF IInv, LocksAhead, NeedsDocument
<1>7. /\ \A o \in Clerks : NeedsDocument(o)' = NeedsDocument(o)
      /\ \A o \in Clerks : Ahead(o)' = Ahead(o)
      /\ \A o \in Clerks : NeedsDocument(o) => tx'[o].wants = tx[o].wants
  <2>1. Ahead(c)' = Ahead(c)
    BY <1>1 DEF Ahead
  <2>2. ASSUME NEW o \in Clerks, o # c
        PROVE  NeedsDocument(o)' = NeedsDocument(o) /\ Ahead(o)' = Ahead(o)
    BY <1>4, <2>2 DEF NeedsDocument, Ahead
  <2> QED BY <1>4, <1>6, <2>1, <2>2 DEF NeedsDocument
<1> HIDE DEF l, id
<1>8. Shape'
  <2>1. ASSUME NEW o \in Clerks
        PROVE  Fields(tx'[o])
    BY <1>1, <1>4 DEF IInv, Shape
  <2> QED BY <1>2, <1>4, <2>1 DEF IInv, Shape, Fields
<1>9. LocksExclude'
  <2>1. ASSUME NEW o \in Clerks, o # c, NEW h \in tx'[o].held, NEW k \in tx'[c].held,
               k.row = h.row
        PROVE  k.mode = "share" /\ h.mode = "share"
    <3>1. h \in tx[o].held
      BY <1>4, <2>1
    <3>2. CASE k \in tx[c].held
      BY <2>1, <3>1, <3>2 DEF IInv, LocksExclude
    <3>3. CASE k = l
      BY <1>2, <2>1, <3>1, <3>3 DEF Free
    <3> QED BY <1>1, <3>2, <3>3
  <2>2. ASSUME NEW o \in Clerks, NEW x \in Clerks, o # c, x # c, o # x,
               NEW h \in tx'[o].held, NEW k \in tx'[x].held, k.row = h.row
        PROVE  k.mode = "share" /\ h.mode = "share"
    BY <1>4, <2>2 DEF IInv, LocksExclude
  <2> QED BY <2>1, <2>2 DEF LocksExclude
<1>10. ReadIsCurrent'
  <2>1. ASSUME NEW o \in Clerks, o # c, NEW i \in Items, Update("item", i) \in tx'[o].held
        PROVE  tx'[o].read[i] = total'[i]
    BY <1>2, <1>4, <2>1 DEF IInv, ReadIsCurrent
  <2>2. ASSUME NEW i \in Items, Update("item", i) \in tx'[c].held
        PROVE  tx'[c].read[i] = total'[i]
    <3>1. i \in DOMAIN tx[c].read
      BY DEF IInv, Shape, Fields
    <3>2. CASE l = Update("item", i)
      <4>1. id = i
        BY <3>2 DEF id, Update
      <4> QED BY <1>1, <1>2, <3>1, <3>2, <4>1
    <3>3. CASE l # Update("item", i)
      <4>1. tx[c].read[i] = total[i]
        BY <1>1, <2>2, <3>3 DEF IInv, ReadIsCurrent
      <4>2. l = Update("item", id) => id # i
        BY <3>3
      <4> QED BY <1>1, <1>2, <3>1, <4>1, <4>2
    <3> QED BY <3>2, <3>3
  <2>3. ASSUME NEW o \in Clerks, NEW i \in Items, Update("item", i)' \in tx'[o].held
        PROVE  tx'[o].read[i] = total'[i]
    BY <2>1, <2>2, <2>3 DEF Update
  <2> QED BY <2>3 DEF ReadIsCurrent
<1>11. OpenIsActive'
  <2>1. ASSUME NEW o \in Clerks, NEW w \in tx'[o].open
        PROVE  w \in active' /\ \E k \in tx'[o].held : k.row = <<"wh", w>>
    <3>1. CASE o # c
      BY <1>2, <1>4, <2>1, <3>1 DEF IInv, OpenIsActive
    <3>2. CASE o = c /\ w \in tx[c].open
      BY <1>1, <1>2, <3>2 DEF IInv, OpenIsActive
    <3>3. CASE o = c /\ w \notin tx[c].open
      <4>1. w = id /\ l.row[1] = "wh" /\ id \in active
        BY <1>1, <2>1, <3>3
      <4>2. l.row = <<"wh", w>> /\ l \in tx'[c].held
        BY <1>1, <1>3, <4>1
      <4> QED BY <1>2, <3>3, <4>1, <4>2
    <3> QED BY <3>1, <3>2, <3>3
  <2> QED BY <2>1 DEF OpenIsActive
<1>12. NumberIsNext'
  <2>1. ASSUME tx[c].op = "create", Update("counter", 0) \in tx'[c].held
        PROVE  tx'[c].number = seq[KindOf(tx[c].lines)] + 1
    <3>1. l = Update("counter", 0) => l.row[1] = "counter"
      BY DEF Update
    <3> QED BY <1>1, <2>1, <3>1 DEF IInv, NumberIsNext
  <2>2. ASSUME NEW o \in Clerks, o # c, tx'[o].op = "create", Update("counter", 0) \in tx'[o].held
        PROVE  tx'[o].number = seq[KindOf(tx'[o].lines)] + 1
    BY <1>4, <2>2 DEF IInv, NumberIsNext
  <2> QED BY <1>2, <1>5, <2>1, <2>2 DEF NumberIsNext, Update
<1>13. LocksAhead'
  BY <1>5, <1>7 DEF IInv, LocksAhead, Update
<1>14. DocumentsKept'
  BY <1>2, <1>5, <1>7 DEF IInv, DocumentsKept
<1>15. DefaultIsOneActive' /\ NumbersHaveNoGaps'
  BY <1>2 DEF IInv, DefaultIsOneActive, NumbersHaveNoGaps
<1> QED BY <1>8, <1>9, <1>10, <1>11, <1>12, <1>13, <1>14, <1>15 DEF IInv

(* A document locked: the transaction had nothing in hand until then, and  *)
(* now knows its lines.                                                    *)
LEMMA WorksKeeps ==
    ASSUME IInv, NEW c \in Clerks, NeedsDocument(c), Free(c, Update("doc", tx[c].doc)),
           NEW keeps \in Seq(StockLine), NEW lines \in Lines, NEW first \in Seq(Lock),
           tx[c].op = "edit" => keeps \in Lines,
           Works(c, keeps, lines, first),
           UNCHANGED <<ledgerVars, doc, seq, active, default>>
    PROVE  IInv'
<1> DEFINE l == Update("doc", tx[c].doc)
           wants == first \o ServiceLocks(lines)
           next == [tx[c] EXCEPT !.held = {Update("doc", tx[c].doc)}, !.keeps = keeps,
                                 !.lines = lines, !.wants = first \o ServiceLocks(lines)]
<1>1. /\ total' = total /\ ledger' = ledger
      /\ doc' = doc /\ seq' = seq /\ active' = active /\ default' = default
  BY DEF ledgerVars
<1>2. /\ tx[c].op \in {"edit", "delete"} /\ tx[c].held = {} /\ tx[c].open = {}
      /\ tx[c].doc \in Documents
  BY DEF NeedsDocument, IInv, OpenIsActive, DocumentsKept
<1>3. l \in Lock /\ l.row[1] = "doc" /\ l.row = <<"doc", tx[c].doc>>
  BY <1>2 DEF Lock, Rows, Update
<1>4. /\ wants \in Seq(Lock)
      /\ \A k \in DOMAIN lines : Update("item", lines[k].item) \in Elements(wants)
  <2>1. ServiceLocks(lines) \in Seq(Lock)
    BY ServiceLocksItems
  <2>2. wants \in Seq(Lock) /\ Elements(wants) = Elements(first) \cup Elements(ServiceLocks(lines))
    BY <2>1, ElementsOfLists
  <2> HIDE DEF wants
  <2> QED BY <2>2, ServiceLocksItems
<1>5. OnlyMoves(c) /\ tx'[c] = next
  <2>1. tx' = [tx EXCEPT ![c] = next]
    BY DEF Works
  <2> HIDE DEF next
  <2> QED BY <2>1, Replaces DEF IInv, Shape
<1> HIDE DEF l, wants
<1>6. /\ next.op = tx[c].op /\ next.doc = tx[c].doc
      /\ next.held = {l} /\ next.open = {} /\ next.keeps = keeps /\ next.lines = lines
      /\ next.wants = wants
      /\ Fields(next)
  <2>1. next = [tx[c] EXCEPT !.held = {l}, !.keeps = keeps, !.lines = lines, !.wants = wants]
    BY DEF l, wants
  <2>2. lines \in Seq(StockLine) /\ Fields(tx[c])
    BY DEF Lines, IInv, Shape
  <2> HIDE DEF next
  <2>3. /\ next.op = tx[c].op /\ next.doc = tx[c].doc
        /\ next.held = {l} /\ next.open = tx[c].open /\ next.keeps = keeps
        /\ next.lines = lines /\ next.wants = wants
        /\ next.number = tx[c].number /\ next.read = tx[c].read
    BY <2>1, <2>2 DEF Fields
  <2>4. Fields(next)
    <3>1. next = [op |-> tx[c].op, doc |-> tx[c].doc, lines |-> lines, keeps |-> keeps,
                  number |-> tx[c].number, wants |-> wants, held |-> {l},
                  open |-> tx[c].open, read |-> tx[c].read, target |-> tx[c].target]
      BY <2>1, <2>2 DEF Fields
    <3>2. wants \in Seq(Lock) /\ {l} \in SUBSET Lock
      BY <1>3, <1>4
    <3> HIDE DEF next
    <3> QED BY <2>2, <3>1, <3>2 DEF Fields
  <2> QED BY <1>2, <2>3, <2>4
<1> HIDE DEF next
<1>7. /\ tx' = [o \in Clerks |-> tx'[o]]
      /\ \A o \in Clerks : o = c \/ tx'[o] = tx[o]
  BY <1>5 DEF OnlyMoves
<1>8. ~NeedsDocument(c)' /\ Elements(wants) \subseteq Ahead(c)'
  BY <1>5, <1>6 DEF NeedsDocument, Ahead
<1>9. ASSUME NEW o \in Clerks, o # c
      PROVE  tx'[o] = tx[o] /\ NeedsDocument(o)' = NeedsDocument(o) /\ Ahead(o)' = Ahead(o)
  BY <1>7, <1>9 DEF NeedsDocument, Ahead
<1>10. Shape'
  <2>1. ASSUME NEW o \in Clerks
        PROVE  Fields(tx'[o])
    BY <1>5, <1>6, <1>7 DEF IInv, Shape
  <2>2. /\ doc \in [Documents -> DocumentRow] /\ seq \in [Kinds -> Nat]
        /\ active \in SUBSET Warehouses /\ ledger \in Seq({ledger[n] : n \in DOMAIN ledger})
    BY DEF IInv, Shape
  <2> QED BY <1>1, <1>7, <2>1, <2>2 DEF Shape
<1>11. LocksExclude'
  <2>1. ASSUME NEW o \in Clerks, o # c, NEW h \in tx[o].held
        PROVE  h.row # l.row
    BY <2>1 DEF Free, l, Update
  <2> QED BY <1>5, <1>6, <1>7, <2>1 DEF IInv, LocksExclude
<1>12. ReadIsCurrent'
  <2>1. ASSUME NEW o \in Clerks, NEW i \in Items, Update("item", i) \in tx'[o].held
        PROVE  tx'[o].read[i] = total'[i]
    <3>1. o # c
      BY <1>3, <1>5, <1>6, <2>1 DEF Update
    <3> QED BY <1>1, <1>9, <2>1, <3>1 DEF IInv, ReadIsCurrent
  <2> QED BY <2>1 DEF ReadIsCurrent, Update
<1>13. OpenIsActive'
  <2>1. ASSUME NEW o \in Clerks, NEW w \in tx'[o].open
        PROVE  w \in active' /\ \E k \in tx'[o].held : k.row = <<"wh", w>>
    <3>1. o # c
      BY <1>5, <1>6
    <3> QED BY <1>1, <1>9, <3>1 DEF IInv, OpenIsActive
  <2> QED BY <2>1 DEF OpenIsActive
<1>14. NumberIsNext'
  <2>1. ASSUME NEW o \in Clerks, tx'[o].op = "create", Update("counter", 0) \in tx'[o].held
        PROVE  tx'[o].number = seq'[KindOf(tx'[o].lines)] + 1
    <3>1. o # c
      BY <1>2, <1>5, <1>6, <2>1
    <3> QED BY <1>1, <1>9, <2>1, <3>1 DEF IInv, NumberIsNext
  <2> QED BY <2>1 DEF NumberIsNext, Update, KindOf
<1>15. LocksAhead'
  <2>1. ASSUME NEW o \in Clerks, o # c
        PROVE  /\ NeedsDocument(o)' => tx'[o].wants = <<>>
               /\ tx'[o].op \in {"retire", "revive"} => Update("wh", tx'[o].target) \in Ahead(o)'
               /\ tx'[o].op = "create" => Update("counter", 0) \in Ahead(o)'
               /\ tx'[o].op \in {"create", "edit", "delete"} /\ ~NeedsDocument(o)' =>
                     /\ tx'[o].lines \in Lines
                     /\ \A k \in DOMAIN tx'[o].lines :
                           Update("item", tx'[o].lines[k].item) \in Ahead(o)'
    BY <1>9, <2>1 DEF IInv, LocksAhead
  <2>2. /\ tx'[c].op \in {"edit", "delete"} /\ tx'[c].lines \in Lines
        /\ \A k \in DOMAIN tx'[c].lines : Update("item", tx'[c].lines[k].item) \in Ahead(c)'
    BY <1>2, <1>4, <1>5, <1>6, <1>8
  <2> QED BY <1>8, <2>1, <2>2 DEF LocksAhead, Update
<1>16. DocumentsKept'
  <2>1. tx'[c].op = tx[c].op /\ tx'[c].doc = tx[c].doc /\ tx'[c].keeps = keeps
    BY <1>5, <1>6
  <2>2. \A o \in Clerks : tx'[o].doc = tx[o].doc /\ tx'[o].op = tx[o].op
    BY <1>7, <2>1
  <2>3. ASSUME NEW o \in Clerks
        PROVE  /\ tx'[o].op = "edit" /\ ~NeedsDocument(o)' => tx'[o].keeps \in Lines
               /\ tx'[o].op = "create" => KindOf(tx'[o].lines) \in Kinds /\ tx'[o].keeps \in Lines
    <3>1. CASE o = c
      BY <1>2, <2>1, <3>1
    <3>2. CASE o # c
      BY <1>9, <3>2 DEF IInv, DocumentsKept
    <3> QED BY <3>1, <3>2
  <2> QED BY <1>1, <2>2, <2>3 DEF IInv, DocumentsKept, KindOf
<1>17. DefaultIsOneActive' /\ NumbersHaveNoGaps'
  BY <1>1 DEF IInv, DefaultIsOneActive, NumbersHaveNoGaps
<1> QED BY <1>10, <1>11, <1>12, <1>13, <1>14, <1>15, <1>16, <1>17 DEF IInv

(* A deletion takes the lines back; an edit keeps the new ones and moves   *)
(* them and the old.                                                       *)
LEMMA LockDocumentKeeps ==
    ASSUME IInv, NEW c \in Clerks, LockDocument(c)
    PROVE  IInv'
<1> DEFINE d == tx[c].doc
           old == doc[d].lines
           New(g, w) == IF doc[d].kind = "purchase" THEN Purchase(g, w) ELSE Sale(g, w)
<1>1. /\ NeedsDocument(c) /\ Free(c, Update("doc", d)) /\ doc[d].state = "live"
      /\ UNCHANGED <<ledgerVars, doc, seq, active, default>>
  BY DEF LockDocument
<1>2. d \in Documents /\ old \in Lines
  BY <1>1 DEF IInv, DocumentsKept, NeedsDocument
<1>3. Reversal(old) \in Lines /\ \A new \in Lines : Edited(old, new) \in Lines
  BY <1>2, EditsGiveLines
<1>4. old[1].wh \in Warehouses /\ active \subseteq Warehouses /\ default \subseteq Warehouses
  BY <1>2, LineFields DEF IInv, Shape, DefaultIsOneActive
<1>5. CASE tx[c].op = "delete" /\ Works(c, <<>>, Reversal(old), <<>>)
  <2>1. <<>> \in Seq(StockLine) /\ <<>> \in Seq(Lock)
    OBVIOUS
  <2> QED BY <1>1, <1>3, <1>5, <2>1, WorksKeeps
<1>6. ASSUME NEW g \in Goods, NEW w \in Resolved \cup {old[1].wh},
             Works(c, New(g, w), Edited(old, New(g, w)),
                   (IF doc[d].kind = "purchase" /\ w # old[1].wh
                    THEN HeaderLocks(New(g, w)) ELSE <<>>) \o LineLocks(New(g, w)))
      PROVE  IInv'
  <2> DEFINE new == New(g, w)
             first == (IF doc[d].kind = "purchase" /\ w # old[1].wh
                       THEN HeaderLocks(new) ELSE <<>>) \o LineLocks(new)
  <2>1. w \in Warehouses
    BY <1>4 DEF Resolved
  <2>2. new \in Lines
    BY <2>1, GoodsGiveLines
  <2> HIDE DEF new
  <2>3. first \in Seq(Lock)
    BY <2>2, RowLocksTyped
  <2>4. Edited(old, new) \in Lines /\ new \in Seq(StockLine)
    BY <1>3, <2>2 DEF Lines
  <2>5. Works(c, new, Edited(old, new), first)
    BY <1>6 DEF new
  <2> HIDE DEF first
  <2> QED BY <1>1, <2>2, <2>3, <2>4, <2>5, WorksKeeps
<1> QED BY <1>5, <1>6 DEF LockDocument

(* Nor does one that writes neither a document nor stock disturb them, as  *)
(* long as it retires no warehouse that they have open.                    *)
LEMMA EndWithoutDocument ==
    ASSUME IInv, NEW c \in Clerks, Ends(c),
           total' = total, ledger' = ledger, doc' = doc, seq' = seq,
           active' \in SUBSET Warehouses,
           \A o \in Clerks \ {c} : \A w \in tx[o].open : w \in active',
           DefaultIsOneActive'
    PROVE  IInv'
<1>1. /\ doc' \in [Documents -> DocumentRow] /\ seq' \in [Kinds -> Nat]
      /\ ledger' \in Seq({ledger'[n] : n \in DOMAIN ledger'})
  BY DEF IInv, Shape
<1>2. \A d \in Documents : /\ doc'[d].state = "none" <=> doc'[d].kind = "none"
                           /\ doc'[d].state = "live" => doc'[d].lines \in Lines
                           /\ doc'[d].state = doc[d].state
                              \/ (d = tx[c].doc /\ doc'[d].state # "none")
  <2>1. \A d \in Documents : /\ doc[d].state = "none" <=> doc[d].kind = "none"
                             /\ doc[d].state = "live" => doc[d].lines \in Lines
    BY DEF IInv, DocumentsKept
  <2> QED BY <2>1
<1>3. NumbersHaveNoGaps'
  BY DEF IInv, NumbersHaveNoGaps
<1>4. \A o \in Clerks \ {c} :
         /\ \A i \in Items : Update("item", i) \in tx[o].held => total'[i] = total[i]
         /\ \A w \in tx[o].open : w \in active'
         /\ tx[o].op = "create" /\ Update("counter", 0) \in tx[o].held => seq' = seq
  OBVIOUS
<1> QED BY <1>1, <1>2, <1>3, <1>4, EndKeeps

(* A rollback leaves nothing.                                              *)
LEMMA RollbackKeeps ==
    ASSUME IInv, NEW c \in Clerks, Rollback(c)
    PROVE  IInv'
<1>1. /\ Ends(c) /\ total' = total /\ ledger' = ledger
      /\ doc' = doc /\ seq' = seq /\ active' = active /\ default' = default
  BY DEF Rollback, ledgerVars
<1>2. DefaultIsOneActive'
  BY <1>1 DEF IInv, DefaultIsOneActive
<1>3. active' \in SUBSET Warehouses
  BY <1>1 DEF IInv, Shape
<1>4. \A o \in Clerks \ {c} : \A w \in tx[o].open : w \in active'
  BY <1>1 DEF IInv, OpenIsActive
<1> QED BY <1>1, <1>2, <1>3, <1>4, EndWithoutDocument

(* A warehouse is retired under a lock that nobody shares, hence while no  *)
(* other request has it open.                                              *)
LEMMA CommitStatusKeeps ==
    ASSUME IInv, NEW c \in Clerks, CommitStatus(c)
    PROVE  IInv'
<1> DEFINE w == tx[c].target
<1>1. /\ Ends(c) /\ total' = total /\ ledger' = ledger
      /\ doc' = doc /\ seq' = seq /\ default' = default
      /\ tx[c].op = "retire" => w \notin default
      /\ active' = IF tx[c].op = "retire" THEN active \ {w} ELSE active \cup {w}
  BY DEF CommitStatus, ledgerVars
<1>2. w \in Warehouses /\ active \subseteq Warehouses
  BY DEF IInv, Shape, Fields
<1>3. Update("wh", w) \in tx[c].held
  BY DEF CommitStatus, Ready, IInv, LocksAhead, Ahead, Elements
<1> HIDE DEF w
<1>4. ASSUME NEW o \in Clerks, o # c, NEW v \in tx[o].open
      PROVE  v \in active'
  <2>1. v \in active
    BY DEF IInv, OpenIsActive
  <2>2. v # w
    <3>1. PICK h \in tx[o].held : h.row = <<"wh", v>>
      BY DEF IInv, OpenIsActive
    <3>2. v = w => h.row = Update("wh", w).row /\ Update("wh", w).mode = "update"
      BY <3>1 DEF Update
    <3> QED BY <1>3, <1>4, <3>2 DEF IInv, LocksExclude
  <2> QED BY <1>1, <2>1, <2>2
<1>5. DefaultIsOneActive'
  BY <1>1 DEF IInv, DefaultIsOneActive
<1>6. active' \in SUBSET Warehouses
  BY <1>1, <1>2
<1> QED BY <1>1, <1>4, <1>5, <1>6, EndWithoutDocument

(* The flag moves to a warehouse that is still active.                     *)
LEMMA CommitDefaultKeeps ==
    ASSUME IInv, NEW c \in Clerks, CommitDefault(c)
    PROVE  IInv'
<1>1. /\ Ends(c) /\ total' = total /\ ledger' = ledger
      /\ doc' = doc /\ seq' = seq /\ active' = active
      /\ tx[c].target \in tx[c].open /\ default' = {tx[c].target}
  BY DEF CommitDefault, ledgerVars
<1>2. tx[c].target \in active
  BY <1>1 DEF IInv, OpenIsActive
<1>3. DefaultIsOneActive'
  BY <1>1, <1>2 DEF IInv, DefaultIsOneActive
<1>4. active' \in SUBSET Warehouses
  BY <1>1 DEF IInv, Shape
<1>5. \A o \in Clerks \ {c} : \A w \in tx[o].open : w \in active'
  BY <1>1 DEF IInv, OpenIsActive
<1> QED BY <1>1, <1>3, <1>4, <1>5, EndWithoutDocument

(* A document that commits has every lock it needs.                        *)
LEMMA CommitHolds ==
    ASSUME IInv, NEW c \in Clerks, CommitDocument(c)
    PROVE  /\ tx[c].lines \in Lines /\ tx[c].doc \in Documents
           /\ \A k \in DOMAIN tx[c].lines : Update("item", tx[c].lines[k].item) \in tx[c].held
           /\ tx[c].op = "create" => Update("counter", 0) \in tx[c].held
           /\ tx[c].op = "create" => tx[c].number = seq[KindOf(tx[c].lines)] + 1
<1>1. /\ tx[c].op \in {"create", "edit", "delete"} /\ ~NeedsDocument(c)
      /\ tx[c].wants = <<>>
  BY DEF CommitDocument, Ready
<1>2. Ahead(c) = tx[c].held
  BY <1>1 DEF Ahead, Elements
<1> QED BY <1>1, <1>2 DEF IInv, LocksAhead, DocumentsKept, NumberIsNext

(* An item, or the counter, that one request has locked to write is not    *)
(* another's.                                                              *)
LEMMA OneWriter ==
    ASSUME LocksExclude, NEW c \in Clerks, NEW o \in Clerks, c # o,
           NEW kind, NEW id, Update(kind, id) \in tx[c].held
    PROVE  Update(kind, id) \notin tx[o].held
BY DEF LocksExclude, Update

(* A document commits its lines, and its number when it is new.            *)
LEMMA CommitDocumentKeeps ==
    ASSUME IInv, NEW c \in Clerks, CommitDocument(c)
    PROVE  IInv'
<1> DEFINE t == tx[c]
           d == tx[c].doc
           rows == [k \in DOMAIN t.lines |->
                      [line |-> t.lines[k], doc |-> t.doc,
                       before |-> After(t.lines, k) - t.lines[k].qty,
                       after |-> After(t.lines, k)]]
           row == [state |-> IF t.op = "delete" THEN "gone" ELSE "live",
                   kind |-> IF t.op = "create" THEN KindOf(t.lines) ELSE doc[d].kind,
                   number |-> IF t.op = "create" THEN t.number ELSE doc[d].number,
                   lines |-> t.keeps]
<1>1. /\ t.op \in {"create", "edit", "delete"} /\ ~NeedsDocument(c)
      /\ Ends(c) /\ active' = active /\ default' = default
      /\ seq' = IF t.op = "create" THEN [seq EXCEPT ![KindOf(t.lines)] = t.number] ELSE seq
  BY DEF CommitDocument, Ready
<1>2. doc' = [doc EXCEPT ![d] = row]
  BY DEF CommitDocument
<1>3. /\ ledger' = ledger \o rows
      /\ \A i \in Items : total'[i] = IF \E k \in DOMAIN t.lines : t.lines[k].item = i
                                      THEN t.read[i] + Moved(t.lines, DOMAIN t.lines, i, Warehouses)
                                      ELSE total[i]
  BY DEF CommitDocument, PostLines
<1>4. /\ t.lines \in Lines /\ d \in Documents
      /\ \A k \in DOMAIN t.lines : Update("item", t.lines[k].item) \in t.held
      /\ t.op = "create" => Update("counter", 0) \in t.held
      /\ t.op = "create" => t.number = seq[KindOf(t.lines)] + 1
  BY CommitHolds
<1>5. /\ doc \in [Documents -> DocumentRow] /\ seq \in [Kinds -> Nat]
      /\ t.keeps \in Seq(StockLine)
      /\ t.op = "create" => /\ KindOf(t.lines) \in Kinds /\ t.keeps \in Lines
                            /\ doc[d].state = "none" /\ doc[d].kind = "none"
      /\ t.op # "create" => doc[d].kind # "none"
      /\ t.op = "edit" => t.keeps \in Lines
  BY <1>1, <1>4 DEF IInv, Shape, Fields, DocumentsKept
<1>6. doc[d].kind \in Kinds \cup {"none"} /\ doc[d].number \in Nat
  BY <1>4, <1>5 DEF DocumentRow
<1>7. /\ row.state = (IF t.op = "delete" THEN "gone" ELSE "live")
      /\ row.kind \in Kinds /\ row.number \in Nat /\ row.lines = t.keeps
      /\ row \in DocumentRow
  BY <1>4, <1>5, <1>6 DEF DocumentRow
<1> HIDE DEF rows, row
<1>8. /\ doc' \in [Documents -> DocumentRow]
      /\ seq' \in [Kinds -> Nat]
      /\ active' \in SUBSET Warehouses
      /\ doc'[d] = row /\ \A e \in Documents \ {d} : doc'[e] = doc[e]
  BY <1>1, <1>2, <1>4, <1>5, <1>7 DEF IInv, Shape
<1>9. ledger' \in Seq({ledger'[n] : n \in DOMAIN ledger'})
  <2>1. DOMAIN t.lines = 1..Len(t.lines) /\ Len(t.lines) \in Nat
    BY <1>4, LineFields
  <2>2. rows \in Seq({rows[k] : k \in DOMAIN t.lines})
    BY <2>1 DEF rows
  <2>3. ASSUME NEW s, NEW S, s \in Seq(S)
        PROVE  s \in Seq({s[n] : n \in DOMAIN s})
    <3>1. s = [n \in 1..Len(s) |-> s[n]] /\ Len(s) \in Nat /\ DOMAIN s = 1..Len(s)
      BY <2>3
    <3> QED BY <3>1
  <2>4. \A A, B, p, q : p \in Seq(A) /\ q \in Seq(B) => p \o q \in Seq(A \cup B)
    OBVIOUS
  <2>5. PICK S : ledger' \in Seq(S)
    BY <1>3, <2>2, <2>4 DEF IInv, Shape
  <2> QED BY <2>3, <2>5
<1>10. \A e \in Documents : /\ doc'[e].state = "none" <=> doc'[e].kind = "none"
                            /\ doc'[e].state = "live" => doc'[e].lines \in Lines
                            /\ doc'[e].state = doc[e].state
                               \/ (e = d /\ doc'[e].state # "none")
  <2>1. row.kind # "none" /\ row.state # "none" /\ (row.state = "live" => row.lines \in Lines)
    BY <1>1, <1>5, <1>7 DEF Kinds
  <2>2. doc'[d].state = row.state /\ doc'[d].kind = row.kind /\ doc'[d].lines = row.lines
    BY <1>8
  <2>3. \A e \in Documents \ {d} :
           /\ doc'[e] = doc[e]
           /\ doc[e].state = "none" <=> doc[e].kind = "none"
           /\ doc[e].state = "live" => doc[e].lines \in Lines
    BY <1>8 DEF IInv, DocumentsKept
  <2>4. ASSUME NEW e \in Documents, e # d
        PROVE  /\ doc'[e].state = "none" <=> doc'[e].kind = "none"
               /\ doc'[e].state = "live" => doc'[e].lines \in Lines
               /\ doc'[e].state = doc[e].state
    BY <2>3, <2>4
  <2>5. /\ doc'[d].state # "none" /\ doc'[d].kind # "none"
        /\ doc'[d].state = "live" => doc'[d].lines \in Lines
    BY <2>1, <2>2
  <2> HIDE DEF d
  <2> QED BY <2>4, <2>5
<1>11. ASSUME NEW o \in Clerks, o # c
       PROVE  /\ \A i \in Items : Update("item", i) \in tx[o].held => total'[i] = total[i]
              /\ \A w \in tx[o].open : w \in active'
              /\ tx[o].op = "create" /\ Update("counter", 0) \in tx[o].held => seq' = seq
  <2>1. \A i \in Items : Update("item", i) \in tx[o].held => total'[i] = total[i]
    BY <1>3, <1>4, <1>11, OneWriter DEF IInv
  <2>2. \A w \in tx[o].open : w \in active'
    BY <1>1 DEF IInv, OpenIsActive
  <2>3. Update("counter", 0) \in tx[o].held => seq' = seq
    BY <1>1, <1>4, <1>11, OneWriter DEF IInv
  <2> QED BY <2>1, <2>2, <2>3
<1>12. DefaultIsOneActive'
  BY <1>1 DEF IInv, DefaultIsOneActive
<1>13. NumbersHaveNoGaps'
  <2>1. ASSUME NEW k \in Kinds, t.op = "create" => k # KindOf(t.lines)
        PROVE  /\ {doc'[e].number : e \in {e \in Documents : doc'[e].kind = k}} = 1..seq'[k]
               /\ \A e, f \in {e \in Documents : doc'[e].kind = k} :
                     doc'[e].number = doc'[f].number => e = f
    <3>1. row.kind = k => row.kind = doc[d].kind /\ row.number = doc[d].number
      BY <2>1 DEF row
    <3>2. k = doc[d].kind => row.kind = k
      BY <1>5, <2>1 DEF row, Kinds
    <3>3. \A e \in Documents : /\ doc'[e].kind = k <=> doc[e].kind = k
                               /\ doc'[e].kind = k => doc'[e].number = doc[e].number
      BY <1>8, <3>1, <3>2
    <3>4. seq'[k] = seq[k]
      BY <1>1, <1>5, <2>1
    <3>5. /\ {doc[e].number : e \in {e \in Documents : doc[e].kind = k}} = 1..seq[k]
          /\ \A e, f \in Documents :
                doc[e].kind = k /\ doc[f].kind = k /\ doc[e].number = doc[f].number => e = f
      BY DEF IInv, NumbersHaveNoGaps
    <3>6. {doc'[e].number : e \in {e \in Documents : doc'[e].kind = k}}
          = {doc[e].number : e \in {e \in Documents : doc[e].kind = k}}
      BY <3>3
    <3> QED BY <3>3, <3>4, <3>5, <3>6
  <2>2. ASSUME NEW k \in Kinds, t.op = "create", k = KindOf(t.lines)
        PROVE  /\ {doc'[e].number : e \in {e \in Documents : doc'[e].kind = k}} = 1..seq'[k]
               /\ \A e, f \in {e \in Documents : doc'[e].kind = k} :
                     doc'[e].number = doc'[f].number => e = f
    <3>1. /\ doc'[d].kind = k /\ doc'[d].number = seq[k] + 1
          /\ doc[d].kind # k /\ seq'[k] = seq[k] + 1 /\ seq[k] \in Nat
      BY <1>1, <1>4, <1>5, <1>8, <2>2 DEF row, Kinds
    <3>2. /\ {doc[e].number : e \in {e \in Documents : doc[e].kind = k}} = 1..seq[k]
          /\ \A e, f \in Documents :
                doc[e].kind = k /\ doc[f].kind = k /\ doc[e].number = doc[f].number => e = f
      BY DEF IInv, NumbersHaveNoGaps
    <3>3. \A e \in Documents : doc[e].kind = k => doc[e].number \in 1..seq[k]
      BY <3>2
    <3>4. \A e \in Documents : doc'[e].kind = k <=> e = d \/ doc[e].kind = k
      BY <1>8, <3>1
    <3>5. \A e \in Documents : doc[e].kind = k => doc'[e].number = doc[e].number
      BY <1>8, <3>1
    <3>6. {doc'[e].number : e \in {e \in Documents : doc'[e].kind = k}}
          = {doc[e].number : e \in {e \in Documents : doc[e].kind = k}} \cup {seq[k] + 1}
      BY <1>4, <3>1, <3>4, <3>5
    <3>7. (1..seq[k]) \cup {seq[k] + 1} = 1..(seq[k] + 1)
      BY <3>1
    <3>8. \A e \in Documents : doc[e].kind = k => doc[e].number # seq[k] + 1
      BY <3>1, <3>3
    <3> QED BY <3>1, <3>2, <3>4, <3>5, <3>6, <3>7, <3>8
  <2> QED BY <2>1, <2>2 DEF NumbersHaveNoGaps
<1> QED BY <1>1, <1>8, <1>9, <1>10, <1>11, <1>12, <1>13, EndKeeps

(* Nothing is held or numbered when the system begins.                     *)
LEMMA InitInv ==
    ASSUME Init
    PROVE  IInv
<1>1. /\ doc = [d \in Documents |-> [state |-> "none", kind |-> "none", number |-> 0,
                                     lines |-> <<>>]]
      /\ seq = [k \in Kinds |-> 0]
      /\ active = Warehouses /\ default = {Main}
      /\ tx = [c \in Clerks |-> Idle]
      /\ ledger = <<>>
  BY DEF Init, LedgerInit, ServiceInit
<1>2. /\ Fields(Idle)
      /\ Idle.op = "none" /\ Idle.doc = Nobody /\ Idle.wants = <<>>
      /\ Idle.held = {} /\ Idle.open = {} /\ Idle.lines = <<>>
  BY IdleFields
<1> HIDE DEF Idle
<1>3. \A c \in Clerks : tx[c] = Idle
  BY <1>1
<1>4. Shape
  <2>1. doc \in [Documents -> DocumentRow]
    <3>1. <<>> \in Seq(StockLine)
      OBVIOUS
    <3> QED BY <1>1, <3>1 DEF DocumentRow
  <2>2. <<>> \in Seq({ledger[n] : n \in DOMAIN ledger})
    OBVIOUS
  <2> QED BY <1>1, <1>2, <1>3, <2>1, <2>2 DEF Shape
<1>5. LocksExclude /\ ReadIsCurrent /\ OpenIsActive /\ NumberIsNext
  BY <1>2, <1>3 DEF LocksExclude, ReadIsCurrent, OpenIsActive, NumberIsNext
<1>6. LocksAhead
  BY <1>2, <1>3 DEF LocksAhead, NeedsDocument
<1>7. DocumentsKept
  BY <1>1, <1>2, <1>3 DEF DocumentsKept, NeedsDocument
<1>8. DefaultIsOneActive
  BY <1>1, ServiceAssumption DEF DefaultIsOneActive, ServiceAssumption
<1>9. NumbersHaveNoGaps
  <2>1. \A k \in Kinds : {d \in Documents : doc[d].kind = k} = {}
    BY <1>1 DEF Kinds
  <2>2. \A k \in Kinds : seq[k] = 0
    BY <1>1
  <2> QED BY <2>1, <2>2 DEF NumbersHaveNoGaps
<1> QED BY <1>4, <1>5, <1>6, <1>7, <1>8, <1>9 DEF IInv

(* Every step keeps what holds of the locks.                               *)
LEMMA NextInv ==
    ASSUME IInv, [Next]_vars
    PROVE  IInv'
<1>1. CASE UNCHANGED vars
  <2>1. /\ total' = total /\ ledger' = ledger
        /\ doc' = doc /\ seq' = seq /\ active' = active /\ default' = default /\ tx' = tx
    BY <1>1 DEF vars, ledgerVars, serviceVars
  <2>2. \A c \in Clerks : NeedsDocument(c)' = NeedsDocument(c) /\ Ahead(c)' = Ahead(c)
    BY <2>1 DEF NeedsDocument, Ahead
  <2>3. Shape'
    BY <2>1 DEF IInv, Shape, Fields
  <2>4. LocksExclude' /\ ReadIsCurrent' /\ OpenIsActive' /\ NumberIsNext'
    BY <2>1 DEF IInv, LocksExclude, ReadIsCurrent, OpenIsActive, NumberIsNext, Update, KindOf
  <2>5. LocksAhead'
    BY <2>1, <2>2 DEF IInv, LocksAhead, Update
  <2>6. DocumentsKept'
    BY <2>1, <2>2 DEF IInv, DocumentsKept, KindOf
  <2>7. DefaultIsOneActive' /\ NumbersHaveNoGaps'
    BY <2>1 DEF IInv, DefaultIsOneActive, NumbersHaveNoGaps
  <2> QED BY <2>3, <2>4, <2>5, <2>6, <2>7 DEF IInv
<1>2. ASSUME NEW c \in Clerks, Request(c)
      PROVE  IInv'
  <2>1. ASSUME NEW d \in Documents, NEW g \in Goods, NEW w \in Warehouses,
               \/ BeginCreate(c, d, Purchase(g, w))
               \/ BeginCreate(c, d, Sale(g, w))
               \/ \E v \in Warehouses \ {w} : BeginCreate(c, d, Transfer(g, w, v))
        PROVE  IInv'
    <3>1. CASE BeginCreate(c, d, Purchase(g, w))
      BY <3>1, GoodsGiveLines, BeginCreateKeeps
    <3>2. CASE BeginCreate(c, d, Sale(g, w))
      BY <3>2, GoodsGiveLines, BeginCreateKeeps
    <3>3. ASSUME NEW v \in Warehouses \ {w}, BeginCreate(c, d, Transfer(g, w, v))
          PROVE  IInv'
      <4>1. Transfer(g, w, v) \in Lines /\ KindOf(Transfer(g, w, v)) \in Kinds
        BY GoodsGiveLines
      <4> QED BY <3>3, <4>1, BeginCreateKeeps
    <3> QED BY <2>1, <3>1, <3>2, <3>3
  <2>2. ASSUME NEW d \in Documents, NEW op \in {"edit", "delete"}, BeginChange(c, d, op)
        PROVE  IInv'
    BY <2>2, BeginChangeKeeps
  <2>3. ASSUME NEW op \in {"retire", "revive", "default"}, NEW w \in Warehouses,
               BeginSetting(c, op, w)
        PROVE  IInv'
    BY <2>3, BeginSettingKeeps
  <2> QED BY <1>2, <2>1, <2>2, <2>3 DEF Request
<1>3. ASSUME NEW c \in Clerks, Statement(c) \/ End(c)
      PROVE  IInv'
  BY <1>3, TakeKeeps, LockDocumentKeeps, CommitDocumentKeeps, CommitStatusKeeps,
     CommitDefaultKeeps, RollbackKeeps DEF Statement, End
<1> QED BY <1>1, <1>2, <1>3 DEF Next

(* What a lock covers does not change while it is held, for any number of  *)
(* requests, items and warehouses.                                         *)
THEOREM ServiceInvariant == Spec => []IInv
<1>1. Init => IInv
  BY InitInv
<1>2. IInv /\ [Next]_vars => IInv'
  BY NextInv
<1> QED BY <1>1, <1>2, PTL DEF Spec

-----------------------------------------------------------------------------
(* What the service promises. *)

(* There is always one default warehouse and it is active, whoever moves   *)
(* the flag and retires a warehouse at once.                               *)
THEOREM OneActiveDefault == Spec => []DefaultIsOneActive
<1>1. IInv => DefaultIsOneActive
  BY DEF IInv
<1> QED BY <1>1, ServiceInvariant, PTL

(* The numbers of each kind of document run from one with no gap and no    *)
(* double, whatever is refused, rolled back or run at once.                *)
THEOREM NumbersRunOn == Spec => []NumbersHaveNoGaps
<1>1. IInv => NumbersHaveNoGaps
  BY DEF IInv
<1> QED BY <1>1, ServiceInvariant, PTL

(* A document that commits is one step of the ledger: under its locks, the *)
(* totals that it read are the totals.                                     *)
LEMMA CommitPosts ==
    ASSUME IInv, NEW c \in Clerks, CommitDocument(c)
    PROVE  Post
<1> DEFINE t == tx[c]
           rows == [k \in DOMAIN t.lines |->
                      [line |-> t.lines[k], doc |-> t.doc,
                       before |-> After(t.lines, k) - t.lines[k].qty,
                       after |-> After(t.lines, k)]]
<1>1. /\ t.lines \in Lines /\ t.doc \in Documents
      /\ \A k \in DOMAIN t.lines : Update("item", t.lines[k].item) \in t.held
  BY CommitHolds
<1>2. /\ t.lines \in Seq(StockLine) /\ Len(t.lines) \in Nat \ {0}
      /\ DOMAIN t.lines = 1..Len(t.lines)
      /\ \A k \in 1..Len(t.lines) : t.lines[k].item \in Items /\ t.lines[k].wh \in Warehouses
  BY <1>1, LineFields
<1>3. ~Refused(t.lines, t.open) /\ PostLines(t.doc, t.lines, t.read)
  BY DEF CommitDocument
<1>4. ledger' = ledger \o rows
  BY <1>3 DEF PostLines
<1>5. /\ rows \in Seq({rows[k] : k \in DOMAIN t.lines}) /\ Len(rows) = Len(t.lines)
      /\ \A k \in 1..Len(t.lines) : rows[k].line = t.lines[k]
  BY <1>2
<1> HIDE DEF rows
<1>6. /\ Len(ledger') = Len(ledger) + Len(t.lines)
      /\ \A k \in 1..Len(t.lines) : ledger'[Len(ledger) + k] = rows[k]
      /\ Len(ledger) \in Nat
  <2>1. \A A, B, p, q : p \in Seq(A) /\ q \in Seq(B) =>
           /\ Len(p \o q) = Len(p) + Len(q) /\ Len(p) \in Nat
           /\ \A k \in 1..Len(q) : (p \o q)[Len(p) + k] = q[k]
    OBVIOUS
  <2>2. PICK A, B : ledger \in Seq(A) /\ rows \in Seq(B)
    BY <1>5 DEF IInv, Shape
  <2>3. /\ Len(ledger \o rows) = Len(ledger) + Len(rows) /\ Len(ledger) \in Nat
        /\ \A k \in 1..Len(rows) : (ledger \o rows)[Len(ledger) + k] = rows[k]
    BY <2>1, <2>2
  <2> QED BY <1>4, <1>5, <2>3
<1>7. Gained = t.lines
  <2>1. Len(ledger') - Len(ledger) = Len(t.lines)
    BY <1>2, <1>6
  <2>2. t.lines = [k \in 1..Len(t.lines) |-> t.lines[k]]
    BY <1>2
  <2> QED BY <1>5, <1>6, <2>1, <2>2 DEF Gained
<1>8. ~Refused(t.lines, Warehouses)
  BY <1>2, <1>3 DEF Refused
<1>9. PostLines(t.doc, t.lines, total)
  <2>1. \A i \in Items : (\E k \in DOMAIN t.lines : t.lines[k].item = i) => t.read[i] = total[i]
    BY <1>1 DEF IInv, ReadIsCurrent
  <2> QED BY <1>3, <2>1 DEF PostLines
<1>10. Gained \in Seq(StockLine) \ {<<>>}
  BY <1>2, <1>7
<1> QED BY <1>1, <1>7, <1>8, <1>9, <1>10 DEF Post

(* However many documents, settings, refusals and rollbacks run at once,   *)
(* the tables change as if one document at a time moved its lines.         *)
THEOREM ServiceImplementsLedger == Spec => LedgerSpec
<1>1. Init => LedgerInit
  BY DEF Init
<1>2. IInv /\ [Next]_vars => [Post]_ledgerVars
  <2> SUFFICES ASSUME IInv, [Next]_vars
               PROVE  Post \/ UNCHANGED ledgerVars
    OBVIOUS
  <2>1. CASE UNCHANGED vars
    BY <2>1 DEF vars
  <2>2. ASSUME NEW c \in Clerks, CommitDocument(c)
        PROVE  Post
    BY <2>2, CommitPosts
  <2>3. ASSUME NEW c \in Clerks, Request(c)
        PROVE  UNCHANGED ledgerVars
    <3>1. \A x : Begins(c, x) => UNCHANGED ledgerVars
      BY DEF Begins
    <3>2. \A d \in Documents : \A lines : BeginCreate(c, d, lines) => UNCHANGED ledgerVars
      BY <3>1, Zenon DEF BeginCreate
    <3>3. \A d \in Documents, op \in {"edit", "delete"} :
             BeginChange(c, d, op) => UNCHANGED ledgerVars
      BY <3>1, Zenon DEF BeginChange
    <3>4. \A op \in {"retire", "revive", "default"}, w \in Warehouses :
             BeginSetting(c, op, w) => UNCHANGED ledgerVars
      BY <3>1, Zenon DEF BeginSetting
    <3> QED BY <2>3, <3>2, <3>3, <3>4, Zenon DEF Request
  <2>4. ASSUME NEW c \in Clerks, Statement(c)
        PROVE  UNCHANGED ledgerVars
    BY <2>4 DEF Statement, Take, LockDocument
  <2>5. ASSUME NEW c \in Clerks, CommitStatus(c) \/ CommitDefault(c) \/ Rollback(c)
        PROVE  UNCHANGED ledgerVars
    BY <2>5 DEF CommitStatus, CommitDefault, Rollback
  <2> QED BY <2>1, <2>2, <2>3, <2>4, <2>5 DEF Next, End
<1> QED BY <1>1, <1>2, ServiceInvariant, PTL DEF Spec, LedgerSpec

(* The tables of the service agree with one another whatever runs at once: *)
(* a total is the sum of its shelves, a shelf what its rows add up to, and *)
(* no row leaves less than nothing.                                        *)
THEOREM ServiceStockIsLedger == Spec => []StockIsLedger
BY ServiceImplementsLedger, LedgerAddsUp, PTL

-----------------------------------------------------------------------------
(* What becomes of a retired warehouse. *)

(* A document that commits adds a row for each of its lines, and moves     *)
(* goods through a warehouse that it has not open only to take them back.  *)
LEMMA CommitWrites ==
    ASSUME IInv, NEW c \in Clerks, CommitDocument(c)
    PROVE  /\ DOMAIN ledger = 1..Len(ledger) /\ Len(ledger) \in Nat
           /\ DOMAIN ledger' = 1..(Len(ledger) + Len(tx[c].lines))
           /\ \A n \in DOMAIN ledger : ledger'[n] = ledger[n]
           /\ \A k \in 1..Len(tx[c].lines) :
                 /\ ledger'[Len(ledger) + k].line = tx[c].lines[k]
                 /\ ledger'[Len(ledger) + k].doc = tx[c].doc
                 /\ tx[c].lines[k].wh \in tx[c].open \/ tx[c].lines[k].type = "reversal"
<1> DEFINE lines == tx[c].lines
           rows == [k \in DOMAIN lines |->
                      [line |-> lines[k], doc |-> tx[c].doc,
                       before |-> After(lines, k) - lines[k].qty,
                       after |-> After(lines, k)]]
<1>1. ledger' = ledger \o rows /\ ~Refused(lines, tx[c].open)
  BY DEF CommitDocument, PostLines
<1>2. DOMAIN lines = 1..Len(lines) /\ Len(lines) \in Nat
  BY CommitHolds, LineFields
<1>3. /\ rows \in Seq({rows[k] : k \in DOMAIN lines}) /\ Len(rows) = Len(lines)
      /\ \A k \in 1..Len(lines) : rows[k].line = lines[k] /\ rows[k].doc = tx[c].doc
  BY <1>2
<1>4. \A k \in 1..Len(lines) : lines[k].wh \in tx[c].open \/ lines[k].type = "reversal"
  BY <1>1, <1>2 DEF Refused
<1> HIDE DEF rows
<1>5. \A A, B, p, q : p \in Seq(A) /\ q \in Seq(B) =>
         /\ Len(p) \in Nat /\ DOMAIN p = 1..Len(p)
         /\ DOMAIN (p \o q) = 1..(Len(p) + Len(q))
         /\ \A n \in 1..Len(p) : (p \o q)[n] = p[n]
         /\ \A k \in 1..Len(q) : (p \o q)[Len(p) + k] = q[k]
  OBVIOUS
<1>6. PICK A, B : ledger \in Seq(A) /\ rows \in Seq(B)
  BY <1>3 DEF IInv, Shape
<1>7. /\ Len(ledger) \in Nat /\ DOMAIN ledger = 1..Len(ledger)
      /\ DOMAIN (ledger \o rows) = 1..(Len(ledger) + Len(rows))
      /\ \A n \in 1..Len(ledger) : (ledger \o rows)[n] = ledger[n]
      /\ \A k \in 1..Len(rows) : (ledger \o rows)[Len(ledger) + k] = rows[k]
  BY <1>5, <1>6
<1> QED BY <1>1, <1>3, <1>4, <1>7

(* What a step may do to the warehouses that are retired.                  *)
LEMMA StepSparesRetired ==
    ASSUME IInv, LedgerInv, [Next]_vars, NEW w \in Warehouses
    PROVE  /\ w \in active \ active' => \A i \in Items : stock'[i][w] = 0
           /\ w \notin active =>
                \A n \in DOMAIN ledger' \ DOMAIN ledger :
                   ledger'[n].line.wh = w => ledger'[n].line.type = "reversal"
<1>1. CASE ledger' = ledger /\ active' = active
  BY <1>1
<1>2. ASSUME NEW c \in Clerks, CommitDocument(c)
      PROVE  /\ active' = active
             /\ w \notin active =>
                  \A n \in DOMAIN ledger' \ DOMAIN ledger :
                     ledger'[n].line.wh = w => ledger'[n].line.type = "reversal"
  <2>1. active' = active
    BY <1>2 DEF CommitDocument
  <2>2. ASSUME w \notin active, NEW n \in DOMAIN ledger' \ DOMAIN ledger, ledger'[n].line.wh = w
        PROVE  ledger'[n].line.type = "reversal"
    <3>1. /\ DOMAIN ledger = 1..Len(ledger) /\ Len(ledger) \in Nat
          /\ DOMAIN ledger' = 1..(Len(ledger) + Len(tx[c].lines))
          /\ \A k \in 1..Len(tx[c].lines) :
                /\ ledger'[Len(ledger) + k].line = tx[c].lines[k]
                /\ tx[c].lines[k].wh \in tx[c].open \/ tx[c].lines[k].type = "reversal"
      BY <1>2, CommitWrites
    <3>2. Len(tx[c].lines) \in Nat
      BY <1>2, CommitHolds, LineFields
    <3>3. n - Len(ledger) \in 1..Len(tx[c].lines) /\ n = Len(ledger) + (n - Len(ledger))
      BY <3>1, <3>2
    <3>4. PICK k \in 1..Len(tx[c].lines) : n = Len(ledger) + k
      BY <3>3
    <3>5. w \notin tx[c].open
      BY <2>2 DEF IInv, OpenIsActive
    <3> QED BY <2>2, <3>1, <3>4, <3>5
  <2> QED BY <2>1, <2>2
<1>3. ASSUME NEW c \in Clerks, CommitStatus(c)
      PROVE  ledger' = ledger /\ (w \in active \ active' => \A i \in Items : stock'[i][w] = 0)
  <2>1. \A i \in Items : stock[i][w] \in Nat
    BY InvIsLedger
  <2>2. ledger' = ledger /\ stock' = stock
    BY <1>3 DEF CommitStatus, ledgerVars
  <2>3. w \in active \ active' => \A i \in Items : stock[i][w] <= 0
    BY <1>3 DEF CommitStatus
  <2> QED BY <2>1, <2>2, <2>3
<1>4. ASSUME NEW c \in Clerks, Request(c) \/ Statement(c) \/ CommitDefault(c) \/ Rollback(c)
      PROVE  ledger' = ledger /\ active' = active
  <2>1. ASSUME Request(c)
        PROVE  ledger' = ledger /\ active' = active
    <3>1. \A x : Begins(c, x) => ledger' = ledger /\ active' = active
      BY DEF Begins, ledgerVars
    <3>2. \A d \in Documents : \A lines : BeginCreate(c, d, lines) => ledger' = ledger /\ active' = active
      BY <3>1, Zenon DEF BeginCreate
    <3>3. \A d \in Documents, op \in {"edit", "delete"} :
             BeginChange(c, d, op) => ledger' = ledger /\ active' = active
      BY <3>1, Zenon DEF BeginChange
    <3>4. \A op \in {"retire", "revive", "default"}, v \in Warehouses :
             BeginSetting(c, op, v) => ledger' = ledger /\ active' = active
      BY <3>1, Zenon DEF BeginSetting
    <3> QED BY <2>1, <3>2, <3>3, <3>4, Zenon DEF Request
  <2>2. ASSUME Statement(c) \/ CommitDefault(c) \/ Rollback(c)
        PROVE  ledger' = ledger /\ active' = active
    BY <2>2 DEF Statement, Take, LockDocument, CommitDefault, Rollback, ledgerVars
  <2> QED BY <1>4, <2>1, <2>2
<1>5. CASE UNCHANGED vars
  BY <1>1, <1>5 DEF vars, ledgerVars, serviceVars
<1> QED BY <1>1, <1>2, <1>3, <1>4, <1>5 DEF Next, End

(* A warehouse is retired with nothing on its shelves, and afterwards      *)
(* nothing but an old document's reversal reaches it, however many         *)
(* requests have read it as active.                                        *)
THEOREM RetiredStayEmpty == Spec => RetiredStaysEmpty
<1>1. LedgerSpec => []LedgerInv
  BY LedgerInitInv, LedgerPostInv, PTL DEF LedgerSpec
<1>2. IInv /\ LedgerInv /\ [Next]_vars =>
         [\A w \in Warehouses :
            /\ w \in active \ active' => \A i \in Items : stock'[i][w] = 0
            /\ w \notin active =>
                 \A n \in DOMAIN ledger' \ DOMAIN ledger :
                    ledger'[n].line.wh = w => ledger'[n].line.type = "reversal"]_vars
  BY StepSparesRetired
<1> QED BY <1>1, <1>2, ServiceInvariant, ServiceImplementsLedger, PTL
        DEF Spec, RetiredStaysEmpty

-----------------------------------------------------------------------------
(* The order in which a document takes its locks.                          *)

DocumentOps == {"create", "edit", "delete"}

Writes(l, kind) == l.row[1] = kind /\ l.mode = "update"

(* The counter is taken before everything else, and items that are to be   *)
(* written after one another by their ids, with no share of one between.   *)
Precedes(l, m) ==
    /\ m.row[1] # "counter"
    /\ Writes(l, "item") /\ m.row[1] = "item" => m.mode = "update" /\ l.row[2] < m.row[2]

InOrder(s) == \A j, k \in DOMAIN s : j < k => Precedes(s[j], s[k])

(* A document asks for its own row first of all, and only shares warehouses.*)
Mild(l) == l.row[1] # "doc" /\ ~Writes(l, "wh")

InLine(t) ==
    t.op \in DocumentOps =>
        /\ InOrder(t.wants)
        /\ \A l \in t.held, m \in Elements(t.wants) : Precedes(l, m)
        /\ \A m \in Elements(t.wants) : Mild(m)
        /\ \A l \in t.held : ~Writes(l, "wh")

(* Two lists after one another are in order if the first writes no item    *)
(* and the second does not name the counter.                               *)
LEMMA OrdersJoin ==
    ASSUME NEW s \in Seq(Lock), NEW t \in Seq(Lock), InOrder(s), InOrder(t),
           \A l \in Elements(s) : ~Writes(l, "item"),
           \A m \in Elements(t) : m.row[1] # "counter"
    PROVE  /\ InOrder(s \o t)
           /\ s \o t \in Seq(Lock) /\ Elements(s \o t) = Elements(s) \cup Elements(t)
<1>1. /\ DOMAIN s = 1..Len(s) /\ DOMAIN t = 1..Len(t)
      /\ DOMAIN (s \o t) = 1..(Len(s) + Len(t))
      /\ Len(s) \in Nat /\ Len(t) \in Nat
      /\ \A j \in 1..Len(s) : (s \o t)[j] = s[j]
      /\ \A j \in 1..Len(t) : (s \o t)[Len(s) + j] = t[j]
  OBVIOUS
<1>2. ASSUME NEW j \in 1..(Len(s) + Len(t)), NEW k \in 1..(Len(s) + Len(t)), j < k
      PROVE  Precedes((s \o t)[j], (s \o t)[k])
  <2>1. CASE k \in 1..Len(s)
    <3>1. j \in 1..Len(s)
      BY <1>1, <1>2, <2>1
    <3> QED BY <1>1, <1>2, <2>1, <3>1 DEF InOrder
  <2>2. ASSUME k \notin 1..Len(s)
        PROVE  Precedes((s \o t)[j], (s \o t)[k])
    <3>1. PICK b \in 1..Len(t) : k = Len(s) + b
      <4>1. k - Len(s) \in 1..Len(t) /\ k = Len(s) + (k - Len(s))
        BY <1>1, <2>2
      <4> QED BY <4>1
    <3>2. (s \o t)[k] = t[b] /\ t[b] \in Elements(t)
      BY <1>1, <3>1 DEF Elements
    <3>3. CASE j \in 1..Len(s)
      <4>1. (s \o t)[j] = s[j] /\ s[j] \in Elements(s)
        BY <1>1, <3>3 DEF Elements
      <4> QED BY <3>2, <4>1 DEF Precedes
    <3>4. CASE j \notin 1..Len(s)
      <4>1. j - Len(s) \in 1..Len(t) /\ j = Len(s) + (j - Len(s))
        BY <1>1, <3>4
      <4>2. PICK a \in 1..Len(t) : j = Len(s) + a
        BY <4>1
      <4>3. a < b /\ (s \o t)[j] = t[a]
        BY <1>1, <1>2, <3>1, <4>2
      <4>4. Precedes(t[a], t[b])
        BY <1>1, <4>3 DEF InOrder
      <4> QED BY <3>2, <4>3, <4>4
    <3> QED BY <3>3, <3>4
  <2> QED BY <2>1, <2>2
<1>3. InOrder(s \o t)
  BY <1>1, <1>2 DEF InOrder
<1> QED BY <1>3, ElementsOfLists

(* What is left of a list in order is, and comes after its head.           *)
LEMMA OrderOfRest ==
    ASSUME NEW s \in Seq(Lock), s # <<>>, InOrder(s)
    PROVE  /\ InOrder(Tail(s))
           /\ \A m \in Elements(Tail(s)) : Precedes(Head(s), m)
<1>1. /\ Head(s) = s[1] /\ Len(s) \in Nat \ {0} /\ DOMAIN s = 1..Len(s)
      /\ DOMAIN Tail(s) = 1..(Len(s) - 1)
      /\ \A j \in 1..(Len(s) - 1) : Tail(s)[j] = s[j + 1]
  OBVIOUS
<1>2. \A j \in 1..(Len(s) - 1) : j + 1 \in 1..Len(s) /\ 1 < j + 1 /\ 1 \in 1..Len(s)
  BY <1>1
<1>3. ASSUME NEW j \in 1..(Len(s) - 1), NEW k \in 1..(Len(s) - 1), j < k
      PROVE  Precedes(Tail(s)[j], Tail(s)[k])
  <2>1. j + 1 \in 1..Len(s) /\ k + 1 \in 1..Len(s) /\ j + 1 < k + 1
    BY <1>1, <1>3
  <2> QED BY <1>1, <2>1 DEF InOrder
<1>4. ASSUME NEW m \in Elements(Tail(s))
      PROVE  Precedes(Head(s), m)
  <2>1. PICK j \in 1..(Len(s) - 1) : m = Tail(s)[j]
    BY <1>1 DEF Elements
  <2>2. Precedes(s[1], s[j + 1])
    BY <1>1, <1>2 DEF InOrder
  <2> QED BY <1>1, <2>1, <2>2
<1> QED BY <1>1, <1>3, <1>4 DEF InOrder

(* Rows that are only shared, and the counter is not among them, come in   *)
(* any order.                                                              *)
LEMMA SharesInOrder ==
    ASSUME NEW s, \A l \in Elements(s) : l.mode = "share" /\ l.row[1] # "counter"
    PROVE  /\ InOrder(s)
           /\ \A l \in Elements(s) : ~Writes(l, "item") /\ ~Writes(l, "wh")
<1>1. \A j \in DOMAIN s : s[j].mode = "share" /\ s[j].row[1] # "counter"
  BY DEF Elements
<1> QED BY <1>1 DEF InOrder, Precedes, Writes

(* The service takes its items by id and shares its warehouses after them. *)
LEMMA ServiceLocksOrdered ==
    ASSUME NEW lines \in Lines
    PROVE  /\ InOrder(ServiceLocks(lines))
           /\ \A m \in Elements(ServiceLocks(lines)) : Mild(m) /\ m.row[1] # "counter"
<1> DEFINE itemIds == {lines[k].item : k \in DOMAIN lines}
           whIds == {lines[k].wh : k \in DOMAIN lines}
<1>1. /\ itemIds \in SUBSET Items /\ whIds \in SUBSET Warehouses
      /\ itemIds \in SUBSET Nat /\ whIds \in SUBSET Nat
      /\ IsFiniteSet(itemIds) /\ IsFiniteSet(whIds)
  <2>1. itemIds \in SUBSET Items /\ whIds \in SUBSET Warehouses
    BY LineFields
  <2> HIDE DEF itemIds, whIds
  <2> QED BY <2>1, FS_Subset, LedgerAssumption DEF LedgerAssumption
<1> HIDE DEF itemIds, whIds
<1> DEFINE items == Ascending(itemIds)
           whs == Ascending(whIds)
           first == [k \in DOMAIN items |-> Update("item", items[k])]
           last == [k \in DOMAIN whs |-> Share("wh", whs[k])]
<1>2. /\ items \in Seq(itemIds) /\ whs \in Seq(whIds)
      /\ \A j, k \in DOMAIN items : j < k => items[j] < items[k]
  BY <1>1, AscendingLists
<1>3. ServiceLocks(lines) = first \o last
  BY DEF ServiceLocks, items, whs, itemIds, whIds
<1> HIDE DEF items, whs
<1>4. /\ DOMAIN items = 1..Len(items) /\ Len(items) \in Nat
      /\ DOMAIN whs = 1..Len(whs) /\ Len(whs) \in Nat
      /\ \A k \in 1..Len(items) : items[k] \in itemIds
      /\ \A k \in 1..Len(whs) : whs[k] \in whIds
  BY <1>2
<1>5. first \in Seq(Lock) /\ last \in Seq(Lock)
  <2>1. \A k \in 1..Len(items) : Update("item", items[k]) \in Lock
    BY <1>1, <1>4 DEF Update, Lock, Rows
  <2>2. \A k \in 1..Len(whs) : Share("wh", whs[k]) \in Lock
    BY <1>1, <1>4 DEF Share, Lock, Rows
  <2> HIDE DEF Update, Share
  <2> QED BY <1>4, <2>1, <2>2
<1>6. DOMAIN first = DOMAIN items /\ \A k \in DOMAIN items : first[k] = Update("item", items[k])
  OBVIOUS
<1>7. \A m \in Elements(last) : m.mode = "share" /\ m.row[1] = "wh"
  BY DEF Elements, Share
<1>8. \A m \in Elements(first) : m.mode = "update" /\ m.row[1] = "item"
  BY DEF Elements, Update
<1> HIDE DEF first, last
<1>9. ASSUME NEW j \in DOMAIN first, NEW k \in DOMAIN first, j < k
      PROVE  Precedes(first[j], first[k])
  <2>1. items[j] < items[k]
    BY <1>2, <1>6, <1>9
  <2> QED BY <1>6, <2>1 DEF Precedes, Update
<1>10. \A j \in DOMAIN last : last[j].mode = "share" /\ last[j].row[1] = "wh"
  BY <1>7 DEF Elements
<1>11. /\ DOMAIN first = 1..Len(first) /\ DOMAIN last = 1..Len(last)
       /\ DOMAIN (first \o last) = 1..(Len(first) + Len(last))
       /\ Len(first) \in Nat /\ Len(last) \in Nat
       /\ \A j \in 1..Len(first) : (first \o last)[j] = first[j]
       /\ \A j \in 1..Len(last) : (first \o last)[Len(first) + j] = last[j]
  BY <1>5
<1>12. ASSUME NEW j \in DOMAIN (first \o last), NEW k \in DOMAIN (first \o last), j < k
       PROVE  Precedes((first \o last)[j], (first \o last)[k])
  <2>1. CASE k \in 1..Len(first)
    <3>1. j \in 1..Len(first)
      BY <1>11, <1>12, <2>1
    <3> QED BY <1>9, <1>11, <1>12, <2>1, <3>1
  <2>2. CASE k \notin 1..Len(first)
    <3>1. k - Len(first) \in 1..Len(last) /\ k = Len(first) + (k - Len(first))
      BY <1>11, <2>2
    <3>2. (first \o last)[k].row[1] = "wh"
      BY <1>10, <1>11, <3>1
    <3> QED BY <3>2 DEF Precedes
  <2> QED BY <2>1, <2>2
<1>13. Elements(first \o last) = Elements(first) \cup Elements(last)
  BY <1>5, ElementsOfLists
<1> QED BY <1>3, <1>7, <1>8, <1>12, <1>13 DEF InOrder, Mild, Writes

(* What a document's rows share is shared.                                 *)
LEMMA RowLocksShare ==
    ASSUME NEW lines \in Lines
    PROVE  \A m \in Elements(HeaderLocks(lines)) \cup Elements(LineLocks(lines)) :
              m.mode = "share" /\ m.row[1] # "counter" /\ m.row[1] # "doc"
<1>1. \A m \in Elements(HeaderLocks(lines)) : m.mode = "share" /\ m.row[1] = "wh"
  BY DEF Elements, HeaderLocks, Share
<1>2. ASSUME NEW m \in Elements(LineLocks(lines))
      PROVE  m.mode = "share" /\ m.row[1] = "item"
  <2>1. CASE lines[1].type = "purchase"
    <3>1. LineLocks(lines) = [k \in DOMAIN lines |-> Share("item", lines[k].item)]
      BY <2>1 DEF LineLocks
    <3>2. PICK k \in DOMAIN lines : m = Share("item", lines[k].item)
      BY <3>1 DEF Elements
    <3> QED BY <3>2 DEF Share
  <2>2. CASE lines[1].type # "purchase"
    <3>1. Elements(LineLocks(lines)) = {}
      BY <2>2, ElementsOfLists DEF LineLocks
    <3> QED BY <3>1
  <2> QED BY <2>1, <2>2
<1> QED BY <1>1, <1>2

(* A new document waits in line: for the counter, then for the rows that   *)
(* its own rows name, then for those of the service.                       *)
LEMMA CreateWaitsInLine ==
    ASSUME NEW lines \in Lines,
           NEW wants, wants = <<Update("counter", 0)>> \o HeaderLocks(lines)
                              \o LineLocks(lines) \o ServiceLocks(lines)
    PROVE  InOrder(wants) /\ \A m \in Elements(wants) : Mild(m)
<1>1. PICK one \in Seq(Lock) :
         one = <<Update("counter", 0)>> /\ Elements(one) = {Update("counter", 0)}
  <2>1. Update("counter", 0) \in Lock
    BY DEF Update, Lock, Rows
  <2> QED BY <2>1, ElementsOfLists
<1>2. InOrder(one) /\ \A l \in Elements(one) : ~Writes(l, "item") /\ Mild(l)
  <2>1. DOMAIN one = {1}
    BY <1>1
  <2> QED BY <1>1, <2>1 DEF InOrder, Writes, Mild, Update
<1>3. PICK h \in Seq(Lock), l \in Seq(Lock), s \in Seq(Lock) :
         h = HeaderLocks(lines) /\ l = LineLocks(lines) /\ s = ServiceLocks(lines)
  BY RowLocksTyped, ServiceLocksItems
<1>4. /\ InOrder(h) /\ InOrder(l) /\ InOrder(s)
      /\ \A m \in Elements(h) \cup Elements(l) : ~Writes(m, "item") /\ Mild(m) /\ m.row[1] # "counter"
      /\ \A m \in Elements(s) : Mild(m) /\ m.row[1] # "counter"
  <2>1. \A m \in Elements(h) \cup Elements(l) :
           m.mode = "share" /\ m.row[1] # "counter" /\ m.row[1] # "doc"
    BY <1>3, RowLocksShare
  <2>2. InOrder(h) /\ InOrder(l)
    BY <2>1, SharesInOrder
  <2> QED BY <1>3, <2>1, <2>2, ServiceLocksOrdered DEF Mild, Writes
<1>5. /\ InOrder(one \o h) /\ one \o h \in Seq(Lock)
      /\ Elements(one \o h) = Elements(one) \cup Elements(h)
  BY <1>2, <1>4, OrdersJoin
<1>6. PICK a \in Seq(Lock) : a = one \o h /\ InOrder(a) /\ Elements(a) = Elements(one) \cup Elements(h)
  BY <1>5
<1>7. /\ InOrder(a \o l) /\ a \o l \in Seq(Lock)
      /\ Elements(a \o l) = Elements(a) \cup Elements(l)
  BY <1>2, <1>4, <1>6, OrdersJoin
<1>8. PICK b \in Seq(Lock) : b = a \o l /\ InOrder(b) /\ Elements(b) = Elements(a) \cup Elements(l)
  BY <1>7
<1>9. /\ InOrder(b \o s)
      /\ Elements(b \o s) = Elements(b) \cup Elements(s)
  BY <1>2, <1>4, <1>6, <1>8, OrdersJoin
<1>10. wants = b \o s
  BY <1>1, <1>3, <1>6, <1>8
<1> QED BY <1>2, <1>4, <1>6, <1>8, <1>9, <1>10

(* So does a document that is changed, once it is locked.                  *)
LEMMA ChangeWaitsInLine ==
    ASSUME NEW lines \in Lines, NEW first \in Seq(Lock),
           \A m \in Elements(first) : m.mode = "share" /\ m.row[1] # "counter" /\ m.row[1] # "doc"
    PROVE  /\ InOrder(first \o ServiceLocks(lines))
           /\ \A m \in Elements(first \o ServiceLocks(lines)) : Mild(m) /\ m.row[1] # "counter"
<1>1. /\ InOrder(first)
      /\ \A m \in Elements(first) : ~Writes(m, "item") /\ Mild(m) /\ m.row[1] # "counter"
  BY SharesInOrder DEF Mild
<1>2. /\ InOrder(ServiceLocks(lines)) /\ ServiceLocks(lines) \in Seq(Lock)
      /\ \A m \in Elements(ServiceLocks(lines)) : Mild(m) /\ m.row[1] # "counter"
  BY ServiceLocksOrdered, ServiceLocksItems
<1>3. /\ InOrder(first \o ServiceLocks(lines))
      /\ Elements(first \o ServiceLocks(lines)) = Elements(first) \cup Elements(ServiceLocks(lines))
  BY <1>1, <1>2, OrdersJoin
<1> QED BY <1>1, <1>2, <1>3

-----------------------------------------------------------------------------
(* Which transactions a request begins and a locked document makes.        *)

(* A new document asks for its number, its rows and the service's.         *)
LEMMA CreateFields ==
    ASSUME Shape, NEW c \in Clerks, NEW d \in Documents, NEW lines \in Lines,
           BeginCreate(c, d, lines)
    PROVE  /\ OnlyMoves(c)
           /\ tx'[c].op = "create" /\ tx'[c].doc = d
           /\ tx'[c].lines = lines /\ tx'[c].keeps = lines /\ tx'[c].held = {}
           /\ tx'[c].wants = <<Update("counter", 0)>> \o HeaderLocks(lines)
                             \o LineLocks(lines) \o ServiceLocks(lines)
<1> DEFINE wants == <<Update("counter", 0)>> \o HeaderLocks(lines)
                    \o LineLocks(lines) \o ServiceLocks(lines)
           t == [Idle EXCEPT !.op = "create", !.doc = d, !.lines = lines, !.keeps = lines,
                             !.wants = wants]
<1>1. tx' = [tx EXCEPT ![c] = t]
  BY DEF BeginCreate, Begins
<1> HIDE DEF wants
<1>2. /\ t.op = "create" /\ t.doc = d /\ t.lines = lines /\ t.keeps = lines
      /\ t.wants = wants /\ t.held = {}
  BY DEF Idle
<1> HIDE DEF t
<1>3. OnlyMoves(c) /\ tx'[c] = t
  BY <1>1, Replaces DEF Shape
<1> QED BY <1>2, <1>3 DEF wants

(* A locked document is all that its transaction holds.                    *)
LEMMA WorksFields ==
    ASSUME Shape, NEW c \in Clerks, NEW keeps, NEW lines, NEW first, Works(c, keeps, lines, first)
    PROVE  /\ OnlyMoves(c)
           /\ tx'[c].op = tx[c].op /\ tx'[c].doc = tx[c].doc
           /\ tx'[c].lines = lines /\ tx'[c].keeps = keeps
           /\ tx'[c].held = {Update("doc", tx[c].doc)}
           /\ tx'[c].wants = first \o ServiceLocks(lines)
<1> DEFINE wants == first \o ServiceLocks(lines)
           held == {Update("doc", tx[c].doc)}
           next == [tx[c] EXCEPT !.held = held, !.keeps = keeps, !.lines = lines, !.wants = wants]
<1>1. tx' = [tx EXCEPT ![c] = next] /\ Fields(tx[c])
  BY DEF Works, Shape
<1> HIDE DEF wants, held
<1>2. /\ next.op = tx[c].op /\ next.doc = tx[c].doc /\ next.lines = lines /\ next.keeps = keeps
      /\ next.held = held /\ next.wants = wants
  BY <1>1 DEF Fields
<1> HIDE DEF next
<1>3. OnlyMoves(c) /\ tx'[c] = next
  BY <1>1, Replaces DEF Shape
<1> QED BY <1>2, <1>3 DEF wants, held

(* A request begins, with nothing held, an idle transaction but for what   *)
(* it asks: a new document, a change of one, or a setting.                 *)
LEMMA RequestBegins ==
    ASSUME Shape, NEW c \in Clerks, Request(c)
    PROVE  \/ \E d \in Documents, lines \in Lines : BeginCreate(c, d, lines)
           \/ /\ OnlyMoves(c)
              /\ tx'[c].op \in {"edit", "delete"}
              /\ tx'[c].held = {} /\ tx'[c].wants = <<>>
           \/ OnlyMoves(c) /\ tx'[c].op \in {"retire", "revive", "default"}
<1>1. ASSUME NEW d \in Documents, NEW g \in Goods, NEW w \in Warehouses,
             \/ BeginCreate(c, d, Purchase(g, w))
             \/ BeginCreate(c, d, Sale(g, w))
             \/ \E v \in Warehouses \ {w} : BeginCreate(c, d, Transfer(g, w, v))
      PROVE  \E lines \in Lines : BeginCreate(c, d, lines)
  BY <1>1, GoodsGiveLines
<1>2. ASSUME NEW d \in Documents, NEW op \in {"edit", "delete"}, BeginChange(c, d, op)
      PROVE  /\ OnlyMoves(c)
             /\ tx'[c].op \in {"edit", "delete"}
             /\ tx'[c].held = {} /\ tx'[c].wants = <<>>
  <2> DEFINE t == [Idle EXCEPT !.op = op, !.doc = d]
  <2>1. tx' = [tx EXCEPT ![c] = t] /\ t.op = op /\ t.held = {} /\ t.wants = <<>>
    BY <1>2 DEF BeginChange, Begins, Idle
  <2> HIDE DEF t
  <2>2. OnlyMoves(c) /\ tx'[c] = t
    BY <2>1, Replaces DEF Shape
  <2> QED BY <2>1, <2>2
<1>3. ASSUME NEW op \in {"retire", "revive", "default"}, NEW w \in Warehouses,
             BeginSetting(c, op, w)
      PROVE  OnlyMoves(c) /\ tx'[c].op \in {"retire", "revive", "default"}
  <2>1. PICK wants : tx' = [tx EXCEPT ![c] = [Idle EXCEPT !.op = op, !.target = w, !.wants = wants]]
    BY <1>3 DEF BeginSetting, Begins
  <2> DEFINE t == [Idle EXCEPT !.op = op, !.target = w, !.wants = wants]
  <2>2. t.op = op
    BY DEF Idle
  <2>3. tx' = [tx EXCEPT ![c] = t]
    BY <2>1
  <2> HIDE DEF t
  <2>4. OnlyMoves(c) /\ tx'[c] = t
    BY <2>3, Replaces DEF Shape
  <2> QED BY <2>2, <2>4
<1> QED BY <1>1, <1>2, <1>3 DEF Request

(* A transaction that ends is as one that never began.                     *)
LEMMA EndFields ==
    ASSUME Shape, NEW c \in Clerks,
           CommitDocument(c) \/ CommitStatus(c) \/ CommitDefault(c) \/ Rollback(c)
    PROVE  OnlyMoves(c) /\ tx'[c] = Idle
<1>1. Ends(c)
  BY DEF CommitDocument, CommitStatus, CommitDefault, Rollback
<1> QED BY <1>1, Replaces DEF Ends, Shape

-----------------------------------------------------------------------------
(* Documents wait for one another only where a purchase shares an item.    *)

AllInLine == \A c \in Clerks : InLine(tx[c])

(* A document that takes a lock is no further than that in its line.       *)
LEMMA TakeInLine ==
    ASSUME IInv, AllInLine, NEW c \in Clerks, Take(c)
    PROVE  OnlyMoves(c) /\ InLine(tx'[c])
<1>1. PICK l, wants, held :
         l = Head(tx[c].wants) /\ wants = tx[c].wants /\ held = tx[c].held
  OBVIOUS
<1>2. wants # <<>> /\ wants \in Seq(Lock)
  BY <1>1 DEF Take, IInv, Shape, Fields
<1>3. /\ OnlyMoves(c) /\ tx'[c].op = tx[c].op
      /\ tx'[c].wants = Tail(wants) /\ tx'[c].held = held \cup {l}
      /\ l \in Elements(wants) /\ Elements(Tail(wants)) \subseteq Elements(wants)
  <2>1. Elements(wants) = {Head(wants)} \cup Elements(Tail(wants))
    BY <1>2, ElementsOfLists
  <2>2. /\ OnlyMoves(c) /\ tx'[c].op = tx[c].op
        /\ tx'[c].wants = Tail(tx[c].wants) /\ tx'[c].held = tx[c].held \cup {Head(tx[c].wants)}
    <3>1. Shape
      BY DEF IInv
    <3> QED BY <3>1, TakeFields
  <2> QED BY <1>1, <2>1, <2>2
<1>4. ASSUME tx[c].op \in DocumentOps
      PROVE  /\ InOrder(Tail(wants))
             /\ \A k \in held \cup {l}, m \in Elements(Tail(wants)) : Precedes(k, m)
             /\ \A m \in Elements(Tail(wants)) : Mild(m)
             /\ \A k \in held \cup {l} : ~Writes(k, "wh")
  <2>1. /\ InOrder(wants)
        /\ \A k \in held, m \in Elements(wants) : Precedes(k, m)
        /\ \A m \in Elements(wants) : Mild(m)
        /\ \A k \in held : ~Writes(k, "wh")
    BY <1>1, <1>4 DEF AllInLine, InLine
  <2>2. InOrder(Tail(wants)) /\ \A m \in Elements(Tail(wants)) : Precedes(l, m)
    BY <1>1, <1>2, <2>1, OrderOfRest
  <2> QED BY <1>3, <2>1, <2>2 DEF Mild
<1> QED BY <1>3, <1>4 DEF InLine

(* A document that is locked has its own row and asks for no such row      *)
(* again.                                                                  *)
LEMMA WorksInLine ==
    ASSUME IInv, NEW c \in Clerks, NEW keeps, NEW lines \in Lines, NEW first \in Seq(Lock),
           Works(c, keeps, lines, first),
           \A m \in Elements(first) : m.mode = "share" /\ m.row[1] # "counter" /\ m.row[1] # "doc"
    PROVE  OnlyMoves(c) /\ InLine(tx'[c])
<1>1. /\ OnlyMoves(c)
      /\ tx'[c].held = {Update("doc", tx[c].doc)}
      /\ tx'[c].wants = first \o ServiceLocks(lines)
  BY WorksFields DEF IInv
<1>2. /\ InOrder(first \o ServiceLocks(lines))
      /\ \A m \in Elements(first \o ServiceLocks(lines)) : Mild(m) /\ m.row[1] # "counter"
  BY ChangeWaitsInLine
<1>3. ASSUME NEW l \in tx'[c].held
      PROVE  ~Writes(l, "item") /\ ~Writes(l, "wh")
  BY <1>1, <1>3 DEF Writes, Update
<1> QED BY <1>1, <1>2, <1>3 DEF InLine, Precedes

(* What a document that is edited or deleted then asks for.                *)
LEMMA LockDocumentInLine ==
    ASSUME IInv, NEW c \in Clerks, LockDocument(c)
    PROVE  OnlyMoves(c) /\ InLine(tx'[c])
<1> DEFINE d == tx[c].doc
           old == doc[d].lines
           New(g, w) == IF doc[d].kind = "purchase" THEN Purchase(g, w) ELSE Sale(g, w)
<1>1. NeedsDocument(c) /\ doc[d].state = "live"
  BY DEF LockDocument
<1>2. d \in Documents /\ old \in Lines
  BY <1>1 DEF IInv, DocumentsKept, NeedsDocument
<1>3. Reversal(old) \in Lines /\ \A new \in Lines : Edited(old, new) \in Lines
  BY <1>2, EditsGiveLines
<1>4. old[1].wh \in Warehouses /\ active \subseteq Warehouses /\ default \subseteq Warehouses
  BY <1>2, LineFields DEF IInv, Shape, DefaultIsOneActive
<1>5. CASE Works(c, <<>>, Reversal(old), <<>>)
  <2>1. <<>> \in Seq(Lock) /\ Elements(<<>>) = {}
    BY ElementsOfLists
  <2> QED BY <1>3, <1>5, <2>1, WorksInLine
<1>6. ASSUME NEW g \in Goods, NEW w \in Resolved \cup {old[1].wh},
             Works(c, New(g, w), Edited(old, New(g, w)),
                   (IF doc[d].kind = "purchase" /\ w # old[1].wh
                    THEN HeaderLocks(New(g, w)) ELSE <<>>) \o LineLocks(New(g, w)))
      PROVE  OnlyMoves(c) /\ InLine(tx'[c])
  <2> DEFINE new == New(g, w)
             header == IF doc[d].kind = "purchase" /\ w # old[1].wh THEN HeaderLocks(new) ELSE <<>>
             first == header \o LineLocks(new)
  <2>1. w \in Warehouses
    BY <1>4 DEF Resolved
  <2>2. new \in Lines
    BY <2>1, GoodsGiveLines
  <2> HIDE DEF new
  <2>3. HeaderLocks(new) \in Seq(Lock) /\ LineLocks(new) \in Seq(Lock) /\ <<>> \in Seq(Lock)
    BY <2>2, RowLocksTyped
  <2>4. header \in Seq(Lock) /\ Elements(header) \subseteq Elements(HeaderLocks(new))
    BY <2>3, ElementsOfLists
  <2>5. Works(c, new, Edited(old, new), first) /\ Edited(old, new) \in Lines
    BY <1>3, <1>6, <2>2 DEF new
  <2> HIDE DEF header
  <2>6. first \in Seq(Lock) /\ Elements(first) = Elements(header) \cup Elements(LineLocks(new))
    BY <2>3, <2>4, ElementsOfLists
  <2>7. \A m \in Elements(first) : m.mode = "share" /\ m.row[1] # "counter" /\ m.row[1] # "doc"
    BY <2>2, <2>4, <2>6, RowLocksShare
  <2> HIDE DEF first
  <2> QED BY <2>5, <2>6, <2>7, WorksInLine
<1> QED BY <1>5, <1>6 DEF LockDocument

(* Every document keeps its place in line whatever the others do.          *)
LEMMA NextInLine ==
    ASSUME IInv, AllInLine, [Next]_vars
    PROVE  AllInLine'
<1>1. ASSUME NEW c \in Clerks, OnlyMoves(c), InLine(tx'[c])
      PROVE  AllInLine'
  <2>1. ASSUME NEW o \in Clerks
        PROVE  InLine(tx'[o])
    <3>1. CASE o = c
      BY <1>1, <3>1
    <3>2. CASE o # c
      <4>1. tx'[o] = tx[o]
        BY <1>1, <3>2 DEF OnlyMoves
      <4> QED BY <4>1 DEF AllInLine
    <3> QED BY <3>1, <3>2
  <2> QED BY <2>1 DEF AllInLine
<1>2. CASE UNCHANGED vars
  BY <1>2 DEF vars, serviceVars, AllInLine
<1>3. ASSUME NEW c \in Clerks, Request(c)
      PROVE  OnlyMoves(c) /\ InLine(tx'[c])
  <2>1. ASSUME NEW d \in Documents, NEW lines \in Lines, BeginCreate(c, d, lines)
        PROVE  OnlyMoves(c) /\ InLine(tx'[c])
    <3>1. PICK wants : wants = <<Update("counter", 0)>> \o HeaderLocks(lines)
                               \o LineLocks(lines) \o ServiceLocks(lines)
      OBVIOUS
    <3>2. OnlyMoves(c) /\ tx'[c].wants = wants /\ tx'[c].held = {}
      BY <2>1, <3>1, CreateFields DEF IInv
    <3>3. InOrder(wants) /\ \A m \in Elements(wants) : Mild(m)
      BY <3>1, CreateWaitsInLine
    <3> QED BY <3>2, <3>3 DEF InLine
  <2>2. CASE /\ OnlyMoves(c)
             /\ tx'[c].op \in {"edit", "delete"}
             /\ tx'[c].held = {} /\ tx'[c].wants = <<>>
    <3>1. InOrder(<<>>) /\ Elements(<<>>) = {}
      BY DEF InOrder, Elements
    <3> QED BY <2>2, <3>1 DEF InLine
  <2>3. CASE OnlyMoves(c) /\ tx'[c].op \in {"retire", "revive", "default"}
    BY <2>3 DEF InLine, DocumentOps
  <2> QED BY <1>3, <2>1, <2>2, <2>3, RequestBegins DEF IInv
<1>4. ASSUME NEW c \in Clerks, Statement(c)
      PROVE  OnlyMoves(c) /\ InLine(tx'[c])
  BY <1>4, TakeInLine, LockDocumentInLine DEF Statement
<1>5. ASSUME NEW c \in Clerks, End(c)
      PROVE  OnlyMoves(c) /\ InLine(tx'[c])
  <2>1. OnlyMoves(c) /\ tx'[c] = Idle
    BY <1>5, EndFields DEF End, IInv
  <2> QED BY <2>1, IdleFields DEF InLine, DocumentOps
<1> QED BY <1>1, <1>2, <1>3, <1>4, <1>5 DEF Next

(* Of two documents that wait for one another, neither waits for the       *)
(* counter, since who waits for it holds nothing yet, nor for a warehouse, *)
(* which both share, nor for a document, which is locked first.  If both   *)
(* wait for items that the other is to write, each is past the other's.    *)
LEMMA InLineNoDeadlock == IInv /\ AllInLine => DeadlockHasCause
<1> SUFFICES ASSUME IInv, AllInLine, NEW c \in Clerks, NEW o \in Clerks,
                    tx[c].op \in DocumentOps, tx[o].op \in DocumentOps,
                    WaitsFor(c, o), WaitsFor(o, c), ~SharesAnItem(c), ~SharesAnItem(o)
             PROVE  FALSE
  BY DEF DeadlockHasCause, DocumentOps
<1>1. ASSUME NEW a \in Clerks, NEW b \in Clerks, tx[a].op \in DocumentOps,
             tx[b].op \in DocumentOps, WaitsFor(a, b), WaitsFor(b, a), ~SharesAnItem(b)
      PROVE  \E x \in Items : /\ Head(tx[a].wants).row = <<"item", x>>
                              /\ Update("item", x) \in tx[b].held
                              /\ Head(tx[a].wants) \in Elements(tx[a].wants)
  <2>1. PICK m : m = Head(tx[a].wants)
    OBVIOUS
  <2>2. m \in Lock /\ m \in Elements(tx[a].wants)
    BY <1>1, <2>1, ElementsOfLists DEF WaitsFor, IInv, Shape, Fields
  <2>3. PICK h \in tx[b].held : h.row = m.row /\ "update" \in {h.mode, m.mode}
    BY <1>1, <2>1 DEF WaitsFor
  <2>4. PICK k \in tx[a].held : TRUE
    BY <1>1 DEF WaitsFor
  <2>5. Precedes(k, m) /\ Mild(m) /\ ~Writes(h, "wh")
    BY <1>1, <2>2 DEF AllInLine, InLine
  <2>6. m.row[1] # "counter" /\ m.row[1] # "doc"
    BY <2>5 DEF Precedes, Mild
  <2>7. h \in Lock
    BY DEF IInv, Shape, Fields
  <2>8. m.row[1] # "wh"
    BY <2>3, <2>5 DEF Mild, Writes
  <2>9. PICK x \in Items : m.row = <<"item", x>>
    BY <2>2, <2>6, <2>8 DEF Lock, Rows
  <2>10. h.mode = "update"
    BY <1>1, <2>3, <2>7, <2>9 DEF SharesAnItem, Lock
  <2>11. h = Update("item", x)
    BY <2>3, <2>7, <2>9, <2>10 DEF Lock, Update
  <2> QED BY <2>1, <2>2, <2>9, <2>11
<1>2. PICK x \in Items : /\ Head(tx[c].wants).row = <<"item", x>>
                         /\ Update("item", x) \in tx[o].held
                         /\ Head(tx[c].wants) \in Elements(tx[c].wants)
  BY <1>1
<1>3. PICK y \in Items : /\ Head(tx[o].wants).row = <<"item", y>>
                         /\ Update("item", y) \in tx[c].held
                         /\ Head(tx[o].wants) \in Elements(tx[o].wants)
  BY <1>1
<1>4. Precedes(Update("item", y), Head(tx[c].wants))
  BY <1>2, <1>3 DEF AllInLine, InLine
<1>5. Precedes(Update("item", x), Head(tx[o].wants))
  BY <1>2, <1>3 DEF AllInLine, InLine
<1>6. y < x
  BY <1>2, <1>4 DEF Precedes, Writes, Update
<1>7. x < y
  BY <1>3, <1>5 DEF Precedes, Writes, Update
<1>8. x \in Nat /\ y \in Nat
  BY LedgerAssumption DEF LedgerAssumption
<1> QED BY <1>6, <1>7, <1>8

(* Two documents that move the same items queue and do not deadlock,       *)
(* whatever the order of their lines, unless one of them is a purchase     *)
(* that has shared items by writing its rows first.                        *)
THEOREM DocumentsQueue == Spec => []DeadlockHasCause
<1>1. Init => AllInLine
  <2> SUFFICES ASSUME Init PROVE AllInLine
    OBVIOUS
  <2>1. \A c \in Clerks : tx[c] = Idle
    BY DEF Init, ServiceInit
  <2>2. Idle.op \notin DocumentOps
    BY IdleFields DEF DocumentOps
  <2> HIDE DEF Idle
  <2> QED BY <2>1, <2>2 DEF AllInLine, InLine
<1>2. IInv /\ AllInLine /\ [Next]_vars => AllInLine'
  BY NextInLine
<1>3. IInv /\ AllInLine => DeadlockHasCause
  BY InLineNoDeadlock
<1> QED BY <1>1, <1>2, <1>3, ServiceInvariant, PTL DEF Spec

-----------------------------------------------------------------------------
(* What the rows of one document move.                                     *)

Theirs(rows, d) == {n \in DOMAIN rows : rows[n].doc = d}

MovedFor(rows, d, i, ws) == Moved(ListOf(rows), Theirs(rows, d), i, ws)

(* What the quantities in a document's rows add up to is what the lines    *)
(* of those rows move.                                                     *)
LEMMA RowsMove ==
    ASSUME NEW rows \in Seq(PostedRow), NEW d, NEW i, NEW w
    PROVE  MapThenSumSet(LAMBDA n : rows[n].line.qty,
                         {n \in DOMAIN rows : /\ rows[n].doc = d
                                              /\ rows[n].line.item = i
                                              /\ rows[n].line.wh = w})
              = MovedFor(rows, d, i, {w})
<1> DEFINE S == {n \in DOMAIN rows : /\ rows[n].doc = d
                                     /\ rows[n].line.item = i
                                     /\ rows[n].line.wh = w}
           list == ListOf(rows)
           ks == Theirs(rows, d)
           f == [k \in S |-> rows[k].line.qty]
           g == Quantities(list, ks)
<1>1. /\ list \in Seq(StockLine) /\ Len(list) = Len(rows)
      /\ DOMAIN rows = 1..Len(rows) /\ Len(rows) \in Nat
      /\ \A n \in DOMAIN rows : list[n] = rows[n].line
  BY ListsJoined DEF ListOf
<1>2. Countable(list, 1..Len(rows))
  <2> HIDE DEF list
  <2>1. Len(list) \in 0..Len(list)
    BY <1>1
  <2> QED BY <1>1, <2>1, LinesCount
<1>3. S \in SUBSET (1..Len(rows)) /\ ks \in SUBSET (1..Len(rows))
  BY <1>1 DEF Theirs
<1>4. IsFiniteSet(S) /\ IsFiniteSet(ks)
  <2>1. IsFiniteSet(1..Len(rows))
    BY <1>1, FS_Interval
  <2> HIDE DEF S, ks
  <2> QED BY <1>3, <2>1, FS_Subset
<1>5. Countable(list, ks)
  BY <1>2, <1>3, <1>4 DEF Countable
<1>6. LinesAt(list, ks, i, {w}) = S
  BY <1>1 DEF LinesAt, Theirs
<1>7. \A k \in S : f[k] = g[k]
  BY <1>1 DEF Quantities, Theirs
<1>8. MapThenSumSet(LAMBDA n : rows[n].line.qty, S) = SumOf(f, S)
  <2> HIDE DEF S
  <2> QED BY <1>4, SumOfRowQuantities
<1> HIDE DEF S, f, g, list, ks
<1>9. Moved(list, ks, i, {w}) = SumOf(Quantities(list, ks), S)
  BY <1>5, <1>6, MovedIsSum
<1>10. SumOf(f, S) = SumOf(g, S)
  BY <1>4, <1>7, SumSame
<1> QED BY <1>8, <1>9, <1>10 DEF MovedFor, S, g, list, ks

(* Rows that a document adds move its lines for it, and nothing for any    *)
(* other document.                                                         *)
LEMMA RowsAddTheirs ==
    ASSUME NEW rows \in Seq(PostedRow), NEW more \in Seq(PostedRow), NEW lines \in Seq(StockLine), NEW d,
           Adds(rows, more, lines, d), NEW e, NEW i, NEW ws
    PROVE  MovedFor(more, e, i, ws)
              = MovedFor(rows, e, i, ws) + (IF e = d THEN Moved(lines, DOMAIN lines, i, ws) ELSE 0)
<1> DEFINE n == Len(rows)
           m == Len(lines)
           A == 1..n
           B == (n + 1)..(n + m)
           C == 1..m
           list == ListOf(rows)
           longer == ListOf(more)
           all == list \o lines
<1>0. /\ Len(more) = Len(rows) + Len(lines)
      /\ \A j \in 1..Len(rows) : more[j] = rows[j]
      /\ \A k \in 1..Len(lines) : /\ more[Len(rows) + k].line = lines[k]
                                   /\ more[Len(rows) + k].doc = d
  BY DEF Adds
<1>1. /\ n \in Nat /\ m \in Nat /\ DOMAIN rows = A /\ DOMAIN more = 1..(n + m)
      /\ DOMAIN lines = C
  BY <1>0
<1>2. /\ list \in Seq(StockLine) /\ Len(list) = n
      /\ longer \in Seq(StockLine) /\ Len(longer) = n + m
      /\ \A j \in A : list[j] = rows[j].line
      /\ \A j \in 1..(n + m) : longer[j] = more[j].line
  BY <1>0, <1>1, ListsJoined DEF ListOf
<1>3. A \cup B = 1..(n + m) /\ A \cap B = {} /\ \A b \in B : \E k \in C : b = n + k
  <2>1. A \cup B = 1..(n + m) /\ A \cap B = {}
    BY <1>1
  <2>2. ASSUME NEW b \in B PROVE \E k \in C : b = n + k
    <3>1. b - n \in C /\ b = n + (b - n)
      BY <1>1
    <3> QED BY <3>1
  <2> HIDE DEF A, B, C
  <2> QED BY <2>1, <2>2
<1>4. /\ \A j \in A : more[j] = rows[j]
      /\ \A k \in C : more[n + k].line = lines[k] /\ more[n + k].doc = d
  BY <1>0
<1> HIDE DEF list, longer
<1>5. /\ \A j \in A : all[j] = list[j]
      /\ \A k \in C : all[n + k] = lines[k]
      /\ all \in Seq(StockLine)
  BY <1>1, <1>2
<1>6. /\ Countable(list, A) /\ Countable(lines, C) /\ Countable(longer, A \cup B)
  <2>1. Len(list) \in 0..Len(list) /\ Len(lines) \in 0..Len(lines) /\ Len(longer) \in 0..Len(longer)
    BY <1>1, <1>2
  <2> HIDE DEF A, B, C
  <2>2. Countable(list, 1..n) /\ Countable(lines, 1..m) /\ Countable(longer, 1..(n + m))
    <3> HIDE DEF n, m
    <3> QED BY <1>2, <2>1, LinesCount DEF m
  <2> QED BY <1>3, <2>2 DEF A, C
<1>7. IsFiniteSet(A) /\ IsFiniteSet(B)
  BY <1>1, FS_Interval
<1>8. \A j \in A : longer[j] = list[j]
  <2>1. \A j \in A : j \in 1..(n + m)
    BY <1>3
  <2> HIDE DEF A, n, m
  <2> QED BY <1>2, <1>4, <2>1
<1>9. \A j \in B : longer[j] = all[j]
  <2>1. ASSUME NEW j \in B PROVE longer[j] = all[j]
    <3>1. PICK k \in C : j = n + k
      BY <1>3
    <3>2. longer[j] = more[j].line
      BY <1>2, <1>3
    <3> HIDE DEF A, B, C, all
    <3> QED BY <1>4, <1>5, <3>1, <3>2
  <2> QED BY <2>1
<1>10. Theirs(rows, e) \in SUBSET A
  BY <1>1 DEF Theirs
<1>11. IF e = d THEN Theirs(more, e) = Theirs(rows, e) \cup B ELSE Theirs(more, e) = Theirs(rows, e)
  <2>1. \A b \in B : b \in DOMAIN more /\ more[b].doc = d
    BY <1>1, <1>3, <1>4
  <2>2. \A a \in A : a \in DOMAIN more /\ more[a] = rows[a]
    BY <1>1, <1>4
  <2>3. DOMAIN more = A \cup B /\ DOMAIN rows = A /\ A \cap B = {}
    BY <1>1, <1>3
  <2> HIDE DEF A, B
  <2> QED BY <2>1, <2>2, <2>3 DEF Theirs
<1>12. Moved(all, 1..(n + m), i, ws) = Moved(list, A, i, ws) + Moved(lines, C, i, ws)
  <2>1. m \in 0..Len(lines)
    BY <1>1
  <2> HIDE DEF m
  <2>2. Moved(list \o lines, 1..(Len(list) + m), i, ws)
           = Moved(list, 1..Len(list), i, ws) + Moved(lines, 1..m, i, ws)
    BY <1>2, <2>1, MovedJoined
  <2> QED BY <1>2, <2>2
<1> HIDE DEF A, B, C, n, m, all
<1> DEFINE T == Theirs(rows, e)
<1>13. IsFiniteSet(T) /\ T \cap B = {} /\ T \in SUBSET A
  BY <1>3, <1>7, <1>10, FS_Subset
<1> HIDE DEF T
<1>14. /\ Countable(longer, A) /\ Countable(longer, B) /\ Countable(longer, T)
       /\ Countable(list, T)
  BY <1>6, <1>7, <1>13 DEF Countable
<1>15. Moved(longer, A \cup B, i, ws) = Moved(longer, A, i, ws) + Moved(longer, B, i, ws)
  BY <1>3, <1>14, MovedSplit
<1>16. Moved(longer, A, i, ws) = Moved(list, A, i, ws)
  BY <1>6, <1>8, MovedSame
<1>17. Moved(all, A \cup B, i, ws) = Moved(longer, A \cup B, i, ws)
  <2>1. \A j \in A \cup B : all[j] = longer[j]
    BY <1>5, <1>8, <1>9
  <2> QED BY <1>6, <2>1, MovedSame
<1>18. Moved(longer, B, i, ws) = Moved(lines, C, i, ws)
  <2>1. /\ Moved(longer, A, i, ws) \in Int /\ Moved(longer, B, i, ws) \in Int
        /\ Moved(lines, C, i, ws) \in Int
    BY <1>6, <1>14, MovedIsSum
  <2>2. Moved(longer, A, i, ws) + Moved(longer, B, i, ws)
           = Moved(longer, A, i, ws) + Moved(lines, C, i, ws)
    BY <1>3, <1>12, <1>15, <1>16, <1>17
  <2>3. \A x, y, z \in Int : x + y = x + z => y = z
    OBVIOUS
  <2> QED BY <2>1, <2>2, <2>3
<1>19. Moved(longer, T, i, ws) = Moved(list, T, i, ws)
  BY <1>8, <1>13, <1>14, MovedSame
<1>20. Moved(longer, T \cup B, i, ws) = Moved(longer, T, i, ws) + Moved(longer, B, i, ws)
  BY <1>13, <1>14, MovedSplit
<1>21. Moved(list, T, i, ws) \in Int
  BY <1>14, MovedIsSum
<1>22. MovedFor(rows, e, i, ws) = Moved(list, T, i, ws)
  BY DEF MovedFor, list, T
<1>23. CASE e = d
  <2>1. MovedFor(more, e, i, ws) = Moved(longer, T \cup B, i, ws)
    BY <1>11, <1>23 DEF MovedFor, longer, T
  <2> QED BY <1>1, <1>18, <1>19, <1>20, <1>22, <1>23, <2>1
<1>24. CASE e # d
  <2>1. MovedFor(more, e, i, ws) = Moved(longer, T, i, ws)
    BY <1>11, <1>24 DEF MovedFor, longer, T
  <2> QED BY <1>19, <1>21, <1>22, <1>24, <2>1
<1> QED BY <1>23, <1>24

(* A document taken back moves what its lines moved, the other way.        *)
LEMMA ReversalMoves ==
    ASSUME NEW old \in Lines, NEW i, NEW ws
    PROVE  /\ Moved(old, DOMAIN old, i, ws) \in Int
           /\ Moved(Reversal(old), DOMAIN Reversal(old), i, ws) = -Moved(old, DOMAIN old, i, ws)
<1>1. PICK list \in Seq(StockLine) : list = old
  BY DEF Lines
<1>2. PICK back : back = Reversal(old)
  OBVIOUS
<1>3. TakenBack(list, back)
  BY <1>1, <1>2 DEF Reversal, TakenBack
<1>4. /\ Moved(list, DOMAIN list, i, ws) \in Int
      /\ Moved(back, DOMAIN back, i, ws) = -Moved(list, DOMAIN list, i, ws)
  BY <1>3, TakenBackMoves
<1> QED BY <1>1, <1>2, <1>4

(* An edit moves what is missing between the old lines and the new.        *)
LEMMA EditMoves ==
    ASSUME NEW old \in Lines, NEW new \in Lines, NEW i, NEW ws
    PROVE  /\ Moved(old, DOMAIN old, i, ws) \in Int
           /\ Moved(new, DOMAIN new, i, ws) \in Int
           /\ Moved(Edited(old, new), DOMAIN Edited(old, new), i, ws)
                 = Moved(new, DOMAIN new, i, ws) - Moved(old, DOMAIN old, i, ws)
<1>1. PICK back \in Lines : back = Reversal(old)
  BY EditsGiveLines
<1>2. /\ Moved(old, DOMAIN old, i, ws) \in Int
      /\ Moved(back, DOMAIN back, i, ws) = -Moved(old, DOMAIN old, i, ws)
  BY <1>1, ReversalMoves
<1>3. Moved(new, DOMAIN new, i, ws) \in Int
  BY ListMoves DEF Lines
<1>4. ASSUME NEW s \in Lines, NEW t \in Lines
      PROVE  Moved(s \o t, DOMAIN (s \o t), i, ws)
                = Moved(s, DOMAIN s, i, ws) + Moved(t, DOMAIN t, i, ws)
  <2>1. /\ s \in Seq(StockLine) /\ t \in Seq(StockLine)
        /\ DOMAIN s = 1..Len(s) /\ DOMAIN t = 1..Len(t) /\ Len(t) \in 0..Len(t)
        /\ DOMAIN (s \o t) = 1..(Len(s) + Len(t))
    BY DEF Lines
  <2>2. Moved(s \o t, 1..(Len(s) + Len(t)), i, ws)
           = Moved(s, 1..Len(s), i, ws) + Moved(t, 1..Len(t), i, ws)
    BY <2>1, MovedJoined
  <2> QED BY <2>1, <2>2
<1>5. /\ Moved(new \o back, DOMAIN (new \o back), i, ws)
            = Moved(new, DOMAIN new, i, ws) + Moved(back, DOMAIN back, i, ws)
      /\ Moved(back \o new, DOMAIN (back \o new), i, ws)
            = Moved(back, DOMAIN back, i, ws) + Moved(new, DOMAIN new, i, ws)
  BY <1>4
<1>6. Edited(old, new) = new \o back \/ Edited(old, new) = back \o new
  BY <1>1 DEF Edited
<1>7. PICK a, b, c \in Int : /\ a = Moved(old, DOMAIN old, i, ws)
                             /\ b = Moved(new, DOMAIN new, i, ws)
                             /\ c = Moved(back, DOMAIN back, i, ws)
  BY <1>2, <1>3
<1>8. c = -a /\ b + c = b - a /\ c + b = b - a
  BY <1>2, <1>7
<1> QED BY <1>2, <1>3, <1>5, <1>6, <1>7, <1>8

-----------------------------------------------------------------------------
(* What a document has moved is what its lines say. *)

(* A transaction moves what it leaves in its document, and takes back what *)
(* it found there; whoever has locked a document knows it as it is.        *)
Knows(t, docs) ==
    /\ t.op = "create" => t.lines = t.keeps
    /\ t.op \in {"edit", "delete"} /\ t.held # {} =>
          /\ Update("doc", t.doc) \in t.held
          /\ docs[t.doc].state = "live"
          /\ t.op = "edit" => t.lines = Edited(docs[t.doc].lines, t.keeps)
          /\ t.op = "delete" => t.lines = Reversal(docs[t.doc].lines) /\ t.keeps = <<>>

AllKnow ==
    /\ \A c \in Clerks : Knows(tx[c], doc)
    /\ \A d \in Documents : doc[d].state = "none" => doc[d].lines = <<>>

DocumentsMoved ==
    \A d \in Documents, i \in Items, w \in Warehouses :
        MovedFor(ledger, d, i, {w}) = Moved(doc[d].lines, DOMAIN doc[d].lines, i, {w})

(* Only a document that commits writes one, or a row.                      *)
LEMMA OthersWriteNone ==
    ASSUME NEW c \in Clerks,
           Request(c) \/ Statement(c) \/ CommitStatus(c) \/ CommitDefault(c) \/ Rollback(c)
    PROVE  ledger' = ledger /\ doc' = doc
<1>1. ASSUME Request(c)
      PROVE  ledger' = ledger /\ doc' = doc
  <2>1. \A x : Begins(c, x) => ledger' = ledger /\ doc' = doc
    BY DEF Begins, ledgerVars
  <2>2. \A d \in Documents : \A lines : BeginCreate(c, d, lines) => ledger' = ledger /\ doc' = doc
    BY <2>1, Zenon DEF BeginCreate
  <2>3. \A d \in Documents, op \in {"edit", "delete"} :
           BeginChange(c, d, op) => ledger' = ledger /\ doc' = doc
    BY <2>1, Zenon DEF BeginChange
  <2>4. \A op \in {"retire", "revive", "default"}, v \in Warehouses :
           BeginSetting(c, op, v) => ledger' = ledger /\ doc' = doc
    BY <2>1, Zenon DEF BeginSetting
  <2> QED BY <1>1, <2>2, <2>3, <2>4, Zenon DEF Request
<1>2. ASSUME Statement(c) \/ CommitStatus(c) \/ CommitDefault(c) \/ Rollback(c)
      PROVE  ledger' = ledger /\ doc' = doc
  BY <1>2 DEF Statement, Take, LockDocument, CommitStatus, CommitDefault, Rollback, ledgerVars
<1> QED BY <1>1, <1>2

(* Nobody else knows a document that commits: it is new, or locked.        *)
LEMMA CommitIsAlone ==
    ASSUME IInv, AllKnow, NEW c \in Clerks, CommitDocument(c), NEW o \in Clerks, o # c,
           tx[o].op \in {"edit", "delete"}, tx[o].held # {}
    PROVE  tx[o].doc # tx[c].doc
<1>1. Update("doc", tx[o].doc) \in tx[o].held
  BY DEF AllKnow, Knows
<1>2. tx[c].op \in {"create", "edit", "delete"} /\ ~NeedsDocument(c)
  BY DEF CommitDocument, Ready
<1>3. CASE tx[c].op = "create"
  BY <1>3 DEF IInv, DocumentsKept
<1>4. CASE tx[c].op \in {"edit", "delete"}
  <2>1. Update("doc", tx[c].doc) \in tx[c].held
    BY <1>2, <1>4 DEF AllKnow, Knows, NeedsDocument
  <2> QED BY <1>1, <2>1, OneWriter DEF IInv
<1> QED BY <1>2, <1>3, <1>4

(* What the document reads after it has committed.                         *)
LEMMA CommitStores ==
    ASSUME IInv, NEW c \in Clerks, CommitDocument(c)
    PROVE  /\ \A e \in Documents \ {tx[c].doc} : doc'[e] = doc[e]
           /\ doc'[tx[c].doc].lines = tx[c].keeps
           /\ doc'[tx[c].doc].state # "none"
<1> DEFINE row == [state |-> IF tx[c].op = "delete" THEN "gone" ELSE "live",
                   kind |-> IF tx[c].op = "create" THEN KindOf(tx[c].lines)
                            ELSE doc[tx[c].doc].kind,
                   number |-> IF tx[c].op = "create" THEN tx[c].number
                              ELSE doc[tx[c].doc].number,
                   lines |-> tx[c].keeps]
<1>1. doc' = [doc EXCEPT ![tx[c].doc] = row] /\ row.lines = tx[c].keeps /\ row.state # "none"
  BY DEF CommitDocument
<1> HIDE DEF row
<1>2. doc \in [Documents -> DocumentRow] /\ tx[c].doc \in Documents
  BY CommitHolds DEF IInv, Shape
<1> QED BY <1>1, <1>2

(* Whoever knows a document knows it until it lets go of it.               *)
LEMMA NextKnows ==
    ASSUME IInv, AllKnow, [Next]_vars
    PROVE  AllKnow'
<1>1. ASSUME NEW c \in Clerks, OnlyMoves(c), doc' = doc, Knows(tx'[c], doc)
      PROVE  AllKnow'
  <2>1. ASSUME NEW o \in Clerks
        PROVE  Knows(tx'[o], doc')
    <3>1. CASE o = c
      BY <1>1, <3>1
    <3>2. CASE o # c
      <4>1. tx'[o] = tx[o]
        BY <1>1, <3>2 DEF OnlyMoves
      <4> QED BY <1>1, <4>1 DEF AllKnow
    <3> QED BY <3>1, <3>2
  <2> QED BY <1>1, <2>1 DEF AllKnow
<1>2. CASE UNCHANGED vars
  BY <1>2 DEF vars, serviceVars, AllKnow
<1>3. ASSUME NEW c \in Clerks, Request(c)
      PROVE  OnlyMoves(c) /\ Knows(tx'[c], doc)
  <2>1. ASSUME NEW d \in Documents, NEW lines \in Lines, BeginCreate(c, d, lines)
        PROVE  OnlyMoves(c) /\ Knows(tx'[c], doc)
    BY <2>1, CreateFields DEF IInv, Knows
  <2>2. CASE OnlyMoves(c) /\ tx'[c].op \in {"edit", "delete"} /\ tx'[c].held = {}
    BY <2>2 DEF Knows
  <2>3. CASE OnlyMoves(c) /\ tx'[c].op \in {"retire", "revive", "default"}
    BY <2>3 DEF Knows
  <2> QED BY <1>3, <2>1, <2>2, <2>3, RequestBegins DEF IInv
<1>4. ASSUME NEW c \in Clerks, Take(c)
      PROVE  OnlyMoves(c) /\ Knows(tx'[c], doc)
  <2>1. PICK l : /\ OnlyMoves(c) /\ tx'[c].op = tx[c].op /\ tx'[c].doc = tx[c].doc
                 /\ tx'[c].lines = tx[c].lines /\ tx'[c].keeps = tx[c].keeps
                 /\ tx'[c].held = tx[c].held \cup {l}
    <3>1. Shape
      BY DEF IInv
    <3> QED BY <1>4, <3>1, TakeFields
  <2>2. ~NeedsDocument(c)
    BY <1>4 DEF Take, IInv, LocksAhead
  <2>3. Knows(tx[c], doc)
    BY DEF AllKnow
  <2> QED BY <2>1, <2>2, <2>3 DEF Knows, NeedsDocument
<1>5. ASSUME NEW c \in Clerks, LockDocument(c)
      PROVE  OnlyMoves(c) /\ Knows(tx'[c], doc)
  <2> DEFINE d == tx[c].doc
             New(g, w) == IF doc[d].kind = "purchase" THEN Purchase(g, w) ELSE Sale(g, w)
  <2>1. tx[c].op \in {"edit", "delete"} /\ doc[d].state = "live"
    BY <1>5 DEF LockDocument, NeedsDocument
  <2>2. ASSUME NEW keeps, NEW lines, NEW first, Works(c, keeps, lines, first),
               tx[c].op = "edit" => lines = Edited(doc[d].lines, keeps),
               tx[c].op = "delete" => lines = Reversal(doc[d].lines) /\ keeps = <<>>
        PROVE  OnlyMoves(c) /\ Knows(tx'[c], doc)
    <3>1. /\ OnlyMoves(c) /\ tx'[c].op = tx[c].op /\ tx'[c].doc = d
          /\ tx'[c].lines = lines /\ tx'[c].keeps = keeps
          /\ tx'[c].held = {Update("doc", d)}
      BY <2>2, WorksFields DEF IInv
    <3> QED BY <2>1, <2>2, <3>1 DEF Knows
  <2>3. CASE tx[c].op = "delete" /\ Works(c, <<>>, Reversal(doc[d].lines), <<>>)
    BY <2>2, <2>3
  <2>4. ASSUME tx[c].op = "edit", NEW g, NEW w, NEW first,
               Works(c, New(g, w), Edited(doc[d].lines, New(g, w)), first)
        PROVE  OnlyMoves(c) /\ Knows(tx'[c], doc)
    <3> HIDE DEF New
    <3> QED BY <2>2, <2>4
  <2> QED BY <1>5, <2>3, <2>4 DEF LockDocument
<1>6. ASSUME NEW c \in Clerks, CommitStatus(c) \/ CommitDefault(c) \/ Rollback(c)
      PROVE  OnlyMoves(c) /\ Knows(tx'[c], doc)
  <2>1. OnlyMoves(c) /\ tx'[c] = Idle
    BY <1>6, EndFields DEF IInv
  <2> QED BY <2>1, IdleFields DEF Knows
<1>7. ASSUME NEW c \in Clerks, CommitDocument(c)
      PROVE  AllKnow'
  <2>1. OnlyMoves(c) /\ tx'[c] = Idle
    BY <1>7, EndFields DEF IInv
  <2>2. /\ \A e \in Documents \ {tx[c].doc} : doc'[e] = doc[e]
        /\ doc'[tx[c].doc].state # "none"
    BY <1>7, CommitStores
  <2>3. ASSUME NEW o \in Clerks
        PROVE  Knows(tx'[o], doc')
    <3>1. CASE o = c
      BY <2>1, <3>1, IdleFields DEF Knows
    <3>2. CASE o # c
      <4>1. tx'[o] = tx[o] /\ Knows(tx[o], doc)
        BY <2>1, <3>2 DEF OnlyMoves, AllKnow
      <4>2. tx[o].op \in {"edit", "delete"} /\ tx[o].held # {} => doc'[tx[o].doc] = doc[tx[o].doc]
        BY <1>7, <2>2, <3>2, CommitIsAlone DEF IInv, DocumentsKept
      <4> QED BY <4>1, <4>2 DEF Knows
    <3> QED BY <3>1, <3>2
  <2>4. \A d \in Documents : doc'[d].state = "none" => doc'[d].lines = <<>>
    <3>1. ASSUME NEW d \in Documents, doc'[d].state = "none" PROVE doc'[d].lines = <<>>
      <4>1. d # tx[c].doc /\ doc'[d] = doc[d]
        BY <2>2, <3>1
      <4> QED BY <3>1, <4>1 DEF AllKnow
    <3> QED BY <3>1
  <2> QED BY <2>3, <2>4 DEF AllKnow
<1>8. ASSUME NEW c \in Clerks, Request(c) \/ Statement(c) \/ CommitStatus(c)
                               \/ CommitDefault(c) \/ Rollback(c)
      PROVE  AllKnow'
  <2>1. OnlyMoves(c) /\ Knows(tx'[c], doc)
    BY <1>3, <1>4, <1>5, <1>6, <1>8 DEF Statement
  <2>2. doc' = doc
    BY <1>8, OthersWriteNone
  <2> QED BY <1>1, <2>1, <2>2
<1> QED BY <1>2, <1>7, <1>8 DEF Next, End

(* A document that commits moves what its lines say now, less what they    *)
(* said before.                                                            *)
LEMMA CommitMoves ==
    ASSUME IInv, AllKnow, NEW c \in Clerks, CommitDocument(c), NEW i, NEW w
    PROVE  /\ Moved(doc[tx[c].doc].lines, DOMAIN doc[tx[c].doc].lines, i, {w}) \in Int
           /\ Moved(tx[c].keeps, DOMAIN tx[c].keeps, i, {w}) \in Int
           /\ Moved(tx[c].lines, DOMAIN tx[c].lines, i, {w})
                = Moved(tx[c].keeps, DOMAIN tx[c].keeps, i, {w})
                  - Moved(doc[tx[c].doc].lines, DOMAIN doc[tx[c].doc].lines, i, {w})
<1>1. PICK lines, keeps, op, d, old :
         /\ lines = tx[c].lines /\ keeps = tx[c].keeps /\ op = tx[c].op /\ d = tx[c].doc
         /\ old = doc[d].lines
  OBVIOUS
<1>2. op \in {"create", "edit", "delete"} /\ ~NeedsDocument(c) /\ d \in Documents
  BY <1>1, CommitHolds DEF CommitDocument, Ready
<1>3. Knows(tx[c], doc)
  BY DEF AllKnow
<1>4. Moved(<<>>, DOMAIN <<>>, i, {w}) = 0
  <2>1. DOMAIN <<>> = {}
    OBVIOUS
  <2> QED BY <2>1, MovedNone
<1>5. CASE op = "create"
  <2>1. lines = keeps /\ old = <<>> /\ keeps \in Lines
    BY <1>1, <1>2, <1>3, <1>5 DEF Knows, IInv, DocumentsKept, AllKnow
  <2>2. Moved(keeps, DOMAIN keeps, i, {w}) \in Int
    BY <2>1, ListMoves DEF Lines
  <2>3. PICK a \in Int : a = Moved(keeps, DOMAIN keeps, i, {w})
    BY <2>2
  <2>4. a = a - 0 /\ 0 \in Int
    OBVIOUS
  <2> QED BY <1>1, <1>4, <2>1, <2>3, <2>4
<1>6. CASE op \in {"edit", "delete"}
  <2>1. tx[c].held # {}
    BY <1>1, <1>2, <1>6 DEF NeedsDocument
  <2>2. doc[d].state = "live" /\ old \in Lines
    BY <1>1, <1>2, <1>3, <1>6, <2>1 DEF Knows, IInv, DocumentsKept
  <2>3. CASE op = "edit"
    <3>1. lines = Edited(old, keeps) /\ keeps \in Lines
      BY <1>1, <1>2, <1>3, <2>1, <2>3 DEF Knows, IInv, DocumentsKept
    <3>2. /\ Moved(old, DOMAIN old, i, {w}) \in Int
          /\ Moved(keeps, DOMAIN keeps, i, {w}) \in Int
          /\ Moved(lines, DOMAIN lines, i, {w})
                = Moved(keeps, DOMAIN keeps, i, {w}) - Moved(old, DOMAIN old, i, {w})
      BY <2>2, <3>1, EditMoves
    <3> QED BY <1>1, <3>2
  <2>4. CASE op = "delete"
    <3>1. lines = Reversal(old) /\ keeps = <<>>
      BY <1>1, <1>3, <2>1, <2>4 DEF Knows
    <3>2. /\ Moved(old, DOMAIN old, i, {w}) \in Int
          /\ Moved(lines, DOMAIN lines, i, {w}) = -Moved(old, DOMAIN old, i, {w})
      BY <2>2, <3>1, ReversalMoves
    <3>3. PICK a \in Int : a = Moved(old, DOMAIN old, i, {w})
      BY <3>2
    <3>4. -a = 0 - a /\ 0 \in Int
      OBVIOUS
    <3> QED BY <1>1, <1>4, <3>1, <3>2, <3>3, <3>4
  <2> QED BY <1>6, <2>3, <2>4
<1> QED BY <1>2, <1>5, <1>6

(* So its rows, all together, move what its lines say.                     *)
LEMMA NextMovesLines ==
    ASSUME IInv, LedgerInv, AllKnow, DocumentsMoved, [Next]_vars
    PROVE  DocumentsMoved'
<1>1. ASSUME ledger' = ledger, doc' = doc
      PROVE  DocumentsMoved'
  BY <1>1 DEF DocumentsMoved
<1>2. ASSUME NEW c \in Clerks, CommitDocument(c)
      PROVE  DocumentsMoved'
  <2>1. LedgerInv'
    <3>1. Post
      BY <1>2, CommitPosts
    <3> QED BY <3>1, LedgerPostInv
  <2>2. PICK rows \in Seq(PostedRow), more \in Seq(PostedRow) : rows = ledger /\ more = ledger'
    BY <2>1 DEF LedgerInv, FiguresAdd
  <2>3. PICK lines \in Lines, d \in Documents : lines = tx[c].lines /\ d = tx[c].doc
    BY <1>2, CommitHolds
  <2>4. PICK keeps, docs, docs2 : keeps = tx[c].keeps /\ docs = doc /\ docs2 = doc'
    OBVIOUS
  <2>5. /\ DOMAIN rows = 1..Len(rows) /\ Len(rows) \in Nat /\ Len(lines) \in Nat
        /\ DOMAIN more = 1..(Len(rows) + Len(lines))
        /\ \A n \in 1..Len(rows) : more[n] = rows[n]
        /\ \A k \in 1..Len(lines) : /\ more[Len(rows) + k].line = lines[k]
                                    /\ more[Len(rows) + k].doc = d
    <3>1. Len(lines) \in Nat
      BY LineFields
    <3> QED BY <1>2, <2>2, <2>3, <3>1, CommitWrites
  <2>6. Len(more) = Len(rows) + Len(lines)
    BY <2>5
  <2>7. ASSUME NEW e \in Documents, NEW i \in Items, NEW w \in Warehouses
        PROVE  MovedFor(more, e, i, {w}) = Moved(docs2[e].lines, DOMAIN docs2[e].lines, i, {w})
    <3>1. MovedFor(rows, e, i, {w}) = Moved(docs[e].lines, DOMAIN docs[e].lines, i, {w})
      BY <2>2, <2>4 DEF DocumentsMoved
    <3>2. MovedFor(more, e, i, {w})
             = MovedFor(rows, e, i, {w})
               + (IF e = d THEN Moved(lines, DOMAIN lines, i, {w}) ELSE 0)
      <4>1. lines \in Seq(StockLine)
        BY DEF Lines
      <4>2. Adds(rows, more, lines, d)
        BY <2>5, <2>6 DEF Adds
      <4> QED BY <4>1, <4>2, RowsAddTheirs
    <3>3. /\ \A x \in Documents \ {d} : docs2[x] = docs[x]
          /\ docs2[d].lines = keeps
      BY <1>2, <2>3, <2>4, CommitStores
    <3>4. CASE e = d
      <4>1. PICK old : old = docs[d].lines /\ old = doc[tx[c].doc].lines
        BY <2>3, <2>4
      <4>2. /\ Moved(old, DOMAIN old, i, {w}) \in Int
            /\ Moved(keeps, DOMAIN keeps, i, {w}) \in Int
            /\ Moved(lines, DOMAIN lines, i, {w})
                 = Moved(keeps, DOMAIN keeps, i, {w}) - Moved(old, DOMAIN old, i, {w})
        <5>1. /\ Moved(doc[tx[c].doc].lines, DOMAIN doc[tx[c].doc].lines, i, {w}) \in Int
              /\ Moved(tx[c].keeps, DOMAIN tx[c].keeps, i, {w}) \in Int
              /\ Moved(tx[c].lines, DOMAIN tx[c].lines, i, {w})
                   = Moved(tx[c].keeps, DOMAIN tx[c].keeps, i, {w})
                     - Moved(doc[tx[c].doc].lines, DOMAIN doc[tx[c].doc].lines, i, {w})
          BY <1>2, CommitMoves
        <5> QED BY <2>3, <2>4, <4>1, <5>1
      <4>3. PICK a, b \in Int : /\ a = Moved(old, DOMAIN old, i, {w})
                                /\ b = Moved(keeps, DOMAIN keeps, i, {w})
        BY <4>2
      <4>4. a + (b - a) = b
        OBVIOUS
      <4>5. MovedFor(more, e, i, {w}) = a + (b - a)
        BY <3>1, <3>2, <3>4, <4>1, <4>2, <4>3
      <4> QED BY <3>3, <3>4, <4>3, <4>4, <4>5
    <3>5. CASE e # d
      <4>1. docs2[e] = docs[e]
        BY <3>3, <3>5
      <4>2. MovedFor(rows, e, i, {w}) \in Int
        <5>1. PICK list \in Seq(StockLine) : list = ListOf(rows) /\ Len(list) = Len(rows)
          BY ListsJoined
        <5>2. Len(list) \in 0..Len(list)
          BY <2>5, <5>1
        <5>3. Countable(list, 1..Len(list))
          BY <5>2, LinesCount
        <5>4. Theirs(rows, e) \in SUBSET (1..Len(list))
          BY <2>5, <5>1 DEF Theirs
        <5>5. Countable(list, Theirs(rows, e))
          <6>1. IsFiniteSet(Theirs(rows, e))
            BY <5>3, <5>4, FS_Subset DEF Countable
          <6> QED BY <5>3, <5>4, <6>1 DEF Countable
        <5> QED BY <5>1, <5>5, MovedIsSum DEF MovedFor
      <4>3. MovedFor(more, e, i, {w}) = MovedFor(rows, e, i, {w})
        <5>1. PICK a \in Int : a = MovedFor(rows, e, i, {w})
          BY <4>2
        <5>2. a + 0 = a
          OBVIOUS
        <5> QED BY <3>2, <3>5, <5>1, <5>2
      <4> QED BY <3>1, <4>1, <4>3
    <3> QED BY <3>4, <3>5
  <2> QED BY <2>2, <2>4, <2>7 DEF DocumentsMoved
<1>3. CASE UNCHANGED vars
  BY <1>1, <1>3 DEF vars, ledgerVars, serviceVars
<1>4. ASSUME NEW c \in Clerks,
             Request(c) \/ Statement(c) \/ CommitStatus(c) \/ CommitDefault(c) \/ Rollback(c)
      PROVE  DocumentsMoved'
  BY <1>1, <1>4, OthersWriteNone
<1> QED BY <1>2, <1>3, <1>4 DEF Next, End

(* However its edits and its deletion interleave with other requests, what *)
(* the ledger's rows of a document add up to on every shelf is what its    *)
(* lines say now, and nothing once it is deleted.                          *)
THEOREM MovedAsListed == Spec => []DocumentMovedItsLines
<1>1. LedgerSpec => []LedgerInv
  BY LedgerInitInv, LedgerPostInv, PTL DEF LedgerSpec
<1>2. Init => AllKnow /\ DocumentsMoved
  <2> SUFFICES ASSUME Init PROVE AllKnow /\ DocumentsMoved
    OBVIOUS
  <2>1. /\ \A c \in Clerks : tx[c] = Idle
        /\ \A d \in Documents : doc[d].lines = <<>>
        /\ ledger = <<>>
    BY DEF Init, ServiceInit, LedgerInit
  <2>2. AllKnow
    <3>1. Idle.op = "none"
      BY IdleFields
    <3> HIDE DEF Idle
    <3> QED BY <2>1, <3>1 DEF AllKnow, Knows
  <2>3. ASSUME NEW d \in Documents, NEW i \in Items, NEW w \in Warehouses
        PROVE  MovedFor(ledger, d, i, {w}) = Moved(doc[d].lines, DOMAIN doc[d].lines, i, {w})
    <3>1. DOMAIN <<>> = {} /\ Theirs(<<>>, d) = {}
      BY DEF Theirs
    <3>2. Moved(<<>>, DOMAIN <<>>, i, {w}) = 0 /\ MovedFor(<<>>, d, i, {w}) = 0
      BY <3>1, MovedNone DEF MovedFor
    <3> QED BY <2>1, <3>2
  <2> QED BY <2>2, <2>3 DEF DocumentsMoved
<1>3. IInv /\ AllKnow /\ [Next]_vars => AllKnow'
  BY NextKnows
<1>4. IInv /\ LedgerInv /\ AllKnow /\ DocumentsMoved /\ [Next]_vars => DocumentsMoved'
  BY NextMovesLines
<1>5. LedgerInv /\ DocumentsMoved => DocumentMovedItsLines
  <2> SUFFICES ASSUME LedgerInv, DocumentsMoved,
                      NEW d \in Documents, NEW i \in Items, NEW w \in Warehouses
               PROVE  MapThenSumSet(LAMBDA n : ledger[n].line.qty,
                                    {n \in DOMAIN ledger : /\ ledger[n].doc = d
                                                           /\ ledger[n].line.item = i
                                                           /\ ledger[n].line.wh = w})
                        = Moved(doc[d].lines, DOMAIN doc[d].lines, i, {w})
    BY DEF DocumentMovedItsLines
  <2>1. ledger \in Seq(PostedRow)
    BY DEF LedgerInv, FiguresAdd
  <2>2. MovedFor(ledger, d, i, {w}) = Moved(doc[d].lines, DOMAIN doc[d].lines, i, {w})
    BY DEF DocumentsMoved
  <2> QED BY <2>1, <2>2, RowsMove
<1> QED BY <1>1, <1>2, <1>3, <1>4, <1>5, ServiceInvariant, ServiceImplementsLedger, PTL DEF Spec

-----------------------------------------------------------------------------
(* The kardex. *)

(* A draft that was read or saved has its item, or the item slipped away.  *)
DraftInv ==
    /\ draft \in {"none", "checked", "saved"}
    /\ draft # "none" => item = "here" \/ slipped

(* A repair draft that lists an item has not lost it, but for an item that *)
(* goes while the draft is between its reading and its saving, whatever    *)
(* forms, requests, purchases and sales there are.                         *)
THEOREM DraftsKeepItems == KardexSpec => []DraftKeepsItem
<1>1. KardexInit => DraftInv
  BY DEF KardexInit, DraftInv
<1>2. DraftInv /\ [KardexNext]_kardexVars => DraftInv'
  <2> SUFFICES ASSUME DraftInv, [KardexNext]_kardexVars PROVE DraftInv'
    OBVIOUS
  <2>1. CASE UNCHANGED <<item, draft, slipped>>
    BY <2>1 DEF DraftInv
  <2>2. CASE UNCHANGED kardexVars
    BY <2>1, <2>2 DEF kardexVars
  <2>3. ASSUME NEW t \in Targets, CreateItem(t) PROVE DraftInv'
    <3>1. item' = "here" /\ draft' = draft
      BY <2>3 DEF CreateItem
    <3> QED BY <3>1 DEF DraftInv
  <2>4. CASE (\E g \in Purchases : BuyIn(g)) \/ (\E q \in Sales : SellOut(q))
                \/ (\E n \in DOMAIN kardex : TakeBack(n))
    BY <2>1, <2>4 DEF BuyIn, SellOut, TakeBack
  <2>5. ASSUME NEW c \in Forms,
               OpenForm(c) \/ SaveForm(c) \/ CloseForm(c) \/ \E t \in Targets : TypeOpening(c, t)
        PROVE  DraftInv'
    BY <2>1, <2>5 DEF OpenForm, SaveForm, CloseForm, TypeOpening
  <2>6. ASSUME NEW c \in Requests,
               Weigh(c) \/ PostCorrection(c) \/ RequestFails(c) \/ \E t \in Targets : ReadLive(c, t)
        PROVE  DraftInv'
    BY <2>1, <2>6 DEF Weigh, PostCorrection, RequestFails, ReadLive
  <2>7. CASE CheckDraft \/ SaveDraft \/ DropDraft \/ RemoveItem
    BY <2>7 DEF DraftInv, CheckDraft, SaveDraft, DropDraft, RemoveItem
  <2>8. (\E t \in Targets : CreateItem(t)) => DraftInv'
    BY <2>3
  <2>9. (\E c \in Forms : OpenForm(c) \/ SaveForm(c) \/ CloseForm(c)
                        \/ \E t \in Targets : TypeOpening(c, t)) => DraftInv'
    BY <2>5
  <2>10. (\E c \in Requests : Weigh(c) \/ PostCorrection(c) \/ RequestFails(c)
                           \/ \E t \in Targets : ReadLive(c, t)) => DraftInv'
    BY <2>6
  <2> QED BY <2>2, <2>4, <2>7, <2>8, <2>9, <2>10 DEF KardexNext
<1>3. DraftInv => DraftKeepsItem
  BY DEF DraftInv, DraftKeepsItem
<1> QED BY <1>1, <1>2, <1>3, PTL DEF KardexSpec

Figures(k) == [n \in DOMAIN k |-> k[n].quantity]

OfType(k, type) == {n \in DOMAIN k : k[n].type = type}

(* The openings that no reversal points at. *)
Counting(k) == {n \in OfType(k, "opening") : \A m \in OfType(k, "reversal") : k[m].ref # n}

(* Entries in order, each with a quantity. *)
Listed(k) == (\E S : k \in Seq(S)) /\ \A n \in DOMAIN k : k[n].quantity \in Int

(* What openings and reversals add up to is what the openings that count do.*)
Balanced(k) ==
    /\ Listed(k)
    /\ \A n \in OfType(k, "reversal") : k[n].ref \in DOMAIN k
    /\ SumOf(Figures(k), OfType(k, "opening") \cup OfType(k, "reversal"))
           = SumOf(Figures(k), Counting(k))

(* more is k with e after it, at m. *)
OneMore(more, k, e, m) ==
    /\ Listed(k) /\ Listed(more)
    /\ IsFiniteSet(DOMAIN k)
    /\ DOMAIN more = DOMAIN k \cup {m} /\ m \notin DOMAIN k
    /\ \A n \in DOMAIN k : more[n] = k[n]
    /\ more[m] = e

(* An entry that is added is the last, and the others are as they were.    *)
LEMMA EntryAdded ==
    ASSUME NEW k, Listed(k), NEW e, e.quantity \in Int
    PROVE  OneMore(k \o <<e>>, k, e, Len(k) + 1)
<1>1. PICK S : k \in Seq(S)
  BY DEF Listed
<1>2. k \in Seq(S \cup {e}) /\ <<e>> \in Seq(S \cup {e})
  <2>1. Len(k) \in Nat /\ DOMAIN k = 1..Len(k) /\ \A n \in 1..Len(k) : k[n] \in S
    BY <1>1
  <2>2. k = [n \in 1..Len(k) |-> k[n]]
    BY <1>1
  <2> QED BY <2>1, <2>2
<1>3. /\ k \o <<e>> \in Seq(S \cup {e}) /\ Len(k) \in Nat /\ DOMAIN k = 1..Len(k)
      /\ DOMAIN (k \o <<e>>) = 1..(Len(k) + 1)
      /\ \A n \in DOMAIN k : (k \o <<e>>)[n] = k[n]
      /\ (k \o <<e>>)[Len(k) + 1] = e
  BY <1>2
<1>4. 1..(Len(k) + 1) = (1..Len(k)) \cup {Len(k) + 1} /\ Len(k) + 1 \notin 1..Len(k)
  BY <1>3
<1>5. \A n \in DOMAIN (k \o <<e>>) : (k \o <<e>>)[n].quantity \in Int
  BY <1>3, <1>4 DEF Listed
<1>6. IsFiniteSet(1..Len(k))
  BY <1>3, FS_Interval
<1> QED BY <1>3, <1>4, <1>5, <1>6 DEF Listed, OneMore

(* What some entries add up to, with another one or without one of them. *)
AddUp(more, k, e, m, S) ==
    /\ SumOf(Figures(k), S) \in Int
    /\ SumOf(Figures(more), S) = SumOf(Figures(k), S)
    /\ SumOf(Figures(more), S \cup {m}) = SumOf(Figures(k), S) + e.quantity
    /\ \A n \in S : SumOf(Figures(k), S \ {n}) = SumOf(Figures(k), S) - k[n].quantity

(* Entries add up alike in a kardex and in one with an entry more.         *)
LEMMA EntriesAdd ==
    ASSUME NEW more, NEW k, NEW e, NEW m, OneMore(more, k, e, m), NEW S, S \subseteq DOMAIN k
    PROVE  AddUp(more, k, e, m, S)
<1> DEFINE f == Figures(k)
           g == Figures(more)
           T == S \cup {m}
<1>1. IsFiniteSet(S) /\ m \notin S /\ e.quantity \in Int
  BY FS_Subset DEF OneMore, Listed
<1>2. /\ \A n \in S : f[n] = k[n].quantity /\ f[n] \in Int /\ g[n] = f[n]
      /\ g[m] = e.quantity
  BY DEF Figures, Listed, OneMore
<1>3. IsFiniteSet(T) /\ T \ {m} = S /\ m \in T /\ \A n \in T : g[n] \in Int
  BY <1>1, <1>2, FS_AddElement
<1> HIDE DEF f, g, T
<1>4. SumOf(f, S) \in Int /\ SumOf(g, S) = SumOf(f, S)
  BY <1>1, <1>2, SumType, SumSame
<1>5. SumOf(g, T) = g[m] + SumOf(g, T \ {m})
  BY <1>3, SumTake
<1>6. SumOf(g, T) = SumOf(f, S) + e.quantity
  <2>1. SumOf(g, T) = g[m] + SumOf(f, S)
    BY <1>3, <1>4, <1>5
  <2>2. SumOf(f, S) + e.quantity = e.quantity + SumOf(f, S)
    BY <1>1, <1>4
  <2> QED BY <1>2, <2>1, <2>2
<1>7. ASSUME NEW n \in S PROVE SumOf(f, S \ {n}) = SumOf(f, S) - k[n].quantity
  <2>1. SumOf(f, S) = f[n] + SumOf(f, S \ {n})
    BY <1>1, <1>2, SumTake
  <2>2. PICK R \in SUBSET S : R = S \ {n}
    OBVIOUS
  <2>3. IsFiniteSet(R) /\ \A x \in R : f[x] \in Int
    BY <1>1, <1>2, FS_Subset
  <2>4. SumOf(f, R) \in Int
    BY <2>3, SumType
  <2> QED BY <1>2, <1>4, <2>1, <2>2, <2>4
<1> QED BY <1>4, <1>6, <1>7 DEF f, g, T, AddUp

(* An entry of a purchase, a sale or a return leaves the opening alone.    *)
LEMMA OtherEntry ==
    ASSUME NEW more, NEW k, NEW e, NEW m, OneMore(more, k, e, m), Balanced(k),
           e.type \notin {"opening", "reversal"}
    PROVE  Balanced(more) /\ Counting(more) = Counting(k)
<1> DEFINE both == OfType(k, "opening") \cup OfType(k, "reversal")
<1>1. /\ OfType(more, "opening") = OfType(k, "opening")
      /\ OfType(more, "reversal") = OfType(k, "reversal")
  BY DEF OfType, OneMore
<1>2. \A n \in OfType(k, "reversal") : more[n] = k[n] /\ k[n].ref \in DOMAIN k
  BY DEF OneMore, Balanced, OfType
<1>3. Counting(more) = Counting(k)
  BY <1>1, <1>2 DEF Counting
<1>4. both \subseteq DOMAIN k /\ Counting(k) \subseteq DOMAIN k
  BY DEF OfType, Counting
<1>5. /\ SumOf(Figures(more), both) = SumOf(Figures(k), both)
      /\ SumOf(Figures(more), Counting(k)) = SumOf(Figures(k), Counting(k))
  <2>1. \A S : S \subseteq DOMAIN k => AddUp(more, k, e, m, S)
    BY EntriesAdd
  <2> HIDE DEF both
  <2> QED BY <1>4, <2>1 DEF AddUp
<1>6. \A n \in OfType(more, "reversal") : more[n].ref \in DOMAIN more
  BY <1>1, <1>2 DEF OneMore
<1>7. Listed(more)
  BY DEF OneMore
<1> QED BY <1>1, <1>3, <1>5, <1>6, <1>7 DEF Balanced

(* An opening counts from when it is posted.                               *)
LEMMA OpeningEntry ==
    ASSUME NEW more, NEW k, NEW e, NEW m, OneMore(more, k, e, m), Balanced(k),
           e.type = "opening"
    PROVE  Balanced(more) /\ Counting(more) = Counting(k) \cup {m}
<1> DEFINE both == OfType(k, "opening") \cup OfType(k, "reversal")
<1>1. /\ OfType(more, "opening") = OfType(k, "opening") \cup {m}
      /\ OfType(more, "reversal") = OfType(k, "reversal")
  BY DEF OfType, OneMore
<1>2. \A n \in OfType(k, "reversal") : more[n] = k[n] /\ k[n].ref \in DOMAIN k /\ k[n].ref # m
  BY DEF OneMore, Balanced, OfType
<1>3. Counting(more) = Counting(k) \cup {m}
  BY <1>1, <1>2 DEF Counting
<1>4. both \subseteq DOMAIN k /\ Counting(k) \subseteq DOMAIN k
  BY DEF OfType, Counting
<1>5. /\ SumOf(Figures(more), both \cup {m}) = SumOf(Figures(k), both) + e.quantity
      /\ SumOf(Figures(more), Counting(k) \cup {m}) = SumOf(Figures(k), Counting(k)) + e.quantity
  <2>1. \A S : S \subseteq DOMAIN k => AddUp(more, k, e, m, S)
    BY EntriesAdd
  <2> HIDE DEF both
  <2> QED BY <1>4, <2>1 DEF AddUp
<1>6. \A n \in OfType(more, "reversal") : more[n].ref \in DOMAIN more
  BY <1>1, <1>2 DEF OneMore
<1>7. Listed(more)
  BY DEF OneMore
<1>8. OfType(more, "opening") \cup OfType(more, "reversal") = both \cup {m}
  BY <1>1
<1>9. SumOf(Figures(k), both) = SumOf(Figures(k), Counting(k))
  BY DEF Balanced
<1> HIDE DEF both
<1> QED BY <1>3, <1>5, <1>6, <1>7, <1>8, <1>9 DEF Balanced

(* A reversal of an opening that counts takes it out, with its quantity.   *)
LEMMA ReversalEntry ==
    ASSUME NEW more, NEW k, NEW e, NEW m, OneMore(more, k, e, m), Balanced(k),
           NEW u \in Counting(k), e.type = "reversal", e.ref = u, e.quantity = -k[u].quantity
    PROVE  Balanced(more) /\ Counting(more) = Counting(k) \ {u}
<1> DEFINE both == OfType(k, "opening") \cup OfType(k, "reversal")
<1>1. /\ OfType(more, "opening") = OfType(k, "opening")
      /\ OfType(more, "reversal") = OfType(k, "reversal") \cup {m}
  BY DEF OfType, OneMore
<1>2. /\ \A n \in OfType(k, "reversal") : more[n] = k[n] /\ k[n].ref \in DOMAIN k
      /\ more[m].ref = u
  BY DEF OneMore, Balanced, OfType
<1>3. Counting(more) = Counting(k) \ {u}
  BY <1>1, <1>2 DEF Counting
<1>4. /\ both \subseteq DOMAIN k /\ Counting(k) \subseteq DOMAIN k
      /\ Counting(k) \ {u} \subseteq DOMAIN k /\ u \in DOMAIN k
  BY DEF OfType, Counting
<1>5. /\ SumOf(Figures(more), both \cup {m}) = SumOf(Figures(k), both) + e.quantity
      /\ SumOf(Figures(more), Counting(k) \ {u}) = SumOf(Figures(k), Counting(k) \ {u})
      /\ SumOf(Figures(k), Counting(k) \ {u}) = SumOf(Figures(k), Counting(k)) - k[u].quantity
      /\ SumOf(Figures(k), Counting(k)) \in Int
  <2>1. \A S : S \subseteq DOMAIN k => AddUp(more, k, e, m, S)
    BY EntriesAdd
  <2> HIDE DEF both
  <2> QED BY <1>4, <2>1 DEF AddUp
<1>6. \A n \in OfType(more, "reversal") : more[n].ref \in DOMAIN more
  BY <1>1, <1>2, <1>4 DEF OneMore
<1>7. Listed(more) /\ k[u].quantity \in Int
  BY <1>4 DEF OneMore, Listed
<1>8. OfType(more, "opening") \cup OfType(more, "reversal") = both \cup {m}
  BY <1>1
<1>9. SumOf(Figures(k), both) = SumOf(Figures(k), Counting(k))
  BY DEF Balanced
<1> HIDE DEF both
<1>10. SumOf(Figures(more), both \cup {m}) = SumOf(Figures(more), Counting(k) \ {u})
  BY <1>5, <1>7, <1>9
<1> QED BY <1>3, <1>6, <1>7, <1>8, <1>10 DEF Balanced

(* What opening and reversing entries come to is a sum.                    *)
LEMMA SumOfEntries ==
    ASSUME NEW S, S \subseteq DOMAIN kardex, IsFiniteSet(S)
    PROVE  MapThenSumSet(LAMBDA n : kardex[n].quantity, S) = SumOf(Figures(kardex), S)
<1> DEFINE f == Figures(kardex)
           h == CHOOSE h : h = [s \in SUBSET S |->
                    IF s = {} THEN 0
                    ELSE kardex[CHOOSE x \in s : TRUE].quantity + h[s \ {CHOOSE x \in s : TRUE}]]
           own(g) == [s \in SUBSET S |->
                    IF s = {} THEN 0 ELSE kardex[Pick(s)].quantity + g[s \ {Pick(s)}]]
           its(g) == [s \in SUBSET S |->
                    IF s = {} THEN 0 ELSE f[Pick(s)] + g[s \ {Pick(s)}]]
<1>1. MapThenSumSet(LAMBDA n : kardex[n].quantity, S) = h[S]
  BY DEF MapThenSumSet, MapThenFoldSet
<1>2. ASSUME NEW g PROVE own(g) = its(g)
  <2>1. \A s \in SUBSET S : s # {} => kardex[Pick(s)].quantity = f[Pick(s)]
    BY PickIsIn DEF Figures
  <2> HIDE DEF f
  <2> QED BY <2>1
<1>3. PICK g : IsSum(f, S, g)
  BY SumExists
<1>4. g = own(g)
  BY <1>2, <1>3 DEF IsSum
<1>5. h = own(h)
  BY <1>4 DEF Pick
<1>6. h = its(h)
  BY <1>2, <1>5
<1>7. IsSum(f, S, h)
  <2> HIDE DEF h, f
  <2> QED BY <1>6 DEF IsSum
<1>8. h[S] = SumOf(f, S)
  <2> HIDE DEF h, f
  <2> QED BY <1>7, SumValue
<1> QED BY <1>1, <1>8

(* One opening that counts comes to its quantity, none to nothing.         *)
LEMMA OneCounts ==
    ASSUME NEW k, Listed(k)
    PROVE  /\ SumOf(Figures(k), {}) = 0
           /\ \A u \in DOMAIN k : SumOf(Figures(k), {u}) = k[u].quantity
<1>1. ASSUME NEW u \in DOMAIN k PROVE SumOf(Figures(k), {u}) = k[u].quantity
  <2> DEFINE f == Figures(k)
  <2>1. f[u] = k[u].quantity /\ f[u] \in Int
    BY DEF Figures, Listed
  <2>2. IsFiniteSet({u}) /\ {u} \ {u} = {} /\ \A x \in {u} : f[x] \in Int
    BY <2>1, FS_Singleton
  <2> HIDE DEF f
  <2>3. SumOf(f, {u}) = f[u] + SumOf(f, {u} \ {u})
    BY <2>2, SumTake
  <2>4. SumOf(f, {u} \ {u}) = 0
    BY <2>2, SumEmpty
  <2> QED BY <2>1, <2>3, <2>4 DEF f
<1> QED BY <1>1, SumEmpty

(* One opening at most counts. *)
Lone(k) == \A n, m \in Counting(k) : n = m

(* The opening that is read is the one that counts, where one does.        *)
LEMMA LiveCounts ==
    ASSUME Balanced(kardex), Lone(kardex)
    PROVE  /\ Counting(kardex) = IF LiveOpening = 0 THEN {} ELSE {LiveOpening}
           /\ SumOf(Figures(kardex), Counting(kardex)) = OpeningFigures.quantity
           /\ OpeningFigures.quantity \in Int
<1> DEFINE live == Counting(kardex)
<1>1. live = {n \in DOMAIN kardex : kardex[n].type = "opening"
                 /\ n \notin {kardex[m].ref : m \in {l \in DOMAIN kardex : kardex[l].type = "reversal"}}}
  BY DEF Counting, OfType
<1>2. LiveOpening = Max({0} \cup live)
  BY <1>1 DEF LiveOpening
<1>3. \A n \in live : n \in Nat \ {0} /\ n \in DOMAIN kardex /\ kardex[n].quantity \in Int
  BY DEF Counting, OfType, Balanced, Listed
<1>4. CASE live = {}
  <2>1. LiveOpening = 0
    BY <1>2, <1>4 DEF Max
  <2>2. SumOf(Figures(kardex), {}) = 0
    BY SumEmpty
  <2> QED BY <1>4, <2>1, <2>2 DEF OpeningFigures, Nothing
<1>5. CASE live # {}
  <2>1. PICK u : live = {u} /\ u \in Nat \ {0} /\ kardex[u].quantity \in Int /\ u \in DOMAIN kardex
    BY <1>3, <1>5 DEF Lone
  <2>2. LiveOpening = u
    <3>1. LiveOpening = Max({0, u})
      BY <1>2, <2>1
    <3> QED BY <2>1, <3>1 DEF Max
  <2>3. SumOf(Figures(kardex), {u}) = kardex[u].quantity
    BY <2>1, OneCounts DEF Balanced
  <2>4. OpeningFigures.quantity = kardex[u].quantity
    BY <2>1, <2>2 DEF OpeningFigures
  <2> QED BY <2>1, <2>2, <2>3, <2>4
<1> QED BY <1>4, <1>5

(* A correction of the opening that counts leaves the one it was asked for.*)
LEMMA CorrectionStands ==
    ASSUME Balanced(kardex), Lone(kardex), NEW t, t.quantity \in Int, NEW share,
           kardex' = kardex \o Correction(LiveOpening, share, t)
    PROVE  /\ Balanced(kardex)' /\ Lone(kardex)'
           /\ SumOf(Figures(kardex), Counting(kardex))' = t.quantity
<1> DEFINE live == LiveOpening
           a == Entry("opening", t.quantity, Whole(t.price), live)
           b == Entry("reversal", -kardex[live].quantity, ReversalCost(live, share, t), live)
<1>1. /\ a.type = "opening" /\ a.quantity = t.quantity
      /\ b.type = "reversal" /\ b.quantity = -kardex[live].quantity /\ b.ref = live
  BY DEF Entry
<1>2. Correction(live, share, t) = (IF t.quantity = 0 THEN <<>> ELSE <<a>>)
                                       \o (IF live = 0 THEN <<>> ELSE <<b>>)
  BY DEF Correction
<1>3. Counting(kardex) = IF live = 0 THEN {} ELSE {live}
  BY LiveCounts
<1>4. live # 0 => live \in DOMAIN kardex /\ kardex[live].quantity \in Int /\ b.quantity \in Int
  BY <1>1, <1>3 DEF Counting, OfType, Balanced, Listed
<1> HIDE DEF live, a, b
<1>5. PICK S : kardex \in Seq(S)
  BY DEF Balanced, Listed
<1>6. /\ kardex \in Seq(S \cup {a, b}) /\ <<a>> \in Seq(S \cup {a, b}) /\ <<b>> \in Seq(S \cup {a, b})
  <2>1. Len(kardex) \in Nat /\ DOMAIN kardex = 1..Len(kardex)
        /\ \A n \in 1..Len(kardex) : kardex[n] \in S
    BY <1>5
  <2>2. kardex = [n \in 1..Len(kardex) |-> kardex[n]]
    BY <1>5
  <2> QED BY <2>1, <2>2
<1>7. kardex' = kardex \o Correction(live, share, t)
  BY DEF live
<1>8. CASE t.quantity = 0 /\ live = 0
  <2>1. kardex' = kardex
    BY <1>2, <1>6, <1>7, <1>8
  <2>2. SumOf(Figures(kardex), {}) = 0
    BY SumEmpty
  <2> QED BY <1>3, <1>8, <2>1, <2>2 DEF Lone
<1>9. CASE t.quantity = 0 /\ live # 0
  <2>1. kardex' = kardex \o <<b>>
    BY <1>2, <1>6, <1>7, <1>9
  <2>2. OneMore(kardex', kardex, b, Len(kardex) + 1)
    BY <1>4, <1>9, <2>1, EntryAdded DEF Balanced
  <2>3. Balanced(kardex') /\ Counting(kardex') = Counting(kardex) \ {live}
    BY <1>1, <1>3, <1>9, <2>2, ReversalEntry
  <2>4. SumOf(Figures(kardex'), {}) = 0
    BY SumEmpty
  <2> QED BY <1>3, <1>9, <2>3, <2>4 DEF Lone
<1>10. CASE t.quantity # 0
  <2>1. PICK first : first = kardex \o <<a>>
    OBVIOUS
  <2>2. PICK m : m = Len(kardex) + 1
    OBVIOUS
  <2>3. OneMore(first, kardex, a, m)
    BY <1>1, <2>1, <2>2, EntryAdded DEF Balanced
  <2>4. Balanced(first) /\ Counting(first) = Counting(kardex) \cup {m}
    BY <1>1, <2>3, OpeningEntry
  <2>5. m \in DOMAIN first /\ first[m] = a /\ m \notin Counting(kardex)
    BY <2>3 DEF OneMore, Counting, OfType
  <2>6. CASE live = 0
    <3>1. kardex' = first
      BY <1>2, <1>6, <1>7, <1>10, <2>1, <2>6
    <3>2. Counting(kardex') = {m}
      BY <1>3, <2>4, <2>6, <3>1
    <3>3. SumOf(Figures(kardex'), {m}) = kardex'[m].quantity
      BY <2>4, <2>5, <3>1, OneCounts DEF Balanced
    <3> QED BY <1>1, <2>4, <2>5, <3>1, <3>2, <3>3 DEF Lone
  <2>7. CASE live # 0
    <3>1. kardex' = first \o <<b>>
      <4>1. kardex' = kardex \o (<<a>> \o <<b>>)
        BY <1>2, <1>7, <1>10, <2>7
      <4>2. kardex \o (<<a>> \o <<b>>) = (kardex \o <<a>>) \o <<b>>
        BY <1>6
      <4> QED BY <2>1, <4>1, <4>2
    <3>2. OneMore(kardex', first, b, Len(first) + 1)
      BY <1>4, <2>4, <2>7, <3>1, EntryAdded DEF Balanced
    <3>3. live \in Counting(first) /\ first[live] = kardex[live]
      BY <1>3, <1>4, <2>3, <2>4, <2>7 DEF OneMore
    <3>4. Balanced(kardex') /\ Counting(kardex') = Counting(first) \ {live}
      <4>1. b.type = "reversal" /\ b.ref = live /\ b.quantity = -first[live].quantity
        BY <1>1, <3>3
      <4> QED BY <2>4, <3>2, <3>3, <4>1, ReversalEntry
    <3>5. Counting(kardex') = {m}
      BY <1>3, <2>4, <2>5, <2>7, <3>4
    <3>6. m \in DOMAIN kardex' /\ kardex'[m] = a
      BY <2>5, <3>2 DEF OneMore
    <3>7. SumOf(Figures(kardex'), {m}) = kardex'[m].quantity
      BY <3>4, <3>6, OneCounts DEF Balanced
    <3> QED BY <1>1, <3>4, <3>5, <3>6, <3>7 DEF Lone
  <2> QED BY <2>6, <2>7
<1> QED BY <1>8, <1>9, <1>10

-----------------------------------------------------------------------------
(* The opening stands as it was entered. *)

Unhurt == ~overtook /\ ~outdated

EditOf(T, S) ==
    [pc : {"closed", "open", "weighing", "posting"}, target : T, own : BOOLEAN, live : S, share : S]

(* Whoever has a form or a request in hand has a quantity in it. *)
EditsHave(edits) ==
    \E T, S : /\ edits \in [Forms \cup Requests -> EditOf(T, S)]
              /\ \A t \in T : t.quantity \in Int

Stands(k, quantity) ==
    Balanced(k) /\ Lone(k) /\ SumOf(Figures(k), Counting(k)) = quantity

OpeningInv ==
    Unhurt => /\ EditsHave(edit)
              /\ item = "new" => kardex = <<>>
              /\ item = "here" => Stands(kardex, entered.quantity)

(* What is in hand may change for one of them. *)
LEMMA EditChanges ==
    ASSUME EditsHave(edit), NEW c \in Forms \cup Requests, NEW e, NEW T, NEW S, e \in EditOf(T, S),
           e.target.quantity \in Int
    PROVE  EditsHave([edit EXCEPT ![c] = e])
<1>1. PICK T0, S0 : edit \in [Forms \cup Requests -> EditOf(T0, S0)]
                    /\ \A t \in T0 : t.quantity \in Int
  BY DEF EditsHave
<1> DEFINE T1 == T0 \cup {e.target}
           S1 == S0 \cup S
<1>2. \A x \in EditOf(T0, S0) : x \in EditOf(T1, S1)
  BY DEF EditOf
<1>3. e \in EditOf(T1, S1)
  BY DEF EditOf
<1>4. \A t \in T1 : t.quantity \in Int
  BY <1>1
<1> HIDE DEF T1, S1
<1>5. [edit EXCEPT ![c] = e] \in [Forms \cup Requests -> EditOf(T1, S1)]
  BY <1>1, <1>2, <1>3
<1> QED BY <1>4, <1>5 DEF EditsHave

(* A target is a quantity and a price.                                     *)
LEMMA TargetsHave == \A t \in Targets : t.quantity \in Int
BY KardexAssumption DEF KardexAssumption, Targets, Nothing, Lot

(* What the empty form holds. *)
LEMMA NoEditHas == \E T, S : NoEdit \in EditOf(T, S) /\ NoEdit.target.quantity \in Int
<1>1. NoEdit \in EditOf({Nothing}, {0, Whole(1)}) /\ NoEdit.target = Nothing
  BY DEF NoEdit, EditOf
<1>2. NoEdit.target.quantity \in Int
  BY <1>1 DEF Nothing
<1> QED BY <1>1, <1>2

(* An edit that ends leaves nothing in hand.                               *)
LEMMA EditEnds ==
    ASSUME EditsHave(edit), NEW c \in Forms \cup Requests
    PROVE  EditsHave([edit EXCEPT ![c] = NoEdit])
<1>1. PICK T, S : NoEdit \in EditOf(T, S) /\ NoEdit.target.quantity \in Int
  BY NoEditHas
<1> QED BY <1>1, EditChanges

(* A form or a request in hand is a record of its own.                     *)
LEMMA EditFields ==
    ASSUME EditsHave(edit), NEW c \in Forms \cup Requests
    PROVE  /\ \E T, S : edit[c] \in EditOf(T, S) /\ \A t \in T : t.quantity \in Int
           /\ edit[c].target.quantity \in Int
<1>1. PICK T, S : edit \in [Forms \cup Requests -> EditOf(T, S)] /\ \A t \in T : t.quantity \in Int
  BY DEF EditsHave
<1>2. edit[c] \in EditOf(T, S)
  BY <1>1
<1>3. edit[c].target \in T
  BY <1>2 DEF EditOf
<1> QED BY <1>1, <1>2, <1>3

(* A purchase, a sale and a return leave the opening as it stands.         *)
LEMMA OthersStand ==
    ASSUME Stands(kardex, entered.quantity), NEW e, e.quantity \in Int,
           e.type \notin {"opening", "reversal"}, kardex' = kardex \o <<e>>, entered' = entered
    PROVE  Stands(kardex, entered.quantity)'
<1>1. PICK m : m = Len(kardex) + 1
  OBVIOUS
<1>2. OneMore(kardex', kardex, e, m)
  BY <1>1, EntryAdded DEF Stands, Balanced
<1>3. Balanced(kardex') /\ Counting(kardex') = Counting(kardex)
  BY <1>2, OtherEntry DEF Stands
<1>4. Counting(kardex) \subseteq DOMAIN kardex
  BY DEF Counting, OfType
<1>5. SumOf(Figures(kardex'), Counting(kardex)) = SumOf(Figures(kardex), Counting(kardex))
  <2>1. AddUp(kardex', kardex, e, m, Counting(kardex))
    BY <1>2, <1>4, EntriesAdd
  <2> QED BY <2>1 DEF AddUp
<1> QED BY <1>3, <1>5 DEF Stands, Lone

(* A correction of what was read when nothing else did stands as it was    *)
(* typed.                                                                  *)
LEMMA PostingStands ==
    ASSUME Stands(kardex, entered.quantity), NEW t, t.quantity \in Int, NEW share,
           kardex' = kardex \o Correction(LiveOpening, share, t), entered' = t
    PROVE  Stands(kardex, entered.quantity)'
BY CorrectionStands DEF Stands

(* At first there is no item. *)
LEMMA OpeningInit == KardexInit => OpeningInv
<1> SUFFICES ASSUME KardexInit PROVE OpeningInv
  OBVIOUS
<1>1. PICK T, S : NoEdit \in EditOf(T, S) /\ NoEdit.target.quantity \in Int
  BY NoEditHas
<1>2. NoEdit \in EditOf({NoEdit.target}, S)
  BY <1>1 DEF EditOf
<1>3. edit \in [Forms \cup Requests -> EditOf({NoEdit.target}, S)]
  BY <1>2 DEF KardexInit
<1>4. EditsHave(edit)
  BY <1>1, <1>3 DEF EditsHave
<1> QED BY <1>4 DEF KardexInit, OpeningInv

(* Creating the item, with an opening or without one. *)
LEMMA CreateItemStands ==
    ASSUME OpeningInv, Unhurt, NEW t \in Targets, CreateItem(t)
    PROVE  OpeningInv'
<1>1. /\ kardex = <<>> /\ item' = "here" /\ entered' = t /\ edit' = edit /\ EditsHave(edit)
      /\ kardex' = kardex \o (IF t = Nothing THEN <<>>
                              ELSE <<Entry("opening", t.quantity, Whole(t.price), 0)>>)
  BY DEF CreateItem, Posted, OpeningInv
<1>2. t.quantity \in Int
  BY TargetsHave
<1>3. Listed(<<>>) /\ DOMAIN <<>> = {}
  BY DEF Listed
<1>4. Counting(<<>>) = {} /\ OfType(<<>>, "opening") = {} /\ OfType(<<>>, "reversal") = {}
  BY <1>3 DEF Counting, OfType
<1>5. Balanced(<<>>)
  <2>1. OfType(<<>>, "opening") \cup OfType(<<>>, "reversal") = Counting(<<>>)
    BY <1>4
  <2> QED BY <1>3, <1>4, <2>1 DEF Balanced
<1>6. CASE t = Nothing
  <2>1. kardex' = <<>> /\ t.quantity = 0
    BY <1>1, <1>6 DEF Nothing
  <2>2. SumOf(Figures(<<>>), {}) = 0
    BY SumEmpty
  <2>3. Stands(kardex', entered'.quantity)
    BY <1>1, <1>4, <1>5, <2>1, <2>2 DEF Stands, Lone
  <2> QED BY <1>1, <2>3 DEF OpeningInv
<1>7. CASE t # Nothing
  <2>1. PICK e : e = Entry("opening", t.quantity, Whole(t.price), 0)
    OBVIOUS
  <2>2. e.type = "opening" /\ e.quantity = t.quantity
    BY <2>1 DEF Entry
  <2>3. PICK m : m = Len(kardex) + 1
    OBVIOUS
  <2>4. kardex' = kardex \o <<e>>
    BY <1>1, <1>7, <2>1
  <2>5. OneMore(kardex', kardex, e, m)
    BY <1>1, <1>2, <1>3, <2>2, <2>3, <2>4, EntryAdded
  <2>6. Balanced(kardex') /\ Counting(kardex') = {m}
    BY <1>1, <1>4, <1>5, <2>2, <2>5, OpeningEntry
  <2>7. m \in DOMAIN kardex' /\ kardex'[m] = e
    BY <2>5 DEF OneMore
  <2>8. SumOf(Figures(kardex'), {m}) = e.quantity
    BY <2>6, <2>7, OneCounts DEF Balanced
  <2>9. Stands(kardex', entered'.quantity)
    BY <1>1, <2>2, <2>6, <2>8 DEF Stands, Lone
  <2> QED BY <1>1, <2>9 DEF OpeningInv
<1> QED BY <1>6, <1>7

(* Every other entry of the item. *)
LEMMA TradeStands ==
    ASSUME OpeningInv, Unhurt,
           \/ \E g \in Purchases : BuyIn(g)
           \/ \E q \in Sales : SellOut(q)
           \/ \E n \in DOMAIN kardex : TakeBack(n)
    PROVE  OpeningInv'
<1>1. item = "here" /\ item' = item /\ entered' = entered /\ edit' = edit
  BY DEF BuyIn, SellOut, TakeBack
<1>2. EditsHave(edit) /\ Stands(kardex, entered.quantity)
  BY <1>1 DEF OpeningInv
<1>3. \E e : /\ e.quantity \in Int /\ e.type \notin {"opening", "reversal"}
             /\ kardex' = kardex \o <<e>>
  <2>1. CASE \E g \in Purchases : BuyIn(g)
    <3>1. PICK g \in Purchases : BuyIn(g)
      BY <2>1
    <3> DEFINE e == Entry("purchase", g.quantity, Whole(g.price), 0)
    <3>2. kardex' = kardex \o <<e>>
      BY <3>1 DEF BuyIn, Posted
    <3>3. e.quantity \in Int /\ e.type \notin {"opening", "reversal"}
      BY KardexAssumption DEF KardexAssumption, Entry, Lot
    <3> QED BY <3>2, <3>3
  <2>2. CASE \E q \in Sales : SellOut(q)
    <3>1. PICK q \in Sales : SellOut(q)
      BY <2>2
    <3> DEFINE e == Entry("sale", -q, average, 0)
    <3>2. kardex' = kardex \o <<e>>
      BY <3>1 DEF SellOut, Posted
    <3>3. e.quantity \in Int /\ e.type \notin {"opening", "reversal"}
      BY KardexAssumption DEF KardexAssumption, Entry
    <3> QED BY <3>2, <3>3
  <2>3. CASE \E n \in DOMAIN kardex : TakeBack(n)
    <3>1. PICK n \in DOMAIN kardex : TakeBack(n)
      BY <2>3
    <3> DEFINE e == Entry("return", -kardex[n].quantity, kardex[n].cost, n)
    <3>2. kardex' = kardex \o <<e>>
      BY <3>1 DEF TakeBack, Posted
    <3>3. kardex[n].quantity \in Int
      BY <1>2, <3>1 DEF Stands, Balanced, Listed
    <3>4. e.quantity \in Int /\ e.type \notin {"opening", "reversal"}
      BY <3>3 DEF Entry
    <3> QED BY <3>2, <3>4
  <2> QED BY <2>1, <2>2, <2>3
<1>4. Stands(kardex, entered.quantity)'
  BY <1>1, <1>2, <1>3, OthersStand
<1> QED BY <1>1, <1>2, <1>4 DEF OpeningInv

(* The form: it holds what counts when it opens or what is typed, and what *)
(* it saves is that.                                                       *)
LEMMA FormStands ==
    ASSUME OpeningInv, Unhurt, NEW c \in Forms,
           \/ OpenForm(c) \/ SaveForm(c) \/ CloseForm(c)
           \/ \E t \in Targets : TypeOpening(c, t)
    PROVE  OpeningInv'
<1>1. c \in Forms \cup Requests /\ EditsHave(edit)
  BY DEF OpeningInv
<1>2. PICK T, S : edit[c] \in EditOf(T, S)
  BY <1>1, EditFields
<1>3. CASE OpenForm(c)
  <2>1. item = "here" /\ UNCHANGED <<item, kardex, entered>>
        /\ edit' = [edit EXCEPT ![c].pc = "open", ![c].target = OpeningFigures]
    BY <1>3 DEF OpenForm
  <2>2. Stands(kardex, entered.quantity) /\ OpeningFigures.quantity \in Int
    BY <2>1, LiveCounts DEF OpeningInv, Stands
  <2>3. PICK e : e = [edit[c] EXCEPT !.pc = "open", !.target = OpeningFigures]
    OBVIOUS
  <2>4. e \in EditOf({OpeningFigures}, S) /\ e.target = OpeningFigures
    BY <1>2, <2>3 DEF EditOf
  <2>5. edit' = [edit EXCEPT ![c] = e]
    BY <2>1, <2>3
  <2>6. EditsHave(edit')
    BY <1>1, <2>2, <2>4, <2>5, EditChanges
  <2> QED BY <2>1, <2>2, <2>6 DEF OpeningInv
<1>4. ASSUME NEW t \in Targets, TypeOpening(c, t) PROVE OpeningInv'
  <2>1. UNCHANGED <<item, kardex, entered>>
        /\ edit' = [edit EXCEPT ![c].target = t, ![c].own = TRUE]
    BY <1>4 DEF TypeOpening
  <2>2. PICK e : e = [edit[c] EXCEPT !.target = t, !.own = TRUE]
    OBVIOUS
  <2>3. e \in EditOf({t}, S) /\ e.target = t
    BY <1>2, <2>2 DEF EditOf
  <2>4. edit' = [edit EXCEPT ![c] = e]
    BY <2>1, <2>2
  <2>5. EditsHave(edit')
    BY <1>1, <2>3, <2>4, EditChanges, TargetsHave
  <2> QED BY <2>1, <2>5 DEF OpeningInv, Unhurt
<1>5. CASE CloseForm(c)
  <2>1. UNCHANGED <<item, kardex, entered>> /\ edit' = [edit EXCEPT ![c] = NoEdit]
    BY <1>5 DEF CloseForm
  <2> QED BY <1>1, <2>1, EditEnds DEF OpeningInv, Unhurt
<1>6. CASE SaveForm(c)
  <2> DEFINE t == edit[c].target
  <2>1. item = "here" /\ item' = item /\ edit' = [edit EXCEPT ![c] = NoEdit]
    BY <1>6 DEF SaveForm
  <2>2. EditsHave(edit') /\ Stands(kardex, entered.quantity) /\ t.quantity \in Int
    BY <1>1, <2>1, EditEnds, EditFields DEF OpeningInv
  <2>3. CASE t = OpeningFigures
    <3>1. kardex' = kardex /\ entered' \in {t, entered}
      BY <1>6, <2>3 DEF SaveForm
    <3>2. t.quantity = entered.quantity
      BY <2>2, <2>3, LiveCounts DEF Stands
    <3>3. Stands(kardex, entered.quantity)'
      BY <2>2, <3>1, <3>2
    <3> QED BY <2>1, <2>2, <3>3 DEF OpeningInv
  <2>4. CASE t # OpeningFigures /\ edit[c].own
    <3>1. entered' = t /\ Posted(Correction(LiveOpening,
              IF LiveOpening = 0 THEN Whole(1) ELSE Retention(LiveOpening), t))
      BY <1>6, <2>4 DEF SaveForm
    <3>2. PICK share : kardex' = kardex \o Correction(LiveOpening, share, t)
      BY <3>1 DEF Posted
    <3>3. Stands(kardex, entered.quantity)'
      BY <2>2, <3>1, <3>2, PostingStands
    <3> QED BY <2>1, <2>2, <3>3 DEF OpeningInv
  <2>5. CASE t # OpeningFigures /\ ~edit[c].own
    <3>1. outdated'
      BY <1>6, <2>5 DEF SaveForm
    <3> QED BY <3>1 DEF OpeningInv, Unhurt
  <2> QED BY <2>3, <2>4, <2>5
<1> QED BY <1>3, <1>4, <1>5, <1>6

(* The request: it may have been overtaken, or it corrects what counts.    *)
LEMMA RequestStands ==
    ASSUME OpeningInv, Unhurt, NEW c \in Requests,
           \/ Weigh(c) \/ PostCorrection(c) \/ RequestFails(c)
           \/ \E t \in Targets : ReadLive(c, t)
    PROVE  OpeningInv'
<1>1. c \in Forms \cup Requests /\ EditsHave(edit)
  BY DEF OpeningInv
<1>2. PICK T, S : edit[c] \in EditOf(T, S) /\ \A t \in T : t.quantity \in Int
  BY <1>1, EditFields
<1>3. CASE Weigh(c)
  <2>1. UNCHANGED <<item, kardex, entered>>
        /\ edit' = [edit EXCEPT ![c].pc = "posting", ![c].share = Retention(edit[c].live)]
    BY <1>3 DEF Weigh
  <2>2. PICK share : share = Retention(edit[c].live)
    OBVIOUS
  <2>3. PICK e : e = [edit[c] EXCEPT !.pc = "posting", !.share = share]
    OBVIOUS
  <2>4. e \in EditOf(T, S \cup {share}) /\ e.target \in T
    BY <1>2, <2>3 DEF EditOf
  <2>5. edit' = [edit EXCEPT ![c] = e]
    BY <2>1, <2>2, <2>3
  <2>6. EditsHave(edit')
    BY <1>1, <1>2, <2>4, <2>5, EditChanges
  <2> QED BY <2>1, <2>6 DEF OpeningInv, Unhurt
<1>4. ASSUME NEW t \in Targets, ReadLive(c, t) PROVE OpeningInv'
  <2> DEFINE e == [pc |-> IF LiveOpening = 0 THEN "posting" ELSE "weighing",
                   target |-> t, own |-> TRUE, live |-> LiveOpening, share |-> Whole(1)]
  <2>1. UNCHANGED <<item, kardex, entered>> /\ edit' = [edit EXCEPT ![c] = e]
    BY <1>4 DEF ReadLive
  <2>2. e \in EditOf({t}, {LiveOpening, Whole(1)}) /\ e.target = t
    BY DEF EditOf
  <2> HIDE DEF e
  <2>3. EditsHave(edit')
    BY <1>1, <2>1, <2>2, EditChanges, TargetsHave
  <2> QED BY <2>1, <2>3 DEF OpeningInv, Unhurt
<1>5. CASE RequestFails(c)
  <2>1. UNCHANGED <<item, kardex, entered>> /\ edit' = [edit EXCEPT ![c] = NoEdit]
    BY <1>5 DEF RequestFails
  <2> QED BY <1>1, <2>1, EditEnds DEF OpeningInv, Unhurt
<1>6. CASE PostCorrection(c)
  <2> DEFINE t == edit[c].target
  <2>1. /\ item = "here" /\ item' = item /\ edit' = [edit EXCEPT ![c] = NoEdit] /\ entered' = t
        /\ Posted(Correction(edit[c].live, edit[c].share, t))
        /\ overtook' = (overtook \/ edit[c].live # LiveOpening \/ edit[c].share # Retention(edit[c].live))
    BY <1>6 DEF PostCorrection
  <2>2. EditsHave(edit') /\ Stands(kardex, entered.quantity) /\ t.quantity \in Int
    BY <1>1, <2>1, EditEnds, EditFields DEF OpeningInv
  <2>3. CASE edit[c].live # LiveOpening
    BY <2>1, <2>3 DEF OpeningInv, Unhurt
  <2>4. CASE edit[c].live = LiveOpening
    <3>1. PICK share : kardex' = kardex \o Correction(LiveOpening, share, t)
      BY <2>1, <2>4 DEF Posted
    <3>2. Stands(kardex, entered.quantity)'
      BY <2>1, <2>2, <3>1, PostingStands
    <3> QED BY <2>1, <2>2, <3>2 DEF OpeningInv
  <2> QED BY <2>3, <2>4
<1> QED BY <1>3, <1>4, <1>5, <1>6

(* Every step keeps the opening as it stands, or hurts it for a cause.     *)
LEMMA OpeningStep == OpeningInv /\ [KardexNext]_kardexVars => OpeningInv'
<1> SUFFICES ASSUME OpeningInv, [KardexNext]_kardexVars PROVE OpeningInv'
  OBVIOUS
<1>1. CASE UNCHANGED kardexVars
  BY <1>1 DEF kardexVars, OpeningInv, Unhurt
<1>2. ASSUME ~Unhurt, KardexNext PROVE OpeningInv'
  <2>1. CASE \/ (\E t \in Targets : CreateItem(t))
             \/ (\E g \in Purchases : BuyIn(g)) \/ (\E q \in Sales : SellOut(q))
             \/ (\E n \in DOMAIN kardex : TakeBack(n))
             \/ CheckDraft \/ SaveDraft \/ DropDraft \/ RemoveItem
    <3>1. overtook' = overtook /\ outdated' = outdated
      BY <2>1 DEF CreateItem, BuyIn, SellOut, TakeBack, CheckDraft, SaveDraft, DropDraft, RemoveItem
    <3> QED BY <1>2, <3>1 DEF Unhurt, OpeningInv
  <2>2. ASSUME NEW c \in Forms, OpenForm(c) \/ CloseForm(c) \/ \E t \in Targets : TypeOpening(c, t)
        PROVE  ~Unhurt'
    <3>1. overtook' = overtook /\ outdated' = outdated
      BY <2>2 DEF OpenForm, CloseForm, TypeOpening
    <3> QED BY <1>2, <3>1 DEF Unhurt
  <2>3. ASSUME NEW c \in Forms, SaveForm(c) PROVE ~Unhurt'
    BY <1>2, <2>3 DEF SaveForm, Unhurt
  <2>4. ASSUME NEW c \in Requests, Weigh(c) \/ RequestFails(c) \/ \E t \in Targets : ReadLive(c, t)
        PROVE  ~Unhurt'
    <3>1. overtook' = overtook /\ outdated' = outdated
      BY <2>4 DEF Weigh, RequestFails, ReadLive
    <3> QED BY <1>2, <3>1 DEF Unhurt
  <2>5. ASSUME NEW c \in Requests, PostCorrection(c) PROVE ~Unhurt'
    BY <1>2, <2>5 DEF PostCorrection, Unhurt
  <2>6. ~Unhurt' => OpeningInv'
    BY DEF OpeningInv
  <2>7. CASE \E c \in Forms : OpenForm(c) \/ SaveForm(c) \/ CloseForm(c)
                             \/ \E t \in Targets : TypeOpening(c, t)
    BY <2>2, <2>3, <2>6, <2>7
  <2>8. CASE \E c \in Requests : Weigh(c) \/ PostCorrection(c) \/ RequestFails(c)
                                \/ \E t \in Targets : ReadLive(c, t)
    BY <2>4, <2>5, <2>6, <2>8
  <2> QED BY <1>2, <2>1, <2>7, <2>8 DEF KardexNext
<1>3. ASSUME Unhurt, NEW t \in Targets, CreateItem(t) PROVE OpeningInv'
  BY <1>3, CreateItemStands
<1>4. CASE Unhurt /\ ((\E g \in Purchases : BuyIn(g)) \/ (\E q \in Sales : SellOut(q))
                      \/ (\E n \in DOMAIN kardex : TakeBack(n)))
  BY <1>4, TradeStands
<1>5. CASE Unhurt /\ \E c \in Forms : OpenForm(c) \/ SaveForm(c) \/ CloseForm(c)
                                      \/ \E t \in Targets : TypeOpening(c, t)
  BY <1>5, FormStands
<1>6. CASE Unhurt /\ \E c \in Requests : Weigh(c) \/ PostCorrection(c) \/ RequestFails(c)
                                         \/ \E t \in Targets : ReadLive(c, t)
  BY <1>6, RequestStands
<1>7. CASE CheckDraft \/ SaveDraft \/ DropDraft
  <2>1. UNCHANGED <<item, kardex, edit, entered, overtook, outdated>>
    BY <1>7 DEF CheckDraft, SaveDraft, DropDraft
  <2> QED BY <2>1 DEF OpeningInv, Unhurt
<1>8. CASE RemoveItem
  <2>1. item' = "gone" /\ UNCHANGED <<edit, overtook, outdated>>
    BY <1>8 DEF RemoveItem
  <2> QED BY <2>1 DEF OpeningInv, Unhurt
<1> QED BY <1>1, <1>2, <1>3, <1>4, <1>5, <1>6, <1>7, <1>8 DEF KardexNext

(* However often the opening of an item is corrected, by forms and by      *)
(* requests of any number, with what is bought and sold in between, the    *)
(* kardex holds the one last entered on purpose; but for a request that    *)
(* was overtaken and a form that sent an old opening back.                 *)
THEOREM OpeningsStand == KardexSpec => []OpeningAsTyped
<1>1. OpeningInv => OpeningAsTyped
  <2> SUFFICES ASSUME OpeningInv, item = "here", Unhurt
               PROVE  MapThenSumSet(LAMBDA n : kardex[n].quantity,
                                    EntriesOf({"opening", "reversal"})) = entered.quantity
    BY DEF OpeningAsTyped, Unhurt
  <2> DEFINE both == EntriesOf({"opening", "reversal"})
  <2>1. Stands(kardex, entered.quantity)
    BY DEF OpeningInv
  <2>2. both = OfType(kardex, "opening") \cup OfType(kardex, "reversal")
    BY DEF EntriesOf, OfType
  <2>3. both \subseteq DOMAIN kardex
    BY DEF EntriesOf
  <2>4. IsFiniteSet(both)
    <3>1. DOMAIN kardex = 1..Len(kardex) /\ Len(kardex) \in Nat
      BY <2>1 DEF Stands, Balanced, Listed
    <3>2. IsFiniteSet(DOMAIN kardex)
      BY <3>1, FS_Interval
    <3> HIDE DEF both
    <3> QED BY <2>3, <3>2, FS_Subset
  <2> HIDE DEF both
  <2>5. MapThenSumSet(LAMBDA n : kardex[n].quantity, both) = SumOf(Figures(kardex), both)
    BY <2>3, <2>4, SumOfEntries
  <2>6. SumOf(Figures(kardex), both) = entered.quantity
    BY <2>1, <2>2 DEF Stands, Balanced
  <2> QED BY <2>5, <2>6 DEF both
<1> QED BY <1>1, OpeningInit, OpeningStep, PTL DEF KardexSpec

-----------------------------------------------------------------------------
(* Fractions, and their lowest terms. *)

(* A set of numbers that is not empty has a least one. *)
LEMMA LeastExists ==
    ASSUME NEW S \in SUBSET Nat, S # {}
    PROVE  \E x \in S : \A y \in S : x <= y
<1>1. PICK x \in S : \A y \in S : <<y, x>> \notin OpToRel(<, Nat)
  BY NatLessThanWellFounded, WFMin
<1>2. ASSUME NEW y \in S PROVE x <= y
  <2>1. x \in Nat /\ y \in Nat /\ <<y, x>> \in Nat \X Nat
    OBVIOUS
  <2>2. <<y, x>> \notin {ss \in Nat \X Nat : ss[1] < ss[2]}
    BY <1>1 DEF OpToRel
  <2> QED BY <2>1, <2>2
<1> QED BY <1>2

(* What a number leaves when it is divided. *)
LEMMA Divided ==
    ASSUME NEW n \in Nat, NEW k \in Nat \ {0}
    PROVE  n = k * (n \div k) + (n % k) /\ n \div k \in Nat /\ n % k \in 0..(k - 1)
OBVIOUS

(* What is left of a multiple.                                             *)
LEMMA Multiple ==
    ASSUME NEW k \in Nat \ {0}, NEW a \in Nat
    PROVE  (k * a) % k = 0 /\ (k * a) \div k = a
OBVIOUS

(* A factor that both sides have may go.                                   *)
LEMMA Cancel ==
    ASSUME NEW a \in Int, NEW b \in Int, NEW c \in Nat \ {0}, c * a = c * b
    PROVE  a = b
OBVIOUS

(* The fractions, as pairs. *)
Fractions == Nat \X (Nat \ {0})

(* x is n over d. *)
Is(x, n, d) == x[1] * d = n * x[2]

(* n over d is a over b when both are divided by g, the most there is.     *)
Reduces(n, d, g, a, b) ==
    /\ Fraction(n, d) = <<a, b>>
    /\ n = g * a /\ d = g * b
    /\ \A h \in Nat \ {0}, i, j \in Nat : n = h * i /\ d = h * j => h <= g

(* Fraction divides by the greatest number that divides both.              *)
LEMMA FractionIs ==
    ASSUME NEW n \in Nat, NEW d \in Nat \ {0}
    PROVE  \E g \in Nat \ {0}, a \in Nat, b \in Nat \ {0} : Reduces(n, d, g, a, b)
<1> DEFINE both == {k \in 1..d : n % k = 0 /\ d % k = 0}
<1>1. PICK g \in both : \A k \in both : k <= g
  <2>1. 1 \in both
    <3>1. n = 1 * n /\ d = 1 * d /\ 1 \in 1..d
      OBVIOUS
    <3>2. n % 1 = 0 /\ d % 1 = 0
      BY <3>1, Multiple
    <3> QED BY <3>1, <3>2
  <2>2. d \in Nat /\ both \in SUBSET (1..d) /\ both # {}
    BY <2>1
  <2> HIDE DEF both
  <2> QED BY <2>2, LastExists
<1>2. Max(both) = g
  <2>1. g \in both /\ (\A k \in both : g >= k) /\ \A k \in both : k \in Nat
    BY <1>1
  <2> HIDE DEF both
  <2>2. \A x \in both : (\A y \in both : x >= y) => x = g
    BY <2>1
  <2> QED BY <2>1, <2>2 DEF Max
<1>3. g \in Nat \ {0} /\ n % g = 0 /\ d % g = 0
  OBVIOUS
<1>4. PICK a, b : a = n \div g /\ b = d \div g
  OBVIOUS
<1>5. n = g * a /\ d = g * b /\ a \in Nat /\ b \in Nat
  BY <1>3, <1>4, Divided
<1>6. b # 0
  BY <1>3, <1>5
<1>7. Fraction(n, d) = <<a, b>>
  BY <1>2, <1>4 DEF Fraction
<1>8. ASSUME NEW h \in Nat \ {0}, NEW i \in Nat, NEW j \in Nat, n = h * i, d = h * j
      PROVE  h <= g
  <2>1. n % h = 0 /\ d % h = 0
    BY <1>8, Multiple
  <2>2. h <= d
    <3>1. j # 0
      BY <1>8
    <3> QED BY <1>8, <3>1
  <2>3. h \in both
    BY <2>1, <2>2
  <2> HIDE DEF both
  <2> QED BY <1>1, <2>3
<1>9. Reduces(n, d, g, a, b)
  BY <1>5, <1>7, <1>8 DEF Reduces
<1> HIDE DEF both
<1> QED BY <1>3, <1>5, <1>6, <1>9

(* Every fraction has a lowest form, which all fractions of its ratio have.*)
LEMMA LowestForm ==
    ASSUME NEW n \in Nat, NEW d \in Nat \ {0}
    PROVE  \E a \in Nat, b \in Nat \ {0} :
               /\ a * d = n * b
               /\ \A m \in Nat, c \in Nat \ {0} : m * b = a * c => Fraction(m, c) = <<a, b>>
<1> DEFINE below == {b \in Nat \ {0} : \E a \in Nat : a * d = n * b}
<1>1. PICK b \in below : \A e \in below : b <= e
  <2>1. d \in below /\ below \in SUBSET Nat
    OBVIOUS
  <2> HIDE DEF below
  <2> QED BY <2>1, LeastExists
<1>2. PICK a \in Nat : a * d = n * b
  OBVIOUS
<1>3. b \in Nat \ {0}
  OBVIOUS
<1>4. ASSUME NEW m \in Nat, NEW c \in Nat \ {0}, m * b = a * c
      PROVE  \E q \in Nat \ {0} : c = b * q /\ m = a * q
  <2>1. PICK q, r : q = c \div b /\ r = c % b
    OBVIOUS
  <2>2. c = b * q + r /\ q \in Nat /\ r \in 0..(b - 1)
    BY <1>3, <2>1, Divided
  <2>3. PICK s \in Int : s = m - a * q
    BY <2>2
  <2>4. s * b = a * r
    <3>1. s * b = m * b - a * q * b
      BY <1>3, <2>2, <2>3
    <3>2. a * c = a * (b * q) + a * r
      BY <1>3, <2>2
    <3> QED BY <1>3, <1>4, <2>2, <3>1, <3>2
  <2>5. s >= 0
    BY <1>3, <2>2, <2>4
  <2>6. s * d = n * r
    <3>1. (s * b) * d = r * (a * d)
      BY <1>3, <2>2, <2>4
    <3>2. b * (s * d) = b * (n * r)
      BY <1>2, <1>3, <2>2, <3>1
    <3>3. s * d \in Int /\ n * r \in Int
      BY <2>2
    <3> QED BY <1>3, <3>2, <3>3, Cancel
  <2>7. r = 0
    <3>1. SUFFICES ASSUME r # 0 PROVE FALSE
      OBVIOUS
    <3>2. r \in Nat \ {0} /\ s \in Nat /\ r < b
      BY <1>3, <2>2, <2>5, <3>1
    <3>3. r \in below
      BY <2>6, <3>2
    <3> QED BY <1>1, <1>3, <3>2, <3>3
  <2>8. c = b * q /\ q # 0
    BY <1>3, <2>2, <2>7
  <2>9. m = a * q
    <3>1. s * b = 0
      BY <2>2, <2>4, <2>7
    <3>2. s = 0
      BY <1>3, <3>1
    <3> QED BY <2>2, <2>3, <3>2
  <2> QED BY <2>2, <2>8, <2>9
<1>5. ASSUME NEW m \in Nat, NEW c \in Nat \ {0}, m * b = a * c
      PROVE  Fraction(m, c) = <<a, b>>
  <2>1. PICK q \in Nat \ {0} : c = b * q /\ m = a * q
    BY <1>4, <1>5
  <2>2. PICK g \in Nat \ {0}, i \in Nat, j \in Nat \ {0} : Reduces(m, c, g, i, j)
    BY FractionIs
  <2>3. i * b = a * j
    <3>1. g * (i * b) = g * (a * j)
      BY <1>3, <1>5, <2>2 DEF Reduces
    <3> QED BY <1>3, <3>1, Cancel
  <2>4. PICK o \in Nat \ {0} : j = b * o /\ i = a * o
    BY <1>4, <2>3
  <2>5. q = g * o
    <3>1. b * q = b * (g * o)
      BY <1>3, <2>1, <2>2, <2>4 DEF Reduces
    <3> QED BY <1>3, <3>1, Cancel
  <2>6. q <= g
    <3>1. m = q * a /\ c = q * b
      BY <1>3, <2>1
    <3> QED BY <1>3, <2>2, <3>1 DEF Reduces
  <2>7. o = 1
    BY <2>5, <2>6
  <2> QED BY <1>3, <2>2, <2>4, <2>7 DEF Reduces
<1> QED BY <1>2, <1>3, <1>5

(* Equal fractions have one lowest form, which is equal to them.           *)
LEMMA FractionSame ==
    ASSUME NEW n \in Nat, NEW d \in Nat \ {0}, NEW m \in Nat, NEW c \in Nat \ {0}, n * c = m * d
    PROVE  Fraction(n, d) = Fraction(m, c)
<1>1. PICK a \in Nat, b \in Nat \ {0} :
          /\ a * d = n * b
          /\ \A i \in Nat, j \in Nat \ {0} : i * b = a * j => Fraction(i, j) = <<a, b>>
  BY LowestForm
<1>2. n * b = a * d
  BY <1>1
<1>3. m * b = a * c
  <2>1. d * (m * b) = d * (a * c)
    <3>1. d * (m * b) = (m * d) * b
      OBVIOUS
    <3>2. d * (a * c) = (a * d) * c
      OBVIOUS
    <3>3. (n * c) * b = (n * b) * c
      OBVIOUS
    <3> QED BY <1>1, <3>1, <3>2, <3>3
  <2> QED BY <2>1, Cancel
<1> QED BY <1>1, <1>2, <1>3

(* What is in lowest terms. *)
Lowest(x) == x \in Fractions /\ Fraction(x[1], x[2]) = x

(* Fraction gives the lowest terms of what it is given.                    *)
LEMMA FractionLowest ==
    ASSUME NEW n \in Nat, NEW d \in Nat \ {0}
    PROVE  Lowest(Fraction(n, d)) /\ Is(Fraction(n, d), n, d)
<1>0. PICK g \in Nat \ {0}, a \in Nat, b \in Nat \ {0} : Reduces(n, d, g, a, b)
  BY FractionIs
<1>1. Fraction(n, d) = <<a, b>> /\ n = g * a /\ d = g * b
  BY <1>0 DEF Reduces
<1>2. a * d = n * b
  BY <1>1
<1>3. Fraction(a, b) = Fraction(n, d)
  BY <1>2, FractionSame
<1> QED BY <1>1, <1>2, <1>3 DEF Lowest, Is, Fractions

(* A lowest form is what any fraction of its ratio comes to.               *)
LEMMA LowestIsOne ==
    ASSUME NEW x, Lowest(x), NEW n \in Nat, NEW d \in Nat \ {0}, Is(x, n, d)
    PROVE  Fraction(n, d) = x
<1>1. PICK a \in Nat, b \in Nat \ {0} : x = <<a, b>>
  BY DEF Lowest, Fractions
<1>2. a * d = n * b
  BY <1>1 DEF Is
<1> QED BY <1>1, <1>2, FractionSame DEF Lowest

-----------------------------------------------------------------------------
(* What averages come to. *)

(* A fraction over others: from one common measure to the next. *)
LEMMA IsThrough ==
    ASSUME NEW x \in Fractions, NEW n \in Int, NEW d \in Nat \ {0}, Is(x, n, d),
           NEW v \in Int, NEW w \in Nat \ {0}, n * w = v * d
    PROVE  Is(x, v, w)
<1>1. PICK a \in Nat, b \in Nat \ {0} : x = <<a, b>>
  BY DEF Fractions
<1>2. a * d = n * b
  BY <1>1 DEF Is
<1>3. d * (a * w) = d * (v * b)
  BY <1>2
<1>4. a * w = v * b
  BY <1>3, Cancel
<1> QED BY <1>1, <1>4 DEF Is

(* a of x and b of y, over c, are v over w. *)
Blends(a, x, b, y, c, v, w) == (a * x[1] * y[2] + b * y[1] * x[2]) * w = v * (c * x[2] * y[2])

(* What a blend of two fractions comes to, where it does not fall below    *)
(* nothing.                                                                *)
LEMMA BlendIs ==
    ASSUME NEW a \in Int, NEW x \in Fractions, NEW b \in Int, NEW y \in Fractions,
           NEW c \in Nat \ {0}, NEW v \in Nat, NEW w \in Nat \ {0}, Blends(a, x, b, y, c, v, w)
    PROVE  Lowest(Blend(a, x, b, y, c)) /\ Is(Blend(a, x, b, y, c), v, w)
<1>1. PICK x1 \in Nat, x2 \in Nat \ {0} : x = <<x1, x2>>
  BY DEF Fractions
<1>2. PICK y1 \in Nat, y2 \in Nat \ {0} : y = <<y1, y2>>
  BY DEF Fractions
<1>3. PICK n \in Int : n = a * x1 * y2 + b * y1 * x2
  OBVIOUS
<1>4. PICK d \in Nat \ {0} : d = c * x2 * y2
  OBVIOUS
<1>5. n * w = v * d
  BY <1>1, <1>2, <1>3, <1>4 DEF Blends
<1>6. n \in Nat
  BY <1>5
<1>7. Blend(a, x, b, y, c) = Fraction(n, d)
  BY <1>1, <1>2, <1>3, <1>4, <1>6 DEF Blend
<1>8. Lowest(Fraction(n, d)) /\ Is(Fraction(n, d), n, d)
  BY <1>6, FractionLowest
<1>9. Is(Fraction(n, d), v, w)
  BY <1>5, <1>6, <1>8, IsThrough DEF Lowest
<1> QED BY <1>7, <1>8, <1>9

(* s units at the average a are worth v over w. *)
Worth(s, a, v, w) == s * a[1] * w = v * a[2]

(* What the average does when goods come in. *)
LEMMA AddingIs ==
    ASSUME NEW a \in Fractions, NEW s \in Nat, NEW g \in Nat \ {0}, NEW r \in Nat,
           NEW v \in Nat, NEW w \in Nat \ {0}, Worth(s, a, v, w)
    PROVE  /\ Lowest(AverageAfterAdding(a, s, g, Whole(r)))
           /\ Worth(s + g, AverageAfterAdding(a, s, g, Whole(r)), v + g * r * w, w)
<1>1. PICK a1 \in Nat, a2 \in Nat \ {0} : a = <<a1, a2>>
  BY DEF Fractions
<1>2. PICK b : b = AverageAfterAdding(a, s, g, Whole(r))
  OBVIOUS
<1>3. PICK y : y = Whole(r)
  OBVIOUS
<1>4. y = <<r, 1>> /\ y \in Fractions /\ s + g \in Nat \ {0}
  BY <1>3 DEF Whole, Fractions
<1>5. PICK n \in Nat : n = v + g * r * w
  OBVIOUS
<1>6. PICK m \in Nat \ {0} : m = (s + g) * w
  OBVIOUS
<1>7. (s * a1 * 1 + g * r * a2) * m = n * ((s + g) * a2 * 1)
  <2>1. s * a1 * w = v * a2
    BY <1>1 DEF Worth
  <2>2. PICK k \in Int : k = s * a1 * 1 + g * r * a2
    OBVIOUS
  <2>3. k * w = n * a2
    BY <1>5, <2>1, <2>2
  <2>4. PICK t \in Nat \ {0} : t = s + g
    OBVIOUS
  <2>5. k * (t * w) = n * (t * a2 * 1)
    BY <2>3
  <2> QED BY <1>6, <2>2, <2>4, <2>5
<1>8. Lowest(b) /\ Is(b, n, m)
  <2>1. PICK t \in Nat \ {0} : t = s + g
    OBVIOUS
  <2>2. (s * a[1] * y[2] + g * y[1] * a[2]) * m = n * (t * a[2] * y[2])
    BY <1>1, <1>4, <1>7, <2>1, Zenon
  <2>3. Blends(s, a, g, y, t, n, m)
    BY <2>2 DEF Blends
  <2>4. s \in Int /\ g \in Int
    OBVIOUS
  <2>5. Lowest(Blend(s, a, g, y, t)) /\ Is(Blend(s, a, g, y, t), n, m)
    BY <1>4, <2>3, <2>4, BlendIs
  <2> QED BY <1>2, <1>3, <2>1, <2>5 DEF AverageAfterAdding
<1>9. PICK b1 \in Nat, b2 \in Nat \ {0} : b = <<b1, b2>>
  BY <1>8 DEF Lowest, Fractions
<1>10. (s + g) * b1 * w = n * b2
  <2>1. b1 * m = n * b2
    BY <1>8, <1>9 DEF Is
  <2> QED BY <1>6, <2>1
<1> QED BY <1>2, <1>5, <1>8, <1>9, <1>10 DEF Worth

(* How far the average a of s units and the one b that they would have had *)
(* are apart, when the opening had q units at p that are still there for   *)
(* the share u, and p1 is what they should have cost.                      *)
Apart(s, a, b, u, q, p, p1) ==
    \E w \in Nat \ {0}, k \in Nat, v \in Nat, v1 \in Nat :
        /\ k <= w /\ Is(u, k, w)
        /\ Worth(s, a, v, w) /\ Worth(s, b, v1, w)
        /\ v1 = v + k * q * (p1 - p)

(* An opening is there in full.                                            *)
LEMMA ApartFirst ==
    ASSUME NEW s \in Nat, NEW a \in Fractions, NEW q \in Nat \ {0}, NEW p \in Nat, NEW p1 \in Nat
    PROVE  Apart(s + q, AverageAfterAdding(a, s, q, Whole(p)),
                 AverageAfterAdding(a, s, q, Whole(p1)), Whole(1), q, p, p1)
<1>1. PICK a1 \in Nat, w \in Nat \ {0} : a = <<a1, w>>
  BY DEF Fractions
<1>2. PICK v \in Nat : v = s * a1
  OBVIOUS
<1>3. Worth(s, a, v, w)
  BY <1>1, <1>2 DEF Worth
<1>4. PICK n \in Nat, n1 \in Nat : n = v + q * p * w /\ n1 = v + q * p1 * w
  OBVIOUS
<1>5. /\ Worth(s + q, AverageAfterAdding(a, s, q, Whole(p)), n, w)
      /\ Worth(s + q, AverageAfterAdding(a, s, q, Whole(p1)), n1, w)
  BY <1>3, <1>4, AddingIs
<1>6. Is(Whole(1), w, w)
  BY DEF Is, Whole
<1>7. n1 = n + w * q * (p1 - p)
  BY <1>4
<1> QED BY <1>5, <1>6, <1>7 DEF Apart

(* What comes in adds to both alike. *)
LEMMA ApartBuy ==
    ASSUME NEW s \in Nat, NEW a \in Fractions, NEW b \in Fractions, NEW u, NEW q \in Nat \ {0},
           NEW p \in Nat, NEW p1 \in Nat, Apart(s, a, b, u, q, p, p1),
           NEW g \in Nat \ {0}, NEW r \in Nat
    PROVE  Apart(s + g, AverageAfterAdding(a, s, g, Whole(r)),
                 AverageAfterAdding(b, s, g, Whole(r)), u, q, p, p1)
<1>1. PICK w \in Nat \ {0}, k \in Nat, v \in Nat, v1 \in Nat :
          /\ k <= w /\ Is(u, k, w)
          /\ Worth(s, a, v, w) /\ Worth(s, b, v1, w)
          /\ v1 = v + k * q * (p1 - p)
  BY DEF Apart
<1>2. PICK n \in Nat, n1 \in Nat : n = v + g * r * w /\ n1 = v1 + g * r * w
  OBVIOUS
<1>3. /\ Worth(s + g, AverageAfterAdding(a, s, g, Whole(r)), n, w)
      /\ Worth(s + g, AverageAfterAdding(b, s, g, Whole(r)), n1, w)
  BY <1>1, <1>2, AddingIs
<1>4. n1 = n + k * q * (p1 - p)
  BY <1>1, <1>2
<1> QED BY <1>1, <1>3, <1>4 DEF Apart

(* What is sold takes its share of everything. *)
LEMMA ApartSell ==
    ASSUME NEW s \in Nat \ {0}, NEW a \in Fractions, NEW b \in Fractions, NEW u \in Fractions,
           NEW q \in Nat \ {0}, NEW p \in Nat, NEW p1 \in Nat, Apart(s, a, b, u, q, p, p1),
           NEW l \in Nat, l <= s
    PROVE  /\ Lowest(Fraction(u[1] * l, u[2] * s))
           /\ Apart(l, a, b, Fraction(u[1] * l, u[2] * s), q, p, p1)
<1>1. PICK w \in Nat \ {0}, k \in Nat, v \in Nat, v1 \in Nat :
          /\ k <= w /\ Is(u, k, w)
          /\ Worth(s, a, v, w) /\ Worth(s, b, v1, w)
          /\ v1 = v + k * q * (p1 - p)
  BY DEF Apart
<1>2. PICK W \in Nat \ {0}, K \in Nat, V \in Nat, V1 \in Nat :
          W = w * s /\ K = k * l /\ V = v * l /\ V1 = v1 * l
  OBVIOUS
<1>3. PICK u1 \in Nat, u2 \in Nat \ {0} : u = <<u1, u2>>
  BY DEF Fractions
<1>4. PICK n \in Nat, d \in Nat \ {0} : n = u1 * l /\ d = u2 * s
  OBVIOUS
<1>5. Lowest(Fraction(n, d)) /\ Is(Fraction(n, d), n, d)
  BY FractionLowest
<1>6. n * W = K * d
  <2>1. u1 * w = k * u2
    BY <1>1, <1>3 DEF Is
  <2>2. (u1 * w) * (l * s) = (k * u2) * (l * s)
    BY <2>1
  <2> QED BY <1>2, <1>4, <2>2
<1>7. Is(Fraction(n, d), K, W)
  BY <1>5, <1>6, IsThrough DEF Lowest
<1>8. Worth(l, a, V, W) /\ Worth(l, b, V1, W)
  <2>1. PICK a1 \in Nat, a2 \in Nat \ {0} : a = <<a1, a2>>
    BY DEF Fractions
  <2>2. PICK b1 \in Nat, b2 \in Nat \ {0} : b = <<b1, b2>>
    BY DEF Fractions
  <2>3. s * a1 * w = v * a2 /\ s * b1 * w = v1 * b2
    BY <1>1, <2>1, <2>2 DEF Worth
  <2>4. l * (s * a1 * w) = l * (v * a2) /\ l * (s * b1 * w) = l * (v1 * b2)
    BY <2>3
  <2>5. l * a1 * W = V * a2
    BY <1>2, <2>4
  <2>6. l * b1 * W = V1 * b2
    BY <1>2, <2>4
  <2> QED BY <2>1, <2>2, <2>5, <2>6 DEF Worth
<1>9. K <= W
  <2>1. k * l <= w * l /\ w * l <= w * s
    BY <1>1
  <2> QED BY <1>2, <2>1
<1>10. V1 = V + K * q * (p1 - p)
  <2>1. v1 * l = (v + k * q * (p1 - p)) * l
    BY <1>1
  <2> QED BY <1>2, <2>1
<1>11. Apart(l, a, b, Fraction(n, d), q, p, p1)
  BY <1>7, <1>8, <1>9, <1>10 DEF Apart
<1> QED BY <1>3, <1>4, <1>5, <1>11

(* What a correction of the cost of an opening starts from, x being the    *)
(* average once it came in again, c what its reversal costs and h the stock*)
(* between the two.                                                        *)
Correcting(s, a, b, u, q, p, p1, x, c, h) ==
    /\ s \in Nat \ {0} /\ a \in Fractions /\ Lowest(b) /\ u \in Fractions
    /\ q \in Nat \ {0} /\ p \in Nat /\ p1 \in Nat
    /\ Apart(s, a, b, u, q, p, p1)
    /\ x = AverageAfterAdding(a, s, q, Whole(p1))
    /\ c = Blend(u[1], Whole(p), u[2] - u[1], Whole(p1), u[2])
    /\ h = s + q

(* A correction of the cost of an opening, at its own cost for what is     *)
(* still there and at the new one for the rest, brings the average to      *)
(* where it would have been.                                               *)
LEMMA Corrects ==
    ASSUME NEW s, NEW a, NEW b, NEW u, NEW q, NEW p, NEW p1, NEW x, NEW c, NEW h,
           Correcting(s, a, b, u, q, p, p1, x, c, h)
    PROVE  AverageAfterRemoving(x, h, q, c) = b
<1> SUFFICES ASSUME s \in Nat \ {0}, a \in Fractions, Lowest(b), u \in Fractions,
                    q \in Nat \ {0}, p \in Nat, p1 \in Nat,
                    Apart(s, a, b, u, q, p, p1),
                    x = AverageAfterAdding(a, s, q, Whole(p1)),
                    c = Blend(u[1], Whole(p), u[2] - u[1], Whole(p1), u[2]),
                    h = s + q
             PROVE  AverageAfterRemoving(x, h, q, c) = b
  BY DEF Correcting
<1>1. PICK w \in Nat \ {0}, k \in Nat, v \in Nat, v1 \in Nat :
          /\ k <= w /\ Is(u, k, w)
          /\ Worth(s, a, v, w) /\ Worth(s, b, v1, w)
          /\ v1 = v + k * q * (p1 - p)
  BY DEF Apart
<1>2. PICK u1 \in Nat, u2 \in Nat \ {0} : u = <<u1, u2>>
  BY DEF Fractions
<1>3. u1 * w = k * u2 /\ u[1] \in Int /\ u[2] - u[1] \in Int /\ u[2] \in Nat \ {0}
  BY <1>1, <1>2 DEF Is
<1>4. PICK y, z : y = Whole(p) /\ z = Whole(p1)
  OBVIOUS
<1>5. y = <<p, 1>> /\ z = <<p1, 1>> /\ y \in Fractions /\ z \in Fractions
  BY <1>4 DEF Whole, Fractions
<1>6. PICK m \in Nat : m = k * p + (w - k) * p1
  <2>1. w - k \in Nat
    BY <1>1
  <2> QED BY <2>1
<1>7. Lowest(c) /\ Is(c, m, w)
  <2>1. PICK r \in Int : r = u2 - u1
    OBVIOUS
  <2>2. (u1 * p * 1 + r * p1 * 1) * w = m * (u2 * 1 * 1)
    <3>1. u1 * p * w = k * p * u2
      BY <1>3
    <3>2. r * p1 * w = (w - k) * p1 * u2
      BY <1>3, <2>1
    <3> QED BY <1>6, <3>1, <3>2
  <2>3. (u1 * y[1] * z[2] + r * z[1] * y[2]) * w = m * (u2 * y[2] * z[2])
    BY <1>5, <2>2, Zenon
  <2>4. Blends(u1, y, r, z, u2, m, w)
    BY <2>3 DEF Blends
  <2>5. Lowest(Blend(u1, y, r, z, u2)) /\ Is(Blend(u1, y, r, z, u2), m, w)
    <3>1. u1 \in Int
      OBVIOUS
    <3> QED BY <1>5, <2>4, <3>1, BlendIs
  <2> QED BY <1>2, <1>4, <2>1, <2>5
<1>8. PICK n \in Nat : n = v + q * p1 * w
  OBVIOUS
<1>9. Lowest(x) /\ Worth(s + q, x, n, w)
  BY <1>1, <1>8, AddingIs
<1>10. PICK x1 \in Nat, x2 \in Nat \ {0} : x = <<x1, x2>>
  BY <1>9 DEF Lowest, Fractions
<1>11. PICK c1 \in Nat, c2 \in Nat \ {0} : c = <<c1, c2>>
  BY <1>7 DEF Lowest, Fractions
<1>12. PICK t \in Nat \ {0}, l \in Int, d \in Nat \ {0} : t = s + q /\ l = -q /\ d = s * w
  OBVIOUS
<1>13. PICK e : e = Blend(t, x, l, c, s)
  OBVIOUS
<1>14. (t * x1 * c2 + l * c1 * x2) * d = v1 * (s * x2 * c2)
  <2>1. t * x1 * w = n * x2 /\ c1 * w = m * c2
    BY <1>7, <1>9, <1>10, <1>11, <1>12 DEF Worth, Is
  <2>2. n + l * m = v1
    BY <1>1, <1>6, <1>8, <1>12
  <2>3. (t * x1 * w) * c2 + l * (c1 * w) * x2 = (n * x2) * c2 + l * (m * c2) * x2
    BY <2>1
  <2>4. (n * x2) * c2 + l * (m * c2) * x2 = (n + l * m) * (x2 * c2)
    OBVIOUS
  <2>5. (t * x1 * w) * c2 + l * (c1 * w) * x2 = v1 * (x2 * c2)
    BY <2>2, <2>3, <2>4
  <2>6. (t * x1 * c2 + l * c1 * x2) * w = v1 * (x2 * c2)
    BY <2>5
  <2>7. ((t * x1 * c2 + l * c1 * x2) * w) * s = (v1 * (x2 * c2)) * s
    BY <2>6
  <2> QED BY <1>12, <2>7
<1>15. Lowest(e) /\ Is(e, v1, d)
  <2>1. (t * x[1] * c[2] + l * c[1] * x[2]) * d = v1 * (s * x[2] * c[2])
    <3>1. x[1] = x1 /\ x[2] = x2 /\ c[1] = c1 /\ c[2] = c2
      BY <1>10, <1>11
    <3> QED BY <1>14, <3>1, Zenon
  <2>2. Blends(t, x, l, c, s, v1, d)
    BY <2>1 DEF Blends
  <2>3. x \in Fractions /\ c \in Fractions /\ t \in Int
    BY <1>7, <1>9 DEF Lowest
  <2> QED BY <1>13, <2>2, <2>3, BlendIs
<1>16. Is(b, v1, d)
  <2>1. PICK b1 \in Nat, b2 \in Nat \ {0} : b = <<b1, b2>>
    BY DEF Lowest, Fractions
  <2>2. s * b1 * w = v1 * b2
    BY <1>1, <2>1 DEF Worth
  <2>3. b1 * d = v1 * b2
    BY <1>12, <2>2
  <2> QED BY <2>1, <2>3 DEF Is
<1>17. e = b
  BY <1>15, <1>16, LowestIsOne
<1>18. AverageAfterRemoving(x, t, q, c) = e
  <2>1. ~(t <= q) /\ t - q = s /\ -q = l
    BY <1>12
  <2> QED BY <1>13, <2>1 DEF AverageAfterRemoving
<1> QED BY <1>12, <1>17, <1>18

(* What comes in where there was nothing has its own price.                *)
LEMMA FirstIn ==
    ASSUME NEW a \in Fractions, NEW b \in Fractions, NEW g \in Nat \ {0}, NEW r \in Nat
    PROVE  AverageAfterAdding(a, 0, g, Whole(r)) = AverageAfterAdding(b, 0, g, Whole(r))
<1>1. ASSUME NEW x \in Fractions
      PROVE  AverageAfterAdding(x, 0, g, Whole(r)) = Fraction(r, 1)
  <2>1. PICK x1 \in Nat, x2 \in Nat \ {0} : x = <<x1, x2>>
    BY DEF Fractions
  <2>2. PICK n \in Nat, d \in Nat \ {0} : n = g * r * x2 /\ d = g * x2
    OBVIOUS
  <2>3. AverageAfterAdding(x, 0, g, Whole(r)) = Fraction(n, d)
    BY <2>1, <2>2 DEF AverageAfterAdding, Blend, Whole
  <2>4. n * 1 = r * d
    BY <2>2
  <2> QED BY <2>3, <2>4, FractionSame
<1> QED BY <1>1

-----------------------------------------------------------------------------
(* Going through the kardex entry by entry. *)

(* What openingRetention does with one entry. *)
Keeping(s, e) ==
    [stock |-> s.stock + e.quantity,
     share |-> IF e.type = "sale" /\ s.stock > 0
               THEN Fraction(s.share[1] * (s.stock + e.quantity), s.share[2] * s.stock)
               ELSE s.share]

(* One entry after what was there: a correction's own may be left out.     *)
Through(kind, s, line) ==
    IF line.does = "skip" THEN s
    ELSE IF kind = "replay" THEN Leaving(s, line.entry) ELSE Keeping(s, line.entry)

(* f goes through the lines after a up to n, from base on.                 *)
IsRun(f, kind, base, lines, a, n) ==
    f = [k \in a..n |-> IF k = a THEN base ELSE Through(kind, f[k - 1], lines[k])]

Run(kind, base, lines, a, n) == (CHOOSE f : IsRun(f, kind, base, lines, a, n))[n]

(* Lines that are the same after a, up to n. *)
Alike(lines, more, a, n) == \A k \in (a + 1)..n : lines[k] = more[k]

(* Two runs through the same lines agree where both are defined.           *)
LEMMA RunIsOne ==
    ASSUME NEW kind, NEW base, NEW a \in Nat, NEW n \in Nat, NEW m \in Nat, m <= n,
           NEW lines, NEW more, Alike(lines, more, a, m),
           NEW f, IsRun(f, kind, base, lines, a, n), NEW g, IsRun(g, kind, base, more, a, m)
    PROVE  \A k \in a..m : f[k] = g[k]
<1> DEFINE bad == {k \in a..m : f[k] # g[k]}
<1>1. SUFFICES ASSUME bad # {} PROVE FALSE
  OBVIOUS
<1>2. PICK k \in bad : \A l \in bad : k <= l
  <2>1. bad \in SUBSET Nat
    OBVIOUS
  <2> HIDE DEF bad
  <2> QED BY <1>1, <2>1, LeastExists
<1>3. k \in a..m /\ k \in a..n /\ f[k] # g[k]
  OBVIOUS
<1>4. /\ f[k] = IF k = a THEN base ELSE Through(kind, f[k - 1], lines[k])
      /\ g[k] = IF k = a THEN base ELSE Through(kind, g[k - 1], more[k])
  BY <1>3 DEF IsRun
<1>5. k # a
  BY <1>3, <1>4
<1>6. k - 1 \in a..m /\ k \in (a + 1)..m /\ ~(k <= k - 1)
  BY <1>3, <1>5
<1>7. f[k - 1] = g[k - 1]
  BY <1>2, <1>6
<1>8. lines[k] = more[k]
  BY <1>6 DEF Alike
<1> QED BY <1>3, <1>4, <1>5, <1>7, <1>8

(* There is a run through any lines. *)
LEMMA RunExists ==
    ASSUME NEW kind, NEW base, NEW lines, NEW a \in Nat, NEW n \in Nat
    PROVE  \E f : IsRun(f, kind, base, lines, a, n)
<1> DEFINE bad == {m \in Nat : ~\E f : IsRun(f, kind, base, lines, a, m)}
<1>1. SUFFICES ASSUME bad # {} PROVE FALSE
  OBVIOUS
<1>2. PICK m \in bad : \A l \in bad : m <= l
  <2>1. bad \in SUBSET Nat
    OBVIOUS
  <2> HIDE DEF bad
  <2> QED BY <1>1, <2>1, LeastExists
<1>3. m \in Nat /\ ~\E f : IsRun(f, kind, base, lines, a, m)
  OBVIOUS
<1>4. CASE m <= a
  <2> DEFINE f == [k \in a..m |-> base]
  <2>1. \A k \in a..m : k = a
    BY <1>3, <1>4
  <2>2. f = [k \in a..m |-> IF k = a THEN base ELSE Through(kind, f[k - 1], lines[k])]
    BY <2>1
  <2> QED BY <1>3, <2>2 DEF IsRun
<1>5. CASE ~(m <= a)
  <2>1. m - 1 \in Nat /\ m - 1 \in a..(m - 1) /\ ~(m <= m - 1)
    BY <1>3, <1>5
  <2>2. m - 1 \notin bad
    BY <1>2, <2>1
  <2>3. PICK g : IsRun(g, kind, base, lines, a, m - 1)
    BY <2>1, <2>2
  <2> DEFINE f == [k \in a..m |-> IF k = m THEN Through(kind, g[m - 1], lines[m]) ELSE g[k]]
  <2>4. ASSUME NEW k \in a..m
        PROVE  f[k] = IF k = a THEN base ELSE Through(kind, f[k - 1], lines[k])
    <3>1. CASE k = m
      <4>1. k # a /\ k - 1 \in a..m /\ k - 1 # m /\ k - 1 = m - 1
        BY <1>3, <1>5, <3>1
      <4>2. f[k - 1] = g[m - 1] /\ f[k] = Through(kind, g[m - 1], lines[m])
        BY <3>1, <4>1
      <4> HIDE DEF f
      <4> QED BY <3>1, <4>1, <4>2
    <3>2. CASE k # m
      <4>1. k \in a..(m - 1)
        BY <1>3, <3>2
      <4>2. g[k] = IF k = a THEN base ELSE Through(kind, g[k - 1], lines[k])
        BY <2>3, <4>1 DEF IsRun
      <4>3. f[k] = g[k]
        BY <3>2
      <4>4. k # a => f[k - 1] = g[k - 1]
        <5>1. k # a => k - 1 \in a..m /\ k - 1 # m
          BY <1>3, <4>1
        <5> QED BY <5>1
      <4> HIDE DEF f
      <4> QED BY <4>2, <4>3, <4>4
    <3> QED BY <3>1, <3>2
  <2>5. f = [k \in a..m |-> IF k = a THEN base ELSE Through(kind, f[k - 1], lines[k])]
    <3>1. f = [k \in a..m |-> f[k]]
      OBVIOUS
    <3> HIDE DEF f
    <3> QED BY <2>4, <3>1
  <2> HIDE DEF f
  <2> QED BY <1>3, <2>5 DEF IsRun
<1> QED BY <1>4, <1>5

(* What any run comes to on the way. *)
LEMMA RunValue ==
    ASSUME NEW kind, NEW base, NEW lines, NEW a \in Nat, NEW n \in Nat,
           NEW f, IsRun(f, kind, base, lines, a, n), NEW m \in a..n
    PROVE  f[m] = Run(kind, base, lines, a, m)
<1>1. PICK g : g = CHOOSE h : IsRun(h, kind, base, lines, a, m)
  OBVIOUS
<1>2. m \in Nat /\ m <= n /\ m \in a..m
  OBVIOUS
<1>3. IsRun(g, kind, base, lines, a, m)
  BY <1>1, <1>2, RunExists
<1>4. f[m] = g[m]
  <2>1. Alike(lines, lines, a, m)
    BY DEF Alike
  <2> QED BY <1>2, <1>3, <2>1, RunIsOne
<1> QED BY <1>1, <1>4 DEF Run

(* A run starts at its base and goes on by one line.                       *)
LEMMA RunStarts ==
    ASSUME NEW kind, NEW base, NEW lines, NEW a \in Nat
    PROVE  Run(kind, base, lines, a, a) = base
<1>1. PICK f : IsRun(f, kind, base, lines, a, a)
  BY RunExists
<1>2. a \in a..a
  OBVIOUS
<1>3. f[a] = base
  BY <1>1, <1>2 DEF IsRun
<1> QED BY <1>1, <1>2, <1>3, RunValue

(* And it goes on by one line.                                             *)
LEMMA RunGoesOn ==
    ASSUME NEW kind, NEW base, NEW lines, NEW a \in Nat, NEW n \in Nat, a <= n
    PROVE  Run(kind, base, lines, a, n + 1)
               = Through(kind, Run(kind, base, lines, a, n), lines[n + 1])
<1>1. PICK m \in Nat : m = n + 1
  OBVIOUS
<1>2. PICK f : IsRun(f, kind, base, lines, a, m)
  BY RunExists
<1>3. m \in a..m /\ n \in a..m /\ m # a /\ m - 1 = n
  BY <1>1
<1>4. f[m] = Through(kind, f[n], lines[m])
  BY <1>2, <1>3 DEF IsRun
<1>5. f[m] = Run(kind, base, lines, a, m) /\ f[n] = Run(kind, base, lines, a, n)
  BY <1>2, <1>3, RunValue
<1> QED BY <1>1, <1>4, <1>5

(* Lines that are alike as far as the run goes are run through alike.      *)
LEMMA RunAlike ==
    ASSUME NEW kind, NEW base, NEW a \in Nat, NEW n \in Nat, a <= n,
           NEW lines, NEW more, Alike(lines, more, a, n)
    PROVE  Run(kind, base, lines, a, n) = Run(kind, base, more, a, n)
<1>1. PICK f : IsRun(f, kind, base, lines, a, n)
  BY RunExists
<1>2. PICK g : IsRun(g, kind, base, more, a, n)
  BY RunExists
<1>3. n \in a..n
  OBVIOUS
<1>4. \A k \in a..n : f[k] = g[k]
  <2>1. n <= n
    OBVIOUS
  <2> QED BY <1>1, <1>2, <2>1, RunIsOne
<1> QED BY <1>1, <1>2, <1>3, <1>4, RunValue

(* The lines of a kardex, with the cost p at n and without those of skip.  *)
KardexLines(K, n, p, skip) ==
    [k \in DOMAIN K |-> [does |-> IF k \in skip THEN "skip" ELSE "count",
                         entry |-> IF k = n THEN [K[k] EXCEPT !.cost = p] ELSE K[k]]]

Start == [stock |-> 0, avg |-> Whole(0)]

HistoryOf(K, n, p, skip) == Run("replay", Start, KardexLines(K, n, p, skip), 0, Len(K))

Opened(K, live) == [stock |-> SumOf(Figures(K), 1..live), share |-> Whole(1)]

KeptOf(K, live) == Run("keep", Opened(K, live), KardexLines(K, 0, Whole(0), {}), live, Len(K))

(* Entries in order are numbered from one.                                 *)
LEMMA ListedIs == ASSUME NEW K, Listed(K) PROVE Len(K) \in Nat /\ DOMAIN K = 1..Len(K)
BY DEF Listed

(* What the corrected history comes to is a run.                           *)
LEMMA HistoryIs ==
    ASSUME Listed(kardex), NEW n, NEW p, NEW skip
    PROVE  History(n, p, skip) = HistoryOf(kardex, n, p, skip)
<1> DEFINE N == Len(kardex)
           lines == KardexLines(kardex, n, p, skip)
           h == CHOOSE h : h = [k \in 0..N |->
                    IF k = 0 THEN [stock |-> 0, avg |-> Whole(0)]
                    ELSE IF k \in skip THEN h[k - 1]
                    ELSE Leaving(h[k - 1],
                                 IF k = n THEN [kardex[k] EXCEPT !.cost = p] ELSE kardex[k])]
           own(f) == [k \in 0..N |->
                    IF k = 0 THEN [stock |-> 0, avg |-> Whole(0)]
                    ELSE IF k \in skip THEN f[k - 1]
                    ELSE Leaving(f[k - 1],
                                 IF k = n THEN [kardex[k] EXCEPT !.cost = p] ELSE kardex[k])]
           its(f) == [k \in 0..N |-> IF k = 0 THEN Start ELSE Through("replay", f[k - 1], lines[k])]
<1>1. History(n, p, skip) = h[N]
  BY DEF History
<1>2. N \in Nat /\ DOMAIN kardex = 1..N
  BY ListedIs
<1>3. ASSUME NEW f PROVE own(f) = its(f)
  <2>1. ASSUME NEW k \in 0..N, k # 0
        PROVE  Through("replay", f[k - 1], lines[k])
                 = IF k \in skip THEN f[k - 1]
                   ELSE Leaving(f[k - 1], IF k = n THEN [kardex[k] EXCEPT !.cost = p] ELSE kardex[k])
    <3>1. k \in DOMAIN kardex
      BY <1>2, <2>1
    <3>2. lines[k] = [does |-> IF k \in skip THEN "skip" ELSE "count",
                      entry |-> IF k = n THEN [kardex[k] EXCEPT !.cost = p] ELSE kardex[k]]
      BY <3>1 DEF KardexLines
    <3>3. PICK e : e = IF k = n THEN [kardex[k] EXCEPT !.cost = p] ELSE kardex[k]
      OBVIOUS
    <3>4. lines[k].entry = e /\ (lines[k].does = "skip" <=> k \in skip)
      BY <3>2, <3>3
    <3> HIDE DEF lines
    <3>5. Through("replay", f[k - 1], lines[k]) = IF k \in skip THEN f[k - 1] ELSE Leaving(f[k - 1], e)
      BY <3>4 DEF Through
    <3> QED BY <3>3, <3>5
  <2> HIDE DEF lines
  <2> QED BY <2>1 DEF Start
<1>4. PICK g : IsRun(g, "replay", Start, lines, 0, N)
  BY <1>2, RunExists
<1>5. g = own(g)
  BY <1>3, <1>4 DEF IsRun
<1>6. h = own(h)
  BY <1>5
<1>7. h = its(h)
  BY <1>3, <1>6
<1> HIDE DEF h, lines
<1>8. IsRun(h, "replay", Start, lines, 0, N)
  BY <1>7 DEF IsRun
<1>9. N \in 0..N
  BY <1>2
<1>10. h[N] = Run("replay", Start, lines, 0, N)
  <2> HIDE DEF N
  <2> QED BY <1>2, <1>8, <1>9, RunValue
<1> QED BY <1>1, <1>10 DEF HistoryOf, lines

(* What openingRetention comes to is a run. *)
LEMMA RetentionIs ==
    ASSUME Listed(kardex), NEW live \in DOMAIN kardex
    PROVE  Retention(live) = KeptOf(kardex, live).share
<1> DEFINE N == Len(kardex)
           lines == KardexLines(kardex, 0, Whole(0), {})
           base == [stock |-> MapThenSumSet(LAMBDA k : kardex[k].quantity, 1..live),
                    share |-> Whole(1)]
           after(s, e) == LET left == s.stock + e.quantity
                          IN [stock |-> left,
                              share |-> IF e.type = "sale" /\ s.stock > 0
                                        THEN Fraction(s.share[1] * left, s.share[2] * s.stock)
                                        ELSE s.share]
           h == CHOOSE h : h = [k \in live..N |->
                    IF k = live THEN base ELSE after(h[k - 1], kardex[k])]
           own(f) == [k \in live..N |->
                    IF k = live THEN base ELSE after(f[k - 1], kardex[k])]
           its(f) == [k \in live..N |-> IF k = live THEN base ELSE Through("keep", f[k - 1], lines[k])]
<1>1. Retention(live) = h[N].share
  BY DEF Retention
<1>2. N \in Nat /\ DOMAIN kardex = 1..N /\ live \in Nat /\ live <= N /\ live \in 1..N
  BY ListedIs
<1>3. ASSUME NEW f PROVE own(f) = its(f)
  <2>1. ASSUME NEW k \in live..N, k # live
        PROVE  Through("keep", f[k - 1], lines[k]) = after(f[k - 1], kardex[k])
    <3>1. k \in DOMAIN kardex /\ k # 0
      BY <1>2, <2>1
    <3>2. lines[k].entry = kardex[k] /\ lines[k].does # "skip"
      BY <3>1 DEF KardexLines
    <3> HIDE DEF lines
    <3>3. Through("keep", f[k - 1], lines[k]) = Keeping(f[k - 1], kardex[k])
      BY <3>2 DEF Through
    <3> QED BY <3>3 DEF Keeping
  <2> HIDE DEF lines, after, base
  <2> QED BY <2>1
<1>4. PICK g : IsRun(g, "keep", base, lines, live, N)
  BY <1>2, RunExists
<1>5. g = own(g)
  <2> HIDE DEF base, lines, own, N
  <2>1. g = its(g)
    BY <1>4 DEF IsRun
  <2> QED BY <1>3, <2>1
<1>6. h = own(h)
  BY <1>5
<1>7. h = its(h)
  <2> HIDE DEF h, own, its
  <2> QED BY <1>3, <1>6
<1> HIDE DEF h, lines, base, own
<1>8. IsRun(h, "keep", base, lines, live, N)
  BY <1>7 DEF IsRun
<1>9. N \in live..N
  BY <1>2
<1>10. h[N] = Run("keep", base, lines, live, N)
  <2> HIDE DEF N
  <2> QED BY <1>2, <1>8, <1>9, RunValue
<1>11. base = Opened(kardex, live)
  <2>1. 1..live \subseteq DOMAIN kardex
    BY <1>2
  <2>2. IsFiniteSet(1..live)
    <3>1. 1 \in Int /\ live \in Int
      BY <1>2
    <3> QED BY <3>1, FS_Interval
  <2>3. MapThenSumSet(LAMBDA k : kardex[k].quantity, 1..live) = SumOf(Figures(kardex), 1..live)
    BY <2>1, <2>2, SumOfEntries
  <2> QED BY <2>3 DEF base, Opened
<1> QED BY <1>1, <1>10, <1>11 DEF KeptOf, lines

(* One entry posted. *)
LEMMA PostedOne ==
    ASSUME NEW e, Posted(<<e>>)
    PROVE  /\ kardex' = kardex \o <<e>>
           /\ Held' = Leaving(Held, e) /\ Leaving(Held, e).stock >= 0
<1> DEFINE lines == [k \in 1..1 |-> [does |-> "count", entry |-> e]]
           h == CHOOSE h : h = [k \in 0..Len(<<e>>) |->
                    IF k = 0 THEN Held ELSE Leaving(h[k - 1], <<e>>[k])]
           own(f) == [k \in 0..Len(<<e>>) |->
                    IF k = 0 THEN Held ELSE Leaving(f[k - 1], <<e>>[k])]
           g == [k \in 0..1 |-> IF k = 0 THEN Held ELSE Leaving(Held, e)]
<1>1. Len(<<e>>) = 1 /\ DOMAIN <<e>> = 1..1 /\ <<e>>[1] = e
  OBVIOUS
<1>2. /\ \A n \in DOMAIN <<e>> : h[n].stock >= 0
      /\ kardex' = kardex \o <<e>>
      /\ onHand' = h[Len(<<e>>)].stock
      /\ average' = h[Len(<<e>>)].avg
  BY DEF Posted
<1>3. g = own(g)
  <2>1. \A k \in 0..1 : k # 0 => k = 1 /\ k - 1 = 0 /\ 0 \in 0..1 /\ <<e>>[k] = e
    OBVIOUS
  <2>2. 0..Len(<<e>>) = 0..1
    BY <1>1
  <2> QED BY <2>1, <2>2
<1>4. h = own(h)
  BY <1>3
<1> HIDE DEF h
<1>5. 0 \in 0..1 /\ 1 \in 0..1 /\ 1 # 0 /\ 1 - 1 = 0
  OBVIOUS
<1>6. h[0] = Held /\ h[1] = Leaving(h[0], <<e>>[1])
  BY <1>1, <1>4, <1>5
<1>7. h[1] = Leaving(Held, e)
  BY <1>1, <1>6
<1>8. Held' = [stock |-> Leaving(Held, e).stock, avg |-> Leaving(Held, e).avg]
  BY <1>1, <1>2, <1>7 DEF Held
<1>9. Held' = Leaving(Held, e)
  BY <1>8 DEF Leaving
<1>10. 1 \in DOMAIN <<e>>
  BY <1>1
<1> QED BY <1>2, <1>7, <1>9, <1>10

(* Two entries posted together. *)
LEMMA PostedTwo ==
    ASSUME NEW a, NEW b, Posted(<<a, b>>)
    PROVE  /\ kardex' = kardex \o <<a, b>>
           /\ Held' = Leaving(Leaving(Held, a), b)
           /\ Leaving(Held, a).stock >= 0 /\ Leaving(Leaving(Held, a), b).stock >= 0
<1> DEFINE h == CHOOSE h : h = [k \in 0..Len(<<a, b>>) |->
                    IF k = 0 THEN Held ELSE Leaving(h[k - 1], <<a, b>>[k])]
           own(f) == [k \in 0..Len(<<a, b>>) |->
                    IF k = 0 THEN Held ELSE Leaving(f[k - 1], <<a, b>>[k])]
           first == Leaving(Held, a)
           g == [k \in 0..2 |-> IF k = 0 THEN Held ELSE IF k = 1 THEN first ELSE Leaving(first, b)]
<1>1. /\ Len(<<a, b>>) = 2 /\ DOMAIN <<a, b>> = 1..2
      /\ <<a, b>>[1] = a /\ <<a, b>>[2] = b
  OBVIOUS
<1>2. /\ \A n \in DOMAIN <<a, b>> : h[n].stock >= 0
      /\ kardex' = kardex \o <<a, b>>
      /\ onHand' = h[Len(<<a, b>>)].stock
      /\ average' = h[Len(<<a, b>>)].avg
  BY DEF Posted
<1>3. g = own(g)
  <2>1. ASSUME NEW k \in 0..2
        PROVE  g[k] = IF k = 0 THEN Held ELSE Leaving(g[k - 1], <<a, b>>[k])
    <3>1. g[0] = Held /\ g[1] = first /\ g[2] = Leaving(first, b)
      OBVIOUS
    <3>2. k = 0 \/ (k = 1 /\ k - 1 = 0) \/ (k = 2 /\ k - 1 = 1)
      OBVIOUS
    <3> HIDE DEF g
    <3> QED BY <1>1, <3>1, <3>2
  <2>2. 0..Len(<<a, b>>) = 0..2 /\ g = [k \in 0..2 |-> g[k]]
    BY <1>1
  <2> HIDE DEF g
  <2> QED BY <2>1, <2>2
<1>4. h = own(h)
  BY <1>3
<1> HIDE DEF h
<1>5. h[0] = Held /\ h[1] = Leaving(h[0], <<a, b>>[1]) /\ h[2] = Leaving(h[1], <<a, b>>[2])
  <2>1. 0 \in 0..2 /\ 1 \in 0..2 /\ 2 \in 0..2 /\ 1 # 0 /\ 2 # 0 /\ 1 - 1 = 0 /\ 2 - 1 = 1
    OBVIOUS
  <2> QED BY <1>1, <1>4, <2>1
<1>6. h[1] = first /\ h[2] = Leaving(first, b)
  BY <1>1, <1>5
<1> HIDE DEF first
<1>7. Held' = [stock |-> Leaving(first, b).stock, avg |-> Leaving(first, b).avg]
  BY <1>1, <1>2, <1>6 DEF Held
<1>8. Held' = Leaving(first, b)
  BY <1>7 DEF Leaving
<1>9. 1 \in DOMAIN <<a, b>> /\ 2 \in DOMAIN <<a, b>>
  BY <1>1
<1> QED BY <1>2, <1>6, <1>8, <1>9 DEF first

(* Nothing posted. *)
LEMMA PostedNone ==
    ASSUME Posted(<<>>)
    PROVE  kardex' = kardex \o <<>> /\ Held' = Held
<1> DEFINE h == CHOOSE h : h = [k \in 0..Len(<<>>) |->
                    IF k = 0 THEN Held ELSE Leaving(h[k - 1], <<>>[k])]
           g == [k \in 0..0 |-> Held]
<1>1. Len(<<>>) = 0
  OBVIOUS
<1>2. kardex' = kardex \o <<>> /\ onHand' = h[Len(<<>>)].stock /\ average' = h[Len(<<>>)].avg
  BY DEF Posted
<1>3. g = [k \in 0..Len(<<>>) |-> IF k = 0 THEN Held ELSE Leaving(g[k - 1], <<>>[k])]
  BY <1>1
<1>4. h = [k \in 0..Len(<<>>) |-> IF k = 0 THEN Held ELSE Leaving(h[k - 1], <<>>[k])]
  BY <1>3
<1> HIDE DEF h
<1>5. h[0] = Held
  BY <1>1, <1>4
<1> QED BY <1>1, <1>2, <1>5 DEF Held

(* more is the kardex K with the entry e after it, at m. *)
Grows(K, more, e, m) ==
    Listed(K) /\ e.quantity \in Int /\ more = K \o <<e>> /\ m = Len(K) + 1

(* A kardex that grows has one entry more, the last.                       *)
LEMMA GrowsIs ==
    ASSUME NEW K, NEW more, NEW e, NEW m, Grows(K, more, e, m)
    PROVE  /\ OneMore(more, K, e, m) /\ Listed(more) /\ Len(more) = m
           /\ m \in Nat \ {0} /\ DOMAIN K = 1..(m - 1) /\ DOMAIN more = 1..m
<1>1. OneMore(more, K, e, m)
  BY EntryAdded DEF Grows
<1>2. Listed(more)
  BY <1>1 DEF OneMore
<1>3. Len(K) \in Nat /\ DOMAIN K = 1..Len(K) /\ DOMAIN more = 1..Len(more) /\ Len(more) \in Nat
  BY <1>2, ListedIs DEF Grows
<1>4. Len(more) = m
  BY <1>3 DEF Grows, Listed
<1> QED BY <1>1, <1>2, <1>3, <1>4 DEF Grows

(* The entry e at m as it is in a history where the one at n costs p.      *)
Costing(e, m, n, p) == IF n = m THEN [e EXCEPT !.cost = p] ELSE e

(* An entry more leaves what a history would have come to by itself.       *)
LEMMA HistoryGrows ==
    ASSUME NEW K, NEW more, NEW e, NEW m, Grows(K, more, e, m), NEW n, NEW p, NEW skip
    PROVE  /\ m \in skip => HistoryOf(more, n, p, skip) = HistoryOf(K, n, p, skip)
           /\ m \notin skip => HistoryOf(more, n, p, skip)
                                 = Leaving(HistoryOf(K, n, p, skip), Costing(e, m, n, p))
<1> DEFINE N == Len(K)
           lines == KardexLines(K, n, p, skip)
           others == KardexLines(more, n, p, skip)
<1>1. OneMore(more, K, e, m)
  BY GrowsIs
<1>2. N \in Nat /\ DOMAIN K = 1..N /\ DOMAIN more = 1..(N + 1) /\ Len(more) = N + 1 /\ m = N + 1
  <2>1. m = N + 1 /\ Len(more) = m /\ DOMAIN more = 1..m /\ Listed(K)
    BY GrowsIs DEF Grows
  <2> QED BY <2>1, ListedIs
<1>3. Alike(others, lines, 0, N)
  <2>1. ASSUME NEW k \in 1..N PROVE others[k] = lines[k]
    <3>1. k \in DOMAIN K /\ k \in DOMAIN more /\ more[k] = K[k]
      BY <1>1, <1>2 DEF OneMore
    <3> QED BY <3>1 DEF KardexLines
  <2>2. 0 + 1 = 1
    OBVIOUS
  <2> HIDE DEF lines, others, N
  <2> QED BY <2>1, <2>2 DEF Alike
<1>4. Run("replay", Start, others, 0, N) = HistoryOf(K, n, p, skip)
  <2> HIDE DEF lines, others, N
  <2>1. Run("replay", Start, others, 0, N) = Run("replay", Start, lines, 0, N)
    BY <1>2, <1>3, RunAlike
  <2> QED BY <2>1 DEF HistoryOf, lines, N
<1>5. HistoryOf(more, n, p, skip) = Through("replay", HistoryOf(K, n, p, skip), others[N + 1])
  <2>1. HistoryOf(more, n, p, skip) = Run("replay", Start, others, 0, N + 1)
    BY <1>2 DEF HistoryOf
  <2> HIDE DEF lines, others, N
  <2>2. 0 <= N
    BY <1>2
  <2> QED BY <1>2, <1>4, <2>1, <2>2, RunGoesOn
<1>6. PICK o : o = Costing(e, m, n, p)
  OBVIOUS
<1>7. others[m].entry = o /\ (others[m].does = "skip" <=> m \in skip)
  <2>1. m \in DOMAIN more /\ more[m] = e
    BY <1>1 DEF OneMore
  <2> QED BY <1>6, <2>1 DEF KardexLines, Costing
<1>8. HistoryOf(more, n, p, skip) = Through("replay", HistoryOf(K, n, p, skip), others[m])
  BY <1>2, <1>5
<1> HIDE DEF others
<1> QED BY <1>6, <1>7, <1>8 DEF Through

(* An entry more leaves of the opening what openingRetention says.         *)
LEMMA KeptGrows ==
    ASSUME NEW K, NEW more, NEW e, NEW m, Grows(K, more, e, m), NEW live \in DOMAIN K
    PROVE  KeptOf(more, live) = Keeping(KeptOf(K, live), e)
<1> DEFINE N == Len(K)
           lines == KardexLines(K, 0, Whole(0), {})
           others == KardexLines(more, 0, Whole(0), {})
<1>1. OneMore(more, K, e, m)
  BY GrowsIs
<1>2. /\ N \in Nat /\ DOMAIN K = 1..N /\ DOMAIN more = 1..m /\ Len(more) = m
      /\ live \in Nat /\ live <= N /\ m # 0 /\ m = N + 1
  <2>1. m = N + 1 /\ Len(more) = m /\ DOMAIN more = 1..m /\ Listed(K)
    BY GrowsIs DEF Grows
  <2> QED BY <2>1, ListedIs
<1>3. Alike(others, lines, live, N)
  <2>1. ASSUME NEW k \in (live + 1)..N PROVE others[k] = lines[k]
    <3>1. k \in DOMAIN K /\ k \in DOMAIN more /\ more[k] = K[k]
      BY <1>1, <1>2 DEF OneMore
    <3> QED BY <3>1 DEF KardexLines
  <2> HIDE DEF lines, others, N
  <2> QED BY <2>1 DEF Alike
<1>4. Opened(more, live) = Opened(K, live)
  <2>1. 1..live \subseteq DOMAIN K
    BY <1>2
  <2>2. AddUp(more, K, e, m, 1..live)
    BY <1>1, <2>1, EntriesAdd
  <2> QED BY <2>2 DEF AddUp, Opened
<1>5. Run("keep", Opened(more, live), others, live, N) = KeptOf(K, live)
  <2> HIDE DEF lines, others, N
  <2>1. Run("keep", Opened(K, live), others, live, N) = Run("keep", Opened(K, live), lines, live, N)
    BY <1>2, <1>3, RunAlike
  <2> QED BY <1>4, <2>1 DEF KeptOf, lines, N
<1>6. KeptOf(more, live) = Through("keep", KeptOf(K, live), others[m])
  <2>1. KeptOf(more, live) = Run("keep", Opened(more, live), others, live, N + 1)
    BY <1>2 DEF KeptOf
  <2> HIDE DEF lines, others, N
  <2> QED BY <1>2, <1>5, <2>1, RunGoesOn
<1>7. others[m].entry = e /\ others[m].does # "skip"
  <2>1. m \in DOMAIN more /\ more[m] = e
    BY <1>1 DEF OneMore
  <2> QED BY <1>2, <2>1 DEF KardexLines
<1> HIDE DEF others
<1> QED BY <1>6, <1>7 DEF Through

-----------------------------------------------------------------------------
(* The opening, before it is corrected and after. *)

(* The stock and the average that goods leave when they come in, when they *)
(* are sold, and when they are taken out again at a cost.                  *)
LEMMA ComesIn ==
    ASSUME NEW s, NEW e, NEW g \in Nat \ {0}, e.quantity = g, e.type # "sale"
    PROVE  /\ Leaving(s, e).stock = s.stock + g
           /\ Leaving(s, e).avg = AverageAfterAdding(s.avg, s.stock, g, e.cost)
BY DEF Leaving

(* A sale leaves the average alone.                                        *)
LEMMA IsSold ==
    ASSUME NEW s, NEW e, e.type = "sale"
    PROVE  Leaving(s, e).stock = s.stock + e.quantity /\ Leaving(s, e).avg = s.avg
BY DEF Leaving

(* What is taken out again leaves at the cost of its entry.                *)
LEMMA GoesOut ==
    ASSUME NEW s, NEW e, NEW g \in Nat \ {0}, e.quantity = -g, e.type # "sale"
    PROVE  /\ Leaving(s, e).stock = s.stock + e.quantity
           /\ Leaving(s, e).avg = AverageAfterRemoving(s.avg, s.stock, g, e.cost)
<1>1. ~(e.quantity > 0) /\ -e.quantity = g
  OBVIOUS
<1> QED BY <1>1 DEF Leaving

(* A stock and an average as the columns hold them. *)
Fine(s) == s.stock \in Nat /\ Lowest(s.avg)

(* What comes in keeps the average in lowest terms.                        *)
LEMMA FineIn ==
    ASSUME NEW s, Fine(s), NEW e, NEW g \in Nat \ {0}, NEW r \in Nat,
           e.quantity = g, e.cost = Whole(r), e.type # "sale"
    PROVE  Fine(Leaving(s, e))
<1>1. /\ Leaving(s, e).stock = s.stock + g
      /\ Leaving(s, e).avg = AverageAfterAdding(s.avg, s.stock, g, Whole(r))
  BY ComesIn
<1>2. s.stock \in Nat /\ s.avg \in Fractions
  BY DEF Fine, Lowest
<1>3. PICK a1 \in Nat, a2 \in Nat \ {0} : s.avg = <<a1, a2>>
  BY <1>2 DEF Fractions
<1>4. PICK v \in Nat : v = s.stock * a1
  BY <1>2
<1>5. Worth(s.stock, s.avg, v, a2)
  BY <1>2, <1>3, <1>4 DEF Worth
<1>6. Lowest(AverageAfterAdding(s.avg, s.stock, g, Whole(r)))
  BY <1>2, <1>5, AddingIs
<1> QED BY <1>1, <1>2, <1>6 DEF Fine

(* So does what is sold, as long as there is enough.                       *)
LEMMA FineSold ==
    ASSUME NEW s, Fine(s), NEW e, e.type = "sale", e.quantity \in Int, Leaving(s, e).stock >= 0
    PROVE  Fine(Leaving(s, e))
<1>1. Leaving(s, e).stock = s.stock + e.quantity /\ Leaving(s, e).avg = s.avg
  BY IsSold
<1>2. s.stock \in Nat
  BY DEF Fine
<1> QED BY <1>1, <1>2 DEF Fine

(* What the opening at n, not yet corrected, has to do with the stock and  *)
(* the average that are held, should it have cost p1.                      *)
AsIf(K, held, n, q, p, p1) ==
    /\ Fine(HistoryOf(K, n, Whole(p1), {}))
    /\ HistoryOf(K, n, Whole(p1), {}).stock = held.stock
    /\ Apart(held.stock, held.avg, HistoryOf(K, n, Whole(p1), {}).avg, KeptOf(K, n).share, q, p, p1)

Uncorrected(K, held, n, q, p) ==
    /\ Fine(held)
    /\ K[n].quantity = q /\ K[n].cost = Whole(p)
    /\ KeptOf(K, n).stock = held.stock /\ KeptOf(K, n).share \in Fractions
    /\ \A p1 \in Nat : AsIf(K, held, n, q, p, p1)

(* The first opening. *)
LEMMA OpeningFirst ==
    ASSUME NEW K, NEW more, NEW e, NEW m, Grows(K, more, e, m), NEW held, Fine(held),
           held = HistoryOf(K, 0, Whole(0), {}), held.stock = SumOf(Figures(K), DOMAIN K),
           NEW q \in Nat \ {0}, NEW p \in Nat,
           e.type = "opening", e.quantity = q, e.cost = Whole(p)
    PROVE  Uncorrected(more, Leaving(held, e), m, q, p)
<1>1. /\ OneMore(more, K, e, m) /\ Listed(more) /\ Len(more) = m
      /\ m \in Nat \ {0} /\ DOMAIN K = 1..(m - 1) /\ DOMAIN more = 1..m
  BY GrowsIs
<1>2. held.stock \in Nat /\ held.avg \in Fractions
  BY DEF Fine, Lowest
<1>3. more[m] = e
  BY <1>1 DEF OneMore
<1>4. /\ Leaving(held, e).stock = held.stock + q
      /\ Leaving(held, e).avg = AverageAfterAdding(held.avg, held.stock, q, Whole(p))
  BY ComesIn
<1>5. KeptOf(more, m) = Opened(more, m)
  BY <1>1, RunStarts DEF KeptOf
<1>6. KeptOf(more, m).stock = held.stock + q /\ KeptOf(more, m).share = Whole(1)
  <2>1. AddUp(more, K, e, m, DOMAIN K)
    BY <1>1, EntriesAdd
  <2>2. 1..m = DOMAIN K \cup {m}
    BY <1>1
  <2>3. SumOf(Figures(more), 1..m) = SumOf(Figures(K), DOMAIN K) + q
    BY <2>1, <2>2 DEF AddUp
  <2> QED BY <1>5, <2>3 DEF Opened
<1>7. KeptOf(more, m).share \in Fractions
  BY <1>6 DEF Whole, Fractions
<1>8. ASSUME NEW p1 \in Nat PROVE AsIf(more, Leaving(held, e), m, q, p, p1)
  <2>1. PICK o : o = [e EXCEPT !.cost = Whole(p1)]
    OBVIOUS
  <2>2. o.quantity = q /\ o.cost = Whole(p1) /\ o.type # "sale"
    BY <2>1
  <2>3. HistoryOf(K, m, Whole(p1), {}) = held
    <3>1. Alike(KardexLines(K, m, Whole(p1), {}), KardexLines(K, 0, Whole(0), {}), 0, Len(K))
      <4>1. ASSUME NEW k \in 1..(m - 1)
            PROVE  KardexLines(K, m, Whole(p1), {})[k] = KardexLines(K, 0, Whole(0), {})[k]
        <5>1. k \in DOMAIN K /\ k # m /\ k # 0
          BY <1>1
        <5> QED BY <5>1 DEF KardexLines
      <4>2. Len(K) = m - 1 /\ 0 + 1 = 1
        BY <1>1 DEF Grows, Listed
      <4> QED BY <4>1, <4>2 DEF Alike
    <3>2. Len(K) \in Nat /\ 0 <= Len(K)
      BY ListedIs DEF Grows
    <3> QED BY <3>1, <3>2, RunAlike DEF HistoryOf
  <2>4. HistoryOf(more, m, Whole(p1), {}) = Leaving(held, o)
    <3>1. m \notin {}
      OBVIOUS
    <3>2. Costing(e, m, m, Whole(p1)) = o
      BY <2>1 DEF Costing
    <3> QED BY <2>3, <3>1, <3>2, HistoryGrows
  <2>5. /\ Leaving(held, o).stock = held.stock + q
        /\ Leaving(held, o).avg = AverageAfterAdding(held.avg, held.stock, q, Whole(p1))
    BY <2>2, ComesIn
  <2>6. Fine(Leaving(held, o))
    BY <2>2, FineIn
  <2>7. Apart(held.stock + q, AverageAfterAdding(held.avg, held.stock, q, Whole(p)),
              AverageAfterAdding(held.avg, held.stock, q, Whole(p1)), Whole(1), q, p, p1)
    BY <1>2, ApartFirst
  <2> QED BY <1>4, <1>6, <2>4, <2>5, <2>6, <2>7 DEF AsIf
<1>9. Fine(Leaving(held, e))
  BY FineIn
<1> QED BY <1>3, <1>4, <1>6, <1>7, <1>8, <1>9 DEF Uncorrected

(* An entry that is not at n adds to the history what it adds by itself.   *)
LEMMA PlainGrows ==
    ASSUME NEW K, NEW more, NEW e, NEW m, Grows(K, more, e, m), NEW n, n # m, NEW p,
           NEW skip, m \notin skip
    PROVE  HistoryOf(more, n, p, skip) = Leaving(HistoryOf(K, n, p, skip), e)
<1>1. Costing(e, m, n, p) = e
  BY DEF Costing
<1> QED BY <1>1, HistoryGrows

(* What is there is not where an entry is added. *)
LEMMA GrowsBeyond ==
    ASSUME NEW K, NEW more, NEW e, NEW m, Grows(K, more, e, m), NEW n \in DOMAIN K
    PROVE  more[n] = K[n] /\ n # m
<1>1. OneMore(more, K, e, m)
  BY GrowsIs
<1> QED BY <1>1 DEF OneMore

(* What is bought does not change how the opening would have told. *)
LEMMA UncorrectedBuys ==
    ASSUME NEW K, NEW more, NEW e, NEW m, Grows(K, more, e, m), NEW held, NEW n \in DOMAIN K,
           NEW q \in Nat \ {0}, NEW p \in Nat, Uncorrected(K, held, n, q, p),
           NEW g \in Nat \ {0}, NEW r \in Nat,
           e.type = "purchase", e.quantity = g, e.cost = Whole(r)
    PROVE  Uncorrected(more, Leaving(held, e), n, q, p)
<1>1. more[n] = K[n] /\ n # m
  BY GrowsBeyond
<1>2. /\ held.stock \in Nat /\ held.avg \in Fractions
      /\ K[n].quantity = q /\ K[n].cost = Whole(p)
      /\ KeptOf(K, n).stock = held.stock /\ KeptOf(K, n).share \in Fractions
  BY DEF Uncorrected, Fine, Lowest
<1>3. /\ Leaving(held, e).stock = held.stock + g
      /\ Leaving(held, e).avg = AverageAfterAdding(held.avg, held.stock, g, Whole(r))
  BY ComesIn
<1>4. KeptOf(more, n) = Keeping(KeptOf(K, n), e)
  BY KeptGrows
<1>5. KeptOf(more, n).stock = held.stock + g /\ KeptOf(more, n).share = KeptOf(K, n).share
  BY <1>2, <1>4 DEF Keeping
<1>6. Fine(Leaving(held, e))
  BY FineIn DEF Uncorrected
<1>7. ASSUME NEW p1 \in Nat PROVE AsIf(more, Leaving(held, e), n, q, p, p1)
  <2>1. PICK other : other = HistoryOf(K, n, Whole(p1), {})
    OBVIOUS
  <2>2. /\ Fine(other) /\ other.stock = held.stock
        /\ Apart(held.stock, held.avg, other.avg, KeptOf(K, n).share, q, p, p1)
    BY <2>1 DEF Uncorrected, AsIf
  <2>3. HistoryOf(more, n, Whole(p1), {}) = Leaving(other, e)
    <3>1. m \notin {}
      OBVIOUS
    <3> QED BY <1>1, <2>1, <3>1, PlainGrows
  <2>4. /\ Leaving(other, e).stock = held.stock + g
        /\ Leaving(other, e).avg = AverageAfterAdding(other.avg, held.stock, g, Whole(r))
    BY <2>2, ComesIn
  <2>5. Fine(Leaving(other, e))
    BY <2>2, FineIn
  <2>6. other.avg \in Fractions
    BY <2>2 DEF Fine, Lowest
  <2>7. Apart(held.stock + g, AverageAfterAdding(held.avg, held.stock, g, Whole(r)),
              AverageAfterAdding(other.avg, held.stock, g, Whole(r)), KeptOf(K, n).share, q, p, p1)
    BY <1>2, <2>2, <2>6, ApartBuy
  <2> QED BY <1>3, <1>5, <2>3, <2>4, <2>5, <2>7 DEF AsIf
<1> QED BY <1>1, <1>2, <1>3, <1>5, <1>6, <1>7 DEF Uncorrected

(* Nor does what is sold: it takes its share.                              *)
LEMMA UncorrectedSells ==
    ASSUME NEW K, NEW more, NEW e, NEW m, Grows(K, more, e, m), NEW held, NEW n \in DOMAIN K,
           NEW q \in Nat \ {0}, NEW p \in Nat, Uncorrected(K, held, n, q, p),
           NEW g \in Nat \ {0}, e.type = "sale", e.quantity = -g, Leaving(held, e).stock >= 0
    PROVE  Uncorrected(more, Leaving(held, e), n, q, p)
<1>1. more[n] = K[n] /\ n # m
  BY GrowsBeyond
<1>2. /\ held.stock \in Nat /\ held.avg \in Fractions
      /\ K[n].quantity = q /\ K[n].cost = Whole(p)
      /\ KeptOf(K, n).stock = held.stock /\ KeptOf(K, n).share \in Fractions
  BY DEF Uncorrected, Fine, Lowest
<1>3. Leaving(held, e).stock = held.stock + e.quantity /\ Leaving(held, e).avg = held.avg
  BY IsSold
<1>4. PICK s \in Nat \ {0}, l \in Nat : s = held.stock /\ l = s + e.quantity /\ l <= s
  BY <1>2, <1>3
<1>5. KeptOf(more, n) = Keeping(KeptOf(K, n), e)
  BY KeptGrows
<1>6. PICK u : u = KeptOf(K, n).share
  OBVIOUS
<1>7. KeptOf(more, n).stock = l /\ KeptOf(more, n).share = Fraction(u[1] * l, u[2] * s)
  <2>1. s > 0 /\ KeptOf(K, n).stock = s
    BY <1>2, <1>4
  <2> QED BY <1>4, <1>5, <1>6, <2>1 DEF Keeping
<1>8. Fine(Leaving(held, e))
  <2>1. e.quantity \in Int
    OBVIOUS
  <2> QED BY <2>1, FineSold DEF Uncorrected
<1>9. ASSUME NEW p1 \in Nat
      PROVE  /\ AsIf(more, Leaving(held, e), n, q, p, p1)
             /\ Lowest(Fraction(u[1] * l, u[2] * s))
  <2>1. PICK other : other = HistoryOf(K, n, Whole(p1), {})
    OBVIOUS
  <2>2. /\ Fine(other) /\ other.stock = s /\ Apart(s, held.avg, other.avg, u, q, p, p1)
    BY <1>4, <1>6, <2>1 DEF Uncorrected, AsIf
  <2>3. HistoryOf(more, n, Whole(p1), {}) = Leaving(other, e)
    <3>1. m \notin {}
      OBVIOUS
    <3> QED BY <1>1, <2>1, <3>1, PlainGrows
  <2>4. Leaving(other, e).stock = l /\ Leaving(other, e).avg = other.avg
    BY <1>4, <2>2, IsSold
  <2>5. Fine(Leaving(other, e))
    BY <1>4, <2>2, <2>4 DEF Fine
  <2>6. other.avg \in Fractions
    BY <2>2 DEF Fine, Lowest
  <2>7. /\ Lowest(Fraction(u[1] * l, u[2] * s))
        /\ Apart(l, held.avg, other.avg, Fraction(u[1] * l, u[2] * s), q, p, p1)
    BY <1>2, <1>4, <1>6, <2>2, <2>6, ApartSell
  <2> QED BY <1>3, <1>4, <1>7, <2>3, <2>4, <2>5, <2>7 DEF AsIf
<1>10. KeptOf(more, n).share \in Fractions
  <2>1. 0 \in Nat
    OBVIOUS
  <2> QED BY <1>7, <1>9, <2>1 DEF Lowest
<1> QED BY <1>1, <1>2, <1>3, <1>4, <1>7, <1>8, <1>9, <1>10 DEF Uncorrected

(* The average is where the history would have brought it, had the opening *)
(* at n cost what it was corrected to at m; where nothing is left there is *)
(* nothing to compare.                                                     *)
Settled(held, other) ==
    /\ held.stock \in Nat /\ other.stock = held.stock
    /\ held.avg \in Fractions /\ other.avg \in Fractions
    /\ held.stock > 0 => held.avg = other.avg

(* A correction of the cost of an opening of which anything is left. *)
LEMMA Settles ==
    ASSUME NEW K, NEW held, NEW n \in DOMAIN K, NEW q \in Nat \ {0}, NEW p \in Nat,
           Uncorrected(K, held, n, q, p), NEW p1 \in Nat,
           NEW a, a.type = "opening", a.quantity = q, a.cost = Whole(p1),
           NEW b, b.type = "reversal", b.quantity = -q,
           NEW u, u = KeptOf(K, n).share,
           b.cost = Blend(u[1], Whole(p), u[2] - u[1], Whole(p1), u[2])
    PROVE  Settled(Leaving(Leaving(held, a), b), HistoryOf(K, n, Whole(p1), {}))
<1>1. PICK other : other = HistoryOf(K, n, Whole(p1), {})
  OBVIOUS
<1>2. /\ Fine(other) /\ other.stock = held.stock
      /\ Apart(held.stock, held.avg, other.avg, u, q, p, p1)
  BY <1>1 DEF Uncorrected, AsIf
<1>3. /\ held.stock \in Nat /\ held.avg \in Fractions /\ u \in Fractions
      /\ Lowest(other.avg) /\ other.avg \in Fractions
  BY <1>2 DEF Uncorrected, Fine, Lowest
<1>4. PICK next : next = Leaving(held, a)
  OBVIOUS
<1>5. /\ next.stock = held.stock + q
      /\ next.avg = AverageAfterAdding(held.avg, held.stock, q, Whole(p1))
  BY <1>4, ComesIn
<1>6. Fine(next)
  BY <1>4, FineIn DEF Uncorrected
<1>7. /\ Leaving(next, b).stock = next.stock + b.quantity
      /\ Leaving(next, b).avg = AverageAfterRemoving(next.avg, next.stock, q, b.cost)
  BY GoesOut
<1>8. Leaving(next, b).stock = held.stock
  BY <1>3, <1>5, <1>7
<1>9. CASE held.stock = 0
  <2>1. next.stock <= q
    BY <1>5, <1>9
  <2>2. Leaving(next, b).avg = next.avg /\ next.avg \in Fractions
    BY <1>6, <1>7, <2>1 DEF AverageAfterRemoving, Fine, Lowest
  <2> QED BY <1>1, <1>2, <1>3, <1>4, <1>8, <1>9, <2>2 DEF Settled
<1>10. CASE held.stock # 0
  <2>1. held.stock \in Nat \ {0}
    BY <1>3, <1>10
  <2>2. AverageAfterRemoving(next.avg, held.stock + q, q, b.cost) = other.avg
    <3>1. PICK s, av, o, x, c : /\ s = held.stock /\ av = held.avg /\ o = other.avg
                                /\ x = next.avg /\ c = b.cost
      OBVIOUS
    <3>2. /\ s \in Nat \ {0} /\ av \in Fractions /\ Lowest(o)
          /\ Apart(s, av, o, u, q, p, p1)
      BY <1>2, <1>3, <2>1, <3>1
    <3>3. x = AverageAfterAdding(av, s, q, Whole(p1))
      BY <1>5, <3>1
    <3>4. c = Blend(u[1], Whole(p), u[2] - u[1], Whole(p1), u[2])
      BY <3>1
    <3>5. PICK h : h = s + q
      OBVIOUS
    <3>6. Correcting(s, av, o, u, q, p, p1, x, c, h)
      BY <1>3, <3>2, <3>3, <3>4, <3>5 DEF Correcting
    <3>7. AverageAfterRemoving(x, h, q, c) = o
      BY <3>6, Corrects
    <3> QED BY <3>1, <3>5, <3>7
  <2>3. Leaving(next, b).avg = other.avg
    BY <1>5, <1>7, <2>2
  <2> QED BY <1>1, <1>2, <1>3, <1>4, <1>8, <2>3 DEF Settled
<1> QED BY <1>9, <1>10

(* From then on what comes in and goes out does the same to both.          *)
LEMMA SettledBuys ==
    ASSUME NEW held, NEW other, Settled(held, other), NEW e, NEW g \in Nat \ {0}, NEW r \in Nat,
           e.type = "purchase", e.quantity = g, e.cost = Whole(r)
    PROVE  Settled(Leaving(held, e), Leaving(other, e))
<1>1. /\ held.stock \in Nat /\ other.stock = held.stock
      /\ held.avg \in Fractions /\ other.avg \in Fractions
      /\ held.stock > 0 => held.avg = other.avg
  BY DEF Settled
<1>2. /\ Leaving(held, e).stock = held.stock + g
      /\ Leaving(held, e).avg = AverageAfterAdding(held.avg, held.stock, g, Whole(r))
      /\ Leaving(other, e).stock = held.stock + g
      /\ Leaving(other, e).avg = AverageAfterAdding(other.avg, held.stock, g, Whole(r))
  BY <1>1, ComesIn
<1>3. ASSUME NEW a \in Fractions PROVE AverageAfterAdding(a, held.stock, g, Whole(r)) \in Fractions
  <2>1. PICK a1 \in Nat, a2 \in Nat \ {0} : a = <<a1, a2>>
    BY DEF Fractions
  <2>2. PICK v \in Nat : v = held.stock * a1
    BY <1>1
  <2>3. Worth(held.stock, a, v, a2)
    BY <1>1, <2>1, <2>2 DEF Worth
  <2>4. Lowest(AverageAfterAdding(a, held.stock, g, Whole(r)))
    BY <1>1, <2>3, AddingIs
  <2> QED BY <2>4 DEF Lowest
<1>4. Leaving(held, e).avg = Leaving(other, e).avg
  <2>1. CASE held.stock = 0
    BY <1>1, <1>2, <2>1, FirstIn
  <2>2. CASE held.stock # 0
    <3>1. held.avg = other.avg
      BY <1>1, <2>2
    <3> QED BY <1>2, <3>1
  <2> QED BY <2>1, <2>2
<1>5. Leaving(held, e).stock \in Nat /\ Leaving(other, e).stock = Leaving(held, e).stock
  BY <1>1, <1>2
<1>6. Leaving(held, e).avg \in Fractions
  BY <1>1, <1>2, <1>3
<1> QED BY <1>4, <1>5, <1>6 DEF Settled

(* What is sold leaves both averages as they are.                          *)
LEMMA SettledSells ==
    ASSUME NEW held, NEW other, Settled(held, other), NEW e, NEW g \in Nat \ {0},
           e.type = "sale", e.quantity = -g, Leaving(held, e).stock >= 0
    PROVE  Settled(Leaving(held, e), Leaving(other, e))
<1>1. /\ Leaving(held, e).stock = held.stock + e.quantity /\ Leaving(held, e).avg = held.avg
      /\ Leaving(other, e).stock = other.stock + e.quantity /\ Leaving(other, e).avg = other.avg
  BY IsSold
<1>2. /\ held.stock \in Nat /\ other.stock = held.stock
      /\ held.avg \in Fractions /\ other.avg \in Fractions
      /\ held.stock > 0 => held.avg = other.avg
  BY DEF Settled
<1>3. held.stock + e.quantity \in Nat /\ held.stock > 0
  BY <1>1, <1>2
<1> QED BY <1>1, <1>2, <1>3 DEF Settled

(* What comes to the stock and the average is always a stock and an average.*)
LEMMA HistoryHolds ==
    ASSUME NEW K, Listed(K), NEW n, NEW p, NEW skip
    PROVE  HistoryOf(K, n, p, skip)
             = [stock |-> HistoryOf(K, n, p, skip).stock, avg |-> HistoryOf(K, n, p, skip).avg]
<1> DEFINE lines == KardexLines(K, n, p, skip)
           Pair(s) == s = [stock |-> s.stock, avg |-> s.avg]
           bad == {k \in Nat : ~Pair(Run("replay", Start, lines, 0, k))}
<1>1. Len(K) \in Nat
  BY ListedIs
<1>2. SUFFICES ASSUME bad # {} PROVE FALSE
  <2>1. bad = {} => Pair(Run("replay", Start, lines, 0, Len(K)))
    BY <1>1
  <2> QED BY <2>1 DEF HistoryOf
<1>3. PICK k \in bad : \A l \in bad : k <= l
  <2>1. bad \in SUBSET Nat
    OBVIOUS
  <2> HIDE DEF bad
  <2> QED BY <1>2, <2>1, LeastExists
<1>4. k \in Nat /\ ~Pair(Run("replay", Start, lines, 0, k))
  OBVIOUS
<1> HIDE DEF lines
<1>5. CASE k = 0
  <2>1. Run("replay", Start, lines, 0, k) = Start
    BY <1>5, RunStarts
  <2> QED BY <1>4, <2>1 DEF Start
<1>6. CASE k # 0
  <2>1. PICK l \in Nat : k = l + 1
    <3>1. k \in Nat \ {0}
      BY <1>4, <1>6
    <3> HIDE DEF bad
    <3>2. k - 1 \in Nat /\ k = (k - 1) + 1
      BY <3>1
    <3> QED BY <3>2
  <2>2. l \notin bad
    BY <1>3, <2>1
  <2>3. PICK s : s = Run("replay", Start, lines, 0, l)
    OBVIOUS
  <2>4. Pair(s)
    BY <2>1, <2>2, <2>3
  <2>5. Run("replay", Start, lines, 0, k) = Through("replay", s, lines[k])
    <3>1. 0 <= l /\ 0 \in Nat
      BY <2>1
    <3> QED BY <2>1, <2>3, <3>1, RunGoesOn
  <2>6. CASE lines[k].does = "skip"
    <3>1. Through("replay", s, lines[k]) = s
      BY <2>6 DEF Through
    <3> QED BY <1>4, <2>4, <2>5, <3>1
  <2>7. CASE lines[k].does # "skip"
    <3>1. PICK t : t = Leaving(s, lines[k].entry)
      OBVIOUS
    <3>2. Through("replay", s, lines[k]) = t
      BY <2>7, <3>1 DEF Through
    <3>3. Pair(t)
      BY <3>1 DEF Leaving
    <3> QED BY <1>4, <2>5, <3>2, <3>3
  <2> QED BY <2>6, <2>7
<1> QED BY <1>4, <1>5, <1>6

(* To leave out entries that are yet to come changes nothing.              *)
LEMMA SkipBeyond ==
    ASSUME NEW K, Listed(K), NEW n, NEW p, NEW skip, DOMAIN K \cap skip = {}
    PROVE  HistoryOf(K, n, p, skip) = HistoryOf(K, n, p, {})
<1>1. Len(K) \in Nat /\ DOMAIN K = 1..Len(K)
  BY ListedIs
<1>2. Alike(KardexLines(K, n, p, skip), KardexLines(K, n, p, {}), 0, Len(K))
  <2>1. ASSUME NEW k \in 1..Len(K) PROVE KardexLines(K, n, p, skip)[k] = KardexLines(K, n, p, {})[k]
    <3>1. k \in DOMAIN K /\ k \notin skip
      BY <1>1
    <3> QED BY <3>1 DEF KardexLines
  <2>2. 0 + 1 = 1
    OBVIOUS
  <2> QED BY <2>1, <2>2 DEF Alike
<1>3. 0 <= Len(K)
  BY <1>1
<1> QED BY <1>1, <1>2, <1>3, RunAlike DEF HistoryOf

-----------------------------------------------------------------------------
(* The kardex tells what the item has. *)

(* An opening is some units at a price. *)
Opens(e) == \E q \in Nat \ {0}, p \in Nat \ {0} : e.quantity = q /\ e.cost = Whole(p)

Replayed(K, held) ==
    /\ Listed(K)
    /\ held.stock \in Nat /\ held.stock = SumOf(Figures(K), DOMAIN K)
    /\ held = HistoryOf(K, 0, Whole(0), {})
    /\ \A n \in OfType(K, "opening") : Opens(K[n])

(* An entry more is told like the others.                                  *)
LEMMA ReplayedGrows ==
    ASSUME NEW K, NEW more, NEW e, NEW m, Grows(K, more, e, m), NEW held, Replayed(K, held),
           Leaving(held, e).stock >= 0, e.type = "opening" => Opens(e)
    PROVE  Replayed(more, Leaving(held, e))
<1>1. /\ OneMore(more, K, e, m) /\ Listed(more) /\ m \in Nat \ {0}
      /\ DOMAIN K = 1..(m - 1) /\ DOMAIN more = 1..m
  BY GrowsIs
<1>2. Leaving(held, e).stock = held.stock + e.quantity /\ e.quantity \in Int
  BY DEF Leaving, Grows
<1>3. AddUp(more, K, e, m, DOMAIN K)
  BY <1>1, EntriesAdd
<1>4. DOMAIN more = DOMAIN K \cup {m}
  BY <1>1 DEF OneMore
<1>5. Leaving(held, e).stock = SumOf(Figures(more), DOMAIN more)
  BY <1>2, <1>3, <1>4 DEF AddUp, Replayed
<1>6. Leaving(held, e).stock \in Nat
  BY <1>2 DEF Replayed
<1>7. Leaving(held, e) = HistoryOf(more, 0, Whole(0), {})
  <2>1. 0 # m /\ m \notin {}
    BY <1>1
  <2>2. HistoryOf(more, 0, Whole(0), {}) = Leaving(HistoryOf(K, 0, Whole(0), {}), e)
    BY <2>1, PlainGrows
  <2> QED BY <2>2 DEF Replayed
<1>8. \A n \in OfType(more, "opening") : Opens(more[n])
  <2>1. ASSUME NEW n \in OfType(more, "opening") PROVE Opens(more[n])
    <3>1. n \in DOMAIN K \cup {m} /\ more[n].type = "opening"
      BY <1>4, <2>1 DEF OfType
    <3>2. CASE n = m
      <4>1. more[n] = e
        BY <1>1, <3>2 DEF OneMore
      <4> QED BY <3>1, <4>1
    <3>3. CASE n \in DOMAIN K
      <4>1. more[n] = K[n]
        BY <1>1, <3>3 DEF OneMore
      <4> QED BY <3>1, <3>3, <4>1 DEF Replayed, OfType
    <3> QED BY <3>1, <3>2, <3>3
  <2> QED BY <2>1
<1> QED BY <1>1, <1>5, <1>6, <1>7, <1>8 DEF Replayed

(* What a kardex with an entry more has of a type. *)
LEMMA TypesGrow ==
    ASSUME NEW K, NEW more, NEW e, NEW m, Grows(K, more, e, m), NEW type
    PROVE  OfType(more, type) = IF e.type = type THEN OfType(K, type) \cup {m} ELSE OfType(K, type)
<1>1. OneMore(more, K, e, m)
  BY GrowsIs
<1> QED BY <1>1 DEF OneMore, OfType

-----------------------------------------------------------------------------
(* What corrections leave to be told. *)

(* Each opening names the one it takes over from, or none, and where it    *)
(* names one the reversal of that one comes right after it.                *)
Ordered(K) ==
    \A n \in OfType(K, "opening") :
        K[n].ref \in Nat /\ K[n].ref < n /\ (K[n].ref # 0 => n + 1 \in OfType(K, "reversal"))

(* Nothing has been corrected or taken back yet.                           *)
Bare(K) == OfType(K, "reversal") = {} /\ OfType(K, "return") = {}

(* All there is to correct is the opening at n, once, at m, and its cost.  *)
OneCorrection(K, n, m) ==
    /\ OfType(K, "return") = {}
    /\ OfType(K, "opening") = {n, m}
    /\ OfType(K, "reversal") = {m + 1}
    /\ K[m].ref = n
    /\ K[m].quantity = K[n].quantity

(* An item without an opening, with one, and with one corrected in cost.   *)
Traced(K, held) ==
    /\ OfType(K, "opening") = {} /\ Bare(K) => Fine(held)
    /\ \A n : OfType(K, "opening") = {n} /\ Bare(K) =>
            \E q \in Nat \ {0}, p \in Nat : Uncorrected(K, held, n, q, p)
    /\ \A n, m : OneCorrection(K, n, m) =>
            Settled(held, HistoryOf(K, n, K[m].cost, {m, m + 1}))

Sound(K, held) == Ordered(K) /\ Traced(K, held)

(* The openings are as far as they were where none is added. *)
LEMMA OrderedGrows ==
    ASSUME NEW K, NEW more, NEW e, NEW m, Grows(K, more, e, m), Ordered(K), e.type # "opening"
    PROVE  Ordered(more)
<1>1. OfType(more, "opening") = OfType(K, "opening")
  BY TypesGrow
<1>2. OfType(K, "reversal") \subseteq OfType(more, "reversal")
  BY TypesGrow
<1>3. ASSUME NEW n \in OfType(more, "opening")
      PROVE  more[n].ref \in Nat /\ more[n].ref < n
             /\ (more[n].ref # 0 => n + 1 \in OfType(more, "reversal"))
  <2>1. n \in DOMAIN K /\ n \in OfType(K, "opening")
    BY <1>1 DEF OfType
  <2>2. more[n] = K[n]
    BY <2>1, GrowsBeyond
  <2> QED BY <1>2, <2>1, <2>2 DEF Ordered
<1> QED BY <1>3 DEF Ordered

(* What is bought and sold leaves the trace. *)
LEMMA TradeSound ==
    ASSUME NEW K, NEW more, NEW e, NEW m, Grows(K, more, e, m), NEW held, Sound(K, held),
           NEW g \in Nat \ {0},
           \/ e.type = "purchase" /\ e.quantity = g /\ \E r \in Nat : e.cost = Whole(r)
           \/ e.type = "sale" /\ e.quantity = -g,
           Leaving(held, e).stock >= 0
    PROVE  Sound(more, Leaving(held, e))
<1>1. /\ e.type \notin {"opening", "reversal", "return"} /\ e.quantity \in Int
      /\ \/ e.type = "sale" /\ e.quantity = -g
         \/ e.type = "purchase" /\ e.quantity = g /\ \E r \in Nat : e.cost = Whole(r)
  OBVIOUS
<1>2. /\ OfType(more, "opening") = OfType(K, "opening")
      /\ OfType(more, "reversal") = OfType(K, "reversal")
      /\ OfType(more, "return") = OfType(K, "return")
  BY <1>1, TypesGrow
<1>3. Ordered(more)
  BY <1>1, OrderedGrows DEF Sound
<1>4. OfType(more, "opening") = {} /\ Bare(more) => Fine(Leaving(held, e))
  <2> SUFFICES ASSUME OfType(more, "opening") = {}, Bare(more) PROVE Fine(Leaving(held, e))
    OBVIOUS
  <2>1. Fine(held)
    BY <1>2 DEF Sound, Traced, Bare
  <2>2. CASE e.type = "sale"
    BY <1>1, <2>1, <2>2, FineSold
  <2>3. CASE e.type # "sale"
    BY <1>1, <2>1, <2>3, FineIn
  <2> QED BY <2>2, <2>3
<1>5. ASSUME NEW n, OfType(more, "opening") = {n}, Bare(more)
      PROVE  \E q \in Nat \ {0}, p \in Nat : Uncorrected(more, Leaving(held, e), n, q, p)
  <2>1. OfType(K, "opening") = {n} /\ Bare(K)
    BY <1>2, <1>5 DEF Bare
  <2>2. PICK q \in Nat \ {0}, p \in Nat : Uncorrected(K, held, n, q, p)
    BY <2>1 DEF Sound, Traced
  <2>3. n \in DOMAIN K
    BY <2>1 DEF OfType
  <2>4. CASE e.type = "sale"
    <3>1. e.quantity = -g
      BY <1>1, <2>4
    <3> QED BY <2>2, <2>3, <2>4, <3>1, UncorrectedSells
  <2>5. CASE e.type # "sale"
    <3>1. e.type = "purchase" /\ e.quantity = g /\ \E r \in Nat : e.cost = Whole(r)
      BY <1>1, <2>5
    <3>2. PICK r \in Nat : e.cost = Whole(r)
      BY <3>1
    <3> QED BY <2>2, <2>3, <3>1, <3>2, UncorrectedBuys
  <2> QED BY <2>4, <2>5
<1>6. ASSUME NEW n, NEW l, OneCorrection(more, n, l)
      PROVE  Settled(Leaving(held, e), HistoryOf(more, n, more[l].cost, {l, l + 1}))
  <2>1. n \in OfType(K, "opening") /\ l \in OfType(K, "opening") /\ l + 1 \in OfType(K, "reversal")
    BY <1>2, <1>6 DEF OneCorrection
  <2>2. n \in DOMAIN K /\ l \in DOMAIN K /\ l + 1 \in DOMAIN K
    BY <2>1 DEF OfType
  <2>3. /\ more[n] = K[n] /\ more[l] = K[l]
        /\ n # m /\ l # m /\ l + 1 # m
    BY <2>2, GrowsBeyond
  <2>4. OneCorrection(K, n, l)
    BY <1>2, <1>6, <2>3 DEF OneCorrection
  <2>5. PICK other : other = HistoryOf(K, n, K[l].cost, {l, l + 1})
    OBVIOUS
  <2>6. Settled(held, other)
    BY <2>4, <2>5 DEF Sound, Traced
  <2>7. HistoryOf(more, n, more[l].cost, {l, l + 1}) = Leaving(other, e)
    <3>1. m \notin {l, l + 1}
      BY <2>3
    <3>2. HistoryOf(more, n, K[l].cost, {l, l + 1}) = Leaving(HistoryOf(K, n, K[l].cost, {l, l + 1}), e)
      BY <2>3, <3>1, PlainGrows
    <3> QED BY <2>3, <2>5, <3>2
  <2>8. CASE e.type = "sale"
    <3>1. e.quantity = -g
      BY <1>1, <2>8
    <3>2. Settled(Leaving(held, e), Leaving(other, e))
      BY <2>6, <2>8, <3>1, SettledSells
    <3> QED BY <2>7, <3>2
  <2>9. CASE e.type # "sale"
    <3>1. e.type = "purchase" /\ e.quantity = g /\ \E r \in Nat : e.cost = Whole(r)
      BY <1>1, <2>9
    <3>2. Settled(Leaving(held, e), Leaving(other, e))
      BY <2>6, <3>1, SettledBuys
    <3> QED BY <2>7, <3>2
  <2> QED BY <2>8, <2>9
<1> QED BY <1>3, <1>4, <1>5, <1>6 DEF Sound, Traced

(* After something was taken back nothing more is told. *)
LEMMA ReturnSound ==
    ASSUME NEW K, NEW more, NEW e, NEW m, Grows(K, more, e, m), NEW held, Sound(K, held),
           e.type = "return"
    PROVE  Sound(more, Leaving(held, e))
<1>1. OfType(more, "return") # {}
  BY TypesGrow
<1>2. Ordered(more)
  <2>1. e.type # "opening"
    OBVIOUS
  <2> QED BY <2>1, OrderedGrows DEF Sound
<1> QED BY <1>1, <1>2 DEF Sound, Traced, Bare, OneCorrection

(* An opening that takes over from none: it is the first, or nothing told  *)
(* of it.                                                                  *)
LEMMA OpeningSound ==
    ASSUME NEW K, NEW more, NEW e, NEW m, Grows(K, more, e, m), NEW held, Sound(K, held),
           Replayed(K, held), e.type = "opening", Opens(e), e.ref = 0
    PROVE  Sound(more, Leaving(held, e))
<1>1. /\ OneMore(more, K, e, m) /\ m \in Nat \ {0}
      /\ DOMAIN K = 1..(m - 1) /\ DOMAIN more = 1..m
  BY GrowsIs
<1>2. /\ OfType(more, "opening") = OfType(K, "opening") \cup {m}
      /\ OfType(more, "reversal") = OfType(K, "reversal")
      /\ OfType(more, "return") = OfType(K, "return")
  BY TypesGrow
<1>3. more[m] = e /\ m \notin DOMAIN K
  BY <1>1 DEF OneMore
<1>4. ASSUME NEW n \in OfType(K, "opening") PROVE n \in DOMAIN K /\ more[n] = K[n] /\ n < m
  <2>1. n \in DOMAIN K
    BY DEF OfType
  <2> QED BY <1>1, <2>1, GrowsBeyond
<1>5. Ordered(more)
  <2>1. ASSUME NEW n \in OfType(more, "opening")
        PROVE  more[n].ref \in Nat /\ more[n].ref < n
               /\ (more[n].ref # 0 => n + 1 \in OfType(more, "reversal"))
    <3>1. CASE n = m
      <4>1. more[n].ref = 0 /\ 0 < n
        BY <1>1, <1>3, <3>1
      <4> QED BY <4>1
    <3>2. CASE n # m
      <4>1. n \in OfType(K, "opening")
        BY <1>2, <3>2
      <4> QED BY <1>2, <1>4, <4>1 DEF Sound, Ordered
    <3> QED BY <3>1, <3>2
  <2> QED BY <2>1 DEF Ordered
<1>6. ASSUME NEW n, OfType(more, "opening") = {n}, Bare(more)
      PROVE  \E q \in Nat \ {0}, p \in Nat : Uncorrected(more, Leaving(held, e), n, q, p)
  <2>1. n = m /\ OfType(K, "opening") = {}
    <3>1. n = m
      BY <1>2, <1>6
    <3>2. m \notin OfType(K, "opening")
      BY <1>3 DEF OfType
    <3> QED BY <1>2, <1>6, <3>1, <3>2
  <2>2. Fine(held)
    BY <1>2, <1>6, <2>1 DEF Sound, Traced, Bare
  <2>3. PICK q \in Nat \ {0}, p \in Nat \ {0} : e.quantity = q /\ e.cost = Whole(p)
    BY DEF Opens
  <2>4. p \in Nat /\ held = HistoryOf(K, 0, Whole(0), {}) /\ held.stock = SumOf(Figures(K), DOMAIN K)
    BY DEF Replayed
  <2>5. Uncorrected(more, Leaving(held, e), m, q, p)
    BY <2>2, <2>3, <2>4, OpeningFirst
  <2> QED BY <2>1, <2>4, <2>5
<1>7. ASSUME NEW n, NEW l, OneCorrection(more, n, l) PROVE FALSE
  <2>1. OfType(more, "opening") = {n, l} /\ more[l].ref = n
    BY <1>7 DEF OneCorrection
  <2>2. n \in 1..m /\ l \in 1..m
    <3>1. n \in DOMAIN more /\ l \in DOMAIN more
      BY <2>1 DEF OfType
    <3> QED BY <1>1, <3>1
  <2>3. l # m
    BY <1>3, <2>1, <2>2
  <2>4. n = m
    BY <1>2, <2>1, <2>3
  <2>5. l \in OfType(more, "opening")
    BY <2>1
  <2>6. more[l].ref < l
    BY <1>5, <2>5 DEF Ordered
  <2> QED BY <2>1, <2>2, <2>4, <2>6
<1>8. OfType(more, "opening") # {}
  BY <1>2
<1> QED BY <1>5, <1>6, <1>7, <1>8 DEF Sound, Traced

(* An opening taken away is not a correction of it.                        *)
LEMMA ReversalSound ==
    ASSUME NEW K, NEW more, NEW e, NEW m, Grows(K, more, e, m), NEW held, Sound(K, held),
           e.type = "reversal"
    PROVE  Sound(more, Leaving(held, e))
<1>1. /\ OfType(more, "opening") = OfType(K, "opening")
      /\ OfType(more, "reversal") = OfType(K, "reversal") \cup {m}
  BY TypesGrow
<1>2. Ordered(more)
  <2>1. e.type # "opening"
    OBVIOUS
  <2> QED BY <2>1, OrderedGrows DEF Sound
<1>3. ASSUME NEW n, NEW l, OneCorrection(more, n, l) PROVE FALSE
  <2>1. /\ n \in OfType(K, "opening") /\ l \in OfType(K, "opening")
        /\ more[l].ref = n /\ l + 1 = m
    BY <1>1, <1>3 DEF OneCorrection
  <2>2. n \in DOMAIN K /\ l \in DOMAIN K
    BY <2>1 DEF OfType
  <2>3. n # 0 /\ K[l] = more[l]
    <3>1. DOMAIN K = 1..(m - 1) /\ m \in Nat
      BY GrowsIs
    <3> QED BY <2>2, <3>1, GrowsBeyond
  <2>4. m \in OfType(K, "reversal")
    BY <2>1, <2>3 DEF Sound, Ordered
  <2>5. m \in DOMAIN K
    BY <2>4 DEF OfType
  <2> QED BY <2>5, GrowsBeyond
<1> QED BY <1>1, <1>2, <1>3 DEF Sound, Traced, Bare

(* A correction: a takes over from the opening at n, and b takes it out at *)
(* the cost that the service works out.                                    *)
LEMMA CorrectionSound ==
    ASSUME NEW K, NEW mid, NEW a, NEW m, Grows(K, mid, a, m), NEW held, Sound(K, held),
           NEW more, NEW b, Grows(mid, more, b, m + 1),
           NEW n \in DOMAIN K,
           NEW p1 \in Nat, a.type = "opening", a.cost = Whole(p1), a.ref = n,
           b.type = "reversal", b.quantity = -K[n].quantity,
           NEW u, u = KeptOf(K, n).share,
           b.cost = Blend(u[1], K[n].cost, u[2] - u[1], Whole(p1), u[2])
    PROVE  Sound(more, Leaving(Leaving(held, a), b))
<1>1. m \in Nat \ {0} /\ DOMAIN K = 1..(m - 1) /\ DOMAIN mid = 1..m
  BY GrowsIs
<1>2. /\ OfType(mid, "opening") = OfType(K, "opening") \cup {m}
      /\ OfType(mid, "reversal") = OfType(K, "reversal")
      /\ OfType(mid, "return") = OfType(K, "return")
  BY TypesGrow
<1>3. /\ OfType(more, "opening") = OfType(K, "opening") \cup {m}
      /\ OfType(more, "reversal") = OfType(K, "reversal") \cup {m + 1}
      /\ OfType(more, "return") = OfType(K, "return")
  BY <1>2, TypesGrow
<1>4. mid[m] = a /\ m \notin DOMAIN K /\ m \in DOMAIN mid
  <2>1. OneMore(mid, K, a, m)
    BY GrowsIs
  <2> QED BY <1>1, <2>1 DEF OneMore
<1>5. more[m] = a
  BY <1>4, GrowsBeyond
<1>6. ASSUME NEW k \in DOMAIN K PROVE more[k] = K[k] /\ k \in DOMAIN mid
  <2>1. mid[k] = K[k] /\ k \in DOMAIN mid
    BY <1>1, GrowsBeyond
  <2>2. more[k] = mid[k]
    BY <2>1, GrowsBeyond
  <2> QED BY <2>1, <2>2
<1>7. Ordered(more)
  <2>1. ASSUME NEW k \in OfType(more, "opening")
        PROVE  more[k].ref \in Nat /\ more[k].ref < k
               /\ (more[k].ref # 0 => k + 1 \in OfType(more, "reversal"))
    <3>1. CASE k = m
      <4>1. more[k].ref = n /\ n \in Nat /\ n < m
        BY <1>1, <1>5, <3>1
      <4> QED BY <1>3, <3>1, <4>1
    <3>2. CASE k # m
      <4>1. k \in OfType(K, "opening")
        BY <1>3, <3>2
      <4>2. k \in DOMAIN K
        BY <4>1 DEF OfType
      <4>3. more[k] = K[k]
        BY <1>6, <4>2
      <4> QED BY <1>3, <4>1, <4>3 DEF Sound, Ordered
    <3> QED BY <3>1, <3>2
  <2> QED BY <2>1 DEF Ordered
<1>8. ASSUME NEW k, NEW l, OneCorrection(more, k, l)
      PROVE  Settled(Leaving(Leaving(held, a), b), HistoryOf(more, k, more[l].cost, {l, l + 1}))
  <2>1. /\ OfType(more, "return") = {} /\ OfType(more, "opening") = {k, l}
        /\ OfType(more, "reversal") = {l + 1}
        /\ more[l].ref = k /\ more[l].quantity = more[k].quantity
    BY <1>8 DEF OneCorrection
  <2>2. l = m /\ OfType(K, "reversal") = {}
    <3>1. l + 1 = m + 1
      BY <1>3, <2>1
    <3>2. l \in 1..(m + 1)
      <4>1. l \in DOMAIN more /\ DOMAIN more = 1..(m + 1)
        <5>1. l \in DOMAIN more
          BY <2>1 DEF OfType
        <5> QED BY <5>1, GrowsIs
      <4> QED BY <4>1
    <3>3. l = m
      BY <1>1, <3>1, <3>2
    <3>4. m + 1 \notin DOMAIN K
      BY <1>1
    <3>5. m + 1 \notin OfType(K, "reversal")
      BY <3>4 DEF OfType
    <3> QED BY <1>3, <2>1, <3>3, <3>5
  <2>3. k = n
    BY <1>5, <2>1, <2>2
  <2>4. OfType(K, "opening") = {n} /\ Bare(K)
    <3>1. m \notin OfType(K, "opening") /\ n # m
      BY <1>4 DEF OfType
    <3> QED BY <1>3, <2>1, <2>2, <2>3, <3>1 DEF Bare
  <2>5. PICK q \in Nat \ {0}, p \in Nat : Uncorrected(K, held, n, q, p)
    BY <2>4 DEF Sound, Traced
  <2>6. K[n].quantity = q /\ K[n].cost = Whole(p) /\ more[n] = K[n]
    BY <1>6, <2>5 DEF Uncorrected
  <2>7. a.quantity = q
    BY <1>5, <2>1, <2>2, <2>3, <2>6
  <2>8. PICK x : x = Whole(p1)
    OBVIOUS
  <2>9. Settled(Leaving(Leaving(held, a), b), HistoryOf(K, n, x, {}))
    <3>1. b.cost = Blend(u[1], Whole(p), u[2] - u[1], Whole(p1), u[2]) /\ b.quantity = -q
      BY <2>6
    <3> QED BY <2>5, <2>7, <2>8, <3>1, Settles
  <2>10. HistoryOf(more, n, x, {m, m + 1}) = HistoryOf(K, n, x, {})
    <3>1. PICK skip : skip = {m, m + 1}
      OBVIOUS
    <3>2. m \in skip /\ m + 1 \in skip /\ DOMAIN K \cap skip = {}
      BY <1>1, <3>1
    <3>3. HistoryOf(more, n, x, skip) = HistoryOf(mid, n, x, skip)
      BY <3>2, HistoryGrows
    <3>4. HistoryOf(mid, n, x, skip) = HistoryOf(K, n, x, skip)
      BY <3>2, HistoryGrows
    <3>5. HistoryOf(K, n, x, skip) = HistoryOf(K, n, x, {})
      BY <3>2, SkipBeyond DEF Grows
    <3> QED BY <3>1, <3>3, <3>4, <3>5
  <2>11. more[l].cost = x
    BY <1>5, <2>2, <2>8
  <2> QED BY <2>2, <2>3, <2>9, <2>10, <2>11
<1>9. m + 1 \in OfType(more, "reversal")
  BY <1>3
<1> QED BY <1>7, <1>8, <1>9 DEF Sound, Traced, Bare

-----------------------------------------------------------------------------
(* The entries that the service posts. *)

(* The opening that is read is one of them, or there is none. *)
LEMMA LiveIs ==
    ASSUME Listed(kardex)
    PROVE  LiveOpening \in {0} \cup OfType(kardex, "opening")
<1> DEFINE taken == {kardex[n].ref : n \in {m \in DOMAIN kardex : kardex[m].type = "reversal"}}
           live == {n \in DOMAIN kardex : kardex[n].type = "opening" /\ n \notin taken}
<1>1. LiveOpening = Max({0} \cup live)
  BY DEF LiveOpening
<1>2. live \subseteq OfType(kardex, "opening")
  BY DEF OfType
<1>3. Len(kardex) \in Nat /\ live \subseteq 1..Len(kardex)
  BY ListedIs
<1> HIDE DEF live
<1>4. CASE live = {}
  <2>1. Max({0} \cup live) = 0
    BY <1>4 DEF Max
  <2> QED BY <1>1, <2>1
<1>5. CASE live # {}
  <2>1. PICK g \in live : \A k \in live : k <= g
    BY <1>3, <1>5, LastExists
  <2>2. \A k \in {0} \cup live : k \in Nat /\ g >= k
    BY <1>3, <2>1
  <2>3. PICK S : S = {0} \cup live
    OBVIOUS
  <2>4. g \in S /\ (\A k \in S : g >= k) /\ \A k \in S : k \in Nat
    BY <2>1, <2>2, <2>3
  <2>5. Max(S) = g
    <3>1. \A x \in S : (\A y \in S : x >= y) => x = g
      BY <2>4
    <3> QED BY <2>4, <3>1 DEF Max
  <2> QED BY <1>1, <1>2, <2>1, <2>3, <2>5
<1> QED BY <1>4, <1>5

(* No entry goes. *)
LEMMA GrowsKeeps ==
    ASSUME NEW K, NEW more, NEW e, NEW m, Grows(K, more, e, m)
    PROVE  DOMAIN K \subseteq DOMAIN more
BY GrowsIs

(* One entry posted, and what the kardex is then. *)
LEMMA OnePosted ==
    ASSUME Replayed(kardex, Held), NEW e, e.quantity \in Int, Posted(<<e>>)
    PROVE  /\ Grows(kardex, kardex', e, Len(kardex) + 1)
           /\ Held' = Leaving(Held, e) /\ Leaving(Held, e).stock >= 0
           /\ DOMAIN kardex \subseteq DOMAIN kardex'
<1>1. kardex' = kardex \o <<e>> /\ Held' = Leaving(Held, e) /\ Leaving(Held, e).stock >= 0
  BY PostedOne
<1>2. PICK m : m = Len(kardex) + 1
  OBVIOUS
<1>3. Grows(kardex, kardex', e, m)
  BY <1>1, <1>2 DEF Grows, Replayed
<1>4. DOMAIN kardex \subseteq DOMAIN kardex'
  BY <1>3, GrowsKeeps
<1> QED BY <1>1, <1>2, <1>3, <1>4

(* What is bought and sold. *)
LEMMA TradePosted ==
    ASSUME Replayed(kardex, Held), NEW e, NEW g \in Nat \ {0},
           \/ e.type = "purchase" /\ e.quantity = g /\ \E r \in Nat : e.cost = Whole(r)
           \/ e.type = "sale" /\ e.quantity = -g,
           Posted(<<e>>)
    PROVE  /\ Replayed(kardex', Held') /\ DOMAIN kardex \subseteq DOMAIN kardex'
           /\ Sound(kardex, Held) => Sound(kardex', Held')
<1>1. e.quantity \in Int /\ e.type # "opening"
  OBVIOUS
<1>2. PICK m : m = Len(kardex) + 1
  OBVIOUS
<1>3. /\ Grows(kardex, kardex', e, m)
      /\ Held' = Leaving(Held, e) /\ Leaving(Held, e).stock >= 0
      /\ DOMAIN kardex \subseteq DOMAIN kardex'
  BY <1>1, <1>2, OnePosted
<1>4. Replayed(kardex', Held')
  BY <1>1, <1>3, ReplayedGrows
<1>5. ASSUME Sound(kardex, Held) PROVE Sound(kardex', Held')
  <2>1. Sound(kardex', Leaving(Held, e))
    BY <1>3, <1>5, TradeSound
  <2> QED BY <1>3, <2>1
<1> QED BY <1>3, <1>4, <1>5

(* What is taken back. *)
LEMMA ReturnPosted ==
    ASSUME Replayed(kardex, Held), NEW e, e.type = "return", e.quantity \in Int, Posted(<<e>>)
    PROVE  /\ Replayed(kardex', Held') /\ DOMAIN kardex \subseteq DOMAIN kardex'
           /\ Sound(kardex, Held) => Sound(kardex', Held')
<1>1. PICK m : m = Len(kardex) + 1
  OBVIOUS
<1>2. /\ Grows(kardex, kardex', e, m)
      /\ Held' = Leaving(Held, e) /\ Leaving(Held, e).stock >= 0
      /\ DOMAIN kardex \subseteq DOMAIN kardex'
  BY <1>1, OnePosted
<1>3. Replayed(kardex', Held')
  BY <1>2, ReplayedGrows
<1>4. ASSUME Sound(kardex, Held) PROVE Sound(kardex', Held')
  BY <1>2, <1>4, ReturnSound
<1> QED BY <1>2, <1>3, <1>4

(* An opening where there was none. *)
LEMMA OpeningPosted ==
    ASSUME Replayed(kardex, Held), NEW e, e.type = "opening", Opens(e), e.ref = 0, Posted(<<e>>)
    PROVE  /\ Replayed(kardex', Held') /\ DOMAIN kardex \subseteq DOMAIN kardex'
           /\ Sound(kardex, Held) => Sound(kardex', Held')
<1>1. e.quantity \in Int
  BY DEF Opens
<1>2. PICK m : m = Len(kardex) + 1
  OBVIOUS
<1>3. /\ Grows(kardex, kardex', e, m)
      /\ Held' = Leaving(Held, e) /\ Leaving(Held, e).stock >= 0
      /\ DOMAIN kardex \subseteq DOMAIN kardex'
  BY <1>1, <1>2, OnePosted
<1>4. Replayed(kardex', Held')
  BY <1>3, ReplayedGrows
<1>5. ASSUME Sound(kardex, Held) PROVE Sound(kardex', Held')
  BY <1>3, <1>5, OpeningSound
<1> QED BY <1>3, <1>4, <1>5

(* A correction of the opening at live, worked out from what is in the     *)
(* kardex when it is posted.                                               *)
LEMMA CorrectionPosted ==
    ASSUME Replayed(kardex, Held), NEW live \in {0} \cup DOMAIN kardex, NEW share,
           NEW t \in {Nothing} \cup Lot, Posted(Correction(live, share, t))
    PROVE  /\ Replayed(kardex', Held') /\ DOMAIN kardex \subseteq DOMAIN kardex'
           /\ Sound(kardex, Held) /\ (live # 0 => share = Retention(live)) => Sound(kardex', Held')
<1> DEFINE a0 == Entry("opening", t.quantity, Whole(t.price), live)
           b0 == Entry("reversal", -kardex[live].quantity, ReversalCost(live, share, t), live)
<1>1. PICK a : a = a0
  OBVIOUS
<1>2. PICK b : b = b0
  OBVIOUS
<1>3. /\ a.type = "opening" /\ a.quantity = t.quantity /\ a.cost = Whole(t.price) /\ a.ref = live
      /\ b.type = "reversal" /\ b.quantity = -kardex[live].quantity
      /\ b.cost = ReversalCost(live, share, t)
  BY <1>1, <1>2 DEF Entry
<1>4. Correction(live, share, t) = (IF t.quantity = 0 THEN <<>> ELSE <<a>>)
                                       \o (IF live = 0 THEN <<>> ELSE <<b>>)
  BY <1>1, <1>2 DEF Correction
<1> HIDE DEF a0, b0
<1>5. t.quantity # 0 => Opens(a) /\ t.quantity \in Nat \ {0} /\ t.price \in Nat
  <2> SUFFICES ASSUME t.quantity # 0 PROVE Opens(a) /\ t.quantity \in Nat \ {0} /\ t.price \in Nat
    OBVIOUS
  <2>1. t \in Lot
    BY DEF Nothing
  <2>2. t.quantity \in Nat \ {0} /\ t.price \in Nat \ {0}
    BY <2>1 DEF Lot
  <2> QED BY <1>3, <2>2 DEF Opens
<1>6. live # 0 => live \in DOMAIN kardex /\ b.quantity \in Int
  <2>1. Listed(kardex)
    BY DEF Replayed
  <2> QED BY <1>3, <2>1 DEF Listed
<1>7. <<>> \o <<>> = <<>> /\ <<a>> \o <<>> = <<a>> /\ <<>> \o <<b>> = <<b>> /\ <<a>> \o <<b>> = <<a, b>>
  <2>1. /\ <<>> \in Seq({a, b}) /\ <<a>> \in Seq({a, b}) /\ <<b>> \in Seq({a, b})
        /\ <<a, b>> \in Seq({a, b})
    OBVIOUS
  <2>2. <<a>> \o <<b>> = <<a, b>>
    <3>1. PICK x : x = <<a>> \o <<b>>
      OBVIOUS
    <3>2. x \in Seq({a, b}) /\ Len(x) = 2 /\ x[1] = a /\ x[2] = b
      BY <2>1, <3>1
    <3>3. \A s \in Seq({a, b}) : Len(s) = 2 /\ s[1] = a /\ s[2] = b => s = <<a, b>>
      OBVIOUS
    <3> QED BY <3>1, <3>2, <3>3
  <2>3. <<>> \o <<>> = <<>>
    <3>1. <<>> \o <<>> \in Seq({a, b}) /\ Len(<<>> \o <<>>) = 0
      BY <2>1
    <3>2. \A s \in Seq({a, b}) : Len(s) = 0 => s = <<>>
      OBVIOUS
    <3> QED BY <3>1, <3>2
  <2>4. <<a>> \o <<>> = <<a>>
    BY <2>1
  <2>5. <<>> \o <<b>> = <<b>>
    BY <2>1
  <2> QED BY <2>2, <2>3, <2>4, <2>5
<1>8. Listed(kardex)
  BY DEF Replayed
<1>9. CASE t.quantity = 0 /\ live = 0
  <2>1. Posted(<<>>)
    BY <1>4, <1>7, <1>9
  <2>2. kardex' = kardex /\ Held' = Held
    <3>1. kardex' = kardex \o <<>> /\ Held' = Held
      BY <2>1, PostedNone
    <3>2. kardex \o <<>> = kardex
      BY <1>8 DEF Listed
    <3> QED BY <3>1, <3>2
  <2> QED BY <2>2
<1>10. CASE t.quantity # 0 /\ live = 0
  <2>1. Posted(<<a>>)
    BY <1>4, <1>7, <1>10
  <2> QED BY <1>3, <1>5, <1>10, <2>1, OpeningPosted
<1>11. CASE t.quantity = 0 /\ live # 0
  <2>1. Posted(<<b>>)
    BY <1>4, <1>7, <1>11
  <2>2. PICK m : m = Len(kardex) + 1
    OBVIOUS
  <2>3. /\ Grows(kardex, kardex', b, m)
        /\ Held' = Leaving(Held, b) /\ Leaving(Held, b).stock >= 0
        /\ DOMAIN kardex \subseteq DOMAIN kardex'
    BY <1>6, <1>11, <2>1, <2>2, OnePosted
  <2>4. Replayed(kardex', Held')
    BY <1>3, <2>3, ReplayedGrows
  <2>5. ASSUME Sound(kardex, Held) PROVE Sound(kardex', Held')
    BY <1>3, <2>3, <2>5, ReversalSound
  <2> QED BY <1>11, <2>3, <2>4, <2>5
<1>12. CASE t.quantity # 0 /\ live # 0
  <2>1. Posted(<<a, b>>)
    BY <1>4, <1>7, <1>12
  <2>2. /\ kardex' = kardex \o <<a, b>>
        /\ Held' = Leaving(Leaving(Held, a), b)
        /\ Leaving(Held, a).stock >= 0 /\ Leaving(Leaving(Held, a), b).stock >= 0
    BY <2>1, PostedTwo
  <2>3. PICK mid : mid = kardex \o <<a>>
    OBVIOUS
  <2>4. PICK m : m = Len(kardex) + 1
    OBVIOUS
  <2>5. a.quantity \in Int /\ b.quantity \in Int
    BY <1>3, <1>5, <1>6, <1>12
  <2>6. Grows(kardex, mid, a, m)
    BY <1>8, <2>3, <2>4, <2>5 DEF Grows
  <2>7. Listed(mid) /\ Len(mid) = m
    BY <2>6, GrowsIs
  <2>8. kardex' = mid \o <<b>>
    <3>1. PICK S : kardex \in Seq(S)
      BY <1>8 DEF Listed
    <3>2. kardex \in Seq(S \cup {a, b}) /\ <<a>> \in Seq(S \cup {a, b}) /\ <<b>> \in Seq(S \cup {a, b})
      <4>1. Len(kardex) \in Nat /\ DOMAIN kardex = 1..Len(kardex)
            /\ \A n \in 1..Len(kardex) : kardex[n] \in S
        BY <3>1
      <4>2. kardex = [n \in 1..Len(kardex) |-> kardex[n]]
        BY <3>1
      <4> QED BY <4>1, <4>2
    <3>3. kardex \o (<<a>> \o <<b>>) = (kardex \o <<a>>) \o <<b>>
      BY <3>2
    <3> QED BY <1>7, <2>2, <2>3, <3>3
  <2>9. Grows(mid, kardex', b, m + 1)
    BY <2>5, <2>7, <2>8 DEF Grows
  <2>10. Replayed(mid, Leaving(Held, a))
    BY <1>5, <1>12, <2>2, <2>6, ReplayedGrows
  <2>11. Replayed(kardex', Held')
    BY <1>3, <2>2, <2>9, <2>10, ReplayedGrows
  <2>12. ASSUME Sound(kardex, Held), share = Retention(live)
         PROVE  Sound(kardex', Held')
    <3>1. live \in DOMAIN kardex /\ share = KeptOf(kardex, live).share
      BY <1>6, <1>8, <1>12, <2>12, RetentionIs
    <3>2. PICK p1 \in Nat : p1 = t.price
      BY <1>5, <1>12
    <3>3. b.cost = Blend(share[1], kardex[live].cost, share[2] - share[1], Whole(p1), share[2])
      <4>1. t.quantity > 0
        BY <1>5, <1>12
      <4> QED BY <1>3, <3>2, <4>1 DEF ReversalCost
    <3>4. a.cost = Whole(p1)
      BY <1>3, <3>2
    <3>5. Sound(kardex', Leaving(Leaving(Held, a), b))
      BY <1>3, <2>6, <2>9, <2>12, <3>1, <3>3, <3>4, CorrectionSound
    <3> QED BY <2>2, <3>5
  <2>13. DOMAIN kardex \subseteq DOMAIN kardex'
    <3>1. DOMAIN kardex \subseteq DOMAIN mid
      BY <2>6, GrowsKeeps
    <3>2. DOMAIN mid \subseteq DOMAIN kardex'
      BY <2>9, GrowsKeeps
    <3> QED BY <3>1, <3>2
  <2> QED BY <1>12, <2>11, <2>12, <2>13
<1> QED BY <1>9, <1>10, <1>11, <1>12

-----------------------------------------------------------------------------
(* What every step keeps. *)

(* What a form or a request has in hand, of a kardex with the entries D.   *)
Aim(D, S) ==
    [pc : {"closed", "open", "weighing", "posting"}, target : {Nothing} \cup Lot, own : BOOLEAN,
     live : {0} \cup D, share : S]

Aims(edits, D) == \E S : edits \in [Forms \cup Requests -> Aim(D, S)]

KardexInv ==
    /\ Replayed(kardex, Held)
    /\ ~overtook => Sound(kardex, Held)
    /\ item # "gone" => Aims(edit, DOMAIN kardex)

(* What is in hand may change for one of them. *)
LEMMA AimChanges ==
    ASSUME NEW D, Aims(edit, D), NEW c \in Forms \cup Requests, NEW S, NEW e \in Aim(D, S)
    PROVE  Aims([edit EXCEPT ![c] = e], D)
<1>1. PICK S0 : edit \in [Forms \cup Requests -> Aim(D, S0)]
  BY DEF Aims
<1> DEFINE S1 == S0 \cup S
<1>2. \A x \in Aim(D, S0) : x \in Aim(D, S1)
  BY DEF Aim
<1>3. e \in Aim(D, S1)
  BY DEF Aim
<1> HIDE DEF S1
<1>4. [edit EXCEPT ![c] = e] \in [Forms \cup Requests -> Aim(D, S1)]
  BY <1>1, <1>2, <1>3
<1> QED BY <1>4 DEF Aims

(* More entries leave what is in hand as it is. *)
LEMMA AimsGrow ==
    ASSUME NEW D, NEW E, D \subseteq E, NEW edits, Aims(edits, D)
    PROVE  Aims(edits, E)
<1>1. PICK S : edits \in [Forms \cup Requests -> Aim(D, S)]
  BY DEF Aims
<1>2. \A x \in Aim(D, S) : x \in Aim(E, S)
  BY DEF Aim
<1>3. edits \in [Forms \cup Requests -> Aim(E, S)]
  BY <1>1, <1>2
<1> QED BY <1>3 DEF Aims

(* An edit that ends leaves nothing in hand.                               *)
LEMMA AimEnds ==
    ASSUME NEW D, Aims(edit, D), NEW c \in Forms \cup Requests
    PROVE  Aims([edit EXCEPT ![c] = NoEdit], D)
<1>1. NoEdit \in Aim(D, {Whole(1)})
  BY DEF NoEdit, Aim
<1> QED BY <1>1, AimChanges

(* What is in hand is a record of its own. *)
LEMMA AimFields ==
    ASSUME NEW D, Aims(edit, D), NEW c \in Forms \cup Requests
    PROVE  /\ \E S : edit[c] \in Aim(D, S)
           /\ edit[c].target \in {Nothing} \cup Lot /\ edit[c].live \in {0} \cup D
<1>1. PICK S : edit \in [Forms \cup Requests -> Aim(D, S)]
  BY DEF Aims
<1>2. edit[c] \in Aim(D, S)
  BY <1>1
<1>3. edit[c].target \in {Nothing} \cup Lot /\ edit[c].live \in {0} \cup D
  BY <1>2 DEF Aim
<1> QED BY <1>2, <1>3

(* What may be entered, and what the form reads, is nothing or some units  *)
(* at a price.                                                             *)
LEMMA TargetsAim == \A t \in Targets : t \in {Nothing} \cup Lot
BY KardexAssumption DEF KardexAssumption, Targets

(* The figures that the form opens with are nothing or a lot.              *)
LEMMA FiguresAim ==
    ASSUME Replayed(kardex, Held)
    PROVE  OpeningFigures \in {Nothing} \cup Lot /\ LiveOpening \in {0} \cup DOMAIN kardex
<1>1. LiveOpening \in {0} \cup OfType(kardex, "opening")
  BY LiveIs DEF Replayed
<1>2. LiveOpening \in {0} \cup DOMAIN kardex
  BY <1>1 DEF OfType
<1>3. CASE LiveOpening = 0
  BY <1>2, <1>3 DEF OpeningFigures
<1>4. CASE LiveOpening # 0
  <2>1. PICK n : n = LiveOpening
    OBVIOUS
  <2>2. n \in OfType(kardex, "opening")
    BY <1>1, <1>4, <2>1
  <2>3. PICK q \in Nat \ {0}, p \in Nat \ {0} : kardex[n].quantity = q /\ kardex[n].cost = Whole(p)
    BY <2>2 DEF Replayed, Opens
  <2>4. Whole(p)[1] = p
    BY DEF Whole
  <2>5. kardex[n].cost[1] = p
    BY <2>3, <2>4
  <2>6. OpeningFigures = [quantity |-> q, price |-> p]
    BY <1>4, <2>1, <2>3, <2>5 DEF OpeningFigures
  <2> QED BY <1>2, <2>6 DEF Lot
<1> QED BY <1>3, <1>4

(* The item before anything was entered, and once it is gone.              *)
LEMMA EmptyKardex == Replayed(<<>>, Start) /\ Sound(<<>>, Start)
<1>1. Listed(<<>>) /\ Len(<<>>) = 0 /\ DOMAIN <<>> = {}
  BY DEF Listed
<1>2. \A type : OfType(<<>>, type) = {}
  BY <1>1 DEF OfType
<1>3. HistoryOf(<<>>, 0, Whole(0), {}) = Start
  <2>1. 0 \in Nat
    OBVIOUS
  <2> QED BY <1>1, <2>1, RunStarts DEF HistoryOf
<1>4. Start.stock = 0 /\ Start.avg = Whole(0)
  BY DEF Start
<1>5. SumOf(Figures(<<>>), {}) = 0
  BY SumEmpty
<1>6. Replayed(<<>>, Start)
  BY <1>1, <1>2, <1>3, <1>4, <1>5 DEF Replayed
<1>7. Lowest(Whole(0))
  <2>1. PICK g \in Nat \ {0}, a \in Nat, b \in Nat \ {0} : Reduces(0, 1, g, a, b)
    <3>1. 0 \in Nat /\ 1 \in Nat \ {0}
      OBVIOUS
    <3> QED BY <3>1, FractionIs
  <2>2. Fraction(0, 1) = <<a, b>> /\ 0 = g * a /\ 1 = g * b
    BY <2>1 DEF Reduces
  <2>3. a = 0 /\ b = 1
    BY <2>2
  <2> QED BY <2>2, <2>3 DEF Lowest, Whole, Fractions
<1>8. Fine(Start)
  BY <1>4, <1>7 DEF Fine
<1>9. Sound(<<>>, Start)
  BY <1>2, <1>8 DEF Sound, Ordered, Traced, OneCorrection
<1> QED BY <1>6, <1>9

(* It holds of an item that does not exist yet.                            *)
LEMMA KardexInvInit == KardexInit => KardexInv
<1> SUFFICES ASSUME KardexInit PROVE KardexInv
  OBVIOUS
<1>1. kardex = <<>> /\ Held = Start
  BY DEF KardexInit, Held, Start
<1>2. NoEdit \in Aim(DOMAIN kardex, {Whole(1)})
  BY DEF NoEdit, Aim
<1>3. Aims(edit, DOMAIN kardex)
  BY <1>2 DEF Aims, KardexInit
<1> QED BY <1>1, <1>3, EmptyKardex DEF KardexInv

(* A step that moves nothing. *)
LEMMA NothingMoves ==
    ASSUME KardexInv, kardex' = kardex, onHand' = onHand, average' = average,
           overtook' = overtook, item' = item,
           item # "gone" => Aims(edit', DOMAIN kardex)
    PROVE  KardexInv'
<1>1. Held' = Held
  BY DEF Held
<1> QED BY <1>1 DEF KardexInv

(* A step that posts what keeps the trace. *)
LEMMA PostingMoves ==
    ASSUME KardexInv, Replayed(kardex', Held'), DOMAIN kardex \subseteq DOMAIN kardex',
           ~overtook' => ~overtook /\ (Sound(kardex, Held) => Sound(kardex', Held')),
           item # "gone", Aims(edit', DOMAIN kardex)
    PROVE  KardexInv'
<1>1. Aims(edit', DOMAIN kardex')
  BY AimsGrow
<1>2. ~overtook' => Sound(kardex', Held')
  BY DEF KardexInv
<1> QED BY <1>1, <1>2 DEF KardexInv

(* The item is created, with an opening or without one.                    *)
LEMMA CreateKeeps == ASSUME KardexInv, NEW t \in Targets, CreateItem(t) PROVE KardexInv'
<1>1. /\ item = "new" /\ edit' = edit /\ overtook' = overtook
      /\ Replayed(kardex, Held) /\ Aims(edit, DOMAIN kardex)
      /\ Posted(IF t = Nothing THEN <<>> ELSE <<Entry("opening", t.quantity, Whole(t.price), 0)>>)
  BY DEF CreateItem, KardexInv
<1>2. CASE t = Nothing
  <2>1. Posted(<<>>)
    BY <1>1, <1>2
  <2>2. Held' = Held /\ kardex' = kardex \o <<>>
    BY <2>1, PostedNone
  <2>3. kardex' = kardex
    <3>1. Listed(kardex)
      BY <1>1 DEF Replayed
    <3> QED BY <2>2, <3>1 DEF Listed
  <2> QED BY <1>1, <2>2, <2>3, PostingMoves
<1>3. CASE t # Nothing
  <2>1. t \in Lot
    BY <1>3, TargetsAim
  <2>2. PICK e : e = Entry("opening", t.quantity, Whole(t.price), 0)
    OBVIOUS
  <2>3. e.type = "opening" /\ e.quantity = t.quantity /\ e.cost = Whole(t.price) /\ e.ref = 0
    BY <2>2 DEF Entry
  <2>4. Opens(e)
    <3>1. t.quantity \in Nat \ {0} /\ t.price \in Nat \ {0}
      BY <2>1 DEF Lot
    <3> QED BY <2>3, <3>1 DEF Opens
  <2>5. Posted(<<e>>)
    BY <1>1, <1>3, <2>2
  <2>6. /\ Replayed(kardex', Held') /\ DOMAIN kardex \subseteq DOMAIN kardex'
        /\ Sound(kardex, Held) => Sound(kardex', Held')
    BY <1>1, <2>3, <2>4, <2>5, OpeningPosted
  <2> QED BY <1>1, <2>6, PostingMoves
<1> QED BY <1>2, <1>3

(* Goods are bought.                                                       *)
LEMMA BuyKeeps == ASSUME KardexInv, NEW l \in Purchases, BuyIn(l) PROVE KardexInv'
<1>1. /\ item = "here" /\ edit' = edit /\ overtook' = overtook
      /\ Replayed(kardex, Held) /\ Aims(edit, DOMAIN kardex)
      /\ Posted(<<Entry("purchase", l.quantity, Whole(l.price), 0)>>)
  BY DEF BuyIn, KardexInv
<1>2. PICK e : e = Entry("purchase", l.quantity, Whole(l.price), 0)
  OBVIOUS
<1>3. PICK g \in Nat \ {0}, r \in Nat : g = l.quantity /\ r = l.price
  BY KardexAssumption DEF KardexAssumption, Lot
<1>4. e.type = "purchase" /\ e.quantity = g /\ e.cost = Whole(r)
  BY <1>2, <1>3 DEF Entry
<1>5. Posted(<<e>>)
  BY <1>1, <1>2
<1>6. /\ Replayed(kardex', Held') /\ DOMAIN kardex \subseteq DOMAIN kardex'
      /\ Sound(kardex, Held) => Sound(kardex', Held')
  BY <1>1, <1>4, <1>5, TradePosted
<1> QED BY <1>1, <1>6, PostingMoves

(* Goods are sold.                                                         *)
LEMMA SellKeeps == ASSUME KardexInv, NEW g \in Sales, SellOut(g) PROVE KardexInv'
<1>1. /\ item = "here" /\ edit' = edit /\ overtook' = overtook
      /\ Replayed(kardex, Held) /\ Aims(edit, DOMAIN kardex)
      /\ Posted(<<Entry("sale", -g, average, 0)>>)
  BY DEF SellOut, KardexInv
<1>2. PICK e : e = Entry("sale", -g, average, 0)
  OBVIOUS
<1>3. e.type = "sale" /\ e.quantity = -g /\ g \in Nat \ {0}
  BY <1>2, KardexAssumption DEF Entry, KardexAssumption
<1>4. Posted(<<e>>)
  BY <1>1, <1>2
<1>5. /\ Replayed(kardex', Held') /\ DOMAIN kardex \subseteq DOMAIN kardex'
      /\ Sound(kardex, Held) => Sound(kardex', Held')
  BY <1>1, <1>3, <1>4, TradePosted
<1> QED BY <1>1, <1>5, PostingMoves

(* A purchase is taken back.                                               *)
LEMMA TakeBackKeeps == ASSUME KardexInv, NEW n \in DOMAIN kardex, TakeBack(n) PROVE KardexInv'
<1>1. /\ item = "here" /\ edit' = edit /\ overtook' = overtook
      /\ Replayed(kardex, Held) /\ Aims(edit, DOMAIN kardex)
      /\ Posted(<<Entry("return", -kardex[n].quantity, kardex[n].cost, n)>>)
  BY DEF TakeBack, KardexInv
<1>2. PICK e : e = Entry("return", -kardex[n].quantity, kardex[n].cost, n)
  OBVIOUS
<1>3. kardex[n].quantity \in Int
  BY <1>1 DEF Replayed, Listed
<1>4. e.type = "return" /\ e.quantity \in Int
  BY <1>2, <1>3 DEF Entry
<1>5. Posted(<<e>>)
  BY <1>1, <1>2
<1>6. /\ Replayed(kardex', Held') /\ DOMAIN kardex \subseteq DOMAIN kardex'
      /\ Sound(kardex, Held) => Sound(kardex', Held')
  BY <1>1, <1>4, <1>5, ReturnPosted
<1> QED BY <1>1, <1>6, PostingMoves

(* The form: what it opens with, what is typed, and what it saves.         *)
LEMMA FormKeeps ==
    ASSUME KardexInv, NEW c \in Forms,
           \/ OpenForm(c) \/ SaveForm(c) \/ CloseForm(c)
           \/ \E t \in Targets : TypeOpening(c, t)
    PROVE  KardexInv'
<1> DEFINE D == DOMAIN kardex
<1>1. c \in Forms \cup Requests /\ item' = item /\ overtook' = overtook
      /\ Replayed(kardex, Held) /\ (item # "gone" => Aims(edit, D))
  BY DEF OpenForm, SaveForm, CloseForm, TypeOpening, KardexInv
<1> HIDE DEF D
<1>2. CASE OpenForm(c)
  <2>1. item = "here" /\ UNCHANGED <<kardex, onHand, average>>
        /\ edit' = [edit EXCEPT ![c].pc = "open", ![c].target = OpeningFigures]
    BY <1>2 DEF OpenForm
  <2>2. PICK S : edit[c] \in Aim(D, S)
    BY <1>1, <2>1, AimFields
  <2>3. PICK t \in {Nothing} \cup Lot : t = OpeningFigures
    BY <1>1, FiguresAim
  <2>4. PICK e : e = [edit[c] EXCEPT !.pc = "open", !.target = OpeningFigures]
    OBVIOUS
  <2>5. e \in Aim(D, S)
    <3>1. e = [edit[c] EXCEPT !.pc = "open", !.target = t]
      BY <2>3, <2>4
    <3> QED BY <2>2, <2>3, <3>1 DEF Aim
  <2>6. edit' = [edit EXCEPT ![c] = e]
    BY <2>1, <2>4
  <2>7. Aims(edit', D)
    <3>1. Aims(edit, D)
      BY <1>1, <2>1
    <3> QED BY <1>1, <2>5, <2>6, <3>1, AimChanges
  <2> QED BY <1>1, <2>1, <2>7, NothingMoves DEF D
<1>3. ASSUME NEW t \in Targets, TypeOpening(c, t) PROVE KardexInv'
  <2>1. UNCHANGED <<kardex, onHand, average>>
        /\ edit' = [edit EXCEPT ![c].target = t, ![c].own = TRUE]
    BY <1>3 DEF TypeOpening
  <2>2. ASSUME item # "gone" PROVE Aims(edit', D)
    <3>1. PICK S : edit[c] \in Aim(D, S)
      BY <1>1, <2>2, AimFields
    <3>2. PICK e : e = [edit[c] EXCEPT !.target = t, !.own = TRUE]
      OBVIOUS
    <3>3. e \in Aim(D, S)
      <4>1. t \in {Nothing} \cup Lot
        BY TargetsAim
      <4> QED BY <3>1, <3>2, <4>1 DEF Aim
    <3>4. edit' = [edit EXCEPT ![c] = e]
      BY <2>1, <3>2
    <3> QED BY <1>1, <2>2, <3>3, <3>4, AimChanges
  <2> QED BY <1>1, <2>1, <2>2, NothingMoves DEF D
<1>4. CASE CloseForm(c)
  <2>1. UNCHANGED <<kardex, onHand, average>> /\ edit' = [edit EXCEPT ![c] = NoEdit]
    BY <1>4 DEF CloseForm
  <2>2. item # "gone" => Aims(edit', D)
    BY <1>1, <2>1, AimEnds
  <2> QED BY <1>1, <2>1, <2>2, NothingMoves DEF D
<1>5. CASE SaveForm(c)
  <2>1. PICK t : t = edit[c].target
    OBVIOUS
  <2>2. item = "here" /\ edit' = [edit EXCEPT ![c] = NoEdit]
    BY <1>5 DEF SaveForm
  <2>3. Aims(edit', D) /\ t \in {Nothing} \cup Lot
    BY <1>1, <2>1, <2>2, AimEnds, AimFields
  <2>4. CASE t = OpeningFigures
    <3>1. UNCHANGED <<kardex, onHand, average>>
      BY <1>5, <2>1, <2>4 DEF SaveForm
    <3> QED BY <1>1, <2>3, <3>1, NothingMoves DEF D
  <2>5. CASE t # OpeningFigures
    <3>1. PICK live, share : /\ live = LiveOpening
                             /\ share = IF live = 0 THEN Whole(1) ELSE Retention(live)
      OBVIOUS
    <3>2. Posted(Correction(live, share, t))
      BY <1>5, <2>1, <2>5, <3>1 DEF SaveForm
    <3>3. live \in {0} \cup DOMAIN kardex
      BY <1>1, <3>1, FiguresAim
    <3>4. /\ Replayed(kardex', Held') /\ DOMAIN kardex \subseteq DOMAIN kardex'
          /\ Sound(kardex, Held) /\ (live # 0 => share = Retention(live)) => Sound(kardex', Held')
      BY <1>1, <2>3, <3>2, <3>3, CorrectionPosted
    <3>5. live # 0 => share = Retention(live)
      BY <3>1
    <3> QED BY <1>1, <2>2, <2>3, <3>4, <3>5, PostingMoves DEF D
  <2> QED BY <2>4, <2>5
<1> QED BY <1>2, <1>3, <1>4, <1>5

(* The request: unless it was overtaken it posts what is right for the     *)
(* kardex of the moment.                                                   *)
LEMMA RequestKeeps ==
    ASSUME KardexInv, NEW c \in Requests,
           \/ Weigh(c) \/ PostCorrection(c) \/ RequestFails(c)
           \/ \E t \in Targets : ReadLive(c, t)
    PROVE  KardexInv'
<1> DEFINE D == DOMAIN kardex
<1>1. c \in Forms \cup Requests /\ item' = item
      /\ Replayed(kardex, Held) /\ (item # "gone" => Aims(edit, D))
  BY DEF Weigh, PostCorrection, RequestFails, ReadLive, KardexInv
<1> HIDE DEF D
<1>2. CASE Weigh(c)
  <2>1. item = "here" /\ UNCHANGED <<kardex, onHand, average, overtook>>
        /\ edit' = [edit EXCEPT ![c].pc = "posting", ![c].share = Retention(edit[c].live)]
    BY <1>2 DEF Weigh
  <2>2. PICK S : edit[c] \in Aim(D, S)
    BY <1>1, <2>1, AimFields
  <2>3. PICK share : share = Retention(edit[c].live)
    OBVIOUS
  <2>4. PICK e : e = [edit[c] EXCEPT !.pc = "posting", !.share = share]
    OBVIOUS
  <2>5. e \in Aim(D, S \cup {share})
    BY <2>2, <2>4 DEF Aim
  <2>6. edit' = [edit EXCEPT ![c] = e]
    BY <2>1, <2>3, <2>4
  <2>7. Aims(edit', D)
    <3>1. Aims(edit, D)
      BY <1>1, <2>1
    <3> QED BY <1>1, <2>5, <2>6, <3>1, AimChanges
  <2> QED BY <1>1, <2>1, <2>7, NothingMoves DEF D
<1>3. ASSUME NEW t \in Targets, ReadLive(c, t) PROVE KardexInv'
  <2>1. PICK e : e = [pc |-> IF LiveOpening = 0 THEN "posting" ELSE "weighing",
                      target |-> t, own |-> TRUE, live |-> LiveOpening, share |-> Whole(1)]
    OBVIOUS
  <2>2. item = "here" /\ UNCHANGED <<kardex, onHand, average, overtook>>
        /\ edit' = [edit EXCEPT ![c] = e]
    BY <1>3, <2>1 DEF ReadLive
  <2>3. t \in {Nothing} \cup Lot /\ LiveOpening \in {0} \cup D
    BY <1>1, FiguresAim, TargetsAim DEF D
  <2>4. e \in Aim(D, {Whole(1)})
    BY <2>1, <2>3 DEF Aim
  <2>5. Aims(edit', D)
    BY <1>1, <2>2, <2>4, AimChanges
  <2> QED BY <1>1, <2>2, <2>5, NothingMoves DEF D
<1>4. CASE RequestFails(c)
  <2>1. UNCHANGED <<kardex, onHand, average, overtook>> /\ edit' = [edit EXCEPT ![c] = NoEdit]
    BY <1>4 DEF RequestFails
  <2>2. item # "gone" => Aims(edit', D)
    BY <1>1, <2>1, AimEnds
  <2> QED BY <1>1, <2>1, <2>2, NothingMoves DEF D
<1>5. CASE PostCorrection(c)
  <2>1. PICK t, live, share : t = edit[c].target /\ live = edit[c].live /\ share = edit[c].share
    OBVIOUS
  <2>2. /\ item = "here" /\ edit' = [edit EXCEPT ![c] = NoEdit]
        /\ Posted(Correction(live, share, t))
        /\ overtook' = (overtook \/ live # LiveOpening \/ share # Retention(live))
    BY <1>5, <2>1 DEF PostCorrection
  <2>3. Aims(edit', D) /\ t \in {Nothing} \cup Lot /\ live \in {0} \cup DOMAIN kardex
    BY <1>1, <2>1, <2>2, AimEnds, AimFields DEF D
  <2>4. /\ Replayed(kardex', Held') /\ DOMAIN kardex \subseteq DOMAIN kardex'
        /\ Sound(kardex, Held) /\ (live # 0 => share = Retention(live)) => Sound(kardex', Held')
    BY <1>1, <2>2, <2>3, CorrectionPosted
  <2>5. ~overtook' => ~overtook /\ share = Retention(live)
    BY <2>2
  <2> QED BY <1>1, <2>2, <2>3, <2>4, <2>5, PostingMoves DEF D
<1> QED BY <1>2, <1>3, <1>4, <1>5

(* The item goes, with its entries. *)
LEMMA RemoveKeeps == ASSUME KardexInv, RemoveItem PROVE KardexInv'
<1>1. item' = "gone" /\ kardex' = <<>> /\ onHand' = 0 /\ average' = Whole(0)
  BY DEF RemoveItem
<1>2. Held' = Start
  BY <1>1 DEF Held, Start
<1> QED BY <1>1, <1>2, EmptyKardex DEF KardexInv

(* Every step of the item, its forms and its requests keeps it.            *)
LEMMA KardexInvStep == KardexInv /\ [KardexNext]_kardexVars => KardexInv'
<1> SUFFICES ASSUME KardexInv, [KardexNext]_kardexVars PROVE KardexInv'
  OBVIOUS
<1>1. CASE UNCHANGED kardexVars
  <2>1. UNCHANGED <<item, kardex, onHand, average, edit, overtook>>
    BY <1>1 DEF kardexVars
  <2>2. item # "gone" => Aims(edit', DOMAIN kardex)
    BY <2>1 DEF KardexInv
  <2> QED BY <2>1, <2>2, NothingMoves
<1>2. CASE CheckDraft \/ SaveDraft \/ DropDraft
  <2>1. UNCHANGED <<item, kardex, onHand, average, edit, overtook>>
    BY <1>2 DEF CheckDraft, SaveDraft, DropDraft
  <2>2. item # "gone" => Aims(edit', DOMAIN kardex)
    BY <2>1 DEF KardexInv
  <2> QED BY <2>1, <2>2, NothingMoves
<1>3. ASSUME NEW t \in Targets, CreateItem(t) PROVE KardexInv'
  BY <1>3, CreateKeeps
<1>4. ASSUME NEW g \in Purchases, BuyIn(g) PROVE KardexInv'
  BY <1>4, BuyKeeps
<1>5. ASSUME NEW q \in Sales, SellOut(q) PROVE KardexInv'
  BY <1>5, SellKeeps
<1>6. ASSUME NEW n \in DOMAIN kardex, TakeBack(n) PROVE KardexInv'
  BY <1>6, TakeBackKeeps
<1>7. CASE \E c \in Forms : OpenForm(c) \/ SaveForm(c) \/ CloseForm(c)
                            \/ \E t \in Targets : TypeOpening(c, t)
  BY <1>7, FormKeeps
<1>8. CASE \E c \in Requests : Weigh(c) \/ PostCorrection(c) \/ RequestFails(c)
                               \/ \E t \in Targets : ReadLive(c, t)
  BY <1>8, RequestKeeps
<1>9. CASE RemoveItem
  BY <1>9, RemoveKeeps
<1> QED BY <1>1, <1>2, <1>3, <1>4, <1>5, <1>6, <1>7, <1>8, <1>9 DEF KardexNext

(* The average after a first correction of the cost of an opening is       *)
(* exactly the one that a corrected history would have reached, whatever   *)
(* was bought and sold before it and after it, at whatever prices: so long *)
(* as no other correction overtook it and no purchase was taken back.      *)
THEOREM CorrectionsAreExact == KardexSpec => []CorrectedHistory
<1>1. KardexInv => CorrectedHistory
  <2> SUFFICES ASSUME KardexInv, NEW n \in EntriesOf({"opening"}), NEW m \in EntriesOf({"opening"}),
                      ~overtook, EntriesOf({"return"}) = {}, EntriesOf({"opening"}) = {n, m},
                      EntriesOf({"reversal"}) = {m + 1}, kardex[m].ref = n,
                      kardex[m].quantity = kardex[n].quantity, onHand > 0
               PROVE  Held = History(n, kardex[m].cost, {m, m + 1})
    BY DEF CorrectedHistory
  <2>1. \A type : EntriesOf({type}) = OfType(kardex, type)
    BY DEF EntriesOf, OfType
  <2>2. OneCorrection(kardex, n, m)
    BY <2>1 DEF OneCorrection
  <2>3. PICK other : other = HistoryOf(kardex, n, kardex[m].cost, {m, m + 1})
    OBVIOUS
  <2>4. Settled(Held, other)
    BY <2>2, <2>3 DEF KardexInv, Sound, Traced
  <2>5. Listed(kardex)
    BY DEF KardexInv, Replayed
  <2>6. other = [stock |-> other.stock, avg |-> other.avg]
    <3>1. PICK p, skip : p = kardex[m].cost /\ skip = {m, m + 1}
      OBVIOUS
    <3>2. other = HistoryOf(kardex, n, p, skip)
      BY <2>3, <3>1
    <3> QED BY <2>5, <3>2, HistoryHolds
  <2>7. Held.stock = onHand /\ Held.avg = average /\ Held = [stock |-> onHand, avg |-> average]
    BY DEF Held
  <2>8. other.stock = onHand /\ other.avg = average
    BY <2>4, <2>7 DEF Settled
  <2>9. Held = other
    BY <2>6, <2>7, <2>8
  <2> QED BY <2>3, <2>5, <2>9, HistoryIs
<1> QED BY <1>1, KardexInvInit, KardexInvStep, PTL DEF KardexSpec

(* The columns of the item hold what its kardex comes to: the stock is the *)
(* sum of all its entries and never below nothing, and stock and average   *)
(* are what replaying the entries from the first one gives.                *)
ColumnsAreReplayed ==
    /\ onHand >= 0
    /\ onHand = MapThenSumSet(LAMBDA n : kardex[n].quantity, DOMAIN kardex)
    /\ Held = History(0, Whole(0), {})

(* The columns never part from the kardex, whatever is entered, corrected, *)
(* bought, sold and taken back by whom, overtaken corrections included.    *)
THEOREM KardexIsReplayed == KardexSpec => []ColumnsAreReplayed
<1>1. KardexInv => ColumnsAreReplayed
  <2> SUFFICES ASSUME KardexInv PROVE ColumnsAreReplayed
    OBVIOUS
  <2>1. /\ Listed(kardex)
        /\ Held.stock \in Nat /\ Held.stock = SumOf(Figures(kardex), DOMAIN kardex)
        /\ Held = HistoryOf(kardex, 0, Whole(0), {})
    BY DEF KardexInv, Replayed
  <2>2. Held.stock = onHand
    BY DEF Held
  <2>3. IsFiniteSet(DOMAIN kardex)
    BY <2>1, ListedIs, FS_Interval
  <2>4. MapThenSumSet(LAMBDA n : kardex[n].quantity, DOMAIN kardex)
          = SumOf(Figures(kardex), DOMAIN kardex)
    BY <2>3, SumOfEntries
  <2>5. Held = History(0, Whole(0), {})
    BY <2>1, HistoryIs
  <2> QED BY <2>1, <2>2, <2>4, <2>5 DEF ColumnsAreReplayed
<1> QED BY <1>1, KardexInvInit, KardexInvStep, PTL DEF KardexSpec
=============================================================================

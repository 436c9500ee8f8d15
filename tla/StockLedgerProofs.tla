-------------------------- MODULE StockLedgerProofs --------------------------
(***************************************************************************)
(* The figures of the abstract ledger can all be told from its rows, for   *)
(* any items, any warehouses and any documents; whatever implements the    *)
(* ledger inherits it.                                                     *)
(***************************************************************************)
EXTENDS StockLedger, Sums

-----------------------------------------------------------------------------
(* What lines move. *)

Quantities(lines, ks) == [k \in ks |-> lines[k].qty]

LinesAt(lines, ks, i, ws) == {k \in ks : lines[k].item = i /\ lines[k].wh \in ws}

(* Lines that have quantities. *)
Countable(lines, ks) == IsFiniteSet(ks) /\ \A k \in ks : lines[k].qty \in Int

(* What lines move is a sum of whole numbers.                              *)
LEMMA MovedIsSum ==
    ASSUME NEW lines, NEW ks, Countable(lines, ks), NEW i, NEW ws
    PROVE  /\ IsFiniteSet(LinesAt(lines, ks, i, ws))
           /\ Moved(lines, ks, i, ws) = SumOf(Quantities(lines, ks), LinesAt(lines, ks, i, ws))
           /\ Moved(lines, ks, i, ws) \in Int
<1> DEFINE at == LinesAt(lines, ks, i, ws)
           f == [k \in at |-> lines[k].qty]
           g == Quantities(lines, ks)
<1>1. at \in SUBSET ks /\ \A k \in at : f[k] = g[k] /\ g[k] \in Int
  BY DEF LinesAt, Quantities, Countable
<1>2. IsFiniteSet(at)
  BY <1>1, FS_Subset DEF Countable
<1>3. Moved(lines, ks, i, ws) = MapThenSumSet(LAMBDA k : lines[k].qty, at)
  BY DEF Moved, LinesAt
<1> HIDE DEF at
<1>4. MapThenSumSet(LAMBDA k : lines[k].qty, at) = SumOf(f, at)
  BY <1>2, SumOfQuantities
<1> HIDE DEF f, g
<1>5. SumOf(f, at) = SumOf(g, at) /\ SumOf(g, at) \in Int
  BY <1>1, <1>2, SumSame, SumType
<1> QED BY <1>2, <1>3, <1>4, <1>5 DEF at, g

(* Lines that are alike move the same.                                     *)
LEMMA MovedSame ==
    ASSUME NEW lines, NEW more, NEW ks, Countable(lines, ks), NEW i, NEW ws,
           \A k \in ks : more[k] = lines[k]
    PROVE  Moved(more, ks, i, ws) = Moved(lines, ks, i, ws)
<1> DEFINE f == Quantities(lines, ks)
           g == Quantities(more, ks)
           at == LinesAt(lines, ks, i, ws)
<1>1. Countable(more, ks) /\ LinesAt(more, ks, i, ws) = at
  BY DEF Countable, LinesAt
<1>2. /\ IsFiniteSet(at) /\ Moved(lines, ks, i, ws) = SumOf(f, at)
      /\ Moved(more, ks, i, ws) = SumOf(g, at)
  BY <1>1, MovedIsSum
<1>3. \A k \in at : f[k] = g[k]
  BY DEF LinesAt, Quantities
<1> HIDE DEF f, g, at
<1> QED BY <1>2, <1>3, SumSame

(* Lines of two sets move what each of the two does.                       *)
LEMMA MovedSplit ==
    ASSUME NEW lines, NEW A, NEW B, Countable(lines, A), Countable(lines, B), A \cap B = {},
           NEW i, NEW ws
    PROVE  Moved(lines, A \cup B, i, ws) = Moved(lines, A, i, ws) + Moved(lines, B, i, ws)
<1> DEFINE f == Quantities(lines, A \cup B)
           a == LinesAt(lines, A, i, ws)
           b == LinesAt(lines, B, i, ws)
<1>1. Countable(lines, A \cup B)
  BY FS_Union DEF Countable
<1>2. LinesAt(lines, A \cup B, i, ws) = a \cup b /\ a \cap b = {}
  BY DEF LinesAt
<1>3. /\ IsFiniteSet(a) /\ Moved(lines, A, i, ws) = SumOf(Quantities(lines, A), a)
      /\ IsFiniteSet(b) /\ Moved(lines, B, i, ws) = SumOf(Quantities(lines, B), b)
      /\ Moved(lines, A \cup B, i, ws) = SumOf(f, a \cup b)
  BY <1>1, <1>2, MovedIsSum
<1>4. /\ \A k \in a : Quantities(lines, A)[k] = f[k]
      /\ \A k \in b : Quantities(lines, B)[k] = f[k]
      /\ \A k \in a \cup b : f[k] \in Int
  BY DEF LinesAt, Quantities, Countable
<1> HIDE DEF f, a, b
<1>5. SumOf(Quantities(lines, A), a) = SumOf(f, a) /\ SumOf(Quantities(lines, B), b) = SumOf(f, b)
  BY <1>3, <1>4, SumSame
<1>6. SumOf(f, a \cup b) = SumOf(f, a) + SumOf(f, b)
  BY <1>2, <1>3, <1>4, SumUnion
<1> QED BY <1>3, <1>5, <1>6

(* No line of the item and the warehouses, nothing moved.                  *)
LEMMA MovedNone ==
    ASSUME NEW lines, NEW ks, NEW i, NEW ws,
           \A k \in ks : ~(lines[k].item = i /\ lines[k].wh \in ws)
    PROVE  Moved(lines, ks, i, ws) = 0
<1> DEFINE at == {k \in ks : lines[k].item = i /\ lines[k].wh \in ws}
           f == [k \in at |-> lines[k].qty]
<1>1. at = {}
  OBVIOUS
<1>2. Moved(lines, ks, i, ws) = MapThenSumSet(LAMBDA k : lines[k].qty, at)
  BY DEF Moved
<1> HIDE DEF at
<1>3. IsFiniteSet(at)
  BY <1>1, FS_EmptySet
<1>4. MapThenSumSet(LAMBDA k : lines[k].qty, at) = SumOf(f, at)
  BY <1>3, SumOfQuantities
<1> HIDE DEF f
<1>5. SumOf(f, at) = 0
  BY <1>1, SumEmpty
<1> QED BY <1>2, <1>4, <1>5

(* One line moves its quantity, where it is.                               *)
LEMMA MovedOne ==
    ASSUME NEW lines, NEW k, lines[k].qty \in Int, NEW i, NEW ws,
           lines[k].item = i /\ lines[k].wh \in ws
    PROVE  Moved(lines, {k}, i, ws) = lines[k].qty
<1> DEFINE f == Quantities(lines, {k})
<1>1. Countable(lines, {k})
  BY FS_Singleton DEF Countable
<1>2. LinesAt(lines, {k}, i, ws) = {k} /\ f[k] = lines[k].qty
  BY DEF LinesAt, Quantities
<1>3. Moved(lines, {k}, i, ws) = SumOf(f, {k})
  BY <1>1, <1>2, MovedIsSum
<1>4. IsFiniteSet({k}) /\ {k} \ {k} = {} /\ \A x \in {k} : f[x] \in Int
  BY <1>2, FS_Singleton
<1> HIDE DEF f
<1>5. SumOf(f, {k}) = f[k] + SumOf(f, {k} \ {k})
  BY <1>4, SumTake
<1>6. SumOf(f, {k} \ {k}) = 0
  BY <1>4, SumEmpty
<1> QED BY <1>2, <1>3, <1>5, <1>6

(* What moves in some warehouses is what moves in each.                    *)
LEMMA MovedInEach ==
    ASSUME NEW lines, NEW ks, Countable(lines, ks), NEW i, NEW W, IsFiniteSet(W)
    PROVE  Moved(lines, ks, i, W) = SumOf([w \in W |-> Moved(lines, ks, i, {w})], W)
<1> DEFINE f == Quantities(lines, ks)
           g == [w \in W |-> Moved(lines, ks, i, {w})]
           good == {T \in SUBSET W : Moved(lines, ks, i, T) = SumOf(g, T)}
<1>1. ASSUME NEW T \in SUBSET W, \A U \in SUBSET T : U # T => U \in good
      PROVE  T \in good
  <2>1. CASE T = {}
    <3>1. Moved(lines, ks, i, T) = 0
      BY <2>1, MovedNone
    <3>2. SumOf(g, T) = 0
      BY <2>1, SumEmpty
    <3> QED BY <3>1, <3>2
  <2>2. CASE T # {}
    <3> DEFINE p == Pick(T)
               R == T \ {p}
               a == LinesAt(lines, ks, i, R)
               b == LinesAt(lines, ks, i, {p})
    <3>1. p \in T /\ p \in W /\ R \in SUBSET T /\ R # T /\ IsFiniteSet(T)
      BY <2>2, PickIsIn, FS_Subset
    <3>2. Moved(lines, ks, i, R) = SumOf(g, R)
      BY <1>1, <3>1
    <3>3. SumOf(g, T) = g[p] + SumOf(g, R)
      <4> HIDE DEF g
      <4> QED BY <2>2, <3>1, SumPick
    <3>4. g[p] = Moved(lines, ks, i, {p})
      BY <3>1
    <3>5. LinesAt(lines, ks, i, T) = a \cup b /\ a \cap b = {}
      BY <3>1 DEF LinesAt
    <3>6. /\ IsFiniteSet(a) /\ Moved(lines, ks, i, R) = SumOf(f, a)
          /\ Moved(lines, ks, i, R) \in Int
          /\ IsFiniteSet(b) /\ Moved(lines, ks, i, {p}) = SumOf(f, b)
          /\ Moved(lines, ks, i, {p}) \in Int
          /\ Moved(lines, ks, i, T) = SumOf(f, a \cup b)
      BY <3>5, MovedIsSum
    <3>7. \A k \in a \cup b : f[k] \in Int
      BY DEF LinesAt, Quantities, Countable
    <3> HIDE DEF a, b, f, g, p, R
    <3>8. SumOf(f, a \cup b) = SumOf(f, a) + SumOf(f, b)
      BY <3>5, <3>6, <3>7, SumUnion
    <3>9. Moved(lines, ks, i, T) = SumOf(g, T)
      BY <3>2, <3>3, <3>4, <3>6, <3>8
    <3> QED BY <3>9
  <2> QED BY <2>1, <2>2
<1>2. W \in good
  <2> HIDE DEF good
  <2> QED BY <1>1, SubsetInduction
<1> QED BY <1>2

(* What a list and another after it move is what each of them does.        *)
LEMMA MovedJoined ==
    ASSUME NEW old \in Seq(StockLine), NEW new \in Seq(StockLine), NEW k \in 0..Len(new),
           NEW i, NEW ws
    PROVE  Moved(old \o new, 1..(Len(old) + k), i, ws)
               = Moved(old, 1..Len(old), i, ws) + Moved(new, 1..k, i, ws)
<1> DEFINE n == Len(old)
           A == 1..n
           B == (n + 1)..(n + k)
           C == 1..k
           name == [j \in LinesAt(new, C, i, ws) |-> n + j]
<1>1. /\ n \in Nat /\ k \in Nat /\ Len(new) \in Nat /\ k <= Len(new)
      /\ DOMAIN old = 1..n /\ DOMAIN new = 1..Len(new)
  OBVIOUS
<1>2. PICK all \in Seq(StockLine) :
         /\ all = old \o new /\ Len(all) = n + Len(new)
         /\ \A j \in DOMAIN old : all[j] = old[j]
         /\ \A j \in DOMAIN new : all[n + j] = new[j]
  <2>1. old \o new \in Seq(StockLine) /\ Len(old \o new) = n + Len(new)
    OBVIOUS
  <2>2. \A j \in DOMAIN old : (old \o new)[j] = old[j]
    OBVIOUS
  <2>3. \A j \in DOMAIN new : (old \o new)[n + j] = new[j]
    OBVIOUS
  <2> QED BY <2>1, <2>2, <2>3
<1>3. A \cup B = 1..(n + k) /\ A \cap B = {} /\ B = {n + j : j \in C}
  <2>1. A \cup B = 1..(n + k) /\ A \cap B = {}
    BY <1>1
  <2>2. ASSUME NEW b \in B PROVE \E j \in C : b = n + j
    <3>1. b - n \in C /\ b = n + (b - n)
      BY <1>1
    <3> QED BY <3>1
  <2>3. \A j \in C : n + j \in B
    BY <1>1
  <2> HIDE DEF A, B, C, n
  <2> QED BY <2>1, <2>2, <2>3
<1>4. IsFiniteSet(A) /\ IsFiniteSet(B) /\ IsFiniteSet(C)
  BY <1>1, FS_Interval
<1>5. /\ \A j \in A : j \in DOMAIN old /\ old[j] \in StockLine
      /\ \A j \in C : j \in DOMAIN new /\ new[j] \in StockLine
  BY <1>1
<1>6. /\ \A j \in A : all[j] = old[j] /\ old[j].qty \in Int
      /\ \A j \in C : all[n + j] = new[j] /\ new[j].qty \in Int
  BY <1>2, <1>5 DEF StockLine
<1> HIDE DEF A, B, C, n
<1>7. Countable(old, A) /\ Countable(all, A) /\ Countable(new, C) /\ Countable(all, B)
  BY <1>3, <1>4, <1>6 DEF Countable
<1>8. Moved(all, A \cup B, i, ws) = Moved(all, A, i, ws) + Moved(all, B, i, ws)
  BY <1>3, <1>7, MovedSplit
<1>9. Moved(all, A, i, ws) = Moved(old, A, i, ws)
  BY <1>6, <1>7, MovedSame
<1>10. Moved(all, B, i, ws) = Moved(new, C, i, ws)
  <2> DEFINE f == Quantities(new, C)
             g == Quantities(all, B)
             at == LinesAt(new, C, i, ws)
  <2>1. /\ IsFiniteSet(at) /\ Moved(new, C, i, ws) = SumOf(f, at)
        /\ Moved(all, B, i, ws) = SumOf(g, LinesAt(all, B, i, ws))
    BY <1>7, MovedIsSum
  <2>2. \A x \in at : x \in C /\ x \in Nat
    BY <1>1 DEF LinesAt, C
  <2>3. n \in Nat
    BY <1>1
  <2>4. \A x, y \in at : name[x] = name[y] => x = y
    BY <2>2, <2>3
  <2>5. \A x \in at : f[x] \in Int /\ g[name[x]] = f[x]
    BY <1>3, <1>6, <2>2 DEF Quantities
  <2>6. LinesAt(all, B, i, ws) = {name[x] : x \in at}
    <3>1. ASSUME NEW b \in LinesAt(all, B, i, ws) PROVE \E x \in at : b = name[x]
      <4>1. PICK j \in C : b = n + j
        BY <1>3 DEF LinesAt
      <4>2. j \in at
        BY <1>6, <4>1 DEF LinesAt
      <4> QED BY <4>1, <4>2
    <3>2. ASSUME NEW x \in at PROVE name[x] \in LinesAt(all, B, i, ws)
      <4>1. x \in C /\ n + x \in B /\ all[n + x] = new[x]
        BY <1>3, <1>6, <2>2
      <4> QED BY <4>1 DEF LinesAt
    <3> HIDE DEF at, name
    <3> QED BY <3>1, <3>2
  <2> HIDE DEF f, g, at, name
  <2>7. SumOf(g, {name[x] : x \in at}) = SumOf(f, at)
    BY <2>1, <2>4, <2>5, SumRenamed
  <2> QED BY <2>1, <2>6, <2>7
<1> QED BY <1>2, <1>3, <1>8, <1>9, <1>10 DEF A, C, n

-----------------------------------------------------------------------------
(* The figures, each as what the rows before it add up to. *)

PostedRow == [line : StockLine, doc : Documents, before : Int, after : Int]

ListOf(rows) == [n \in DOMAIN rows |-> rows[n].line]

Shelves == [Items -> [Warehouses -> Int]]

ShelvesAdd(shelves, rows) ==
    \A i \in Items, w \in Warehouses :
        shelves[i][w] = Opening[i][w] + Moved(ListOf(rows), 1..Len(rows), i, {w})

TotalsAdd(totals, shelves) == \A i \in Items : totals[i] = SumOf(shelves[i], Warehouses)

RowSays(row, lines, n, i, w) ==
    /\ row.before = Opening[i][w] + Moved(lines, 1..(n - 1), i, {w})
    /\ row.after = Opening[i][w] + Moved(lines, 1..n, i, {w})
    /\ row.after >= 0

RowAdds(rows, n, i, w) ==
    rows[n].line.item = i /\ rows[n].line.wh = w => RowSays(rows[n], ListOf(rows), n, i, w)

RowsAdd(rows) ==
    \A n \in DOMAIN rows, i \in Items, w \in Warehouses : RowAdds(rows, n, i, w)

FiguresAdd(shelves, totals, rows) ==
    /\ shelves \in Shelves /\ totals \in [Items -> Int] /\ rows \in Seq(PostedRow)
    /\ ShelvesAdd(shelves, rows) /\ TotalsAdd(totals, shelves) /\ RowsAdd(rows)

LedgerInv == FiguresAdd(stock, total, ledger)

(* The lines of rows are a list, and joined rows have joined lists.        *)
LEMMA ListsJoined ==
    ASSUME NEW rows \in Seq(PostedRow), NEW new \in Seq(PostedRow)
    PROVE  /\ ListOf(rows) \in Seq(StockLine) /\ Len(ListOf(rows)) = Len(rows)
           /\ ListOf(new) \in Seq(StockLine) /\ Len(ListOf(new)) = Len(new)
           /\ rows \o new \in Seq(PostedRow) /\ Len(rows \o new) = Len(rows) + Len(new)
           /\ \A n \in DOMAIN rows : (rows \o new)[n] = rows[n]
           /\ \A k \in DOMAIN new : (rows \o new)[Len(rows) + k] = new[k]
           /\ ListOf(rows \o new) = ListOf(rows) \o ListOf(new)
<1>1. ASSUME NEW s \in Seq(PostedRow)
      PROVE  /\ ListOf(s) \in Seq(StockLine) /\ Len(ListOf(s)) = Len(s)
             /\ \A n \in 1..Len(s) : ListOf(s)[n] = s[n].line
  <2>1. DOMAIN s = 1..Len(s) /\ Len(s) \in Nat /\ \A n \in 1..Len(s) : s[n] \in PostedRow
    OBVIOUS
  <2>2. \A n \in 1..Len(s) : s[n].line \in StockLine
    BY <2>1 DEF PostedRow
  <2>3. ListOf(s) = [n \in 1..Len(s) |-> s[n].line]
    BY <2>1 DEF ListOf
  <2> QED BY <2>1, <2>2, <2>3
<1>2. PICK all \in Seq(PostedRow) :
         /\ all = rows \o new /\ Len(all) = Len(rows) + Len(new)
         /\ \A n \in DOMAIN rows : all[n] = rows[n]
         /\ \A k \in DOMAIN new : all[Len(rows) + k] = new[k]
  <2>1. rows \o new \in Seq(PostedRow) /\ Len(rows \o new) = Len(rows) + Len(new)
    OBVIOUS
  <2>2. \A n \in DOMAIN rows : (rows \o new)[n] = rows[n]
    OBVIOUS
  <2>3. \A k \in DOMAIN new : (rows \o new)[Len(rows) + k] = new[k]
    OBVIOUS
  <2> QED BY <2>1, <2>2, <2>3
<1>3. PICK a \in Seq(StockLine), b \in Seq(StockLine), c \in Seq(StockLine) :
         a = ListOf(rows) /\ b = ListOf(new) /\ c = ListOf(all)
  BY <1>1
<1>4. Len(a) = Len(rows) /\ Len(b) = Len(new) /\ Len(c) = Len(a) + Len(b)
  BY <1>1, <1>2, <1>3
<1>5. /\ \A n \in 1..Len(rows) : n \in DOMAIN rows /\ n \in 1..Len(all)
      /\ \A k \in 1..Len(new) : k \in DOMAIN new /\ Len(rows) + k \in 1..Len(all)
  BY <1>2
<1>6. /\ \A n \in 1..Len(a) : c[n] = a[n]
      /\ \A k \in 1..Len(b) : c[Len(a) + k] = b[k]
  <2>1. /\ \A n \in 1..Len(rows) : a[n] = rows[n].line
        /\ \A k \in 1..Len(new) : b[k] = new[k].line
        /\ \A n \in 1..Len(all) : c[n] = all[n].line
    BY <1>1, <1>3
  <2>2. ASSUME NEW n \in 1..Len(a) PROVE c[n] = a[n]
    <3>1. n \in 1..Len(rows) /\ n \in 1..Len(all) /\ all[n] = rows[n]
      BY <1>2, <1>4, <1>5
    <3> QED BY <2>1, <3>1
  <2>3. ASSUME NEW k \in 1..Len(b) PROVE c[Len(a) + k] = b[k]
    <3>1. k \in 1..Len(new) /\ Len(a) = Len(rows)
      BY <1>4
    <3>2. Len(rows) + k \in 1..Len(all) /\ all[Len(rows) + k] = new[k]
      BY <1>2, <1>5, <3>1
    <3> QED BY <2>1, <3>1, <3>2
  <2> QED BY <2>2, <2>3
<1>7. c = a \o b
  <2>1. PICK d \in Seq(StockLine) :
           /\ d = a \o b /\ Len(d) = Len(a) + Len(b)
           /\ \A n \in 1..Len(a) : d[n] = a[n]
           /\ \A k \in 1..Len(b) : d[Len(a) + k] = b[k]
    <3>1. a \o b \in Seq(StockLine) /\ Len(a \o b) = Len(a) + Len(b)
      OBVIOUS
    <3>2. \A n \in 1..Len(a) : (a \o b)[n] = a[n]
      OBVIOUS
    <3>3. \A k \in 1..Len(b) : (a \o b)[Len(a) + k] = b[k]
      OBVIOUS
    <3> QED BY <3>1, <3>2, <3>3
  <2>2. ASSUME NEW n \in 1..Len(c) PROVE c[n] = d[n]
    <3>1. CASE n \in 1..Len(a)
      BY <1>6, <2>1, <3>1
    <3>2. CASE n \notin 1..Len(a)
      <4>1. n - Len(a) \in 1..Len(b) /\ n = Len(a) + (n - Len(a))
        BY <1>4, <3>2
      <4>2. PICK k \in 1..Len(b) : n = Len(a) + k
        BY <4>1
      <4> QED BY <1>6, <2>1, <4>2
    <3> QED BY <3>1, <3>2
  <2>3. c = [n \in 1..Len(c) |-> c[n]] /\ d = [n \in 1..Len(c) |-> d[n]]
    <3>1. \A s \in Seq(StockLine) : s = [n \in 1..Len(s) |-> s[n]]
      OBVIOUS
    <3>2. Len(c) = Len(d)
      BY <1>4, <2>1
    <3>3. c = [n \in 1..Len(c) |-> c[n]] /\ d = [n \in 1..Len(d) |-> d[n]]
      BY <3>1
    <3> QED BY <3>2, <3>3
  <2>4. [n \in 1..Len(c) |-> c[n]] = [n \in 1..Len(c) |-> d[n]]
    BY <2>2
  <2>5. c = d
    BY <2>3, <2>4
  <2> QED BY <2>1, <2>5
<1> QED BY <1>1, <1>2, <1>3, <1>7

(* The quantity after line k, and the rows that a document adds. *)
Level(shelves, lines, k) ==
    shelves[lines[k].item][lines[k].wh] + Moved(lines, 1..k, lines[k].item, {lines[k].wh})

NewRows(shelves, d, lines) ==
    [k \in DOMAIN lines |-> [line |-> lines[k], doc |-> d,
                             before |-> Level(shelves, lines, k) - lines[k].qty,
                             after |-> Level(shelves, lines, k)]]

(* A list of lines can be counted, and any of its beginnings.              *)
LEMMA LinesCount ==
    ASSUME NEW lines \in Seq(StockLine)
    PROVE  /\ DOMAIN lines = 1..Len(lines) /\ Len(lines) \in Nat
           /\ \A k \in DOMAIN lines : /\ lines[k].item \in Items /\ lines[k].wh \in Warehouses
                                      /\ lines[k].qty \in Int /\ lines[k] \in StockLine
           /\ \A k \in 0..Len(lines) : Countable(lines, 1..k)
<1>1. DOMAIN lines = 1..Len(lines) /\ Len(lines) \in Nat
  OBVIOUS
<1>2. \A k \in DOMAIN lines : lines[k] \in StockLine
  OBVIOUS
<1>3. \A k \in DOMAIN lines : /\ lines[k].item \in Items /\ lines[k].wh \in Warehouses
                              /\ lines[k].qty \in Int
  BY <1>2 DEF StockLine
<1>4. ASSUME NEW k \in 0..Len(lines) PROVE Countable(lines, 1..k)
  <2>1. IsFiniteSet(1..k)
    BY <1>1, FS_Interval
  <2>2. \A j \in 1..k : j \in DOMAIN lines
    BY <1>1
  <2> QED BY <1>3, <2>1, <2>2 DEF Countable
<1> QED BY <1>1, <1>2, <1>3, <1>4

(* One line more moves its quantity on its shelf and nothing elsewhere.    *)
LEMMA MovedNext ==
    ASSUME NEW lines \in Seq(StockLine), NEW k \in DOMAIN lines, NEW i, NEW ws
    PROVE  Moved(lines, 1..k, i, ws)
               = Moved(lines, 1..(k - 1), i, ws)
                 + (IF lines[k].item = i /\ lines[k].wh \in ws THEN lines[k].qty ELSE 0)
<1>1. PICK A, B : A = 1..(k - 1) /\ B = {k}
  OBVIOUS
<1>2. /\ k \in 1..Len(lines) /\ Len(lines) \in Nat /\ lines[k].qty \in Int
      /\ k - 1 \in 0..Len(lines)
  BY LinesCount
<1>3. 1..k = A \cup B /\ A \cap B = {}
  BY <1>1, <1>2
<1>4. Countable(lines, A) /\ Countable(lines, B)
  <2>1. Countable(lines, 1..(k - 1))
    BY <1>2, LinesCount
  <2>2. Countable(lines, {k})
    BY <1>2, FS_Singleton DEF Countable
  <2> QED BY <1>1, <2>1, <2>2
<1>5. Moved(lines, A \cup B, i, ws) = Moved(lines, A, i, ws) + Moved(lines, B, i, ws)
  BY <1>3, <1>4, MovedSplit
<1>6. CASE lines[k].item = i /\ lines[k].wh \in ws
  <2>1. Moved(lines, B, i, ws) = lines[k].qty
    BY <1>1, <1>2, <1>6, MovedOne
  <2> QED BY <1>1, <1>3, <1>5, <1>6, <2>1
<1>7. CASE ~(lines[k].item = i /\ lines[k].wh \in ws)
  <2>1. \A j \in B : ~(lines[j].item = i /\ lines[j].wh \in ws)
    BY <1>1, <1>7
  <2>2. Moved(lines, B, i, ws) = 0
    BY <2>1, MovedNone
  <2> QED BY <1>1, <1>3, <1>5, <1>7, <2>2
<1> QED BY <1>6, <1>7

(* The rows that a document adds follow the ones there are.                *)
LEMMA RowsPosted ==
    ASSUME NEW shelves, NEW totals, NEW rows, FiguresAdd(shelves, totals, rows),
           NEW lines \in Seq(StockLine), NEW d \in Documents,
           \A k \in DOMAIN lines : Level(shelves, lines, k) >= 0
    PROVE  /\ NewRows(shelves, d, lines) \in Seq(PostedRow)
           /\ ListOf(NewRows(shelves, d, lines)) = lines
           /\ Len(NewRows(shelves, d, lines)) = Len(lines)
           /\ RowsAdd(rows \o NewRows(shelves, d, lines))
<1> DEFINE new == NewRows(shelves, d, lines)
           all == rows \o new
           m == Len(rows)
<1>1. /\ DOMAIN lines = 1..Len(lines) /\ Len(lines) \in Nat
      /\ \A k \in DOMAIN lines : /\ lines[k].item \in Items /\ lines[k].wh \in Warehouses
                                 /\ lines[k].qty \in Int /\ lines[k] \in StockLine
      /\ \A k \in 0..Len(lines) : Countable(lines, 1..k)
  BY LinesCount
<1>2. /\ shelves \in Shelves /\ rows \in Seq(PostedRow)
      /\ ShelvesAdd(shelves, rows) /\ RowsAdd(rows)
  BY DEF FiguresAdd
<1>3. ASSUME NEW k \in DOMAIN lines
      PROVE  Level(shelves, lines, k) \in Int
  <2>1. shelves[lines[k].item][lines[k].wh] \in Int
    BY <1>1, <1>2 DEF Shelves
  <2>2. k \in 0..Len(lines)
    BY <1>1
  <2>3. Moved(lines, 1..k, lines[k].item, {lines[k].wh}) \in Int
    BY <1>1, <2>2, MovedIsSum
  <2> QED BY <2>1, <2>3 DEF Level
<1>4. /\ DOMAIN new = DOMAIN lines
      /\ \A k \in DOMAIN lines :
            /\ new[k].line = lines[k] /\ new[k].after = Level(shelves, lines, k)
            /\ new[k].before = Level(shelves, lines, k) - lines[k].qty
            /\ new[k] \in PostedRow
  BY <1>1, <1>3 DEF NewRows, PostedRow
<1>5. new \in Seq(PostedRow) /\ Len(new) = Len(lines) /\ ListOf(new) = lines
  <2>1. new = [k \in 1..Len(lines) |-> new[k]] /\ lines = [k \in 1..Len(lines) |-> lines[k]]
    BY <1>1 DEF NewRows
  <2> HIDE DEF new
  <2>2. new \in Seq(PostedRow) /\ Len(new) = Len(lines)
    BY <1>1, <1>4, <2>1
  <2>3. ListOf(new) = [k \in 1..Len(lines) |-> lines[k]]
    BY <1>1, <1>4 DEF ListOf
  <2> QED BY <2>1, <2>2, <2>3
<1> HIDE DEF new
<1>6. /\ ListOf(rows) \in Seq(StockLine) /\ Len(ListOf(rows)) = m
      /\ all \in Seq(PostedRow) /\ Len(all) = m + Len(lines)
      /\ \A n \in DOMAIN rows : all[n] = rows[n]
      /\ \A k \in DOMAIN new : all[m + k] = new[k]
      /\ ListOf(all) = ListOf(rows) \o lines
  BY <1>2, <1>5, ListsJoined, ZenonT(60)
<1> DEFINE old == ListOf(rows)
<1>7. /\ m \in Nat /\ DOMAIN rows = 1..m /\ DOMAIN all = 1..(m + Len(lines))
  BY <1>1, <1>2, <1>6
<1> HIDE DEF all, m, old
<1>8. ASSUME NEW k \in 0..Len(lines), NEW i, NEW w
      PROVE  /\ Moved(ListOf(all), 1..(m + k), i, {w})
                  = Moved(old, 1..m, i, {w}) + Moved(lines, 1..k, i, {w})
             /\ Moved(old, 1..m, i, {w}) \in Int /\ Moved(lines, 1..k, i, {w}) \in Int
  <2>0. PICK list \in Seq(StockLine) : list = ListOf(rows)
    BY <1>6
  <2>1. Moved(old \o lines, 1..(Len(old) + k), i, {w})
            = Moved(old, 1..Len(old), i, {w}) + Moved(lines, 1..k, i, {w})
    <3>1. Moved(list \o lines, 1..(Len(list) + k), i, {w})
              = Moved(list, 1..Len(list), i, {w}) + Moved(lines, 1..k, i, {w})
      BY MovedJoined
    <3> QED BY <2>0, <3>1 DEF old
  <2>2. Countable(old, 1..m) /\ Countable(lines, 1..k)
    <3>1. m \in 0..Len(old)
      BY <1>6, <1>7 DEF old
    <3> QED BY <1>1, <1>6, <3>1, LinesCount DEF old
  <2>3. Moved(old, 1..m, i, {w}) \in Int /\ Moved(lines, 1..k, i, {w}) \in Int
    BY <2>2, MovedIsSum
  <2> QED BY <2>1, <2>3, <1>6 DEF old
<1>9. ASSUME NEW n \in 1..m, NEW i \in Items, NEW w \in Warehouses
      PROVE  RowAdds(all, n, i, w)
  <2>1. RowAdds(rows, n, i, w) /\ all[n] = rows[n]
    BY <1>2, <1>6, <1>7 DEF RowsAdd
  <2>2. ASSUME NEW k \in {n - 1, n}
        PROVE  Moved(ListOf(all), 1..k, i, {w}) = Moved(old, 1..k, i, {w})
    <3>1. k \in 0..m
      BY <1>7
    <3>2. Countable(old, 1..k)
      BY <1>6, <3>1, LinesCount DEF old
    <3>3. \A j \in 1..k : ListOf(all)[j] = old[j]
      <4> SUFFICES ASSUME NEW j \in 1..k PROVE ListOf(all)[j] = old[j]
        OBVIOUS
      <4>1. j \in DOMAIN rows /\ j \in DOMAIN all
        BY <1>1, <1>7, <3>1
      <4> QED BY <4>1, <1>6 DEF ListOf, old
    <3> QED BY <3>2, <3>3, MovedSame
  <2> QED BY <2>1, <2>2 DEF RowAdds, RowSays, old
<1>10. ASSUME NEW k \in 1..Len(lines), NEW i \in Items, NEW w \in Warehouses
       PROVE  RowAdds(all, m + k, i, w)
  <2> SUFFICES ASSUME all[m + k].line.item = i, all[m + k].line.wh = w
               PROVE  RowSays(all[m + k], ListOf(all), m + k, i, w)
    BY DEF RowAdds
  <2>1. /\ all[m + k] = new[k] /\ lines[k].item = i /\ lines[k].wh = w /\ lines[k].qty \in Int
        /\ k \in DOMAIN lines
    BY <1>1, <1>4, <1>6
  <2>2. Level(shelves, lines, k) = shelves[i][w] + Moved(lines, 1..k, i, {w})
    BY <2>1 DEF Level
  <2>3. shelves[i][w] = Opening[i][w] + Moved(old, 1..m, i, {w})
    BY <1>2 DEF ShelvesAdd, old, m
  <2>4. Moved(lines, 1..k, i, {w}) = Moved(lines, 1..(k - 1), i, {w}) + lines[k].qty
    BY <2>1, MovedNext
  <2>5. k - 1 \in 0..Len(lines) /\ k \in 0..Len(lines) /\ m + k - 1 = m + (k - 1)
    BY <1>1, <1>7
  <2>6. Opening[i][w] \in Int
    BY LedgerAssumption DEF LedgerAssumption
  <2>7. PICK open \in Int, a \in Int, b \in Int, c \in Int, q \in Int :
           /\ open = Opening[i][w] /\ a = Moved(old, 1..m, i, {w})
           /\ b = Moved(lines, 1..(k - 1), i, {w}) /\ c = Moved(lines, 1..k, i, {w})
           /\ q = lines[k].qty
    BY <1>8, <2>1, <2>5, <2>6
  <2>8. /\ Moved(ListOf(all), 1..(m + (k - 1)), i, {w}) = a + b
        /\ Moved(ListOf(all), 1..(m + k), i, {w}) = a + c
    BY <1>8, <2>5, <2>7, ZenonT(60)
  <2>9. new[k].after = (open + a) + c /\ new[k].before = ((open + a) + c) - q /\ c = b + q
    BY <1>4, <2>1, <2>2, <2>3, <2>4, <2>7
  <2>10. new[k].after >= 0
    BY <1>4, <2>1
  <2>11. new[k].before = open + (a + b) /\ new[k].after = open + (a + c)
    <3>1. c = b + q => /\ (open + a) + c = open + (a + c)
                       /\ ((open + a) + c) - q = open + (a + b)
      OBVIOUS
    <3> QED BY <2>9, <3>1
  <2>12. (m + k) - 1 = m + (k - 1)
    BY <1>1, <1>7
  <2> QED BY <2>1, <2>7, <2>8, <2>10, <2>11, <2>12 DEF RowSays
<1>11. RowsAdd(all)
  <2>1. ASSUME NEW n \in DOMAIN all, NEW i \in Items, NEW w \in Warehouses
        PROVE  RowAdds(all, n, i, w)
    <3>1. CASE n \in 1..m
      BY <1>9, <3>1
    <3>2. CASE n \notin 1..m
      <4>1. n - m \in 1..Len(lines) /\ n = m + (n - m)
        BY <1>1, <1>7, <3>2
      <4>2. PICK k \in 1..Len(lines) : n = m + k
        BY <4>1
      <4> QED BY <1>10, <4>2
    <3> QED BY <3>1, <3>2
  <2> QED BY <2>1 DEF RowsAdd
<1> QED BY <1>5, <1>11 DEF all, new

-----------------------------------------------------------------------------
(* The step and the invariant. *)

ShelvesAfter(shelves, lines) ==
    [i \in Items |-> [w \in Warehouses |-> shelves[i][w] + Moved(lines, DOMAIN lines, i, {w})]]

TotalsAfter(totals, lines) ==
    [i \in Items |-> IF \E k \in DOMAIN lines : lines[k].item = i
                     THEN totals[i] + Moved(lines, DOMAIN lines, i, Warehouses) ELSE totals[i]]

(* A list's quantities add to any figure.                                  *)
LEMMA ListMoves ==
    ASSUME NEW lines \in Seq(StockLine), NEW i, NEW ws
    PROVE  Moved(lines, DOMAIN lines, i, ws) \in Int
<1>1. DOMAIN lines = 1..Len(lines) /\ Len(lines) \in 0..Len(lines)
  OBVIOUS
<1>2. Countable(lines, 1..Len(lines))
  BY <1>1, LinesCount
<1> QED BY <1>1, <1>2, MovedIsSum

(* The shelves after the lines are what the longer ledger adds up to.      *)
LEMMA ShelvesPosted ==
    ASSUME NEW shelves, NEW totals, NEW rows, FiguresAdd(shelves, totals, rows),
           NEW lines \in Seq(StockLine), NEW new \in Seq(PostedRow), ListOf(new) = lines
    PROVE  /\ ShelvesAfter(shelves, lines) \in Shelves
           /\ ShelvesAdd(ShelvesAfter(shelves, lines), rows \o new)
<1>1. /\ shelves \in Shelves /\ rows \in Seq(PostedRow) /\ ShelvesAdd(shelves, rows)
  BY DEF FiguresAdd
<1>2. PICK list \in Seq(StockLine) : list = ListOf(rows) /\ Len(list) = Len(rows)
  BY <1>1, ListsJoined
<1>3. /\ ListOf(rows \o new) = list \o lines /\ Len(new) = Len(lines)
      /\ Len(rows \o new) = Len(rows) + Len(lines)
  BY <1>1, <1>2, ListsJoined, ZenonT(60)
<1>4. DOMAIN lines = 1..Len(lines) /\ Len(lines) \in 0..Len(lines)
  OBVIOUS
<1>5. ASSUME NEW i \in Items, NEW w \in Warehouses
      PROVE  /\ ShelvesAfter(shelves, lines)[i][w]
                    = shelves[i][w] + Moved(lines, 1..Len(lines), i, {w})
             /\ ShelvesAfter(shelves, lines)[i][w] \in Int
             /\ ShelvesAfter(shelves, lines)[i][w]
                    = Opening[i][w] + Moved(list \o lines, 1..(Len(list) + Len(lines)), i, {w})
  <2>1. ShelvesAfter(shelves, lines)[i][w] = shelves[i][w] + Moved(lines, DOMAIN lines, i, {w})
    BY DEF ShelvesAfter
  <2>2. shelves[i][w] \in Int
    BY <1>1 DEF Shelves
  <2>3. Moved(lines, DOMAIN lines, i, {w}) \in Int /\ Moved(list, DOMAIN list, i, {w}) \in Int
    BY ListMoves
  <2>4. DOMAIN list = 1..Len(list)
    OBVIOUS
  <2>5. Moved(list \o lines, 1..(Len(list) + Len(lines)), i, {w})
            = Moved(list, 1..Len(list), i, {w}) + Moved(lines, 1..Len(lines), i, {w})
    BY <1>4, MovedJoined
  <2>6. shelves[i][w] = Opening[i][w] + Moved(list, 1..Len(list), i, {w})
    BY <1>1, <1>2 DEF ShelvesAdd
  <2>7. Opening[i][w] \in Int
    BY LedgerAssumption DEF LedgerAssumption
  <2>8. PICK o \in Int, a \in Int, b \in Int :
           /\ o = Opening[i][w] /\ a = Moved(list, 1..Len(list), i, {w})
           /\ b = Moved(lines, 1..Len(lines), i, {w})
    BY <1>4, <2>3, <2>4, <2>7
  <2>9. (o + a) + b = o + (a + b) /\ (o + a) + b \in Int
    OBVIOUS
  <2>10. ShelvesAfter(shelves, lines)[i][w] = (o + a) + b
    BY <1>4, <2>1, <2>6, <2>8
  <2> QED BY <1>4, <2>1, <2>5, <2>8, <2>9, <2>10
<1>6. ShelvesAfter(shelves, lines) \in Shelves
  BY <1>5 DEF ShelvesAfter, Shelves
<1>7. ShelvesAdd(ShelvesAfter(shelves, lines), rows \o new)
  BY <1>2, <1>3, <1>5 DEF ShelvesAdd
<1> QED BY <1>6, <1>7

(* A total moves by as much as its shelves do together.                    *)
LEMMA TotalsPosted ==
    ASSUME NEW shelves \in Shelves, NEW totals \in [Items -> Int], TotalsAdd(totals, shelves),
           NEW lines \in Seq(StockLine)
    PROVE  /\ TotalsAfter(totals, lines) \in [Items -> Int]
           /\ TotalsAdd(TotalsAfter(totals, lines), ShelvesAfter(shelves, lines))
<1> DEFINE W == Warehouses
<1>1. IsFiniteSet(W)
  BY LedgerAssumption DEF LedgerAssumption
<1>2. DOMAIN lines = 1..Len(lines) /\ Len(lines) \in 0..Len(lines)
  OBVIOUS
<1>3. Countable(lines, DOMAIN lines)
  BY <1>2, LinesCount
<1>4. ASSUME NEW i \in Items
      PROVE  /\ TotalsAfter(totals, lines)[i] = totals[i] + Moved(lines, DOMAIN lines, i, W)
             /\ TotalsAfter(totals, lines)[i] \in Int
  <2>1. Moved(lines, DOMAIN lines, i, W) \in Int /\ totals[i] \in Int
    BY ListMoves
  <2>2. CASE \E k \in DOMAIN lines : lines[k].item = i
    BY <2>1, <2>2 DEF TotalsAfter
  <2>3. CASE ~\E k \in DOMAIN lines : lines[k].item = i
    <3>1. Moved(lines, DOMAIN lines, i, W) = 0
      BY <2>3, MovedNone
    <3>2. TotalsAfter(totals, lines)[i] = totals[i]
      BY <2>3 DEF TotalsAfter
    <3> QED BY <2>1, <3>1, <3>2
  <2> QED BY <2>2, <2>3
<1>5. ASSUME NEW i \in Items
      PROVE  TotalsAfter(totals, lines)[i] = SumOf(ShelvesAfter(shelves, lines)[i], W)
  <2> DEFINE f == shelves[i]
             g == [w \in W |-> Moved(lines, DOMAIN lines, i, {w})]
             h == ShelvesAfter(shelves, lines)[i]
  <2>1. \A w \in W : f[w] \in Int /\ g[w] \in Int /\ h[w] = f[w] + g[w]
    BY ListMoves DEF ShelvesAfter, Shelves
  <2>2. Moved(lines, DOMAIN lines, i, W) = SumOf(g, W)
    BY <1>1, <1>3, MovedInEach
  <2>3. totals[i] = SumOf(f, W)
    BY DEF TotalsAdd
  <2> HIDE DEF f, g, h, W
  <2>4. SumOf(h, W) = SumOf(f, W) + SumOf(g, W)
    BY <1>1, <2>1, SumAdd
  <2>5. SumOf(h, W) = TotalsAfter(totals, lines)[i]
    BY <1>4, <2>2, <2>3, <2>4
  <2> QED BY <2>5 DEF h
<1>6. TotalsAfter(totals, lines) \in [Items -> Int]
  BY <1>4 DEF TotalsAfter
<1> QED BY <1>5, <1>6 DEF TotalsAdd

(* Lines that leave no shelf below nothing keep every figure right.        *)
LEMMA FiguresPosted ==
    ASSUME NEW shelves, NEW totals, NEW rows, FiguresAdd(shelves, totals, rows),
           NEW lines \in Seq(StockLine), NEW d \in Documents,
           \A k \in DOMAIN lines : Level(shelves, lines, k) >= 0
    PROVE  FiguresAdd(ShelvesAfter(shelves, lines), TotalsAfter(totals, lines),
                      rows \o NewRows(shelves, d, lines))
<1>1. /\ shelves \in Shelves /\ totals \in [Items -> Int] /\ rows \in Seq(PostedRow)
      /\ TotalsAdd(totals, shelves)
  BY DEF FiguresAdd
<1>2. PICK new \in Seq(PostedRow) : /\ new = NewRows(shelves, d, lines) /\ ListOf(new) = lines
                              /\ RowsAdd(rows \o new)
  BY RowsPosted
<1>3. /\ ShelvesAfter(shelves, lines) \in Shelves
      /\ ShelvesAdd(ShelvesAfter(shelves, lines), rows \o new)
  BY <1>2, ShelvesPosted
<1>4. /\ TotalsAfter(totals, lines) \in [Items -> Int]
      /\ TotalsAdd(TotalsAfter(totals, lines), ShelvesAfter(shelves, lines))
  BY <1>1, TotalsPosted
<1>5. rows \o new \in Seq(PostedRow)
  BY <1>1
<1> QED BY <1>2, <1>3, <1>4, <1>5 DEF FiguresAdd

(* The same lines in the other direction. *)
TakenBack(old, back) ==
    /\ DOMAIN back = DOMAIN old
    /\ \A k \in DOMAIN old : back[k] = [old[k] EXCEPT !.qty = -@, !.type = "reversal"]

(* Lines taken back move what they moved, the other way.                   *)
LEMMA TakenBackMoves ==
    ASSUME NEW old \in Seq(StockLine), NEW back, TakenBack(old, back), NEW i, NEW ws
    PROVE  /\ Moved(old, DOMAIN old, i, ws) \in Int
           /\ Moved(back, DOMAIN back, i, ws) = -Moved(old, DOMAIN old, i, ws)
<1> DEFINE ks == DOMAIN old
           at == LinesAt(old, ks, i, ws)
           f == Quantities(old, ks)
           g == Quantities(back, ks)
           h == [k \in at |-> 0]
<1>1. /\ old \in Seq(StockLine) /\ ks = 1..Len(old) /\ Len(old) \in Nat
      /\ \A k \in ks : old[k] \in StockLine /\ old[k].qty \in Int
  BY LinesCount
<1>2. DOMAIN back = ks /\ \A k \in ks : back[k] = [old[k] EXCEPT !.qty = -@, !.type = "reversal"]
  BY DEF TakenBack
<1>3. ASSUME NEW k \in ks
      PROVE  /\ back[k].item = old[k].item /\ back[k].wh = old[k].wh
             /\ back[k].qty = -old[k].qty /\ back[k].qty \in Int
  <2>1. PICK line \in StockLine : line = old[k]
    BY <1>1
  <2>2. back[k] = [line EXCEPT !.qty = -@, !.type = "reversal"]
    BY <1>2, <2>1
  <2>3. back[k] = [item |-> line.item, wh |-> line.wh, qty |-> -line.qty, type |-> "reversal"]
    BY <2>2 DEF StockLine
  <2>4. -line.qty \in Int
    BY DEF StockLine
  <2> QED BY <2>1, <2>3, <2>4
<1>4. Countable(old, ks) /\ Countable(back, ks)
  <2>1. IsFiniteSet(ks)
    BY <1>1, FS_Interval
  <2> QED BY <1>1, <1>3, <2>1 DEF Countable
<1>5. LinesAt(back, ks, i, ws) = at
  BY <1>3 DEF LinesAt
<1>6. /\ \A k \in at : k \in ks /\ f[k] = old[k].qty /\ g[k] = back[k].qty /\ h[k] = 0
  BY DEF LinesAt, Quantities
<1>7. \A k \in at : f[k] \in Int /\ g[k] \in Int /\ h[k] \in Int /\ h[k] = f[k] + g[k]
                    /\ h[k] = h[k] + h[k]
  BY <1>1, <1>3, <1>6
<1> HIDE DEF f, g, h, at
<1>8. /\ IsFiniteSet(at)
      /\ Moved(old, ks, i, ws) = SumOf(f, at) /\ Moved(back, ks, i, ws) = SumOf(g, at)
      /\ Moved(old, ks, i, ws) \in Int /\ Moved(back, ks, i, ws) \in Int
  <2>1. /\ IsFiniteSet(LinesAt(old, ks, i, ws))
        /\ Moved(old, ks, i, ws) = SumOf(Quantities(old, ks), LinesAt(old, ks, i, ws))
        /\ Moved(old, ks, i, ws) \in Int
    BY <1>4, MovedIsSum
  <2>2. /\ Moved(back, ks, i, ws) = SumOf(Quantities(back, ks), LinesAt(back, ks, i, ws))
        /\ Moved(back, ks, i, ws) \in Int
    BY <1>4, MovedIsSum
  <2> QED BY <1>5, <2>1, <2>2 DEF f, g, at
<1>9. SumOf(h, at) = SumOf(h, at) + SumOf(h, at)
  BY <1>7, <1>8, SumAdd
<1>10. SumOf(h, at) = SumOf(f, at) + SumOf(g, at)
  BY <1>7, <1>8, SumAdd
<1>11. SumOf(h, at) \in Int
  BY <1>7, <1>8, SumType
<1>12. \A x, y, z \in Int : x = x + x /\ x = y + z => z = -y
  OBVIOUS
<1> QED BY <1>2, <1>8, <1>9, <1>10, <1>11, <1>12

(* More rows: those there were, and one for each of a document's lines. *)
Adds(rows, more, lines, d) ==
    /\ Len(more) = Len(rows) + Len(lines)
    /\ \A n \in 1..Len(rows) : more[n] = rows[n]
    /\ \A k \in 1..Len(lines) : /\ more[Len(rows) + k].line = lines[k]
                                /\ more[Len(rows) + k].doc = d

(* The sum of the quantities in rows is a sum of a function.               *)
LEMMA SumOfRowQuantities ==
    ASSUME NEW rows, NEW S, IsFiniteSet(S)
    PROVE  MapThenSumSet(LAMBDA k : rows[k].line.qty, S) = SumOf([k \in S |-> rows[k].line.qty], S)
<1> DEFINE f == [k \in S |-> rows[k].line.qty]
           h == CHOOSE h : h = [s \in SUBSET S |->
                    IF s = {} THEN 0
                    ELSE rows[CHOOSE x \in s : TRUE].line.qty + h[s \ {CHOOSE x \in s : TRUE}]]
           own(g) == [s \in SUBSET S |->
                    IF s = {} THEN 0 ELSE rows[Pick(s)].line.qty + g[s \ {Pick(s)}]]
           its(g) == [s \in SUBSET S |->
                    IF s = {} THEN 0 ELSE f[Pick(s)] + g[s \ {Pick(s)}]]
<1>1. MapThenSumSet(LAMBDA k : rows[k].line.qty, S) = h[S]
  BY DEF MapThenSumSet, MapThenFoldSet
<1>2. ASSUME NEW g PROVE own(g) = its(g)
  <2>1. \A s \in SUBSET S : s # {} => rows[Pick(s)].line.qty = f[Pick(s)]
    BY PickIsIn
  <2> HIDE DEF f
  <2> QED BY <2>1
<1>3. PICK g : IsSum(f, S, g)
  BY SumExists
<1>4. g = own(g)
  BY <1>2, <1>3 DEF IsSum
<1>5. h = own(h)
  BY <1>4 DEF Pick
<1>6. h = its(h)
  BY <1>2, <1>5
<1> HIDE DEF f, h
<1>7. IsSum(f, S, h)
  BY <1>6 DEF IsSum
<1>8. SumOf(f, S) = h[S]
  BY <1>7, SumValue
<1> QED BY <1>1, <1>8 DEF f

(* The rows of a shelf among the first n.                                  *)
RowsOf(rows, n, i, w) == {k \in 1..n : rows[k].line.item = i /\ rows[k].line.wh = w}

(* A shelf at any time is what its last row says, or its opening.          *)
LEMMA LastRow ==
    ASSUME NEW rows \in Seq(PostedRow), RowsAdd(rows), NEW n \in 0..Len(rows),
           NEW i \in Items, NEW w \in Warehouses, NEW at,
           at = RowsOf(rows, n, i, w)
    PROVE  /\ Opening[i][w] + Moved(ListOf(rows), 1..n, i, {w})
                  = IF at = {} THEN Opening[i][w] ELSE rows[Max(at)].after
           /\ at # {} => rows[Max(at)].after >= 0 /\ rows[Max(at)].after \in Int
<1>0. at = {k \in 1..n : rows[k].line.item = i /\ rows[k].line.wh = w}
  BY DEF RowsOf
<1>1. PICK list \in Seq(StockLine) : list = ListOf(rows) /\ Len(list) = Len(rows)
  BY ListsJoined
<1>2. \A k \in 1..Len(rows) : list[k] = rows[k].line /\ k \in DOMAIN rows
  BY <1>1 DEF ListOf
<1>3. n \in Nat /\ Len(rows) \in Nat /\ n <= Len(rows) /\ Opening[i][w] \in Int
  BY LedgerAssumption DEF LedgerAssumption
<1>4. CASE at = {}
  <2>1. \A k \in 1..n : ~(list[k].item = i /\ list[k].wh \in {w})
    BY <1>0, <1>2, <1>3, <1>4
  <2>2. Moved(list, 1..n, i, {w}) = 0
    BY <2>1, MovedNone
  <2> QED BY <1>1, <1>3, <1>4, <2>2
<1>5. CASE at # {}
  <2>1. at \in SUBSET (1..n)
    BY <1>0
  <2>2. \E p \in at : \A k \in at : k <= p
    BY <1>3, <1>5, <2>1, LastExists
  <2>3. PICK p \in at : p = Max(at) /\ \A k \in at : k <= p
    <3>1. \E p \in at : \A k \in at : p >= k
      BY <1>3, <2>1, <2>2
    <3>2. Max(at) \in at /\ \A k \in at : Max(at) >= k
      BY <3>1 DEF Max
    <3> QED BY <1>3, <2>1, <3>2
  <2>4. p \in 1..n /\ rows[p].line.item = i /\ rows[p].line.wh = w /\ p \in DOMAIN rows
    BY <1>0, <1>3
  <2>5. /\ rows[p].after = Opening[i][w] + Moved(list, 1..p, i, {w})
        /\ rows[p].after >= 0
    BY <1>1, <2>4 DEF RowsAdd, RowAdds, RowSays
  <2>6. PICK A, B : A = 1..p /\ B = (p + 1)..n
    OBVIOUS
  <2>7. 1..n = A \cup B /\ A \cap B = {}
    BY <1>3, <2>4, <2>6
  <2>8. \A k \in B : ~(list[k].item = i /\ list[k].wh \in {w})
    <3> SUFFICES ASSUME NEW k \in B PROVE ~(list[k].item = i /\ list[k].wh \in {w})
      OBVIOUS
    <3>1. k \in 1..n /\ k \in 1..Len(rows) /\ ~(k <= p)
      BY <1>3, <2>4, <2>6
    <3>2. k \notin at
      BY <2>3, <3>1
    <3> QED BY <1>0, <1>2, <3>1, <3>2
  <2>9. Countable(list, A) /\ Countable(list, B)
    <3>1. Countable(list, 1..p) /\ Countable(list, 1..n)
      BY <1>1, <1>3, <2>4, LinesCount
    <3>2. B \in SUBSET (1..n)
      BY <2>7
    <3>3. IsFiniteSet(B)
      BY <3>1, <3>2, FS_Subset DEF Countable
    <3> QED BY <2>6, <3>1, <3>2, <3>3 DEF Countable
  <2>10. Moved(list, A \cup B, i, {w}) = Moved(list, A, i, {w}) + Moved(list, B, i, {w})
    BY <2>7, <2>9, MovedSplit
  <2>11. Moved(list, B, i, {w}) = 0 /\ Moved(list, A, i, {w}) \in Int
    BY <2>8, <2>9, MovedNone, MovedIsSum
  <2>12. Moved(list, 1..n, i, {w}) = Moved(list, 1..p, i, {w})
    <3>1. PICK x \in Int : x = Moved(list, A, i, {w})
      BY <2>11
    <3>2. Moved(list, A \cup B, i, {w}) = x + 0
      BY <2>10, <2>11, <3>1
    <3>3. x + 0 = x
      OBVIOUS
    <3> QED BY <2>6, <2>7, <3>1, <3>2, <3>3
  <2>13. rows[p].after \in Int
    <3>1. \A k \in DOMAIN rows : rows[k] \in PostedRow
      OBVIOUS
    <3>2. rows[p] \in PostedRow
      BY <2>4, <3>1
    <3> QED BY <3>2 DEF PostedRow
  <2> QED BY <1>1, <1>5, <2>3, <2>5, <2>12, <2>13
<1> QED BY <1>4, <1>5

(* The ledger is empty at first and every shelf is at its opening.         *)
LEMMA LedgerInitInv == LedgerInit => LedgerInv
<1> SUFFICES ASSUME LedgerInit PROVE LedgerInv
  OBVIOUS
<1>1. /\ ledger = <<>> /\ stock = Opening
      /\ total = [i \in Items |-> SumOf(Opening[i], Warehouses)]
  BY DEF LedgerInit, SumOf
<1>2. /\ Opening \in [Items -> [Warehouses -> Nat]]
      /\ IsFiniteSet(Warehouses)
  BY LedgerAssumption DEF LedgerAssumption
<1>3. <<>> \in Seq(PostedRow) /\ Len(<<>>) = 0 /\ DOMAIN <<>> = {} /\ 1..0 = {}
  OBVIOUS
<1>4. ASSUME NEW i \in Items PROVE SumOf(Opening[i], Warehouses) \in Int
  <2>1. \A w \in Warehouses : Opening[i][w] \in Int
    BY <1>2
  <2> QED BY <1>2, <2>1, SumType
<1>5. ShelvesAdd(Opening, <<>>)
  <2> SUFFICES ASSUME NEW i \in Items, NEW w \in Warehouses
               PROVE  Opening[i][w] = Opening[i][w] + Moved(ListOf(<<>>), 1..0, i, {w})
    BY <1>3 DEF ShelvesAdd
  <2>1. Moved(ListOf(<<>>), 1..0, i, {w}) = 0
    BY <1>3, MovedNone
  <2>2. Opening[i][w] \in Int
    BY <1>2
  <2> QED BY <2>1, <2>2
<1>6. RowsAdd(<<>>)
  BY <1>3 DEF RowsAdd
<1>7. stock \in Shelves /\ total \in [Items -> Int]
  BY <1>1, <1>2, <1>4 DEF Shelves
<1>8. TotalsAdd(total, stock)
  BY <1>1 DEF TotalsAdd
<1> QED BY <1>1, <1>3, <1>5, <1>6, <1>7, <1>8 DEF LedgerInv, FiguresAdd

(* The lines of one document, refused if a shelf would go below nothing,   *)
(* keep every figure and add their rows.                                   *)
LEMMA PostLinesInv ==
    ASSUME LedgerInv, NEW lines \in Seq(StockLine), NEW d \in Documents,
           ~Refused(lines, Warehouses), PostLines(d, lines, total)
    PROVE  LedgerInv' /\ Adds(ledger, ledger', lines, d)
<1>1. PICK shelves, totals, rows : shelves = stock /\ totals = total /\ rows = ledger
  OBVIOUS
<1>2. FiguresAdd(shelves, totals, rows)
  BY <1>1 DEF LedgerInv
<1>3. \A k \in DOMAIN lines : After(lines, k) = Level(shelves, lines, k)
  BY <1>1 DEF After, Level
<1>4. \A k \in DOMAIN lines : Level(shelves, lines, k) >= 0
  <2> SUFFICES ASSUME NEW k \in DOMAIN lines PROVE Level(shelves, lines, k) >= 0
    OBVIOUS
  <2>1. ~(Level(shelves, lines, k) < 0)
    BY <1>3 DEF Refused
  <2>2. /\ lines[k].item \in Items /\ lines[k].wh \in Warehouses /\ k \in 0..Len(lines)
        /\ Countable(lines, 1..k)
    BY LinesCount
  <2>3. shelves[lines[k].item][lines[k].wh] \in Int
    BY <1>2, <2>2 DEF FiguresAdd, Shelves
  <2>4. Moved(lines, 1..k, lines[k].item, {lines[k].wh}) \in Int
    BY <2>2, MovedIsSum
  <2>5. Level(shelves, lines, k) \in Int
    BY <2>3, <2>4 DEF Level
  <2> QED BY <2>1, <2>5
<1>5. FiguresAdd(ShelvesAfter(shelves, lines), TotalsAfter(totals, lines),
                 rows \o NewRows(shelves, d, lines))
  BY <1>2, <1>4, FiguresPosted
<1>6. stock' = ShelvesAfter(shelves, lines)
  BY <1>1 DEF PostLines, ShelvesAfter
<1>7. total' = TotalsAfter(totals, lines)
  BY <1>1 DEF PostLines, TotalsAfter
<1>8. ledger' = rows \o NewRows(shelves, d, lines)
  BY <1>1, <1>3 DEF PostLines, NewRows
<1>9. PICK new \in Seq(PostedRow) : /\ new = NewRows(shelves, d, lines) /\ ListOf(new) = lines
                              /\ Len(new) = Len(lines)
  BY <1>2, <1>4, RowsPosted
<1>10. /\ Len(rows \o new) = Len(rows) + Len(new)
       /\ \A n \in DOMAIN rows : (rows \o new)[n] = rows[n]
       /\ \A k \in DOMAIN new : (rows \o new)[Len(rows) + k] = new[k]
  BY <1>2, ListsJoined DEF FiguresAdd
<1>11. /\ DOMAIN rows = 1..Len(rows) /\ DOMAIN lines = 1..Len(lines)
       /\ \A k \in DOMAIN lines : k \in DOMAIN new /\ new[k].line = lines[k] /\ new[k].doc = d
  BY <1>2, <1>9 DEF FiguresAdd, NewRows
<1>12. Adds(rows, rows \o new, lines, d)
  BY <1>9, <1>10, <1>11 DEF Adds
<1> QED BY <1>1, <1>5, <1>6, <1>7, <1>8, <1>9, <1>12 DEF LedgerInv

(* A post keeps every figure what the rows add up to.                      *)
LEMMA LedgerPostInv == LedgerInv /\ [Post]_ledgerVars => LedgerInv'
<1> SUFFICES ASSUME LedgerInv, [Post]_ledgerVars PROVE LedgerInv'
  OBVIOUS
<1>1. CASE UNCHANGED ledgerVars
  BY <1>1 DEF ledgerVars, LedgerInv
<1>2. CASE Post
  <2>1. PICK lines \in Seq(StockLine), d \in Documents :
           lines = Gained /\ ~Refused(lines, Warehouses) /\ PostLines(d, lines, total)
    BY <1>2 DEF Post
  <2> QED BY <2>1, PostLinesInv
<1> QED BY <1>1, <1>2

(* Those lines are one post of the ledger, or none where there are none.   *)
LEMMA PostLinesPosts ==
    ASSUME LedgerInv, NEW lines \in Seq(StockLine), NEW d \in Documents,
           ~Refused(lines, Warehouses), PostLines(d, lines, total)
    PROVE  [Post]_ledgerVars
<1>1. LedgerInv' /\ Adds(ledger, ledger', lines, d)
  BY PostLinesInv
<1>2. PICK rows \in Seq(PostedRow), more \in Seq(PostedRow) : rows = ledger /\ more = ledger'
  BY <1>1 DEF LedgerInv, FiguresAdd
<1>3. /\ Len(rows) \in Nat /\ Len(lines) \in Nat /\ Len(more) = Len(rows) + Len(lines)
      /\ DOMAIN lines = 1..Len(lines)
      /\ \A n \in 1..Len(rows) : more[n] = rows[n]
      /\ \A k \in 1..Len(lines) : more[Len(rows) + k].line = lines[k]
  BY <1>1, <1>2 DEF Adds
<1>4. CASE lines = <<>>
  <2>1. DOMAIN lines = {} /\ Len(lines) = 0
    BY <1>4
  <2>2. ledger' = ledger
    <3>1. /\ rows = [n \in 1..Len(rows) |-> rows[n]] /\ more = [n \in 1..Len(more) |-> more[n]]
          /\ Len(more) = Len(rows)
      BY <1>3, <2>1
    <3> QED BY <1>2, <1>3, <3>1
  <2>3. total' = total
    <3>1. total' = [i \in Items |-> total[i]]
      BY <2>1 DEF PostLines
    <3> QED BY <3>1 DEF LedgerInv, FiguresAdd
  <2>4. stock' = stock
    <3>1. ASSUME NEW i \in Items, NEW w \in Warehouses PROVE stock'[i][w] = stock[i][w]
      <4>1. Moved(lines, DOMAIN lines, i, {w}) = 0
        BY <2>1, MovedNone
      <4>2. stock'[i][w] = stock[i][w] + 0 /\ stock[i][w] \in Int
        BY <4>1 DEF PostLines, LedgerInv, FiguresAdd, Shelves
      <4> QED BY <4>2
    <3>2. stock \in Shelves /\ stock' \in Shelves
      BY <1>1 DEF LedgerInv, FiguresAdd
    <3> QED BY <3>1, <3>2 DEF Shelves
  <2> QED BY <2>2, <2>3, <2>4 DEF ledgerVars
<1>5. CASE lines # <<>>
  <2>1. Gained = [k \in 1..(Len(more) - Len(rows)) |-> more[Len(rows) + k].line]
    BY <1>2 DEF Gained
  <2>2. Gained = [k \in 1..Len(lines) |-> lines[k]]
    <3>1. Len(more) - Len(rows) = Len(lines)
      BY <1>3
    <3> QED BY <1>3, <2>1, <3>1
  <2>3. lines = [k \in 1..Len(lines) |-> lines[k]]
    OBVIOUS
  <2> QED BY <1>5, <2>2, <2>3 DEF Post
<1> QED BY <1>4, <1>5

(* What the rows add up to is what the last row of a shelf says. *)
LEMMA InvIsLedger == LedgerInv => StockIsLedger /\ \A i \in Items, w \in Warehouses : stock[i][w] \in Nat
<1> SUFFICES ASSUME LedgerInv
             PROVE  StockIsLedger /\ \A i \in Items, w \in Warehouses : stock[i][w] \in Nat
  OBVIOUS
<1>1. /\ stock \in Shelves /\ ledger \in Seq(PostedRow)
      /\ ShelvesAdd(stock, ledger) /\ TotalsAdd(total, stock) /\ RowsAdd(ledger)
  BY DEF LedgerInv, FiguresAdd
<1>2. DOMAIN ledger = 1..Len(ledger) /\ Len(ledger) \in Nat
  BY <1>1
<1> DEFINE rows(i, w) == {n \in DOMAIN ledger : ledger[n].line.item = i /\ ledger[n].line.wh = w}
           earlier(i, w, n) == {m \in rows(i, w) : m < n}
<1>3. ASSUME NEW i \in Items
      PROVE  total[i] = MapThenSumSet(LAMBDA w : stock[i][w], Warehouses)
  BY <1>1 DEF TotalsAdd, SumOf
<1>4. ASSUME NEW i \in Items, NEW w \in Warehouses
      PROVE  /\ stock[i][w] = IF rows(i, w) = {} THEN Opening[i][w]
                              ELSE ledger[Max(rows(i, w))].after
             /\ stock[i][w] \in Nat
  <2>1. PICK at : at = rows(i, w)
    OBVIOUS
  <2>2. at = RowsOf(ledger, Len(ledger), i, w)
    BY <1>2, <2>1 DEF RowsOf
  <2>3. Len(ledger) \in 0..Len(ledger)
    BY <1>2
  <2>4. /\ Opening[i][w] + Moved(ListOf(ledger), 1..Len(ledger), i, {w})
               = IF at = {} THEN Opening[i][w] ELSE ledger[Max(at)].after
        /\ at # {} => ledger[Max(at)].after >= 0 /\ ledger[Max(at)].after \in Int
    BY <1>1, <2>2, <2>3, LastRow
  <2>5. stock[i][w] = Opening[i][w] + Moved(ListOf(ledger), 1..Len(ledger), i, {w})
    BY <1>1 DEF ShelvesAdd
  <2>6. Opening[i][w] \in Nat
    BY LedgerAssumption DEF LedgerAssumption
  <2> HIDE DEF rows
  <2>7. stock[i][w] = IF at = {} THEN Opening[i][w] ELSE ledger[Max(at)].after
    BY <2>4, <2>5
  <2>8. stock[i][w] \in Nat
    BY <2>4, <2>6, <2>7
  <2> QED BY <2>1, <2>7, <2>8
<1>5. ASSUME NEW i \in Items, NEW w \in Warehouses, NEW n \in rows(i, w)
      PROVE  /\ ledger[n].before = IF earlier(i, w, n) = {} THEN Opening[i][w]
                                   ELSE ledger[Max(earlier(i, w, n))].after
             /\ ledger[n].after = ledger[n].before + ledger[n].line.qty
             /\ ledger[n].after >= 0
  <2>1. n \in 1..Len(ledger) /\ ledger[n].line.item = i /\ ledger[n].line.wh = w
    BY <1>2
  <2>2. PICK list \in Seq(StockLine) : list = ListOf(ledger) /\ Len(list) = Len(ledger)
    BY <1>1, ListsJoined
  <2>3. /\ ledger[n].before = Opening[i][w] + Moved(list, 1..(n - 1), i, {w})
        /\ ledger[n].after = Opening[i][w] + Moved(list, 1..n, i, {w})
        /\ ledger[n].after >= 0
    BY <1>1, <1>2, <2>1, <2>2 DEF RowsAdd, RowAdds, RowSays
  <2>4. PICK at : at = earlier(i, w, n)
    OBVIOUS
  <2>5. n - 1 \in 0..Len(ledger) /\ n \in Nat
    BY <1>2, <2>1
  <2>6. at = RowsOf(ledger, n - 1, i, w)
    <3>1. \A k \in Nat : k \in 1..Len(ledger) /\ k < n <=> k \in 1..(n - 1)
      BY <1>2, <2>1
    <3>2. \A k \in 1..Len(ledger) : k \in Nat
      BY <1>2
    <3>3. \A k \in 1..(n - 1) : k \in Nat
      BY <2>5
    <3> QED BY <1>2, <2>4, <3>1, <3>2, <3>3 DEF RowsOf
  <2>7. Opening[i][w] + Moved(ListOf(ledger), 1..(n - 1), i, {w})
            = IF at = {} THEN Opening[i][w] ELSE ledger[Max(at)].after
    BY <1>1, <2>5, <2>6, LastRow
  <2>8. list[n] = ledger[n].line /\ n \in DOMAIN list
    BY <1>2, <2>1, <2>2 DEF ListOf
  <2>9. Moved(list, 1..n, i, {w}) = Moved(list, 1..(n - 1), i, {w}) + list[n].qty
    BY <2>1, <2>8, MovedNext
  <2>10. Moved(list, 1..(n - 1), i, {w}) \in Int /\ list[n].qty \in Int /\ Opening[i][w] \in Int
    <3>1. Countable(list, 1..(n - 1)) /\ list[n].qty \in Int
      BY <2>2, <2>5, <2>8, LinesCount
    <3>2. Opening[i][w] \in Int
      BY LedgerAssumption DEF LedgerAssumption
    <3> QED BY <3>1, <3>2, MovedIsSum
  <2>11. PICK o \in Int, a \in Int, q \in Int :
            /\ o = Opening[i][w] /\ a = Moved(list, 1..(n - 1), i, {w}) /\ q = list[n].qty
    BY <2>10
  <2>12. o + (a + q) = (o + a) + q
    OBVIOUS
  <2>13. ledger[n].after = ledger[n].before + ledger[n].line.qty
    BY <2>3, <2>8, <2>9, <2>11, <2>12
  <2> HIDE DEF rows, earlier
  <2>14. ledger[n].before = IF at = {} THEN Opening[i][w] ELSE ledger[Max(at)].after
    BY <2>2, <2>3, <2>7
  <2> QED BY <2>3, <2>4, <2>13, <2>14
<1> QED BY <1>3, <1>4, <1>5 DEF StockIsLedger

(* Every figure of the abstract ledger can be told from its rows, whatever *)
(* documents are posted, and no shelf is ever below nothing.               *)
THEOREM LedgerAddsUp == LedgerSpec => []StockIsLedger
<1>1. LedgerInv => StockIsLedger
  BY InvIsLedger
<1> QED BY <1>1, LedgerInitInv, LedgerPostInv, PTL DEF LedgerSpec
=============================================================================

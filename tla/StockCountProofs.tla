--------------------------- MODULE StockCountProofs ---------------------------
(***************************************************************************)
(* That a count of a shelf neither undoes a movement nor counts it twice,  *)
(* that its review misses one only for its two causes, that the page shows *)
(* what is stored, and that every document and every applied count is one  *)
(* post of the abstract ledger: for any number of counts, documents and    *)
(* saves under way.                                                        *)
(***************************************************************************)
EXTENDS StockCount, Sums

-----------------------------------------------------------------------------
(* Sums of the lines of an item. *)

Quantities(lines, S) == [k \in S |-> lines[k].qty]

Of(lines, ks, i) == {k \in ks : lines[k].item = i}

(* What the lines ks of an item add up to is a sum of whole numbers.       *)
LEMMA SumIsSum ==
    ASSUME NEW lines, NEW ks, IsFiniteSet(ks), NEW i, \A k \in ks : lines[k].qty \in Int
    PROVE  /\ IsFiniteSet(Of(lines, ks, i))
           /\ Sum(lines, ks, i) = SumOf(Quantities(lines, ks), Of(lines, ks, i))
           /\ Sum(lines, ks, i) \in Int
<1> DEFINE at == Of(lines, ks, i)
           f == Quantities(lines, ks)
           g == [k \in at |-> lines[k].qty]
<1>1. at \in SUBSET ks /\ IsFiniteSet(at)
  <2>1. at \in SUBSET ks
    BY DEF Of
  <2> HIDE DEF at
  <2> QED BY <2>1, FS_Subset
<1>2. Sum(lines, ks, i) = SumOf(g, at)
  <2>1. Sum(lines, ks, i) = MapThenSumSet(LAMBDA k : lines[k].qty, at)
    BY DEF Sum, Of
  <2> HIDE DEF at
  <2> QED BY <1>1, <2>1, SumOfQuantities
<1> HIDE DEF at
<1>3. \A k \in at : g[k] = f[k] /\ g[k] \in Int
  BY <1>1 DEF Quantities
<1> HIDE DEF f, g
<1>4. SumOf(g, at) = SumOf(f, at)
  BY <1>1, <1>3, SumSame
<1>5. SumOf(g, at) \in Int
  BY <1>1, <1>3, SumType
<1> QED BY <1>1, <1>2, <1>4, <1>5 DEF at, f

(* Two lists that say the same of ks say the same of its sum.              *)
LEMMA SumAgrees ==
    ASSUME NEW lines, NEW more, NEW ks, IsFiniteSet(ks), NEW i,
           \A k \in ks : /\ lines[k].qty \in Int
                         /\ more[k].qty = lines[k].qty /\ more[k].item = lines[k].item
    PROVE  Sum(more, ks, i) = Sum(lines, ks, i)
<1> DEFINE f == Quantities(lines, ks)
           g == Quantities(more, ks)
           at == Of(lines, ks, i)
<1>1. Sum(lines, ks, i) = SumOf(f, at) /\ IsFiniteSet(at)
  BY SumIsSum
<1>2. Sum(more, ks, i) = SumOf(g, Of(more, ks, i))
  <2>1. \A k \in ks : more[k].qty \in Int
    OBVIOUS
  <2> QED BY <2>1, SumIsSum
<1>3. Of(more, ks, i) = at
  BY DEF Of
<1>4. \A k \in at : g[k] = f[k]
  BY DEF Of, Quantities
<1> HIDE DEF f, g, at
<1> QED BY <1>1, <1>2, <1>3, <1>4, SumSame

(* Lines that come in two parts add up in two parts.                       *)
LEMMA SumSplit ==
    ASSUME NEW lines, NEW A, NEW B, IsFiniteSet(A), IsFiniteSet(B), A \cap B = {}, NEW i,
           \A k \in A \cup B : lines[k].qty \in Int
    PROVE  Sum(lines, A \cup B, i) = Sum(lines, A, i) + Sum(lines, B, i)
<1> DEFINE f == Quantities(lines, A \cup B)
           a == Of(lines, A, i)
           b == Of(lines, B, i)
<1>1. IsFiniteSet(A \cup B)
  BY FS_Union
<1>2. Sum(lines, A \cup B, i) = SumOf(f, Of(lines, A \cup B, i))
  BY <1>1, SumIsSum
<1>3. Sum(lines, A, i) = SumOf(Quantities(lines, A), a) /\ IsFiniteSet(a)
  BY SumIsSum
<1>4. Sum(lines, B, i) = SumOf(Quantities(lines, B), b) /\ IsFiniteSet(b)
  BY SumIsSum
<1>5. SumOf(Quantities(lines, A), a) = SumOf(f, a)
  <2>1. \A k \in a : Quantities(lines, A)[k] = f[k]
    BY DEF Of, Quantities
  <2> HIDE DEF a, f
  <2> QED BY <1>3, <2>1, SumSame
<1>6. SumOf(Quantities(lines, B), b) = SumOf(f, b)
  <2>1. \A k \in b : Quantities(lines, B)[k] = f[k]
    BY DEF Of, Quantities
  <2> HIDE DEF b, f
  <2> QED BY <1>4, <2>1, SumSame
<1>7. Of(lines, A \cup B, i) = a \cup b /\ a \cap b = {}
  BY DEF Of
<1>8. \A k \in a \cup b : f[k] \in Int
  BY DEF Of, Quantities
<1> HIDE DEF a, b, f
<1>9. SumOf(f, a \cup b) = SumOf(f, a) + SumOf(f, b)
  BY <1>3, <1>4, <1>7, <1>8, SumUnion
<1> QED BY <1>2, <1>3, <1>4, <1>5, <1>6, <1>7, <1>9

(* Without a line of the item nothing moves; with one, its quantity does.  *)
LEMMA SumOfNone ==
    ASSUME NEW lines, NEW ks, NEW i, \A k \in ks : lines[k].item # i
    PROVE  Sum(lines, ks, i) = 0
<1> DEFINE at == Of(lines, ks, i)
<1>1. at = {}
  BY DEF Of
<1>0. IsFiniteSet(at)
  BY <1>1, FS_EmptySet
<1>2. Sum(lines, ks, i) = MapThenSumSet(LAMBDA k : lines[k].qty, at)
  BY DEF Sum, Of
<1> HIDE DEF at
<1>3. MapThenSumSet(LAMBDA k : lines[k].qty, at) = SumOf([k \in at |-> lines[k].qty], at)
  BY <1>0, SumOfQuantities
<1> DEFINE g == [k \in at |-> lines[k].qty]
<1>4. SumOf(g, at) = 0
  <2> HIDE DEF g
  <2> QED BY <1>1, SumEmpty
<1> QED BY <1>2, <1>3, <1>4

(* The one line of an item is what it moves.                               *)
LEMMA SumOfOne ==
    ASSUME NEW lines, NEW ks, IsFiniteSet(ks), NEW i, \A k \in ks : lines[k].qty \in Int,
           NEW one \in ks, \A k \in ks : lines[k].item = i <=> k = one
    PROVE  Sum(lines, ks, i) = lines[one].qty
<1> DEFINE f == Quantities(lines, ks)
           at == Of(lines, ks, i)
<1>1. Sum(lines, ks, i) = SumOf(f, at) /\ IsFiniteSet(at)
  BY SumIsSum
<1>2. at = {one} /\ f[one] = lines[one].qty
  BY DEF Of, Quantities
<1>3. \A k \in at : f[k] \in Int
  BY <1>2
<1>4. at \ {one} = {} /\ one \in at
  BY <1>2
<1> HIDE DEF f, at
<1>5. SumOf(f, at) = f[one] + SumOf(f, at \ {one})
  BY <1>1, <1>3, <1>4, SumTake
<1>6. SumOf(f, at \ {one}) = 0
  BY <1>4, SumEmpty
<1> QED BY <1>1, <1>2, <1>5, <1>6

(* The numbers of m rows that come after n others. *)
Beyond(n, m) == (n + 1)..(n + m)

(* More says from n on what the m lines say. *)
Shifts(lines, more, n, m) ==
    \A k \in 1..m : /\ lines[k].qty \in Int
                    /\ more[n + k].qty = lines[k].qty /\ more[n + k].item = lines[k].item

(* A row further on is a row further on: the sum does not see where lines  *)
(* stand in their list.                                                    *)
LEMMA SumShifted ==
    ASSUME NEW lines, NEW more, NEW n \in Nat, NEW m \in Nat, NEW i,
           Shifts(lines, more, n, m)
    PROVE  Sum(more, Beyond(n, m), i) = Sum(lines, 1..m, i)
<1> DEFINE new == Beyond(n, m)
           f == Quantities(lines, 1..m)
           g == Quantities(more, new)
           at == Of(lines, 1..m, i)
           name == [k \in 1..m |-> n + k]
<1> USE DEF Shifts
<1>1. IsFiniteSet(1..m) /\ IsFiniteSet(new)
  BY FS_Interval DEF Beyond
<1>2. Sum(lines, 1..m, i) = SumOf(f, at) /\ IsFiniteSet(at)
  BY <1>1, SumIsSum
<1>3. /\ \A k \in new : k - n \in 1..m /\ k = n + (k - n)
      /\ \A k \in 1..m : n + k \in new
  BY DEF Beyond
<1>4. \A k \in new : more[k].qty \in Int
  BY <1>3
<1>5. Sum(more, new, i) = SumOf(g, Of(more, new, i))
  <2> HIDE DEF new
  <2> QED BY <1>1, <1>4, SumIsSum DEF new
<1>6. Of(more, new, i) = {name[k] : k \in at}
  <2>1. ASSUME NEW k \in new, more[k].item = i PROVE \E j \in at : k = name[j]
    <3>1. k - n \in at /\ name[k - n] = k
      BY <1>3, <2>1 DEF Of
    <3> QED BY <3>1
  <2>2. ASSUME NEW j \in at PROVE name[j] \in new /\ more[name[j]].item = i
    BY <1>3 DEF Of
  <2> HIDE DEF new, at, name
  <2> QED BY <2>1, <2>2 DEF Of
<1>7. \A x, y \in at : name[x] = name[y] => x = y
  BY DEF Of
<1>8. \A x \in at : f[x] \in Int /\ g[name[x]] = f[x]
  <2>1. ASSUME NEW x \in at PROVE f[x] \in Int /\ g[name[x]] = f[x]
    <3>1. x \in 1..m /\ n + x \in new /\ name[x] = n + x
      BY <1>3 DEF Of
    <3> QED BY <3>1 DEF Quantities
  <2> QED BY <2>1
<1> HIDE DEF f, g, at, name
<1>9. SumOf(g, {name[k] : k \in at}) = SumOf(f, at)
  BY <1>2, <1>7, <1>8, SumRenamed
<1> QED BY <1>2, <1>5, <1>6, <1>9

(* Two lists, one after the other.                                         *)
LEMMA ListsJoined ==
    ASSUME NEW T, NEW old \in Seq(T), NEW new \in Seq(T)
    PROVE  /\ old \o new \in Seq(T) /\ Len(old \o new) = Len(old) + Len(new)
           /\ \A n \in DOMAIN old : (old \o new)[n] = old[n]
           /\ \A k \in DOMAIN new : (old \o new)[Len(old) + k] = new[k]
OBVIOUS

(* The rows new are those of the lines, after old ones; since is some of   *)
(* the old.                                                                *)
Appends(old, new, lines, since) ==
    /\ DOMAIN lines = DOMAIN new
    /\ \A k \in DOMAIN new : new[k].item = lines[k].item /\ new[k].qty = lines[k].qty
    /\ \A k \in DOMAIN new : lines[k].qty \in Int
    /\ \A n \in DOMAIN old : old[n].qty \in Int
    /\ since \in SUBSET (DOMAIN old)

(* What a list gained at its end adds to the sum of what was there.        *)
LEMMA SumAppended ==
    ASSUME NEW T, NEW old \in Seq(T), NEW new \in Seq(T), NEW lines, NEW i, NEW since,
           Appends(old, new, lines, since)
    PROVE  Sum(old \o new, since \cup Beyond(Len(old), Len(new)), i)
               = Sum(old, since, i) + Sum(lines, DOMAIN lines, i)
<1> DEFINE n == Len(old)
           m == Len(new)
           both == old \o new
           added == Beyond(n, m)
<1>1. /\ n \in Nat /\ m \in Nat /\ DOMAIN old = 1..n /\ DOMAIN new = 1..m
      /\ \A k \in 1..n : both[k] = old[k]
      /\ \A k \in 1..m : both[n + k] = new[k]
  OBVIOUS
<1>2. /\ DOMAIN lines = DOMAIN new /\ since \in SUBSET (DOMAIN old)
      /\ \A k \in DOMAIN new : new[k].item = lines[k].item /\ new[k].qty = lines[k].qty
      /\ \A k \in DOMAIN new : lines[k].qty \in Int
      /\ \A x \in DOMAIN old : old[x].qty \in Int
  BY DEF Appends
<1> HIDE DEF n, m, both
<1>3. IsFiniteSet(since) /\ IsFiniteSet(added) /\ since \cap added = {}
  <2>1. IsFiniteSet(1..n) /\ IsFiniteSet(added)
    BY <1>1, FS_Interval DEF Beyond
  <2>2. since \in SUBSET (1..n)
    BY <1>1, <1>2
  <2>3. IsFiniteSet(since)
    BY <2>1, <2>2, FS_Subset
  <2>4. since \cap added = {}
    BY <1>1, <2>2 DEF Beyond
  <2> QED BY <2>1, <2>3, <2>4
<1>4. \A k \in since : /\ old[k].qty \in Int
                       /\ both[k].qty = old[k].qty /\ both[k].item = old[k].item
  BY <1>1, <1>2
<1>5. \A k \in 1..m : /\ lines[k].qty \in Int
                      /\ both[n + k].qty = lines[k].qty /\ both[n + k].item = lines[k].item
  BY <1>1, <1>2
<1>6. \A k \in since \cup added : both[k].qty \in Int
  <2>1. \A k \in added : k - n \in 1..m /\ k = n + (k - n)
    BY <1>1 DEF Beyond
  <2> QED BY <1>4, <1>5, <2>1
<1>7. Sum(both, since, i) = Sum(old, since, i)
  BY <1>3, <1>4, SumAgrees
<1>8. Sum(both, added, i) = Sum(lines, 1..m, i)
  <2>1. n \in Nat /\ m \in Nat
    BY <1>1
  <2>2. Shifts(lines, both, n, m)
    BY <1>5 DEF Shifts
  <2> QED BY <2>1, <2>2, SumShifted
<1>9. Sum(both, since \cup added, i) = Sum(both, since, i) + Sum(both, added, i)
  <2> HIDE DEF added
  <2> QED BY <1>3, <1>6, SumSplit
<1>10. DOMAIN lines = 1..m
  BY <1>1, <1>2
<1> QED BY <1>7, <1>8, <1>9, <1>10 DEF n, m, both

(* A shelf that every line leaves something on holds something at the end. *)
LEMMA EnoughAtTheEnd ==
    ASSUME NEW T, NEW lines \in Seq(T), \A k \in DOMAIN lines : lines[k].qty \in Int,
           NEW i, NEW start \in Nat,
           \A k \in DOMAIN lines : lines[k].item = i => start + Sum(lines, 1..k, i) >= 0
    PROVE  start + Sum(lines, DOMAIN lines, i) \in Nat
<1>1. DOMAIN lines = 1..Len(lines) /\ Len(lines) \in Nat
  OBVIOUS
<1>2. IsFiniteSet(1..Len(lines))
  BY <1>1, FS_Interval
<1>3. Sum(lines, 1..Len(lines), i) \in Int
  BY <1>1, <1>2, SumIsSum
<1>4. CASE \A k \in DOMAIN lines : lines[k].item # i
  BY <1>1, <1>4, SumOfNone
<1>5. CASE \E k \in DOMAIN lines : lines[k].item = i
  <2> DEFINE at == {k \in 1..Len(lines) : lines[k].item = i}
  <2>1. at \in SUBSET (1..Len(lines)) /\ at # {}
    BY <1>1, <1>5
  <2>2. PICK last \in at : \A k \in at : k <= last
    <3> HIDE DEF at
    <3> QED BY <1>1, <2>1, LastExists
  <2>3. last \in 1..Len(lines) /\ lines[last].item = i
    BY <2>2
  <2>4. {k \in 1..last : lines[k].item = i} = {k \in 1..Len(lines) : lines[k].item = i}
    BY <2>2, <2>3, <1>1
  <2>5. Sum(lines, 1..last, i) = Sum(lines, 1..Len(lines), i)
    BY <2>4 DEF Sum
  <2> QED BY <1>1, <1>3, <2>3, <2>5
<1> QED BY <1>4, <1>5

-----------------------------------------------------------------------------
(* The invariant, in four layers. *)

RowSet == [item : Items, qty : Int, type : MovementType, doc : Documents \cup Counts,
           before : Int, after : Int]

(* Functions from some of the items. *)
OnItems(T) == UNION {[D -> T] : D \in SUBSET Items}

CountRow == [status : {"none", "draft", "applied", "cancelled"}, lines : OnItems(Line),
             acked : BOOLEAN, seen : Nat]

DeskRow == [open : BOOLEAN, ack : BOOLEAN, seen : Nat, post : OnItems(Int)]

CountTypeOK ==
    /\ shelf \in [Items -> Nat]
    /\ rows \in Seq(RowSet)
    /\ document \in [Documents -> {"none", "begun", "done"}]
    /\ count \in [Counts -> CountRow]
    /\ desk \in [Counts -> DeskRow]
    /\ field \in [Counts -> [Items -> Field]]
    /\ requests \in SUBSET Request

(* An open desk, and a save that has read, are of a draft; and not both of *)
(* one count.                                                              *)
OpenIsDraft == \A c \in Counts : desk[c].open => count[c].status = "draft"

ReadIsAlone ==
    \A r \in requests : r.stage = "read" => count[r.count].status = "draft" /\ ~desk[r.count].open

(* No row of an item that a review has seen came from a transaction that   *)
(* had not begun when the line was stamped.                                *)
Flagless(c, seen) ==
    \A i \in Counted(c), n \in DOMAIN rows :
        rows[n].item = i /\ n <= seen => rows[n].doc \in count[c].lines[i].before

ReviewStandsOf(c) ==
    \A seen \in Nat :
        /\ desk[c].open /\ desk[c].seen = seen =>
              seen <= Len(rows) /\ (desk[c].ack \/ Flagless(c, seen))
        /\ count[c].status = "applied" /\ count[c].seen = seen =>
              seen <= Len(rows) /\ (count[c].acked \/ Flagless(c, seen))

ReviewStands == \A c \in Counts : ReviewStandsOf(c)

ReviewInv == OpenIsDraft /\ ReadIsAlone /\ ReviewStands

(* What has no line has no field, and no save.                             *)
NoneHasNoLines == \A c \in Counts : count[c].status = "none" => DOMAIN count[c].lines = {}

RequestsHaveLines == \A r \in requests : r.item \in DOMAIN count[r.count].lines

Blanked(f) == f.value = Empty /\ f.saved = Empty /\ f.focus = "none" /\ ~f.doubt

NoLineNoField ==
    \A c \in Counts, i \in Items : i \notin DOMAIN count[c].lines => Blanked(field[c][i])

ShapeInv == CountTypeOK /\ NoneHasNoLines /\ RequestsHaveLines /\ NoLineNoField

(* One field, its saves and what its line says, if there is one.  One save *)
(* at a time, but for those that a lost connection left behind; a field    *)
(* that was left is saved, on its way or in error; and the line is ahead   *)
(* of the page by the one save that is stored, if any.                     *)
Saves(c, i) == {r \in requests : r.count = c /\ r.item = i}

Said(c, i) == {EntryOf(count[c].lines[j]) : j \in {i} \cap DOMAIN count[c].lines}

Idle(saves) == \A r \in saves : ~r.live

PageStands(f, saves, said) ==
    /\ \A r, s \in saves : r.live /\ s.live => r = s
    /\ \A r \in saves : r.live \/ f.doubt
    /\ f.focus = "none" /\ Idle(saves) /\ f.state # "error" => f.value = f.saved
    /\ ~f.doubt => \A x \in said :
          /\ \A r \in saves : r.live /\ r.stage = "stored" => x = r.value
          /\ f.saved = x \/ \E r \in saves : r.live /\ r.stage = "stored"

PageInv == \A c \in Counts, i \in Items : PageStands(field[c][i], Saves(c, i), Said(c, i))

(* The shelf and the ledger.  A figure read after row at, and what moved    *)
(* since, is what the shelf holds; once the count is applied, the figure   *)
(* is the one that was counted, and its own rows are not among the moves.  *)
After(at) == {n \in DOMAIN rows : n > at}

Pending(i, line) ==
    line.at <= Len(rows) /\ shelf[i] = line.system + Sum(rows, After(line.at), i)

Since(c, at) == {n \in DOMAIN rows : n > at /\ rows[n].doc # c}

Settled(c, i, line) ==
    line.at <= Len(rows) /\ shelf[i] = line.counted + Sum(rows, Since(c, line.at), i)

LinesStand(c) ==
    \A i \in Counted(c) : \A line \in Line : line = count[c].lines[i] =>
        IF count[c].status = "applied" THEN Settled(c, i, line) ELSE Pending(i, line)

ReadsFollow == \A r \in requests : r.stage = "read" => Pending(r.item, r)

RowsAreApplied ==
    \A n \in DOMAIN rows : rows[n].doc \in Counts => count[rows[n].doc].status = "applied"

DeskStands(c) ==
    desk[c].open => \A i \in Counted(c) :
        Difference(c, i) = IF i \in DOMAIN desk[c].post THEN desk[c].post[i] ELSE 0

LedgerInv ==
    /\ \A c \in Counts : LinesStand(c) /\ DeskStands(c)
    /\ ReadsFollow /\ RowsAreApplied

CountInv == ShapeInv /\ ReviewInv /\ PageInv /\ LedgerInv

-----------------------------------------------------------------------------
(* What the invariant is about. *)

(* A function from some of the items is one, and its changes are.          *)
LEMMA OnItemsMade ==
    ASSUME NEW T
    PROVE  /\ \A f \in OnItems(T) : /\ DOMAIN f \in SUBSET Items /\ f \in [DOMAIN f -> T]
                                    /\ \A i \in DOMAIN f : f[i] \in T
           /\ \A D \in SUBSET Items : \A f \in [D -> T] : f \in OnItems(T)
           /\ \A f \in OnItems(T) : \A x \in T, i \in DOMAIN f : [f EXCEPT ![i] = x] \in OnItems(T)
<1>1. ASSUME NEW f \in OnItems(T)
      PROVE  DOMAIN f \in SUBSET Items /\ f \in [DOMAIN f -> T] /\ \A i \in DOMAIN f : f[i] \in T
  BY DEF OnItems
<1>2. ASSUME NEW D \in SUBSET Items, NEW f \in [D -> T] PROVE f \in OnItems(T)
  BY DEF OnItems
<1>3. ASSUME NEW f \in OnItems(T), NEW x \in T, NEW i \in DOMAIN f
      PROVE  [f EXCEPT ![i] = x] \in OnItems(T)
  <2>1. DOMAIN f \in SUBSET Items /\ f \in [DOMAIN f -> T]
    BY <1>1
  <2>2. [f EXCEPT ![i] = x] \in [DOMAIN f -> T]
    BY <2>1
  <2> QED BY <1>2, <2>1, <2>2
<1> QED BY <1>1, <1>2, <1>3

(* The row of a count, as it is changed, is the row of a count.            *)
LEMMA CountRowsMade ==
    ASSUME NEW w \in CountRow
    PROVE  /\ w.lines \in OnItems(Line) /\ w.acked \in BOOLEAN /\ w.seen \in Nat
           /\ DOMAIN w.lines \in SUBSET Items
           /\ \A i \in DOMAIN w.lines : w.lines[i] \in Line
           /\ [w EXCEPT !.status = "cancelled"] \in CountRow
           /\ \A f \in OnItems(Line) : /\ [w EXCEPT !.lines = f] \in CountRow
                                       /\ [w EXCEPT !.status = "draft", !.lines = f] \in CountRow
           /\ \A a \in BOOLEAN, n \in Nat :
                 [w EXCEPT !.status = "applied", !.acked = a, !.seen = n] \in CountRow
<1>1. /\ w.lines \in OnItems(Line) /\ w.acked \in BOOLEAN /\ w.seen \in Nat
  BY DEF CountRow
<1>2. /\ DOMAIN w.lines \in SUBSET Items
      /\ \A i \in DOMAIN w.lines : w.lines[i] \in Line
  BY <1>1, OnItemsMade
<1>3. /\ [w EXCEPT !.status = "cancelled"] \in CountRow
      /\ \A f \in OnItems(Line) : /\ [w EXCEPT !.lines = f] \in CountRow
                                  /\ [w EXCEPT !.status = "draft", !.lines = f] \in CountRow
      /\ \A a \in BOOLEAN, n \in Nat :
            [w EXCEPT !.status = "applied", !.acked = a, !.seen = n] \in CountRow
  BY DEF CountRow
<1> QED BY <1>1, <1>2, <1>3

(* What is counted of a count is among its lines, and its figures are      *)
(* figures.                                                                *)
LEMMA CountedLines ==
    ASSUME CountTypeOK, NEW c \in Counts
    PROVE  /\ Counted(c) \in SUBSET Items /\ Counted(c) \in SUBSET (DOMAIN count[c].lines)
           /\ \A i \in Counted(c) :
                 /\ count[c].lines[i] \in Line
                 /\ count[c].lines[i].counted \in Nat
                 /\ count[c].lines[i].system \in Nat /\ count[c].lines[i].at \in Nat
                 /\ Difference(c, i) \in Int
                 /\ Difference(c, i) = count[c].lines[i].counted - count[c].lines[i].system
<1>1. count[c] \in CountRow
  BY DEF CountTypeOK
<1>2. DOMAIN count[c].lines \in SUBSET Items /\ \A i \in DOMAIN count[c].lines : count[c].lines[i] \in Line
  BY <1>1, CountRowsMade
<1>3. Counted(c) \in SUBSET (DOMAIN count[c].lines)
  BY DEF Counted
<1>4. ASSUME NEW i \in Counted(c)
      PROVE  /\ count[c].lines[i] \in Line
             /\ count[c].lines[i].counted \in Nat
             /\ count[c].lines[i].system \in Nat /\ count[c].lines[i].at \in Nat
  <2>1. count[c].lines[i] \in Line /\ count[c].lines[i].counted # Blank
    BY <1>2 DEF Counted
  <2> QED BY <2>1, CountAssumption DEF Line, CountAssumption
<1> QED BY <1>2, <1>3, <1>4 DEF Difference

(* The lines of a count are the lines of a document, one for each item     *)
(* that differs.                                                           *)
LEMMA CountLinesMade ==
    ASSUME CountTypeOK, NEW c \in Counts
    PROVE  /\ CountLines(c) \in Seq(DocumentLine)
           /\ \A i \in Items :
                 Sum(CountLines(c), DOMAIN CountLines(c), i) =
                     IF i \in DOMAIN desk[c].post THEN desk[c].post[i] ELSE 0
<1> DEFINE post == desk[c].post
           items == Ids(DOMAIN post)
           lines == CountLines(c)
<1>1. /\ DOMAIN post \in SUBSET Items /\ \A i \in DOMAIN post : post[i] \in Int
      /\ DOMAIN post \in SUBSET Nat /\ IsFiniteSet(DOMAIN post)
  <2>1. post \in OnItems(Int)
    BY DEF CountTypeOK, DeskRow
  <2>2. DOMAIN post \in SUBSET Items /\ \A i \in DOMAIN post : post[i] \in Int
    BY <2>1, OnItemsMade
  <2> HIDE DEF post
  <2>3. DOMAIN post \in SUBSET Nat /\ IsFiniteSet(DOMAIN post)
    BY <2>2, CountAssumption, FS_Subset DEF CountAssumption
  <2> QED BY <2>2, <2>3
<1>2. lines = [k \in DOMAIN items |-> [item |-> items[k], qty |-> post[items[k]], type |-> "count"]]
  BY DEF CountLines, InOrder, Ids
<1> HIDE DEF post, lines
<1>3. /\ items \in Seq(DOMAIN post)
      /\ \A x \in DOMAIN post : \E j \in DOMAIN items : items[j] = x
      /\ \A j, k \in DOMAIN items : items[j] = items[k] => j = k
  BY <1>1, IdsInOrder
<1> HIDE DEF items
<1>4. /\ DOMAIN items = 1..Len(items) /\ Len(items) \in Nat
      /\ \A k \in DOMAIN items : items[k] \in DOMAIN post
  BY <1>3
<1>5. /\ DOMAIN lines = DOMAIN items
      /\ \A k \in DOMAIN items : /\ lines[k].item = items[k] /\ lines[k].qty = post[items[k]]
                                 /\ lines[k].qty \in Int /\ lines[k] \in DocumentLine
  <2>1. ASSUME NEW k \in DOMAIN items PROVE lines[k] \in DocumentLine
    <3>1. items[k] \in Items /\ post[items[k]] \in Int
      BY <1>1, <1>4
    <3> QED BY <1>2, <3>1 DEF DocumentLine, MovementType
  <2> QED BY <1>1, <1>2, <1>4, <2>1
<1>6. lines \in Seq(DocumentLine)
  <2>1. lines = [k \in 1..Len(items) |-> lines[k]]
    BY <1>2, <1>4
  <2> QED BY <1>4, <1>5, <2>1
<1>7. IsFiniteSet(DOMAIN lines)
  BY <1>4, <1>5, FS_Interval
<1>8. ASSUME NEW i \in Items
      PROVE  Sum(lines, DOMAIN lines, i) = IF i \in DOMAIN post THEN post[i] ELSE 0
  <2>1. CASE i \in DOMAIN post
    <3>1. PICK one \in DOMAIN lines : lines[one].item = i
      BY <1>3, <1>5, <2>1
    <3>2. \A k \in DOMAIN lines : lines[k].item = i <=> k = one
      BY <1>3, <1>5, <3>1
    <3>3. lines[one].qty = post[i]
      BY <1>5, <3>1
    <3> QED BY <1>5, <1>7, <2>1, <3>1, <3>2, <3>3, SumOfOne
  <2>2. CASE i \notin DOMAIN post
    <3>1. \A k \in DOMAIN lines : lines[k].item # i
      BY <1>4, <1>5, <2>2
    <3> QED BY <2>2, <3>1, SumOfNone
  <2> QED BY <2>1, <2>2
<1> QED BY <1>6, <1>8 DEF lines, post

(* What a post leaves: the rows there were, the new ones of one document,  *)
(* and on each shelf what they moved; nothing below nothing.               *)
LEMMA MovesMade ==
    ASSUME CountTypeOK, NEW doc \in Documents \cup Counts, NEW lines \in Seq(DocumentLine),
           ~TooLittle(lines), Moves(doc, lines)
    PROVE  /\ shelf' \in [Items -> Nat]
           /\ rows' \in Seq(RowSet)
           /\ Len(rows') = Len(rows) + Len(lines)
           /\ \A n \in DOMAIN rows : rows'[n] = rows[n]
           /\ \A k \in DOMAIN lines : /\ rows'[Len(rows) + k].doc = doc
                                      /\ rows'[Len(rows) + k].item = lines[k].item
           /\ \A i \in Items : shelf'[i] = shelf[i] + Sum(lines, DOMAIN lines, i)
           /\ \A i \in Items, since \in SUBSET (DOMAIN rows) :
                 Sum(rows', since \cup Beyond(Len(rows), Len(lines)), i)
                     = Sum(rows, since, i) + Sum(lines, DOMAIN lines, i)
<1> DEFINE row(k) == Row(doc, lines[k],
                         shelf[lines[k].item] + Sum(lines, 1..(k - 1), lines[k].item))
           new == [k \in DOMAIN lines |-> row(k)]
<1>1. /\ DOMAIN lines = 1..Len(lines) /\ Len(lines) \in Nat
      /\ \A k \in DOMAIN lines : /\ lines[k].item \in Items /\ lines[k].qty \in Int
                                 /\ lines[k].type \in MovementType
  <2>1. \A k \in DOMAIN lines : lines[k] \in DocumentLine
    OBVIOUS
  <2> QED BY <2>1 DEF DocumentLine
<1>2. ASSUME NEW k \in DOMAIN lines, NEW i PROVE Sum(lines, 1..k, i) \in Int /\ Sum(lines, 1..(k - 1), i) \in Int
  <2>1. IsFiniteSet(1..k) /\ IsFiniteSet(1..(k - 1))
    BY <1>1, FS_Interval
  <2>2. \A j \in 1..k : lines[j].qty \in Int
    BY <1>1
  <2>3. \A j \in 1..(k - 1) : lines[j].qty \in Int
    BY <1>1
  <2> QED BY <2>1, <2>2, <2>3, SumIsSum
<1>3. shelf \in [Items -> Nat] /\ rows \in Seq(RowSet)
  BY DEF CountTypeOK
<1>4. ASSUME NEW k \in DOMAIN lines PROVE row(k) \in RowSet
  <2>1. shelf[lines[k].item] + Sum(lines, 1..(k - 1), lines[k].item) \in Int
    BY <1>1, <1>2, <1>3
  <2> QED BY <1>1, <2>1 DEF Row, RowSet
<1>5. /\ new \in Seq(RowSet) /\ DOMAIN new = DOMAIN lines /\ Len(new) = Len(lines)
      /\ \A k \in DOMAIN lines : new[k] = row(k)
  <2> HIDE DEF row
  <2> QED BY <1>1, <1>4
<1>6. \A k \in DOMAIN new : new[k].doc = doc /\ new[k].item = lines[k].item /\ new[k].qty = lines[k].qty
  BY <1>5 DEF Row
<1>7. rows' = rows \o new
  BY DEF Moves
<1> HIDE DEF new, row
<1>8. /\ rows' \in Seq(RowSet) /\ Len(rows') = Len(rows) + Len(lines)
      /\ \A n \in DOMAIN rows : rows'[n] = rows[n]
      /\ \A k \in DOMAIN lines : rows'[Len(rows) + k] = new[k]
  <2>1. PICK old \in Seq(RowSet), more \in Seq(RowSet), all \in {rows'} :
            old = rows /\ more = new /\ all = rows'
    BY <1>3, <1>5
  <2>2. all = old \o more
    BY <1>7, <2>1
  <2>3. /\ all \in Seq(RowSet) /\ Len(all) = Len(old) + Len(more)
        /\ \A n \in DOMAIN old : all[n] = old[n]
        /\ \A k \in DOMAIN more : all[Len(old) + k] = more[k]
    BY <2>2, ListsJoined
  <2>4. Len(more) = Len(lines) /\ DOMAIN more = DOMAIN lines
    BY <1>5, <2>1
  <2> QED BY <2>1, <2>3, <2>4
<1>9. \A i \in Items : shelf'[i] = shelf[i] + Sum(lines, DOMAIN lines, i)
  BY DEF Moves
<1>10. shelf' \in [Items -> Nat]
  <2>1. ASSUME NEW i \in Items PROVE shelf[i] + Sum(lines, DOMAIN lines, i) \in Nat
    <3>1. PICK start \in Nat : start = shelf[i]
      BY <1>3
    <3>2. ASSUME NEW k \in DOMAIN lines, lines[k].item = i
          PROVE  start + Sum(lines, 1..k, i) >= 0
      <4>1. ~(shelf[i] + Sum(lines, 1..k, i) < 0)
        BY <3>2 DEF TooLittle
      <4> QED BY <4>1, <3>1, <1>2
    <3>3. start + Sum(lines, DOMAIN lines, i) \in Nat
      BY <1>1, <3>2, EnoughAtTheEnd
    <3> QED BY <3>1, <3>3
  <2>2. shelf' = [i \in Items |-> shelf[i] + Sum(lines, DOMAIN lines, i)]
    BY DEF Moves
  <2> QED BY <2>1, <2>2
<1>11. ASSUME NEW i \in Items, NEW since \in SUBSET (DOMAIN rows)
       PROVE  Sum(rows', since \cup Beyond(Len(rows), Len(lines)), i)
                  = Sum(rows, since, i) + Sum(lines, DOMAIN lines, i)
  <2>1. PICK old \in Seq(RowSet), all \in {rows'} : old = rows /\ all = rows'
    BY <1>3
  <2>2. \A n \in DOMAIN old : old[n].qty \in Int
    <3>1. \A n \in DOMAIN old : old[n] \in RowSet
      OBVIOUS
    <3> QED BY <3>1 DEF RowSet
  <2>3. PICK more \in Seq(RowSet) : more = new
    BY <1>5
  <2>4. Sum(old \o more, since \cup Beyond(Len(old), Len(more)), i)
            = Sum(old, since, i) + Sum(lines, DOMAIN lines, i)
    <3>1. DOMAIN lines = DOMAIN more
      BY <1>5, <2>3
    <3>2. \A k \in DOMAIN more : more[k].item = lines[k].item /\ more[k].qty = lines[k].qty
      BY <1>6, <2>3
    <3>3. \A k \in DOMAIN more : lines[k].qty \in Int
      BY <1>1, <3>1
    <3>4. since \in SUBSET (DOMAIN old)
      BY <2>1
    <3>5. Appends(old, more, lines, since)
      BY <2>2, <3>1, <3>2, <3>3, <3>4 DEF Appends
    <3> QED BY <3>5, SumAppended
  <2>5. Len(more) = Len(lines) /\ old \o more = rows'
    BY <1>5, <1>7, <2>1, <2>3
  <2> QED BY <2>1, <2>4, <2>5
<1>12. \A k \in DOMAIN lines : /\ rows'[Len(rows) + k].doc = doc
                              /\ rows'[Len(rows) + k].item = lines[k].item
  BY <1>5, <1>6, <1>8
<1> QED BY <1>8, <1>9, <1>10, <1>11, <1>12

(* A save, as it is made and changed, is a save.                           *)
LEMMA RequestsMade ==
    /\ \A r \in Request :
          /\ r.count \in Counts /\ r.item \in Items /\ r.live \in BOOLEAN
          /\ r.value \in Entry /\ r.system \in Nat /\ r.at \in Nat
          /\ \A n, m \in Nat : [r EXCEPT !.stage = "read", !.system = n, !.at = m] \in Request
          /\ [r EXCEPT !.stage = "refused"] \in Request
          /\ [r EXCEPT !.stage = "stored"] \in Request
          /\ [r EXCEPT !.live = FALSE] \in Request
    /\ \A c \in Counts, i \in Items : \A f \in Field : Save(c, i, f) \in Request
<1>1. ASSUME NEW r \in Request
      PROVE  /\ r.count \in Counts /\ r.item \in Items /\ r.live \in BOOLEAN
             /\ r.value \in Entry /\ r.system \in Nat /\ r.at \in Nat
             /\ [r EXCEPT !.stage = "refused"] \in Request
             /\ [r EXCEPT !.stage = "stored"] \in Request
             /\ [r EXCEPT !.live = FALSE] \in Request
  BY DEF Request
<1>2. ASSUME NEW r \in Request, NEW n \in Nat, NEW m \in Nat
      PROVE  [r EXCEPT !.stage = "read", !.system = n, !.at = m] \in Request
  BY DEF Request
<1>3. ASSUME NEW c \in Counts, NEW i \in Items, NEW f \in Field
      PROVE  Save(c, i, f) \in Request
  BY DEF Save, Request, Field
<1> QED BY <1>1, <1>2, <1>3

(* One field is set, the others are as they were.                          *)
FieldSet(c, i, f) ==
    /\ f \in Field
    /\ field' \in [Counts -> [Items -> Field]]
    /\ field'[c][i] = f
    /\ \A d \in Counts, j \in Items : d # c \/ j # i => field'[d][j] = field[d][j]

(* The row of one count is set, the others are as they were.               *)
CountSet(c, row) ==
    /\ row \in CountRow
    /\ count' \in [Counts -> CountRow]
    /\ count'[c] = row
    /\ \A d \in Counts : d # c => count'[d] = count[d]

DeskSet(c, row) ==
    /\ row \in DeskRow
    /\ desk' \in [Counts -> DeskRow]
    /\ desk'[c] = row
    /\ \A d \in Counts : d # c => desk'[d] = desk[d]

(* A field as it is when the answer to a save of v has come.               *)
Answered(f, v) ==
    [f EXCEPT !.saved = v, !.state = IF f.value # v THEN "saving" ELSE "saved"]

(* A figure or a note is typed: the fields of one line hold another entry. *)
Typed(c, i) ==
    \/ \E v \in Figures \cup {Blank} : Type(c, i, v)
    \/ \E n \in Notes : TypeNote(c, i, n)

TypedAs(f, e, at) == [f EXCEPT !.value = e, !.focus = at, !.state = "idle"]

(* Typing is of a line, and touches nothing beside its fields.             *)
LEMMA TypedAlone ==
    ASSUME NEW c, NEW i, Typed(c, i)
    PROVE  /\ i \in DOMAIN count[c].lines
           /\ UNCHANGED <<shelf, rows, document, count, desk, requests>>
BY DEF Typed, Type, TypeNote, Typing

(* What each step does to the fields.                                      *)
LEMMA FieldsSet ==
    ASSUME CountTypeOK, NEW c \in Counts, NEW i \in Items,
           NEW f \in Field, f = field[c][i]
    PROVE  /\ Typed(c, i) =>
                 \E e \in Entry, at \in {"figure", "note"} : FieldSet(c, i, TypedAs(f, e, at))
           /\ Leave(c, i) =>
                 FieldSet(c, i, [f EXCEPT !.focus = "none",
                                          !.state = IF ~InFlight(c, i) /\ f.value # f.saved
                                                    THEN "saving" ELSE f.state])
           /\ \A r \in requests : r.count = c /\ r.item = i =>
                 /\ Saved(r) => FieldSet(c, i, Answered(f, r.value))
                 /\ NotSaved(r) => FieldSet(c, i, [f EXCEPT !.state = "error"])
                 /\ Drop(r) => FieldSet(c, i, [f EXCEPT !.state = "error", !.doubt = TRUE])
<1>1. field \in [Counts -> [Items -> Field]] /\ requests \in SUBSET Request
  BY DEF CountTypeOK
<1>2. ASSUME NEW g \in Field, field' = [field EXCEPT ![c] = [field[c] EXCEPT ![i] = g]]
      PROVE  FieldSet(c, i, g)
  BY <1>1, <1>2 DEF FieldSet
<1>3. ASSUME Typed(c, i)
      PROVE  \E e \in Entry, at \in {"figure", "note"} : FieldSet(c, i, TypedAs(f, e, at))
  <2>0. f.value \in Entry
    BY DEF Field
  <2>1. ASSUME NEW v \in Figures \cup {Blank}, Type(c, i, v)
        PROVE  \E e \in Entry : FieldSet(c, i, TypedAs(f, e, "figure"))
    <3> DEFINE e == [f.value EXCEPT !.counted = v]
               g == TypedAs(f, e, "figure")
    <3>1. e \in Entry
      BY <2>0, <2>1 DEF Entry
    <3>2. g \in Field
      BY <3>1 DEF Field, TypedAs
    <3>3. field' = [field EXCEPT ![c] = [field[c] EXCEPT ![i] = g]]
      BY <1>1, <2>1 DEF Type, TypedAs
    <3> QED BY <1>2, <3>1, <3>2, <3>3
  <2>2. ASSUME NEW n \in Notes, TypeNote(c, i, n)
        PROVE  \E e \in Entry : FieldSet(c, i, TypedAs(f, e, "note"))
    <3> DEFINE e == [f.value EXCEPT !.note = n]
               g == TypedAs(f, e, "note")
    <3>1. e \in Entry
      BY <2>0, <2>2 DEF Entry
    <3>2. g \in Field
      BY <3>1 DEF Field, TypedAs
    <3>3. field' = [field EXCEPT ![c] = [field[c] EXCEPT ![i] = g]]
      BY <1>1, <2>2 DEF TypeNote, TypedAs
    <3> QED BY <1>2, <3>1, <3>2, <3>3
  <2> QED BY <1>3, <2>1, <2>2 DEF Typed
<1>4. ASSUME Leave(c, i)
      PROVE  FieldSet(c, i, [f EXCEPT !.focus = "none",
                                      !.state = IF ~InFlight(c, i) /\ f.value # f.saved
                                                THEN "saving" ELSE f.state])
  <2> DEFINE s == IF ~InFlight(c, i) /\ f.value # f.saved THEN "saving" ELSE f.state
             g == [f EXCEPT !.focus = "none", !.state = s]
  <2>1. g \in Field
    BY DEF Field
  <2>2. field' = [field EXCEPT ![c] = [field[c] EXCEPT ![i] = g]]
    BY <1>1, <1>4 DEF Leave
  <2> QED BY <1>2, <2>1, <2>2
<1>5. ASSUME NEW r \in requests, r.count = c, r.item = i
      PROVE  /\ Saved(r) => FieldSet(c, i, Answered(f, r.value))
             /\ NotSaved(r) => FieldSet(c, i, [f EXCEPT !.state = "error"])
             /\ Drop(r) => FieldSet(c, i, [f EXCEPT !.state = "error", !.doubt = TRUE])
  <2> DEFINE s == IF f.value # r.value THEN "saving" ELSE "saved"
             g == Answered(f, r.value)
             wrong == [f EXCEPT !.state = "error"]
             dropped == [f EXCEPT !.state = "error", !.doubt = TRUE]
  <2>1. r.value \in Entry
    BY <1>1, RequestsMade
  <2>2. g \in Field /\ wrong \in Field /\ dropped \in Field
    BY <2>1 DEF Field, Answered
  <2>3. Saved(r) => field' = [field EXCEPT ![c] = [field[c] EXCEPT ![i] = g]]
    <3>1. PICK t : t = s
      OBVIOUS
    <3>2. Saved(r) => field' = [field EXCEPT ![c][i].saved = r.value, ![c][i].state = t]
      BY <1>5, <3>1 DEF Saved
    <3> HIDE DEF s
    <3>3. [field EXCEPT ![c][i].saved = r.value, ![c][i].state = t]
              = [field EXCEPT ![c] = [field[c] EXCEPT ![i] = [f EXCEPT !.saved = r.value, !.state = t]]]
      BY <1>1
    <3>4. g = [f EXCEPT !.saved = r.value, !.state = t]
      BY <3>1 DEF Answered, s
    <3> QED BY <3>2, <3>3, <3>4
  <2>4. NotSaved(r) => field' = [field EXCEPT ![c] = [field[c] EXCEPT ![i] = wrong]]
    BY <1>1, <1>5 DEF NotSaved
  <2>5. Drop(r) => field' = [field EXCEPT ![c] = [field[c] EXCEPT ![i] = dropped]]
    <3>1. Drop(r) => field' = [field EXCEPT ![c][i].state = "error", ![c][i].doubt = TRUE]
      BY <1>5 DEF Drop
    <3>2. [field EXCEPT ![c][i].state = "error", ![c][i].doubt = TRUE]
              = [field EXCEPT ![c] = [field[c] EXCEPT ![i] = dropped]]
      BY <1>1
    <3> QED BY <3>1, <3>2
  <2> QED BY <1>2, <2>2, <2>3, <2>4, <2>5
<1> QED BY <1>3, <1>4, <1>5

(* What each step does to the rows of counts and to their desks.           *)
LEMMA CountsSet ==
    ASSUME CountTypeOK, NEW c \in Counts, NEW w \in CountRow, w = count[c]
    PROVE  /\ Create(c) =>
                 CountSet(c, [w EXCEPT !.status = "draft", !.lines = [i \in Scope[c] |-> Uncounted]])
           /\ \A i \in Items : AddLine(c, i) =>
                 CountSet(c, [w EXCEPT !.lines = [j \in DOMAIN w.lines \cup {i} |->
                                                     IF j = i THEN Uncounted ELSE w.lines[j]]])
           /\ Cancel(c) => CountSet(c, [w EXCEPT !.status = "cancelled"])
           /\ \A r \in requests : r.count = c /\ r.item \in DOMAIN w.lines /\ SaveWrite(r) =>
                 /\ Stamped(r) \in Line
                 /\ CountSet(c, [w EXCEPT !.lines = [w.lines EXCEPT ![r.item] = Stamped(r)]])
           /\ ApplyPost(c) /\ ~TooLittle(CountLines(c)) =>
                 CountSet(c, [w EXCEPT !.status = "applied", !.acked = desk[c].ack,
                                       !.seen = desk[c].seen])
<1>1. /\ count \in [Counts -> CountRow] /\ desk \in [Counts -> DeskRow]
      /\ requests \in SUBSET Request
  BY DEF CountTypeOK
<1>2. ASSUME NEW row \in CountRow, count' = [count EXCEPT ![c] = row]
      PROVE  CountSet(c, row)
  BY <1>1, <1>2 DEF CountSet
<1>3. Uncounted \in Line
  BY CountAssumption DEF CountAssumption, Uncounted, Line
<1>4. ASSUME Create(c)
      PROVE  CountSet(c, [w EXCEPT !.status = "draft", !.lines = [i \in Scope[c] |-> Uncounted]])
  <2> DEFINE lines == [i \in Scope[c] |-> Uncounted]
  <2>1. lines \in OnItems(Line)
    BY <1>3, OnItemsMade, CountAssumption DEF CountAssumption
  <2>2. [w EXCEPT !.status = "draft", !.lines = lines] \in CountRow
    BY <2>1, CountRowsMade
  <2>3. count' = [count EXCEPT ![c] = [w EXCEPT !.status = "draft", !.lines = lines]]
    BY <1>1, <1>4 DEF Create
  <2> QED BY <1>2, <2>2, <2>3
<1>5. ASSUME NEW i \in Items, AddLine(c, i)
      PROVE  CountSet(c, [w EXCEPT !.lines = [j \in DOMAIN w.lines \cup {i} |->
                                                 IF j = i THEN Uncounted ELSE w.lines[j]]])
  <2> DEFINE lines == [j \in DOMAIN w.lines \cup {i} |-> IF j = i THEN Uncounted ELSE w.lines[j]]
  <2>1. lines \in [DOMAIN w.lines \cup {i} -> Line]
    BY <1>3, CountRowsMade
  <2>2. DOMAIN w.lines \cup {i} \in SUBSET Items
    BY CountRowsMade
  <2>3. lines \in OnItems(Line)
    BY <2>1, <2>2, OnItemsMade
  <2>4. [w EXCEPT !.lines = lines] \in CountRow
    BY <2>3, CountRowsMade
  <2>5. count' = [count EXCEPT ![c] = [w EXCEPT !.lines = lines]]
    BY <1>1, <1>5 DEF AddLine
  <2> QED BY <1>2, <2>4, <2>5
<1>6. ASSUME Cancel(c) PROVE CountSet(c, [w EXCEPT !.status = "cancelled"])
  <2>1. [w EXCEPT !.status = "cancelled"] \in CountRow
    BY CountRowsMade
  <2>2. count' = [count EXCEPT ![c] = [w EXCEPT !.status = "cancelled"]]
    BY <1>1, <1>6 DEF Cancel
  <2> QED BY <1>2, <2>1, <2>2
<1>7. ASSUME NEW r \in requests, r.count = c, r.item \in DOMAIN w.lines, SaveWrite(r)
      PROVE  /\ Stamped(r) \in Line
             /\ CountSet(c, [w EXCEPT !.lines = [w.lines EXCEPT ![r.item] = Stamped(r)]])
  <2> DEFINE lines == [w.lines EXCEPT ![r.item] = Stamped(r)]
  <2>1. Stamped(r) \in Line
    <3>1. r.value \in Entry /\ r.system \in Nat /\ r.at \in Nat
      BY <1>1, RequestsMade
    <3>2. Begun \in SUBSET (Documents \cup Counts)
      BY DEF Begun
    <3>3. w.lines[r.item] \in Line
      BY <1>7, CountRowsMade
    <3>4. FirstStored(r) \in Nat
      BY <1>7, <3>1, <3>3 DEF FirstStored, Line
    <3>5. r.value.counted \in Figures \cup {Blank} /\ r.value.note \in Notes
      BY <3>1 DEF Entry
    <3>6. CASE r.value.counted = Blank
      BY <1>3, <3>5, <3>6 DEF Stamped, Line
    <3>7. CASE r.value.counted # Blank
      BY <3>1, <3>2, <3>4, <3>5, <3>7 DEF Stamped, Line
    <3> QED BY <3>6, <3>7
  <2>2. lines \in OnItems(Line)
    BY <1>7, <2>1, OnItemsMade, CountRowsMade
  <2>3. [w EXCEPT !.lines = lines] \in CountRow
    BY <2>2, CountRowsMade
  <2>4. count' = [count EXCEPT ![c] = [w EXCEPT !.lines = lines]]
    BY <1>1, <1>7 DEF SaveWrite
  <2> QED BY <1>2, <2>1, <2>3, <2>4
<1>8. ASSUME ApplyPost(c), ~TooLittle(CountLines(c))
      PROVE  CountSet(c, [w EXCEPT !.status = "applied", !.acked = desk[c].ack,
                                   !.seen = desk[c].seen])
  <2> DEFINE row == [w EXCEPT !.status = "applied", !.acked = desk[c].ack, !.seen = desk[c].seen]
  <2>1. desk[c].ack \in BOOLEAN /\ desk[c].seen \in Nat
    BY <1>1 DEF DeskRow
  <2>2. row \in CountRow
    BY <2>1, CountRowsMade
  <2>3. count' = [count EXCEPT ![c] = row]
    BY <1>1, <1>8 DEF ApplyPost
  <2> QED BY <1>2, <2>2, <2>3
<1> QED BY <1>4, <1>5, <1>6, <1>7, <1>8

(* A review opens its desk and a post closes it, and no other.             *)
LEMMA DesksSet ==
    ASSUME CountTypeOK, NEW c \in Counts
    PROVE  /\ \A ack \in BOOLEAN : ApplyReview(c, ack) =>
                 DeskSet(c, [open |-> TRUE, ack |-> ack, seen |-> Len(rows),
                             post |-> [i \in {j \in Counted(c) : Difference(c, j) # 0} |->
                                          Difference(c, i)]])
           /\ ApplyPost(c) => DeskSet(c, Closed)
<1>1. desk \in [Counts -> DeskRow] /\ rows \in Seq(RowSet)
  BY DEF CountTypeOK
<1>2. ASSUME NEW row \in DeskRow, desk' = [desk EXCEPT ![c] = row]
      PROVE  DeskSet(c, row)
  BY <1>1, <1>2 DEF DeskSet
<1>3. ASSUME NEW ack \in BOOLEAN, ApplyReview(c, ack)
      PROVE  DeskSet(c, [open |-> TRUE, ack |-> ack, seen |-> Len(rows),
                         post |-> [i \in {j \in Counted(c) : Difference(c, j) # 0} |->
                                      Difference(c, i)]])
  <2> DEFINE post == [i \in {j \in Counted(c) : Difference(c, j) # 0} |-> Difference(c, i)]
  <2>1. /\ {j \in Counted(c) : Difference(c, j) # 0} \in SUBSET Items
        /\ \A i \in Counted(c) : Difference(c, i) \in Int
    BY CountedLines
  <2>2. post \in [{j \in Counted(c) : Difference(c, j) # 0} -> Int]
    BY <2>1
  <2>3. post \in OnItems(Int)
    BY <2>1, <2>2, OnItemsMade
  <2> HIDE DEF post
  <2>4. Len(rows) \in Nat
    BY <1>1
  <2>5. [open |-> TRUE, ack |-> ack, seen |-> Len(rows), post |-> post] \in DeskRow
    BY <2>3, <2>4 DEF DeskRow
  <2>6. desk' = [desk EXCEPT ![c] = [open |-> TRUE, ack |-> ack, seen |-> Len(rows), post |-> post]]
    BY <1>3 DEF ApplyReview, post
  <2>7. DeskSet(c, [open |-> TRUE, ack |-> ack, seen |-> Len(rows), post |-> post])
    BY <1>2, <2>5, <2>6
  <2> QED BY <2>7 DEF post
<1>4. ASSUME ApplyPost(c) PROVE DeskSet(c, Closed)
  <2>1. Closed \in DeskRow
    <3>1. <<>> \in [{} -> Int]
      OBVIOUS
    <3>2. <<>> \in OnItems(Int)
      BY <3>1, OnItemsMade
    <3> QED BY <3>2 DEF Closed, DeskRow
  <2> QED BY <1>2, <1>4, <2>1 DEF ApplyPost
<1> QED BY <1>3, <1>4

-----------------------------------------------------------------------------
(* The first layer: types, and that what has no line has no field, and     *)
(* no save.                                                                *)

(* The first layer holds when nothing has been counted.                    *)
LEMMA ShapeStarts == Init => ShapeInv
<1> SUFFICES ASSUME Init PROVE ShapeInv
  OBVIOUS
<1>1. /\ NoLines \in OnItems(Line) /\ DOMAIN NoLines = {}
  <2>1. NoLines \in [{} -> Line]
    BY DEF NoLines
  <2> QED BY <2>1, OnItemsMade DEF NoLines
<1>2. Closed \in DeskRow
  <2>1. <<>> \in [{} -> Int]
    OBVIOUS
  <2>2. <<>> \in OnItems(Int)
    BY <2>1, OnItemsMade
  <2> QED BY <2>2 DEF Closed, DeskRow
<1>3. shelf \in [Items -> Nat] /\ rows \in Seq(RowSet)
  BY CountAssumption DEF CountAssumption, Init
<1>4. document \in [Documents -> {"none", "begun", "done"}] /\ requests \in SUBSET Request
  BY DEF Init
<1>5. count \in [Counts -> CountRow]
  BY <1>1 DEF Init, CountRow
<1>6. desk \in [Counts -> DeskRow]
  BY <1>2 DEF Init
<1>7. field \in [Counts -> [Items -> Field]]
  <2>1. Empty \in Entry
    BY CountAssumption DEF CountAssumption, Empty, Entry
  <2> QED BY <2>1 DEF Init, Field
<1>8. CountTypeOK
  BY <1>3, <1>4, <1>5, <1>6, <1>7 DEF CountTypeOK
<1>9. NoneHasNoLines /\ RequestsHaveLines
  BY <1>1 DEF Init, NoneHasNoLines, RequestsHaveLines
<1>10. NoLineNoField
  BY DEF Init, NoLineNoField, Blanked
<1> QED BY <1>8, <1>9, <1>10 DEF ShapeInv

(* Every save was of its count and item before, or is of this one.         *)
SamePlaces == \A r \in requests' : \E s \in requests : r.count = s.count /\ r.item = s.item

SamePlacesOr(c, i) ==
    \A r \in requests' : \/ \E s \in requests : r.count = s.count /\ r.item = s.item
                         \/ r.count = c /\ r.item = i

(* A step that sets the row of one count, and loses none of its lines.     *)
LEMMA ShapeOfCountSet ==
    ASSUME ShapeInv, NEW c \in Counts, NEW row, CountSet(c, row), row.status # "none",
           DOMAIN count[c].lines \in SUBSET (DOMAIN row.lines),
           shelf' \in [Items -> Nat], rows' \in Seq(RowSet), desk' \in [Counts -> DeskRow],
           requests' \in SUBSET Request, SamePlaces, UNCHANGED <<document, field>>
    PROVE  ShapeInv'
<1>1. CountTypeOK'
  BY DEF ShapeInv, CountTypeOK, CountSet
<1>2. NoneHasNoLines'
  BY DEF ShapeInv, NoneHasNoLines, CountSet
<1>3. \A d \in Counts : DOMAIN count[d].lines \in SUBSET (DOMAIN count'[d].lines)
  BY DEF CountSet
<1>4. RequestsHaveLines'
  <2> SUFFICES ASSUME NEW r \in requests' PROVE r.item \in DOMAIN count'[r.count].lines
    BY DEF RequestsHaveLines
  <2>1. PICK s \in requests : r.count = s.count /\ r.item = s.item
    BY DEF SamePlaces
  <2>2. r.count \in Counts
    BY RequestsMade
  <2> QED BY <1>3, <2>1, <2>2 DEF ShapeInv, RequestsHaveLines
<1>5. NoLineNoField'
  <2> SUFFICES ASSUME NEW d \in Counts, NEW i \in Items, i \notin DOMAIN count'[d].lines
               PROVE  Blanked(field'[d][i])
    BY DEF NoLineNoField, Blanked
  <2>1. i \notin DOMAIN count[d].lines
    BY <1>3
  <2> QED BY <2>1 DEF ShapeInv, NoLineNoField, Blanked
<1> QED BY <1>1, <1>2, <1>4, <1>5 DEF ShapeInv

(* A step that sets one field, of a line.                                  *)
LEMMA ShapeOfFieldSet ==
    ASSUME ShapeInv, NEW c \in Counts, NEW i \in Items, NEW f, FieldSet(c, i, f),
           i \in DOMAIN count[c].lines, requests' \in SUBSET Request, SamePlacesOr(c, i),
           UNCHANGED <<shelf, rows, document, count, desk>>
    PROVE  ShapeInv'
<1>1. CountTypeOK'
  BY DEF ShapeInv, CountTypeOK, FieldSet
<1>2. NoneHasNoLines'
  BY DEF ShapeInv, NoneHasNoLines
<1>3. RequestsHaveLines'
  BY DEF ShapeInv, RequestsHaveLines, SamePlacesOr
<1>4. NoLineNoField'
  <2> SUFFICES ASSUME NEW d \in Counts, NEW j \in Items, j \notin DOMAIN count[d].lines
               PROVE  Blanked(field'[d][j])
    BY DEF NoLineNoField, Blanked
  <2>1. field'[d][j] = field[d][j]
    BY DEF FieldSet
  <2> QED BY <2>1 DEF ShapeInv, NoLineNoField
<1> QED BY <1>1, <1>2, <1>3, <1>4 DEF ShapeInv

(* A step that sets neither.                                               *)
LEMMA ShapeOfRest ==
    ASSUME ShapeInv, shelf' \in [Items -> Nat], rows' \in Seq(RowSet),
           document' \in [Documents -> {"none", "begun", "done"}], desk' \in [Counts -> DeskRow],
           requests' \in SUBSET Request, SamePlaces, UNCHANGED <<count, field>>
    PROVE  ShapeInv'
<1>1. CountTypeOK'
  BY DEF ShapeInv, CountTypeOK
<1>2. NoneHasNoLines' /\ RequestsHaveLines'
  BY DEF ShapeInv, NoneHasNoLines, RequestsHaveLines, SamePlaces
<1>3. NoLineNoField'
  BY DEF ShapeInv, NoLineNoField, Blanked
<1> QED BY <1>1, <1>2, <1>3 DEF ShapeInv

(* What each step does to the saves: it makes, changes or drops one.       *)
LEMMA SavesAdvance ==
    ASSUME CountTypeOK
    PROVE  /\ UNCHANGED requests => requests' \in SUBSET Request /\ SamePlaces
           /\ \A r \in requests :
                 /\ SaveRead(r) \/ SaveRefused(r) \/ SaveWrite(r) \/ NotSaved(r) \/ Drop(r)
                       => requests' \in SUBSET Request /\ SamePlaces
                 /\ Saved(r) => requests' \in SUBSET Request /\ SamePlacesOr(r.count, r.item)
           /\ \A c \in Counts, i \in Items :
                 Leave(c, i) => requests' \in SUBSET Request /\ SamePlacesOr(c, i)
<1>1. /\ requests \in SUBSET Request /\ shelf \in [Items -> Nat] /\ rows \in Seq(RowSet)
      /\ field \in [Counts -> [Items -> Field]]
  BY DEF CountTypeOK
<1>2. ASSUME NEW r \in requests, NEW s \in Request, s.count = r.count, s.item = r.item,
             Advance(r, s)
      PROVE  requests' \in SUBSET Request /\ SamePlaces
  BY <1>1, <1>2 DEF Advance, SamePlaces
<1>3. ASSUME NEW r \in requests, requests' = requests \ {r}
      PROVE  requests' \in SUBSET Request /\ SamePlaces
  BY <1>1, <1>3 DEF SamePlaces
<1>4. ASSUME UNCHANGED requests PROVE requests' \in SUBSET Request /\ SamePlaces
  BY <1>1, <1>4 DEF SamePlaces
<1>5. ASSUME NEW r \in requests PROVE r \in Request /\ r.count \in Counts /\ r.item \in Items
  BY <1>1, RequestsMade
<1>6. ASSUME NEW r \in requests, SaveRead(r) PROVE requests' \in SUBSET Request /\ SamePlaces
  <2> DEFINE s == [r EXCEPT !.stage = "read", !.system = shelf[r.item], !.at = Len(rows)]
  <2>1. shelf[r.item] \in Nat /\ Len(rows) \in Nat
    BY <1>1, <1>5
  <2>2. s \in Request
    BY <1>5, <2>1, RequestsMade
  <2>3. s.count = r.count /\ s.item = r.item
    BY <1>5 DEF Request
  <2>4. Advance(r, s)
    BY <1>6 DEF SaveRead
  <2> QED BY <1>2, <2>2, <2>3, <2>4
<1>7. ASSUME NEW r \in requests
      PROVE  /\ [r EXCEPT !.stage = "refused"] \in Request
             /\ [r EXCEPT !.stage = "stored"] \in Request
             /\ [r EXCEPT !.live = FALSE] \in Request
             /\ [r EXCEPT !.stage = "refused"].count = r.count
             /\ [r EXCEPT !.stage = "refused"].item = r.item
             /\ [r EXCEPT !.stage = "stored"].count = r.count
             /\ [r EXCEPT !.stage = "stored"].item = r.item
             /\ [r EXCEPT !.live = FALSE].count = r.count
             /\ [r EXCEPT !.live = FALSE].item = r.item
  <2>1. r \in Request
    BY <1>5
  <2> QED BY <2>1, RequestsMade DEF Request
<1>8. ASSUME NEW r \in requests, SaveRefused(r) \/ SaveWrite(r) \/ NotSaved(r) \/ Drop(r)
      PROVE  requests' \in SUBSET Request /\ SamePlaces
  <2>1. \/ requests' = requests \ {r}
        \/ Advance(r, [r EXCEPT !.stage = "refused"])
        \/ Advance(r, [r EXCEPT !.stage = "stored"])
        \/ Advance(r, [r EXCEPT !.live = FALSE])
    BY <1>8 DEF SaveRefused, SaveWrite, NotSaved, Drop
  <2> QED BY <1>2, <1>3, <1>7, <2>1
<1>9. ASSUME NEW c \in Counts, NEW i \in Items, NEW more,
             more = {} \/ more = {Save(c, i, field[c][i])},
             requests' \in SUBSET (requests \cup more)
      PROVE  requests' \in SUBSET Request /\ SamePlacesOr(c, i)
  <2>1. field[c][i] \in Field
    BY <1>1
  <2>2. Save(c, i, field[c][i]) \in Request
    BY <2>1, RequestsMade
  <2>3. Save(c, i, field[c][i]).count = c /\ Save(c, i, field[c][i]).item = i
    BY DEF Save
  <2> QED BY <1>1, <1>9, <2>2, <2>3 DEF SamePlacesOr
<1>10. ASSUME NEW r \in requests, Saved(r)
       PROVE  requests' \in SUBSET Request /\ SamePlacesOr(r.count, r.item)
  BY <1>5, <1>9, <1>10 DEF Saved
<1>11. ASSUME NEW c \in Counts, NEW i \in Items, Leave(c, i)
       PROVE  requests' \in SUBSET Request /\ SamePlacesOr(c, i)
  BY <1>9, <1>11 DEF Leave
<1> QED BY <1>4, <1>6, <1>8, <1>10, <1>11

(* Every step keeps the first layer.                                       *)
LEMMA ShapeHolds == ASSUME ShapeInv, [Next]_vars PROVE ShapeInv'
<1>1. /\ CountTypeOK /\ NoneHasNoLines /\ RequestsHaveLines /\ NoLineNoField
  BY DEF ShapeInv
<1>2. /\ shelf \in [Items -> Nat] /\ rows \in Seq(RowSet)
      /\ document \in [Documents -> {"none", "begun", "done"}]
      /\ count \in [Counts -> CountRow] /\ desk \in [Counts -> DeskRow]
      /\ field \in [Counts -> [Items -> Field]] /\ requests \in SUBSET Request
  BY <1>1 DEF CountTypeOK
<1>3. ASSUME NEW r \in requests
      PROVE  /\ r.count \in Counts /\ r.item \in Items
             /\ r.item \in DOMAIN count[r.count].lines
  BY <1>1, <1>2, RequestsMade DEF RequestsHaveLines
<1>4. ASSUME NEW c \in Counts PROVE count[c] \in CountRow /\ DOMAIN count[c].lines \in SUBSET Items
  BY <1>2, CountRowsMade
<1>5. ASSUME NEW doc \in Documents \cup Counts, NEW lines \in Seq(DocumentLine),
             \/ UNCHANGED <<shelf, rows>>
             \/ ~TooLittle(lines) /\ Moves(doc, lines)
      PROVE  shelf' \in [Items -> Nat] /\ rows' \in Seq(RowSet)
  BY <1>1, <1>2, <1>5, MovesMade
<1>6. CASE UNCHANGED vars
  BY <1>1, <1>2, <1>6, SavesAdvance, ShapeOfRest DEF vars
<1>7. ASSUME NEW d \in Documents, Begin(d) PROVE ShapeInv'
  <2>1. document' \in [Documents -> {"none", "begun", "done"}]
    BY <1>2, <1>7 DEF Begin
  <2> QED BY <1>1, <1>2, <1>7, <2>1, SavesAdvance, ShapeOfRest DEF Begin
<1>8. ASSUME NEW d \in Documents, Commit(d) PROVE ShapeInv'
  <2>1. document' \in [Documents -> {"none", "begun", "done"}]
    BY <1>2, <1>8 DEF Commit
  <2>2. Lines[d] \in Seq(DocumentLine)
    BY CountAssumption DEF CountAssumption
  <2>3. shelf' \in [Items -> Nat] /\ rows' \in Seq(RowSet)
    BY <1>5, <1>8, <2>2 DEF Commit
  <2> QED BY <1>1, <1>2, <1>8, <2>1, <2>3, SavesAdvance, ShapeOfRest DEF Commit
<1>9. ASSUME NEW c \in Counts, Create(c) PROVE ShapeInv'
  <2>1. PICK row : row = [count[c] EXCEPT !.status = "draft", !.lines = [i \in Scope[c] |-> Uncounted]]
    OBVIOUS
  <2>2. CountSet(c, row)
    BY <1>1, <1>4, <1>9, <2>1, CountsSet
  <2>3. row.status = "draft" /\ DOMAIN count[c].lines = {}
    BY <1>1, <1>4, <1>9, <2>1 DEF Create, NoneHasNoLines, CountRow
  <2> QED BY <1>1, <1>2, <1>9, <2>2, <2>3, SavesAdvance, ShapeOfCountSet DEF Create
<1>10. ASSUME NEW c \in Counts, NEW i \in Items, AddLine(c, i) PROVE ShapeInv'
  <2>1. PICK row : row = [count[c] EXCEPT !.lines = [j \in DOMAIN count[c].lines \cup {i} |->
                                     IF j = i THEN Uncounted ELSE count[c].lines[j]]]
    OBVIOUS
  <2>2. CountSet(c, row)
    BY <1>1, <1>4, <1>10, <2>1, CountsSet
  <2>3. row.status = "draft" /\ DOMAIN count[c].lines \in SUBSET (DOMAIN row.lines)
    BY <1>4, <1>10, <2>1 DEF AddLine, CountRow
  <2> QED BY <1>1, <1>2, <1>10, <2>2, <2>3, SavesAdvance, ShapeOfCountSet DEF AddLine
<1>11. ASSUME NEW c \in Counts, Cancel(c) PROVE ShapeInv'
  <2>1. PICK row : row = [count[c] EXCEPT !.status = "cancelled"]
    OBVIOUS
  <2>2. CountSet(c, row)
    BY <1>1, <1>4, <1>11, <2>1, CountsSet
  <2>3. row.status = "cancelled" /\ DOMAIN count[c].lines = DOMAIN row.lines
    BY <1>4, <2>1 DEF CountRow
  <2> QED BY <1>1, <1>2, <1>11, <2>2, <2>3, SavesAdvance, ShapeOfCountSet DEF Cancel
<1>12. ASSUME NEW c \in Counts, NEW ack \in BOOLEAN, ApplyReview(c, ack) PROVE ShapeInv'
  <2>1. desk' \in [Counts -> DeskRow]
    BY <1>1, <1>12, DesksSet DEF DeskSet
  <2> QED BY <1>1, <1>2, <1>12, <2>1, SavesAdvance, ShapeOfRest DEF ApplyReview
<1>13. ASSUME NEW c \in Counts, ApplyPost(c) PROVE ShapeInv'
  <2>1. desk' \in [Counts -> DeskRow]
    BY <1>1, <1>13, DesksSet DEF DeskSet
  <2>2. CountLines(c) \in Seq(DocumentLine)
    BY <1>1, CountLinesMade
  <2>3. shelf' \in [Items -> Nat] /\ rows' \in Seq(RowSet)
    BY <1>5, <1>13, <2>2 DEF ApplyPost
  <2>4. CASE TooLittle(CountLines(c))
    BY <1>1, <1>2, <1>13, <2>1, <2>4, SavesAdvance, ShapeOfRest DEF ApplyPost
  <2>5. CASE ~TooLittle(CountLines(c))
    <3>1. PICK row : row = [count[c] EXCEPT !.status = "applied", !.acked = desk[c].ack,
                                            !.seen = desk[c].seen]
      OBVIOUS
    <3>2. CountSet(c, row)
      BY <1>1, <1>4, <1>13, <2>5, <3>1, CountsSet
    <3>3. row.status = "applied" /\ DOMAIN count[c].lines = DOMAIN row.lines
      BY <1>4, <3>1 DEF CountRow
    <3> QED BY <1>1, <1>13, <2>1, <2>3, <3>2, <3>3, SavesAdvance, ShapeOfCountSet DEF ApplyPost
  <2> QED BY <2>4, <2>5
<1>14. ASSUME NEW c \in Counts, NEW i \in Items, Typed(c, i) PROVE ShapeInv'
  <2>1. PICK f \in Field : f = field[c][i]
    BY <1>2
  <2>2. \E g : FieldSet(c, i, g)
    BY <1>1, <1>14, <2>1, FieldsSet
  <2>3. /\ i \in DOMAIN count[c].lines
        /\ UNCHANGED <<shelf, rows, document, count, desk, requests>>
    BY <1>14, TypedAlone
  <2>4. requests' \in SUBSET Request /\ SamePlacesOr(c, i)
    BY <1>1, <2>3, SavesAdvance DEF SamePlaces, SamePlacesOr
  <2> QED BY <1>1, <2>2, <2>3, <2>4, ShapeOfFieldSet
<1>15. ASSUME NEW c \in Counts, NEW i \in Items, Leave(c, i) PROVE ShapeInv'
  <2>1. PICK f \in Field : f = field[c][i]
    BY <1>2
  <2>2. \E g : FieldSet(c, i, g)
    BY <1>1, <1>15, <2>1, FieldsSet
  <2>3. i \in DOMAIN count[c].lines
    BY <1>15 DEF Leave
  <2> QED BY <1>1, <1>15, <2>2, <2>3, SavesAdvance, ShapeOfFieldSet DEF Leave
<1>16. ASSUME NEW r \in requests, SaveRead(r) \/ SaveRefused(r) PROVE ShapeInv'
  BY <1>1, <1>2, <1>16, SavesAdvance, ShapeOfRest DEF SaveRead, SaveRefused
<1>17. ASSUME NEW r \in requests, SaveWrite(r) PROVE ShapeInv'
  <2>1. PICK c \in Counts, i \in Items : c = r.count /\ i = r.item /\ i \in DOMAIN count[c].lines
    BY <1>3
  <2>2. PICK row : row = [count[c] EXCEPT !.lines = [count[c].lines EXCEPT ![i] = Stamped(r)]]
    OBVIOUS
  <2>3. CountSet(c, row)
    BY <1>1, <1>4, <1>17, <2>1, <2>2, CountsSet
  <2>4. row.status = count[c].status /\ DOMAIN count[c].lines = DOMAIN row.lines
    BY <1>4, <2>2 DEF CountRow
  <2>5. count[c].status # "none"
    BY <1>1, <2>1 DEF NoneHasNoLines
  <2> QED BY <1>1, <1>2, <1>17, <2>3, <2>4, <2>5, SavesAdvance, ShapeOfCountSet DEF SaveWrite
<1>18. ASSUME NEW r \in requests, Saved(r) \/ NotSaved(r) \/ Drop(r) PROVE ShapeInv'
  <2>1. PICK c \in Counts, i \in Items : c = r.count /\ i = r.item /\ i \in DOMAIN count[c].lines
    BY <1>3
  <2>2. PICK f \in Field : f = field[c][i]
    BY <1>2
  <2>3. \E g : FieldSet(c, i, g)
    <3>1. CASE Saved(r)
      BY <1>1, <2>1, <2>2, <3>1, FieldsSet
    <3>2. CASE NotSaved(r)
      BY <1>1, <2>1, <2>2, <3>2, FieldsSet
    <3>3. CASE Drop(r)
      BY <1>1, <2>1, <2>2, <3>3, FieldsSet
    <3> QED BY <1>18, <3>1, <3>2, <3>3
  <2>4. requests' \in SUBSET Request /\ SamePlacesOr(c, i)
    BY <1>1, <1>18, <2>1, SavesAdvance DEF SamePlaces, SamePlacesOr
  <2>5. UNCHANGED <<shelf, rows, document, count, desk>>
    BY <1>18 DEF Saved, NotSaved, Drop
  <2> QED BY <1>1, <2>1, <2>3, <2>4, <2>5, ShapeOfFieldSet
<1> QED BY <1>6, <1>7, <1>8, <1>9, <1>10, <1>11, <1>12, <1>13, <1>14, <1>15, <1>16, <1>17, <1>18
        DEF Next, Typed

-----------------------------------------------------------------------------
(* The second layer: what a review has seen. *)

(* The ledger only grows.                                                  *)
RowsGrow ==
    /\ rows' \in Seq(RowSet) /\ Len(rows) <= Len(rows')
    /\ \A n \in DOMAIN rows : n \in DOMAIN rows' /\ rows'[n] = rows[n]

(* No step changes or drops a row of the ledger.                           *)
LEMMA LedgerGrows == ASSUME ShapeInv, [Next]_vars PROVE RowsGrow
<1>1. CountTypeOK /\ rows \in Seq(RowSet)
  BY DEF ShapeInv, CountTypeOK
<1>2. CASE UNCHANGED rows
  BY <1>1, <1>2 DEF RowsGrow
<1>3. ASSUME NEW doc \in Documents \cup Counts, NEW lines \in Seq(DocumentLine),
             ~TooLittle(lines), Moves(doc, lines)
      PROVE  RowsGrow
  <2>1. /\ rows' \in Seq(RowSet) /\ Len(rows') = Len(rows) + Len(lines)
        /\ \A n \in DOMAIN rows : rows'[n] = rows[n]
    BY <1>1, <1>3, MovesMade
  <2>2. PICK old \in Seq(RowSet), all \in Seq(RowSet), m \in Nat :
            old = rows /\ all = rows' /\ m = Len(lines)
    BY <1>1, <2>1
  <2>3. Len(all) = Len(old) + m /\ \A n \in DOMAIN old : all[n] = old[n]
    BY <2>1, <2>2
  <2>4. Len(old) <= Len(all) /\ \A n \in DOMAIN old : n \in DOMAIN all
    BY <2>3
  <2> QED BY <2>1, <2>2, <2>4 DEF RowsGrow
<1>4. ASSUME NEW d \in Documents, Commit(d) PROVE RowsGrow
  <2>1. Lines[d] \in Seq(DocumentLine)
    BY CountAssumption DEF CountAssumption
  <2> QED BY <1>2, <1>3, <1>4, <2>1 DEF Commit
<1>5. ASSUME NEW c \in Counts, ApplyPost(c) PROVE RowsGrow
  <2>1. CountLines(c) \in Seq(DocumentLine)
    BY <1>1, CountLinesMade
  <2> QED BY <1>2, <1>3, <1>5, <2>1 DEF ApplyPost
<1>6. ASSUME NEW d \in Documents, Begin(d) PROVE RowsGrow
  BY <1>2, <1>6 DEF Begin
<1>7. ASSUME NEW c \in Counts, NEW ack, Create(c) \/ Cancel(c) \/ ApplyReview(c, ack)
      PROVE  RowsGrow
  <2>1. UNCHANGED rows
    BY <1>7 DEF Create, Cancel, ApplyReview
  <2> QED BY <1>2, <2>1
<1>8. ASSUME NEW c \in Counts, NEW i \in Items, AddLine(c, i) \/ Leave(c, i) \/ Typed(c, i)
      PROVE  RowsGrow
  <2>1. UNCHANGED rows
    BY <1>8, TypedAlone DEF AddLine, Leave
  <2> QED BY <1>2, <2>1
<1>9. ASSUME NEW r \in requests,
             \/ SaveRead(r) \/ SaveRefused(r) \/ SaveWrite(r)
             \/ Saved(r) \/ NotSaved(r) \/ Drop(r)
      PROVE  RowsGrow
  <2>1. UNCHANGED rows
    BY <1>9 DEF SaveRead, SaveRefused, SaveWrite, Saved, NotSaved, Drop
  <2> QED BY <1>2, <2>1
<1>10. CASE UNCHANGED vars
  BY <1>2, <1>10 DEF vars
<1> QED BY <1>4, <1>5, <1>6, <1>7, <1>8, <1>9, <1>10 DEF Next, Typed

(* Every save that has read, had read.                                     *)
NoNewRead ==
    \A r \in requests' : r.stage = "read" =>
        \E s \in requests : /\ s.stage = "read" /\ s.count = r.count /\ s.item = r.item
                            /\ s.system = r.system /\ s.at = r.at

(* Only SaveRead adds a save that has read.                                *)
LEMMA ReadsAreOld ==
    ASSUME CountTypeOK
    PROVE  /\ UNCHANGED requests => NoNewRead
           /\ \A r \in requests :
                 SaveRefused(r) \/ SaveWrite(r) \/ Saved(r) \/ NotSaved(r) \/ Drop(r) => NoNewRead
           /\ \A c \in Counts, i \in Items : Leave(c, i) => NoNewRead
<1>1. requests \in SUBSET Request
  BY DEF CountTypeOK
<1>2. UNCHANGED requests => NoNewRead
  BY DEF NoNewRead
<1>3. ASSUME NEW more, \A s \in more : s.stage # "read" \/ \E r \in requests :
                  /\ r.stage = s.stage /\ r.count = s.count /\ r.item = s.item
                  /\ r.system = s.system /\ r.at = s.at,
             requests' \in SUBSET (requests \cup more)
      PROVE  NoNewRead
  <2> SUFFICES ASSUME NEW r \in requests', r.stage = "read"
               PROVE  \E s \in requests : /\ s.stage = "read" /\ s.count = r.count
                                          /\ s.item = r.item /\ s.system = r.system
                                          /\ s.at = r.at
    BY DEF NoNewRead
  <2> QED BY <1>3
<1>4. ASSUME NEW r \in requests
      PROVE  /\ [r EXCEPT !.stage = "refused"].stage = "refused"
             /\ [r EXCEPT !.stage = "stored"].stage = "stored"
             /\ [r EXCEPT !.live = FALSE].stage = r.stage
             /\ [r EXCEPT !.live = FALSE].count = r.count
             /\ [r EXCEPT !.live = FALSE].item = r.item
             /\ [r EXCEPT !.live = FALSE].system = r.system
             /\ [r EXCEPT !.live = FALSE].at = r.at
  BY <1>1 DEF Request
<1>5. \A c \in Counts, i \in Items : Save(c, i, field[c][i]).stage = "sent"
  BY DEF Save
<1>6. ASSUME NEW r \in requests, SaveRefused(r) \/ SaveWrite(r) \/ NotSaved(r) \/ Drop(r)
      PROVE  NoNewRead
  <2>1. \E s : /\ requests' \in SUBSET (requests \cup {s})
               /\ \/ s = r \/ s = [r EXCEPT !.stage = "refused"]
                  \/ s = [r EXCEPT !.stage = "stored"] \/ s = [r EXCEPT !.live = FALSE]
    BY <1>6 DEF SaveRefused, SaveWrite, NotSaved, Drop, Advance
  <2>2. PICK s : /\ requests' \in SUBSET (requests \cup {s})
                 /\ \/ s = r \/ s = [r EXCEPT !.stage = "refused"]
                    \/ s = [r EXCEPT !.stage = "stored"] \/ s = [r EXCEPT !.live = FALSE]
    BY <2>1
  <2>3. s.stage # "read" \/ \E q \in requests :
             /\ q.stage = s.stage /\ q.count = s.count /\ q.item = s.item
             /\ q.system = s.system /\ q.at = s.at
    <3>1. CASE s = r
      BY <3>1
    <3>2. CASE s = [r EXCEPT !.live = FALSE]
      BY <1>4, <3>2
    <3>3. CASE s = [r EXCEPT !.stage = "refused"] \/ s = [r EXCEPT !.stage = "stored"]
      BY <1>4, <3>3
    <3> QED BY <2>2, <3>1, <3>2, <3>3
  <2> QED BY <1>3, <2>2, <2>3
<1>7. ASSUME NEW r \in requests, Saved(r) PROVE NoNewRead
  <2>1. r.count \in Counts /\ r.item \in Items
    BY <1>1, RequestsMade
  <2>2. requests' \in SUBSET (requests \cup {Save(r.count, r.item, field[r.count][r.item])})
    BY <1>7 DEF Saved
  <2> QED BY <1>3, <1>5, <2>1, <2>2
<1>8. ASSUME NEW c \in Counts, NEW i \in Items, Leave(c, i) PROVE NoNewRead
  <2>1. requests' \in SUBSET (requests \cup {Save(c, i, field[c][i])})
    BY <1>8 DEF Leave
  <2> QED BY <1>3, <1>5, <2>1
<1> QED BY <1>2, <1>6, <1>7, <1>8

(* The second layer holds when nothing has been counted.                   *)
LEMMA ReviewStarts == Init => ReviewInv
<1> SUFFICES ASSUME Init PROVE ReviewInv
  OBVIOUS
<1>1. \A c \in Counts : ~desk[c].open /\ count[c].status = "none"
  BY DEF Init, Closed
<1>2. requests = {}
  BY DEF Init
<1> QED BY <1>1, <1>2 DEF ReviewInv, OpenIsDraft, ReadIsAlone, ReviewStands, ReviewStandsOf

(* What a review did not see, it goes on not to see.                       *)
LEMMA FlaglessStays ==
    ASSUME CountTypeOK, RowsGrow, NEW c \in Counts, NEW seen \in Nat, seen <= Len(rows),
           count'[c].lines = count[c].lines, Flagless(c, seen)
    PROVE  Flagless(c, seen)'
<1>1. Counted(c)' = Counted(c)
  BY DEF Counted
<1>2. PICK old \in Seq(RowSet), all \in Seq(RowSet) : old = rows /\ all = rows'
  BY DEF CountTypeOK, RowsGrow
<1>3. \A n \in DOMAIN all : n <= seen => n \in DOMAIN old /\ all[n] = old[n]
  <2>1. \A n \in DOMAIN all : n <= Len(old) => n \in DOMAIN old
    OBVIOUS
  <2>2. \A n \in DOMAIN all : n <= seen => n <= Len(old)
    BY <1>2
  <2> QED BY <1>2, <2>1, <2>2 DEF RowsGrow
<1>4. ASSUME NEW i \in Counted(c), NEW n \in DOMAIN all, all[n].item = i, n <= seen
      PROVE  all[n].doc \in count[c].lines[i].before
  BY <1>2, <1>3, <1>4 DEF Flagless
<1> QED BY <1>1, <1>2, <1>4 DEF Flagless

(* What a review vouched for stands while its count is left alone.         *)
LEMMA ReviewStandsStill ==
    ASSUME CountTypeOK, RowsGrow, NEW c \in Counts, ReviewStandsOf(c), count'[c] = count[c],
           desk'[c] = desk[c] \/ ~desk'[c].open
    PROVE  ReviewStandsOf(c)'
<1>1. /\ count[c] \in CountRow /\ desk[c] \in DeskRow /\ rows \in Seq(RowSet)
      /\ rows' \in Seq(RowSet)
  BY DEF CountTypeOK, RowsGrow
<1>2. count[c].seen \in Nat /\ desk[c].seen \in Nat /\ Len(rows) \in Nat /\ Len(rows') \in Nat
  BY <1>1 DEF CountRow, DeskRow
<1>3. ASSUME NEW seen \in Nat, seen <= Len(rows)
      PROVE  seen <= Len(rows') /\ (Flagless(c, seen) => Flagless(c, seen)')
  <2>1. Flagless(c, seen) => Flagless(c, seen)'
    BY <1>3, FlaglessStays
  <2>2. seen <= Len(rows')
    BY <1>2, <1>3 DEF RowsGrow
  <2> QED BY <2>1, <2>2
<1>4. ASSUME NEW seen \in Nat, desk'[c].open, desk'[c].seen = seen
      PROVE  seen <= Len(rows') /\ (desk'[c].ack \/ Flagless(c, seen)')
  <2>1. desk'[c] = desk[c]
    BY <1>4
  <2>2. seen <= Len(rows) /\ (desk[c].ack \/ Flagless(c, seen))
    BY <1>4, <2>1 DEF ReviewStandsOf
  <2> QED BY <1>3, <2>1, <2>2
<1>5. ASSUME NEW seen \in Nat, count'[c].status = "applied", count'[c].seen = seen
      PROVE  seen <= Len(rows') /\ (count'[c].acked \/ Flagless(c, seen)')
  <2>1. seen <= Len(rows) /\ (count[c].acked \/ Flagless(c, seen))
    BY <1>5 DEF ReviewStandsOf
  <2> QED BY <1>3, <2>1
<1> QED BY <1>4, <1>5 DEF ReviewStandsOf

(* A step that touches no count and opens no desk.                         *)
LEMMA ReviewOfRest ==
    ASSUME CountTypeOK, ReviewInv, RowsGrow, NoNewRead, UNCHANGED count,
           requests' \in SUBSET Request,
           \A c \in Counts : desk'[c] = desk[c] \/ ~desk'[c].open
    PROVE  ReviewInv'
<1>1. OpenIsDraft'
  BY DEF ReviewInv, OpenIsDraft
<1>2. ReadIsAlone'
  <2> SUFFICES ASSUME NEW r \in requests', r.stage = "read"
               PROVE  count[r.count].status = "draft" /\ ~desk'[r.count].open
    BY DEF ReadIsAlone
  <2>1. PICK s \in requests : s.stage = "read" /\ s.count = r.count
    BY DEF NoNewRead
  <2>2. r.count \in Counts
    BY RequestsMade
  <2> QED BY <2>1, <2>2 DEF ReviewInv, ReadIsAlone
<1>3. ReviewStands'
  BY ReviewStandsStill DEF ReviewInv, ReviewStands
<1> QED BY <1>1, <1>2, <1>3 DEF ReviewInv

(* A step that sets the row of a count that is closed before and after.    *)
LEMMA ReviewOfCountSet ==
    ASSUME CountTypeOK, ReviewInv, RowsGrow, NoNewRead, requests' \in SUBSET Request,
           NEW c \in Counts, NEW row, CountSet(c, row), row.status # "applied",
           ~desk[c].open, UNCHANGED desk,
           row.status = "draft" \/ \A r \in requests : r.stage = "read" => r.count # c
    PROVE  ReviewInv'
<1>1. OpenIsDraft'
  BY DEF ReviewInv, OpenIsDraft, CountSet
<1>2. ReadIsAlone'
  <2> SUFFICES ASSUME NEW r \in requests', r.stage = "read"
               PROVE  count'[r.count].status = "draft" /\ ~desk[r.count].open
    BY DEF ReadIsAlone
  <2>1. PICK s \in requests : s.stage = "read" /\ s.count = r.count
    BY DEF NoNewRead
  <2>2. r.count \in Counts
    BY RequestsMade
  <2>3. count[r.count].status = "draft" /\ ~desk[r.count].open
    BY <2>1, <2>2 DEF ReviewInv, ReadIsAlone
  <2> QED BY <2>1, <2>2, <2>3 DEF CountSet
<1>3. ReviewStands'
  <2> SUFFICES ASSUME NEW d \in Counts PROVE ReviewStandsOf(d)'
    BY DEF ReviewStands
  <2>1. CASE d = c
    BY <2>1 DEF CountSet, ReviewStandsOf
  <2>2. CASE d # c
    <3>1. count'[d] = count[d] /\ ReviewStandsOf(d)
      BY <2>2 DEF CountSet, ReviewInv, ReviewStands
    <3> QED BY <3>1, ReviewStandsStill
  <2> QED BY <2>1, <2>2
<1> QED BY <1>1, <1>2, <1>3 DEF ReviewInv

(* Every step keeps the second layer.                                      *)
LEMMA ReviewHolds == ASSUME ShapeInv, ReviewInv, [Next]_vars PROVE ReviewInv'
<1>1. CountTypeOK /\ RowsGrow /\ CountTypeOK'
  BY LedgerGrows, ShapeHolds DEF ShapeInv
<1>2. /\ rows \in Seq(RowSet) /\ count \in [Counts -> CountRow] /\ desk \in [Counts -> DeskRow]
      /\ requests \in SUBSET Request /\ requests' \in SUBSET Request
  BY <1>1 DEF CountTypeOK
<1>3. /\ \A r \in requests : r.stage = "read" =>
             r.count \in Counts /\ count[r.count].status = "draft" /\ ~desk[r.count].open
      /\ \A c \in Counts : desk[c].open => count[c].status = "draft"
  BY <1>2, RequestsMade DEF ReviewInv, ReadIsAlone, OpenIsDraft
<1>4. ASSUME UNCHANGED <<count, desk>>, NoNewRead PROVE ReviewInv'
  BY <1>1, <1>2, <1>4, ReviewOfRest
<1>5. CASE UNCHANGED vars
  BY <1>1, <1>4, <1>5, ReadsAreOld DEF vars
<1>6. ASSUME NEW d \in Documents, Begin(d) \/ Commit(d) PROVE ReviewInv'
  BY <1>1, <1>4, <1>6, ReadsAreOld DEF Begin, Commit
<1>7. ASSUME NEW c \in Counts, Create(c) PROVE ReviewInv'
  <2>1. PICK row : row = [count[c] EXCEPT !.status = "draft", !.lines = [i \in Scope[c] |-> Uncounted]]
    OBVIOUS
  <2>2. CountSet(c, row) /\ row.status = "draft"
    BY <1>1, <1>2, <1>7, <2>1, CountsSet DEF CountRow
  <2>3. ~desk[c].open
    BY <1>3, <1>7 DEF Create
  <2> QED BY <1>1, <1>2, <1>7, <2>2, <2>3, ReadsAreOld, ReviewOfCountSet DEF Create
<1>8. ASSUME NEW c \in Counts, NEW i \in Items, AddLine(c, i) PROVE ReviewInv'
  <2>1. PICK row : row = [count[c] EXCEPT !.lines = [j \in DOMAIN count[c].lines \cup {i} |->
                                     IF j = i THEN Uncounted ELSE count[c].lines[j]]]
    OBVIOUS
  <2>2. CountSet(c, row)
    BY <1>1, <1>2, <1>8, <2>1, CountsSet
  <2>3. row.status = "draft"
    BY <1>2, <1>8, <2>1 DEF AddLine, CountRow
  <2> QED BY <1>1, <1>2, <1>8, <2>2, <2>3, ReadsAreOld, ReviewOfCountSet DEF AddLine
<1>9. ASSUME NEW c \in Counts, Cancel(c) PROVE ReviewInv'
  <2>1. PICK row : row = [count[c] EXCEPT !.status = "cancelled"]
    OBVIOUS
  <2>2. CountSet(c, row) /\ row.status = "cancelled"
    BY <1>1, <1>2, <1>9, <2>1, CountsSet DEF CountRow
  <2>3. ~desk[c].open /\ \A r \in requests : r.stage = "read" => r.count # c
    BY <1>9 DEF Cancel, Free, Shared
  <2> QED BY <1>1, <1>2, <1>9, <2>2, <2>3, ReadsAreOld, ReviewOfCountSet DEF Cancel
<1>10. ASSUME NEW c \in Counts, NEW ack \in BOOLEAN, ApplyReview(c, ack) PROVE ReviewInv'
  <2>1. PICK post : DeskSet(c, [open |-> TRUE, ack |-> ack, seen |-> Len(rows), post |-> post])
    BY <1>1, <1>10, DesksSet
  <2>2. /\ desk'[c].open /\ desk'[c].ack = ack /\ desk'[c].seen = Len(rows)
        /\ \A d \in Counts : d # c => desk'[d] = desk[d]
    BY <2>1 DEF DeskSet
  <2>3. /\ count[c].status = "draft" /\ \A r \in requests : r.stage = "read" => r.count # c
        /\ UNCHANGED <<count, rows, requests>>
    BY <1>10 DEF ApplyReview, Free, Shared
  <2>4. OpenIsDraft'
    BY <1>3, <2>2, <2>3 DEF OpenIsDraft
  <2>5. ReadIsAlone'
    BY <1>3, <2>2, <2>3 DEF ReadIsAlone
  <2>6. ReviewStands'
    <3> SUFFICES ASSUME NEW d \in Counts PROVE ReviewStandsOf(d)'
      BY DEF ReviewStands
    <3>1. CASE d # c
      <4>1. count'[d] = count[d] /\ desk'[d] = desk[d] /\ ReviewStandsOf(d)
        BY <2>2, <2>3, <3>1 DEF ReviewInv, ReviewStands
      <4> QED BY <1>1, <4>1, ReviewStandsStill
    <3>2. CASE d = c
      <4>1. ack \/ \A i \in Counted(c) : ~MovedSince(c, i)
        BY <1>10 DEF ApplyReview
      <4>2. ack \/ Flagless(c, Len(rows))
        BY <4>1 DEF MovedSince, Flagless
      <4>3. ASSUME NEW seen \in Nat, desk'[c].seen = seen
            PROVE  seen <= Len(rows) /\ (ack \/ Flagless(c, seen)')
        <5>1. seen = Len(rows) /\ (ack \/ Flagless(c, seen))
          BY <2>2, <4>2, <4>3
        <5>2. Flagless(c, seen) => Flagless(c, seen)'
          BY <2>3 DEF Flagless, Counted
        <5> QED BY <5>1, <5>2
      <4>4. count'[c].status # "applied" /\ Len(rows') = Len(rows) /\ desk'[c].ack = ack
        BY <2>2, <2>3
      <4> QED BY <3>2, <4>3, <4>4 DEF ReviewStandsOf
    <3> QED BY <3>1, <3>2
  <2> QED BY <2>4, <2>5, <2>6 DEF ReviewInv
<1>11. ASSUME NEW c \in Counts, ApplyPost(c) PROVE ReviewInv'
  <2>1. /\ desk'[c] = Closed /\ ~desk'[c].open
        /\ \A d \in Counts : d # c => desk'[d] = desk[d]
    BY <1>1, <1>11, DesksSet DEF DeskSet, Closed
  <2>2. CASE TooLittle(CountLines(c))
    BY <1>1, <1>2, <1>11, <2>1, <2>2, ReadsAreOld, ReviewOfRest DEF ApplyPost
  <2>3. CASE ~TooLittle(CountLines(c))
    <3>1. PICK row : row = [count[c] EXCEPT !.status = "applied", !.acked = desk[c].ack,
                                            !.seen = desk[c].seen]
      OBVIOUS
    <3>2. CountSet(c, row)
      BY <1>1, <1>2, <1>11, <2>3, <3>1, CountsSet
    <3>3. /\ row.status = "applied" /\ row.lines = count[c].lines
          /\ row.acked = desk[c].ack /\ row.seen = desk[c].seen
      BY <1>2, <3>1 DEF CountRow
    <3>4. /\ count'[c].lines = count[c].lines /\ count'[c].acked = desk[c].ack
          /\ count'[c].seen = desk[c].seen /\ count'[c].status = "applied"
          /\ \A d \in Counts : d # c => count'[d] = count[d]
      BY <3>2, <3>3 DEF CountSet
    <3>5. desk[c].open /\ UNCHANGED requests
      BY <1>11 DEF ApplyPost
    <3>6. OpenIsDraft'
      BY <1>3, <2>1, <3>4 DEF OpenIsDraft
    <3>7. ReadIsAlone'
      BY <1>3, <2>1, <3>4, <3>5 DEF ReadIsAlone
    <3>8. ReviewStands'
      <4> SUFFICES ASSUME NEW d \in Counts PROVE ReviewStandsOf(d)'
        BY DEF ReviewStands
      <4>1. CASE d # c
        <5>1. count'[d] = count[d] /\ desk'[d] = desk[d] /\ ReviewStandsOf(d)
          BY <2>1, <3>4, <4>1 DEF ReviewInv, ReviewStands
        <5> QED BY <1>1, <5>1, ReviewStandsStill
      <4>2. CASE d = c
        <5>1. ASSUME NEW seen \in Nat, count'[c].seen = seen
              PROVE  seen <= Len(rows') /\ (count'[c].acked \/ Flagless(c, seen)')
          <6>1. desk[c].seen = seen
            BY <3>4, <5>1
          <6>2. seen <= Len(rows) /\ (desk[c].ack \/ Flagless(c, seen))
            BY <3>5, <6>1 DEF ReviewInv, ReviewStands, ReviewStandsOf
          <6>3. desk[c].ack \/ Flagless(c, seen)'
            BY <1>1, <3>4, <6>2, FlaglessStays
          <6>4. Len(rows) \in Nat /\ Len(rows') \in Nat
            BY <1>1 DEF CountTypeOK
          <6>5. seen <= Len(rows')
            BY <1>1, <6>2, <6>4 DEF RowsGrow
          <6> QED BY <3>4, <6>3, <6>5
        <5> QED BY <2>1, <4>2, <5>1 DEF ReviewStandsOf
      <4> QED BY <4>1, <4>2
    <3> QED BY <3>6, <3>7, <3>8 DEF ReviewInv
  <2> QED BY <2>2, <2>3
<1>12. ASSUME NEW c \in Counts, NEW i \in Items, Typed(c, i) PROVE ReviewInv'
  <2>1. UNCHANGED <<shelf, rows, document, count, desk, requests>>
    BY <1>12, TypedAlone
  <2> QED BY <1>1, <1>4, <2>1, ReadsAreOld
<1>13. ASSUME NEW c \in Counts, NEW i \in Items, Leave(c, i) PROVE ReviewInv'
  BY <1>1, <1>4, <1>13, ReadsAreOld DEF Leave
<1>14. ASSUME NEW r \in requests, SaveRead(r) PROVE ReviewInv'
  <2>1. r \in Request /\ r.count \in Counts /\ UNCHANGED <<count, desk, rows>>
    BY <1>2, <1>14, RequestsMade DEF SaveRead
  <2>2. PICK s : /\ s = [r EXCEPT !.stage = "read", !.system = shelf[r.item], !.at = Len(rows)]
                 /\ requests' = (requests \ {r}) \cup {s}
    BY <1>14 DEF SaveRead, Advance
  <2>3. s.count = r.count
    BY <2>1, <2>2 DEF Request
  <2>4. count[s.count].status = "draft" /\ ~desk[s.count].open
    BY <1>14, <2>3 DEF SaveRead
  <2>5. ReadIsAlone'
    BY <1>3, <2>1, <2>2, <2>4 DEF ReadIsAlone
  <2>6. OpenIsDraft'
    BY <1>3, <2>1 DEF OpenIsDraft
  <2>7. ReviewStands'
    BY <1>1, <2>1, ReviewStandsStill DEF ReviewInv, ReviewStands
  <2> QED BY <2>5, <2>6, <2>7 DEF ReviewInv
<1>15. ASSUME NEW r \in requests, SaveRefused(r) \/ Saved(r) \/ NotSaved(r) \/ Drop(r)
       PROVE  ReviewInv'
  <2>1. UNCHANGED <<count, desk>>
    BY <1>15 DEF SaveRefused, Saved, NotSaved, Drop
  <2> QED BY <1>1, <1>4, <1>15, <2>1, ReadsAreOld
<1>16. ASSUME NEW r \in requests, SaveWrite(r) PROVE ReviewInv'
  <2>1. PICK c \in Counts, i \in Items : c = r.count /\ i = r.item /\ i \in DOMAIN count[c].lines
    BY <1>2, RequestsMade DEF ShapeInv, RequestsHaveLines
  <2>2. PICK row : row = [count[c] EXCEPT !.lines = [count[c].lines EXCEPT ![i] = Stamped(r)]]
    OBVIOUS
  <2>3. CountSet(c, row)
    BY <1>1, <1>2, <1>16, <2>1, <2>2, CountsSet
  <2>4. row.status = "draft" /\ ~desk[c].open
    BY <1>2, <1>3, <1>16, <2>1, <2>2 DEF CountRow, SaveWrite
  <2> QED BY <1>1, <1>2, <1>16, <2>3, <2>4, ReadsAreOld, ReviewOfCountSet DEF SaveWrite
<1> QED BY <1>5, <1>6, <1>7, <1>8, <1>9, <1>10, <1>11, <1>12, <1>13, <1>14, <1>15, <1>16 DEF Next, Typed

-----------------------------------------------------------------------------
(* The third layer: the page and the server. *)

(* The third layer holds of fields that are blank.                         *)
LEMMA PageStarts == Init => PageInv
<1> SUFFICES ASSUME Init, NEW c \in Counts, NEW i \in Items
             PROVE  PageStands(field[c][i], Saves(c, i), Said(c, i))
  BY DEF PageInv
<1>1. Saves(c, i) = {}
  BY DEF Init, Saves
<1>2. Said(c, i) = {}
  BY DEF Init, Said, NoLines
<1>3. field[c][i].value = field[c][i].saved
  BY DEF Init
<1> QED BY <1>1, <1>2, <1>3 DEF PageStands

(* What nothing happened to stands.                                        *)
Untouched(c, i) ==
    /\ field'[c][i] = field[c][i] /\ Saves(c, i)' = Saves(c, i) /\ Said(c, i)' = Said(c, i)

(* A step that touches one field is judged by that field.                  *)
LEMMA UntouchedStands ==
    ASSUME PageInv, NEW c \in Counts, NEW i \in Items,
           \A d \in Counts, j \in Items : d # c \/ j # i => Untouched(d, j),
           PageStands(field[c][i], Saves(c, i), Said(c, i))'
    PROVE  PageInv'
<1> SUFFICES ASSUME NEW d \in Counts, NEW j \in Items
             PROVE  PageStands(field[d][j], Saves(d, j), Said(d, j))'
  BY DEF PageInv
<1>1. CASE d = c /\ j = i
  BY <1>1
<1>2. CASE d # c \/ j # i
  <2>1. PageStands(field[d][j], Saves(d, j), Said(d, j))
    BY DEF PageInv
  <2>2. Untouched(d, j)
    BY <1>2
  <2>3. PICK f, saves, said : f = field[d][j] /\ saves = Saves(d, j) /\ said = Said(d, j)
    OBVIOUS
  <2>4. f = field'[d][j] /\ saves = Saves(d, j)' /\ said = Said(d, j)'
    BY <2>2, <2>3 DEF Untouched
  <2> QED BY <2>1, <2>3, <2>4
<1> QED BY <1>1, <1>2

(* A step that touches no field keeps the third layer.                     *)
LEMMA AllUntouched ==
    ASSUME PageInv, \A d \in Counts, j \in Items : Untouched(d, j)
    PROVE  PageInv'
<1> SUFFICES ASSUME NEW d \in Counts, NEW j \in Items
             PROVE  PageStands(field[d][j], Saves(d, j), Said(d, j))'
  BY DEF PageInv
<1>1. PageStands(field[d][j], Saves(d, j), Said(d, j))
  BY DEF PageInv
<1>2. PICK f, saves, said : f = field[d][j] /\ saves = Saves(d, j) /\ said = Said(d, j)
  OBVIOUS
<1>3. f = field'[d][j] /\ saves = Saves(d, j)' /\ said = Said(d, j)'
  BY <1>2 DEF Untouched
<1> QED BY <1>1, <1>2, <1>3

OfPlace(saves, c, i) == \A r \in saves : r.count = c /\ r.item = i

(* A step that changes the saves of one place.                             *)
LEMMA SavesOfPlace ==
    ASSUME NEW c, NEW i, NEW gone, NEW more,
           OfPlace(gone, c, i), OfPlace(more, c, i),
           requests' = (requests \ gone) \cup more
    PROVE  /\ Saves(c, i)' = (Saves(c, i) \ gone) \cup more
           /\ \A d, j : d # c \/ j # i => Saves(d, j)' = Saves(d, j)
<1>1. Saves(c, i)' = (Saves(c, i) \ gone) \cup more
  BY DEF Saves, OfPlace
<1>2. ASSUME NEW d, NEW j, d # c \/ j # i PROVE Saves(d, j)' = Saves(d, j)
  <2>1. \A r \in gone \cup more : ~(r.count = d /\ r.item = j)
    BY <1>2 DEF OfPlace
  <2>2. \A r : r \in Saves(d, j)' <=> r \in Saves(d, j)
    BY <2>1 DEF Saves
  <2> QED BY <2>2
<1> QED BY <1>1, <1>2

(* A step of one field and its saves, which leaves all lines as they were. *)
LEMMA PlaceStands ==
    ASSUME PageInv, NEW c \in Counts, NEW i \in Items, NEW f, FieldSet(c, i, f),
           NEW gone, NEW more,
           OfPlace(gone, c, i), OfPlace(more, c, i),
           requests' = (requests \ gone) \cup more, UNCHANGED count,
           PageStands(f, (Saves(c, i) \ gone) \cup more, Said(c, i))
    PROVE  PageInv'
<1>1. \A d \in Counts, j \in Items : Said(d, j)' = Said(d, j)
  BY DEF Said
<1>2. /\ Saves(c, i)' = (Saves(c, i) \ gone) \cup more
      /\ \A d, j : d # c \/ j # i => Saves(d, j)' = Saves(d, j)
  BY SavesOfPlace
<1>3. \A d \in Counts, j \in Items : d # c \/ j # i => Untouched(d, j)
  BY <1>1, <1>2 DEF Untouched, FieldSet
<1>4. PageStands(field[c][i], Saves(c, i), Said(c, i))'
  <2>1. PICK saves, said : saves = (Saves(c, i) \ gone) \cup more /\ said = Said(c, i)
    OBVIOUS
  <2>2. f = field'[c][i] /\ saves = Saves(c, i)' /\ said = Said(c, i)'
    BY <1>1, <1>2, <2>1 DEF FieldSet
  <2> QED BY <2>1, <2>2
<1> QED BY <1>3, <1>4, UntouchedStands

(* Lines that appear, uncounted, of fields that have not been used.        *)
LEMMA NewLinesStand ==
    ASSUME ShapeInv, PageInv, NEW c \in Counts, NEW row, CountSet(c, row),
           DOMAIN count[c].lines \in SUBSET (DOMAIN row.lines),
           \A i \in DOMAIN row.lines :
              IF i \in DOMAIN count[c].lines
              THEN EntryOf(row.lines[i]) = EntryOf(count[c].lines[i])
              ELSE EntryOf(row.lines[i]) = Empty,
           UNCHANGED <<field, requests>>
    PROVE  PageInv'
<1> SUFFICES ASSUME NEW d \in Counts, NEW i \in Items
             PROVE  PageStands(field[d][i], Saves(d, i), Said(d, i))'
  BY DEF PageInv
<1>1. PageStands(field[d][i], Saves(d, i), Said(d, i))
  BY DEF PageInv
<1>2. PICK f, saves, said : f = field[d][i] /\ saves = Saves(d, i) /\ said = Said(d, i)
  OBVIOUS
<1>3. f = field'[d][i] /\ saves = Saves(d, i)'
  BY <1>2 DEF Saves
<1>4. CASE d # c \/ i \in DOMAIN count[c].lines \/ i \notin DOMAIN row.lines
  <2>1. Said(d, i)' = said
    <3>1. CASE d # c
      BY <1>2, <3>1 DEF Said, CountSet
    <3>2. CASE d = c /\ i \in DOMAIN count[c].lines
      <4>1. /\ i \in DOMAIN count'[c].lines
            /\ EntryOf(count'[c].lines[i]) = EntryOf(count[c].lines[i])
        BY <3>2 DEF CountSet
      <4>2. Said(d, i)' = {EntryOf(count'[c].lines[i])}
        BY <3>2, <4>1 DEF Said
      <4>3. said = {EntryOf(count[c].lines[i])}
        BY <1>2, <3>2 DEF Said
      <4> QED BY <4>1, <4>2, <4>3
    <3>3. CASE d = c /\ i \notin DOMAIN row.lines
      <4>1. i \notin DOMAIN count'[c].lines /\ i \notin DOMAIN count[c].lines
        BY <3>3 DEF CountSet
      <4> QED BY <1>2, <3>3, <4>1 DEF Said
    <3> QED BY <1>4, <3>1, <3>2, <3>3
  <2> QED BY <1>1, <1>2, <1>3, <2>1
<1>5. CASE d = c /\ i \notin DOMAIN count[c].lines /\ i \in DOMAIN row.lines
  <2>1. Said(d, i)' = {Empty}
    <3>1. i \in DOMAIN count'[c].lines /\ EntryOf(count'[c].lines[i]) = Empty
      BY <1>5 DEF CountSet
    <3> QED BY <1>5, <3>1 DEF Said
  <2>2. saves = {}
    BY <1>2, <1>5 DEF ShapeInv, RequestsHaveLines, Saves
  <2>3. f.saved = Empty /\ f.value = Empty
    BY <1>2, <1>5 DEF ShapeInv, NoLineNoField, Blanked
  <2>4. PageStands(f, saves, {Empty})
    BY <2>2, <2>3 DEF PageStands
  <2> QED BY <1>3, <2>1, <2>4
<1> QED BY <1>4, <1>5

(* How the fields and saves of one place move, all of them standing.       *)
LEMMA StandsOnType ==
    ASSUME NEW f \in Field, NEW saves, NEW said, PageStands(f, saves, said),
           NEW e, NEW at \in {"figure", "note"}
    PROVE  PageStands(TypedAs(f, e, at), saves, said)
<1> DEFINE g == TypedAs(f, e, at)
<1>1. g.focus # "none" /\ g.doubt = f.doubt /\ g.saved = f.saved
  BY DEF Field, TypedAs
<1> HIDE DEF g
<1>2. PageStands(g, saves, said)
  BY <1>1 DEF PageStands
<1> QED BY <1>2 DEF g

(* A save that comes back refused leaves an error shown.                   *)
LEMMA StandsOnError ==
    ASSUME NEW f \in Field, NEW saves, NEW said, PageStands(f, saves, said),
           NEW gone, \A r \in gone : r.stage # "stored"
    PROVE  PageStands([f EXCEPT !.state = "error"], saves \ gone, said)
<1> DEFINE g == [f EXCEPT !.state = "error"]
<1>1. g.state = "error" /\ g.doubt = f.doubt /\ g.saved = f.saved
  BY DEF Field
<1> HIDE DEF g
<1>2. PageStands(g, saves \ gone, said)
  BY <1>1 DEF PageStands
<1> QED BY <1>2 DEF g

(* A connection that drops leaves an error and a doubt.                    *)
LEMMA StandsOnDrop ==
    ASSUME NEW f \in Field, NEW saves, NEW said, PageStands(f, saves, said),
           NEW gone, NEW more, \A r \in more : ~r.live
    PROVE  PageStands([f EXCEPT !.state = "error", !.doubt = TRUE], (saves \ gone) \cup more, said)
<1> DEFINE g == [f EXCEPT !.state = "error", !.doubt = TRUE]
<1>1. g.state = "error" /\ g.doubt
  BY DEF Field
<1> HIDE DEF g
<1>2. PageStands(g, (saves \ gone) \cup more, said)
  BY <1>1 DEF PageStands
<1> QED BY <1>2 DEF g

(* A save that comes back stored is what the page has saved, and what was  *)
(* typed meanwhile is under way.                                           *)
LEMMA StandsOnAnswer ==
    ASSUME NEW f \in Field, NEW saves, NEW said, PageStands(f, saves, said),
           NEW r \in saves, r.live, r.stage = "stored", NEW more,
           IF f.value # r.value THEN \E s \in more : s.live ELSE more = {},
           \A s, t \in more : s = t /\ s.live /\ s.stage = "sent"
    PROVE  PageStands(Answered(f, r.value), (saves \ {r}) \cup more, said)
<1> DEFINE g == Answered(f, r.value)
<1>1. /\ g.value = f.value /\ g.saved = r.value /\ g.focus = f.focus /\ g.doubt = f.doubt
  BY DEF Field, Answered
<1> HIDE DEF g
<1>2. \A s \in saves \ {r} : ~s.live
  BY DEF PageStands
<1>3. \A s \in (saves \ {r}) \cup more : s.live => s \in more
  BY <1>2
<1>4. \A s, t \in (saves \ {r}) \cup more : s.live /\ t.live => s = t
  BY <1>3
<1>5. \A s \in (saves \ {r}) \cup more : s.live \/ g.doubt
  BY <1>1 DEF PageStands
<1>6. Idle((saves \ {r}) \cup more) => g.value = g.saved
  BY <1>1 DEF Idle
<1>7. ASSUME ~g.doubt, NEW x \in said
      PROVE  /\ \A s \in (saves \ {r}) \cup more : s.live /\ s.stage = "stored" => x = s.value
             /\ g.saved = x
  <2>1. x = r.value
    BY <1>1, <1>7 DEF PageStands
  <2> QED BY <1>1, <1>3, <2>1
<1>8. PageStands(g, (saves \ {r}) \cup more, said)
  BY <1>4, <1>5, <1>6, <1>7 DEF PageStands
<1> QED BY <1>8 DEF g

(* A field that is left is saved, or a save is under way.                  *)
LEMMA StandsOnLeave ==
    ASSUME NEW f \in Field, NEW saves, NEW said, PageStands(f, saves, said), NEW t, NEW more,
           IF Idle(saves) /\ f.value # f.saved THEN \E s \in more : s.live ELSE more = {},
           \A s, u \in more : s = u /\ s.live /\ s.stage = "sent"
    PROVE  PageStands([f EXCEPT !.focus = "none", !.state = t], saves \cup more, said)
<1> DEFINE g == [f EXCEPT !.focus = "none", !.state = t]
<1>1. g.value = f.value /\ g.saved = f.saved /\ g.doubt = f.doubt
  BY DEF Field
<1> HIDE DEF g
<1>2. \A r, s \in saves \cup more : r.live /\ s.live => r = s
  BY DEF PageStands, Idle
<1>3. \A r \in saves \cup more : r.live \/ g.doubt
  BY <1>1 DEF PageStands
<1>4. Idle(saves \cup more) => g.value = g.saved
  BY <1>1 DEF Idle
<1>5. ASSUME ~g.doubt, NEW x \in said
      PROVE  /\ \A r \in saves \cup more : r.live /\ r.stage = "stored" => x = r.value
             /\ g.saved = x \/ \E r \in saves \cup more : r.live /\ r.stage = "stored"
  BY <1>1, <1>5 DEF PageStands
<1>6. PageStands(g, saves \cup more, said)
  BY <1>2, <1>3, <1>4, <1>5 DEF PageStands
<1> QED BY <1>6 DEF g

(* A save that goes on: read or refused, by its stage not yet stored.      *)
LEMMA StandsOnAdvance ==
    ASSUME NEW f, NEW saves, NEW said, PageStands(f, saves, said), NEW r \in saves,
           r.stage # "stored", NEW more,
           \A s, t \in more : s = t /\ s.live = r.live /\ s.stage # "stored",
           r.live => more # {}
    PROVE  PageStands(f, (saves \ {r}) \cup more, said)
<1>1. \A s, t \in (saves \ {r}) \cup more : s.live /\ t.live => s = t
  <2>1. \A s \in saves \ {r} : s.live => ~r.live
    BY DEF PageStands
  <2> QED BY <2>1 DEF PageStands
<1>2. \A s \in (saves \ {r}) \cup more : s.live \/ f.doubt
  BY DEF PageStands
<1>3. Idle((saves \ {r}) \cup more) => Idle(saves)
  <2>1. ASSUME \A s \in (saves \ {r}) \cup more : ~s.live, NEW s \in saves PROVE ~s.live
    <3>1. ~r.live
      BY <2>1
    <3> QED BY <2>1, <3>1
  <2> QED BY <2>1 DEF Idle
<1>4. ASSUME ~f.doubt, NEW x \in said
      PROVE  /\ \A s \in (saves \ {r}) \cup more : s.live /\ s.stage = "stored" => x = s.value
             /\ f.saved = x \/ \E s \in (saves \ {r}) \cup more : s.live /\ s.stage = "stored"
  <2>1. /\ \A s \in saves : s.live /\ s.stage = "stored" => x = s.value
        /\ f.saved = x \/ \E s \in saves : s.live /\ s.stage = "stored"
    BY <1>4 DEF PageStands
  <2>2. \A s \in saves : s.stage = "stored" => s # r
    OBVIOUS
  <2> QED BY <2>1, <2>2
<1> QED BY <1>1, <1>2, <1>3, <1>4 DEF PageStands

(* A save whose line is written.                                           *)
LEMMA StandsOnWrite ==
    ASSUME NEW f, NEW saves, NEW said, PageStands(f, saves, said), NEW r \in saves, NEW more,
           \A s, t \in more : s = t /\ s.live /\ r.live /\ s.stage = "stored" /\ s.value = r.value,
           r.live => more # {}
    PROVE  PageStands(f, (saves \ {r}) \cup more, {r.value})
<1>1. \A s \in saves \ {r} : s.live => ~r.live
  BY DEF PageStands
<1>2. \A s, t \in (saves \ {r}) \cup more : s.live /\ t.live => s = t
  BY <1>1 DEF PageStands
<1>3. \A s \in (saves \ {r}) \cup more : s.live \/ f.doubt
  BY DEF PageStands
<1>4. Idle((saves \ {r}) \cup more) => Idle(saves)
  <2>1. ASSUME \A s \in (saves \ {r}) \cup more : ~s.live, NEW s \in saves PROVE ~s.live
    <3>1. ~r.live
      BY <2>1
    <3> QED BY <2>1, <3>1
  <2> QED BY <2>1 DEF Idle
<1>5. ASSUME ~f.doubt
      PROVE  /\ \A s \in (saves \ {r}) \cup more : s.live /\ s.stage = "stored" => r.value = s.value
             /\ \E s \in (saves \ {r}) \cup more : s.live /\ s.stage = "stored"
  <2>1. r.live
    BY <1>5 DEF PageStands
  <2> QED BY <1>1, <2>1
<1> QED BY <1>2, <1>3, <1>4, <1>5 DEF PageStands

(* Every step keeps the third layer.                                       *)
LEMMA PageHolds == ASSUME ShapeInv, PageInv, [Next]_vars PROVE PageInv'
<1>1. /\ CountTypeOK /\ NoneHasNoLines /\ RequestsHaveLines
      /\ count \in [Counts -> CountRow] /\ requests \in SUBSET Request
      /\ field \in [Counts -> [Items -> Field]]
  BY DEF ShapeInv, CountTypeOK
<1>2. ASSUME UNCHANGED <<count, field, requests>> PROVE PageInv'
  <2>1. \A d \in Counts, j \in Items : Untouched(d, j)
    BY <1>2 DEF Untouched, Saves, Said
  <2> QED BY <2>1, AllUntouched
<1>3. ASSUME NEW r \in requests
      PROVE  /\ r \in Request /\ r.count \in Counts /\ r.item \in Items
             /\ r.item \in DOMAIN count[r.count].lines /\ r \in Saves(r.count, r.item)
  BY <1>1, RequestsMade DEF RequestsHaveLines, Saves
<1>4. ASSUME NEW c \in Counts, NEW row, CountSet(c, row), row.lines = count[c].lines,
             UNCHANGED <<field, requests>>
      PROVE  PageInv'
  <2>1. \A d \in Counts : count'[d].lines = count[d].lines
    BY <1>4 DEF CountSet
  <2>2. \A d \in Counts, j \in Items : Untouched(d, j)
    BY <1>4, <2>1 DEF Untouched, Saves, Said
  <2> QED BY <2>2, AllUntouched
<1>5. CASE UNCHANGED vars
  BY <1>2, <1>5 DEF vars
<1>6. ASSUME NEW d \in Documents, Begin(d) \/ Commit(d) PROVE PageInv'
  BY <1>2, <1>6 DEF Begin, Commit
<1>7. ASSUME NEW c \in Counts, Create(c) PROVE PageInv'
  <2>1. PICK row : row = [count[c] EXCEPT !.status = "draft", !.lines = [i \in Scope[c] |-> Uncounted]]
    OBVIOUS
  <2>2. CountSet(c, row)
    BY <1>1, <1>7, <2>1, CountsSet
  <2>3. DOMAIN count[c].lines = {}
    BY <1>1, <1>7 DEF Create, NoneHasNoLines
  <2>4. row.lines = [i \in Scope[c] |-> Uncounted]
    BY <1>1, <2>1 DEF CountRow
  <2>5. \A i \in DOMAIN row.lines : EntryOf(row.lines[i]) = Empty
    BY <2>4 DEF Uncounted, EntryOf, Empty
  <2>6. UNCHANGED <<field, requests>>
    BY <1>7 DEF Create
  <2> QED BY <2>2, <2>3, <2>5, <2>6, NewLinesStand
<1>8. ASSUME NEW c \in Counts, NEW i \in Items, AddLine(c, i) PROVE PageInv'
  <2>1. PICK row : row = [count[c] EXCEPT !.lines = [j \in DOMAIN count[c].lines \cup {i} |->
                                     IF j = i THEN Uncounted ELSE count[c].lines[j]]]
    OBVIOUS
  <2>2. CountSet(c, row)
    BY <1>1, <1>8, <2>1, CountsSet
  <2>3. i \notin DOMAIN count[c].lines /\ UNCHANGED <<field, requests>>
    BY <1>8 DEF AddLine
  <2>4. row.lines = [j \in DOMAIN count[c].lines \cup {i} |->
                        IF j = i THEN Uncounted ELSE count[c].lines[j]]
    BY <1>1, <2>1 DEF CountRow
  <2>5. \A j \in DOMAIN row.lines :
            IF j \in DOMAIN count[c].lines
            THEN EntryOf(row.lines[j]) = EntryOf(count[c].lines[j])
            ELSE EntryOf(row.lines[j]) = Empty
    <3>1. EntryOf(Uncounted) = Empty
      BY DEF Uncounted, EntryOf, Empty
    <3> QED BY <2>3, <2>4, <3>1
  <2>6. DOMAIN count[c].lines \in SUBSET (DOMAIN row.lines)
    BY <2>4
  <2> QED BY <2>2, <2>3, <2>5, <2>6, NewLinesStand
<1>9. ASSUME NEW c \in Counts, Cancel(c) PROVE PageInv'
  <2>1. PICK row : row = [count[c] EXCEPT !.status = "cancelled"]
    OBVIOUS
  <2>2. CountSet(c, row) /\ row.lines = count[c].lines
    BY <1>1, <1>9, <2>1, CountsSet DEF CountRow
  <2> QED BY <1>4, <1>9, <2>2 DEF Cancel
<1>10. ASSUME NEW c \in Counts, NEW ack \in BOOLEAN, ApplyReview(c, ack) PROVE PageInv'
  BY <1>2, <1>10 DEF ApplyReview
<1>11. ASSUME NEW c \in Counts, ApplyPost(c) PROVE PageInv'
  <2>1. CASE TooLittle(CountLines(c))
    BY <1>2, <1>11, <2>1 DEF ApplyPost
  <2>2. CASE ~TooLittle(CountLines(c))
    <3>1. PICK row : row = [count[c] EXCEPT !.status = "applied", !.acked = desk[c].ack,
                                            !.seen = desk[c].seen]
      OBVIOUS
    <3>2. CountSet(c, row) /\ row.lines = count[c].lines
      BY <1>1, <1>11, <2>2, <3>1, CountsSet DEF CountRow
    <3> QED BY <1>4, <1>11, <3>2 DEF ApplyPost
  <2> QED BY <2>1, <2>2
<1>12. ASSUME NEW c \in Counts, NEW i \in Items PROVE field[c][i] \in Field /\ PageStands(field[c][i], Saves(c, i), Said(c, i))
  BY <1>1 DEF PageInv
<1>13. ASSUME NEW c \in Counts, NEW i \in Items, Typed(c, i) PROVE PageInv'
  <2>1. PICK f \in Field : f = field[c][i]
    BY <1>12
  <2>2. PICK e \in Entry, at \in {"figure", "note"} : FieldSet(c, i, TypedAs(f, e, at))
    BY <1>1, <1>13, <2>1, FieldsSet
  <2>3. PICK g : g = TypedAs(f, e, at) /\ FieldSet(c, i, g)
    BY <2>2
  <2>4. PageStands(g, Saves(c, i), Said(c, i))
    BY <1>12, <2>1, <2>3, StandsOnType
  <2>5. requests' = (requests \ {}) \cup {} /\ UNCHANGED count
    BY <1>13, TypedAlone
  <2>6. (Saves(c, i) \ {}) \cup {} = Saves(c, i) /\ OfPlace({}, c, i)
    BY DEF OfPlace
  <2> QED BY <2>3, <2>4, <2>5, <2>6, PlaceStands
<1>14. ASSUME NEW c \in Counts, NEW i \in Items, Leave(c, i) PROVE PageInv'
  <2>1. PICK f \in Field : f = field[c][i]
    BY <1>12
  <2>2. PICK saves, said : saves = Saves(c, i) /\ said = Said(c, i)
    OBVIOUS
  <2>3. ~InFlight(c, i) <=> Idle(saves)
    BY <2>2 DEF InFlight, Idle, Saves
  <2>4. PICK t : t = IF ~InFlight(c, i) /\ f.value # f.saved THEN "saving" ELSE f.state
    OBVIOUS
  <2>5. PICK g : g = [f EXCEPT !.focus = "none", !.state = t]
    OBVIOUS
  <2>6. FieldSet(c, i, g)
    BY <1>1, <1>14, <2>1, <2>4, <2>5, FieldsSet
  <2>7. PICK more : more = IF Idle(saves) /\ f.value # f.saved THEN {Save(c, i, f)} ELSE {}
    OBVIOUS
  <2>8. /\ Save(c, i, f).live /\ Save(c, i, f).stage = "sent"
        /\ Save(c, i, f).count = c /\ Save(c, i, f).item = i
    BY DEF Save
  <2>9. \A s, u \in more : s = u /\ s.live /\ s.stage = "sent"
    BY <2>7, <2>8
  <2>10. IF Idle(saves) /\ f.value # f.saved THEN \E s \in more : s.live ELSE more = {}
    BY <2>7, <2>8
  <2>11. PageStands(g, saves \cup more, said)
    BY <1>12, <2>1, <2>2, <2>5, <2>9, <2>10, StandsOnLeave
  <2>12. requests' = (requests \ {}) \cup more /\ UNCHANGED count
    BY <1>14, <2>1, <2>3, <2>7 DEF Leave
  <2>13. (Saves(c, i) \ {}) \cup more = saves \cup more
    BY <2>2
  <2>14. OfPlace({}, c, i) /\ OfPlace(more, c, i)
    BY <2>7, <2>8 DEF OfPlace
  <2> QED BY <2>2, <2>6, <2>11, <2>12, <2>13, <2>14, PlaceStands
<1>15. ASSUME NEW r \in requests, NEW more, OfPlace(more, r.count, r.item),
              requests' = (requests \ {r}) \cup more, UNCHANGED <<count, field>>,
              PageStands(field[r.count][r.item], (Saves(r.count, r.item) \ {r}) \cup more,
                         Said(r.count, r.item))
       PROVE  PageInv'
  <2>1. PICK c \in Counts, i \in Items : c = r.count /\ i = r.item
    BY <1>3
  <2>2. PICK f \in Field : f = field[c][i]
    BY <1>12
  <2>3. FieldSet(c, i, f)
    BY <1>1, <1>15, <2>2 DEF FieldSet
  <2>4. OfPlace({r}, c, i)
    BY <2>1 DEF OfPlace
  <2> QED BY <1>15, <2>1, <2>2, <2>3, <2>4, PlaceStands
<1>16. ASSUME NEW r \in requests, NEW s
       PROVE  /\ s = [r EXCEPT !.stage = "read", !.system = shelf[r.item], !.at = Len(rows)]
                     => /\ s.count = r.count /\ s.item = r.item /\ s.live = r.live
                        /\ s.stage = "read"
              /\ s = [r EXCEPT !.stage = "refused"]
                     => /\ s.count = r.count /\ s.item = r.item /\ s.live = r.live
                        /\ s.stage = "refused"
              /\ s = [r EXCEPT !.stage = "stored"]
                     => /\ s.count = r.count /\ s.item = r.item /\ s.live = r.live
                        /\ s.stage = "stored" /\ s.value = r.value
              /\ s = [r EXCEPT !.live = FALSE]
                     => s.count = r.count /\ s.item = r.item /\ ~s.live
  <2>1. r \in Request
    BY <1>3
  <2> QED BY <2>1 DEF Request
<1>17. ASSUME NEW r \in requests, SaveRead(r) \/ SaveRefused(r) PROVE PageInv'
  <2>1. PICK more : /\ requests' = (requests \ {r}) \cup more
                    /\ \/ more = {[r EXCEPT !.stage = "read", !.system = shelf[r.item],
                                            !.at = Len(rows)]}
                       \/ more = {[r EXCEPT !.stage = "refused"]}
                       \/ more = {} /\ ~r.live
    <3>1. CASE SaveRead(r)
      BY <3>1 DEF SaveRead, Advance
    <3>2. CASE SaveRefused(r) /\ r.live
      BY <3>2 DEF SaveRefused, Advance
    <3>3. CASE SaveRefused(r) /\ ~r.live
      <4>1. requests' = (requests \ {r}) \cup {}
        BY <3>3 DEF SaveRefused
      <4> QED BY <3>3, <4>1
    <3> QED BY <1>17, <3>1, <3>2, <3>3
  <2>2. r.stage = "sent" /\ UNCHANGED <<count, field>>
    BY <1>17 DEF SaveRead, SaveRefused
  <2>3. /\ \A s, t \in more : s = t /\ s.live = r.live /\ s.stage # "stored"
        /\ r.live => more # {}
        /\ OfPlace(more, r.count, r.item)
    <3>1. CASE more = {} /\ ~r.live
      BY <3>1 DEF OfPlace
    <3>2. CASE more # {}
      <4>1. PICK s : more = {s} /\ (\/ s = [r EXCEPT !.stage = "read", !.system = shelf[r.item],
                                                     !.at = Len(rows)]
                                   \/ s = [r EXCEPT !.stage = "refused"])
        BY <2>1, <3>2
      <4>2. s.count = r.count /\ s.item = r.item /\ s.live = r.live /\ s.stage # "stored"
        BY <1>16, <4>1
      <4> QED BY <4>1, <4>2 DEF OfPlace
    <3> QED BY <2>1, <3>1, <3>2
  <2>4. PICK f, saves, said : /\ f = field[r.count][r.item] /\ saves = Saves(r.count, r.item)
                              /\ said = Said(r.count, r.item)
    OBVIOUS
  <2>5. PageStands(f, saves, said) /\ r \in saves
    BY <1>3, <1>12, <2>4
  <2>6. PageStands(f, (saves \ {r}) \cup more, said)
    BY <2>2, <2>3, <2>5, StandsOnAdvance
  <2> QED BY <1>15, <2>1, <2>2, <2>3, <2>4, <2>6
<1>18. ASSUME NEW r \in requests, SaveWrite(r) PROVE PageInv'
  <2>1. PICK c \in Counts, i \in Items : c = r.count /\ i = r.item /\ i \in DOMAIN count[c].lines
    BY <1>3
  <2>2. PICK row : row = [count[c] EXCEPT !.lines = [count[c].lines EXCEPT ![i] = Stamped(r)]]
    OBVIOUS
  <2>3. CountSet(c, row)
    BY <1>1, <1>18, <2>1, <2>2, CountsSet
  <2>4. row.lines = [count[c].lines EXCEPT ![i] = Stamped(r)]
    BY <1>1, <2>2 DEF CountRow
  <2>5. EntryOf(Stamped(r)) = r.value
    <3>1. r.value \in Entry
      BY <1>3, RequestsMade
    <3>2. Stamped(r).counted = r.value.counted /\ Stamped(r).note = r.value.note
      BY DEF Stamped, Uncounted
    <3> QED BY <3>1, <3>2 DEF EntryOf, Entry
  <2>6. PICK lines : lines = count[c].lines /\ lines \in [DOMAIN lines -> Line]
    BY <1>1, OnItemsMade, CountRowsMade
  <2>7. /\ DOMAIN row.lines = DOMAIN lines /\ row.lines[i] = Stamped(r)
        /\ \A j \in DOMAIN lines : j # i => row.lines[j] = lines[j]
    BY <2>1, <2>4, <2>6
  <2>8. \A d \in Counts, j \in Items : d # c \/ j # i => Said(d, j)' = Said(d, j)
    <3>1. ASSUME NEW d \in Counts, NEW j \in Items, d # c PROVE Said(d, j)' = Said(d, j)
      BY <2>3, <3>1 DEF Said, CountSet
    <3>2. ASSUME NEW j \in Items, j # i PROVE Said(c, j)' = Said(c, j)
      <4>1. count'[c].lines = row.lines
        BY <2>3 DEF CountSet
      <4>2. CASE j \in DOMAIN lines
        <5>1. Said(c, j)' = {EntryOf(row.lines[j])}
          BY <2>7, <4>1, <4>2 DEF Said
        <5>2. Said(c, j) = {EntryOf(lines[j])}
          BY <2>6, <4>2 DEF Said
        <5> QED BY <2>7, <3>2, <4>2, <5>1, <5>2
      <4>3. CASE j \notin DOMAIN lines
        BY <2>6, <2>7, <4>1, <4>3 DEF Said
      <4> QED BY <4>2, <4>3
    <3> QED BY <3>1, <3>2
  <2>9. Said(c, i)' = {r.value}
    <3>1. count'[c].lines = row.lines
      BY <2>3 DEF CountSet
    <3>2. i \in DOMAIN count'[c].lines /\ EntryOf(count'[c].lines[i]) = r.value
      BY <2>1, <2>5, <2>6, <2>7, <3>1
    <3> QED BY <3>2 DEF Said
  <2>10. PICK more : /\ requests' = (requests \ {r}) \cup more
                     /\ IF r.live THEN more = {[r EXCEPT !.stage = "stored"]} ELSE more = {}
    <3>1. CASE r.live
      BY <1>18, <3>1 DEF SaveWrite, Advance
    <3>2. CASE ~r.live
      <4>1. requests' = (requests \ {r}) \cup {}
        BY <1>18, <3>2 DEF SaveWrite
      <4> QED BY <3>2, <4>1
    <3> QED BY <3>1, <3>2
  <2>11. /\ \A s, t \in more : s = t /\ s.live /\ r.live /\ s.stage = "stored" /\ s.value = r.value
         /\ r.live => more # {}
         /\ OfPlace(more, c, i) /\ OfPlace({r}, c, i)
    <3>1. CASE r.live
      <4>1. PICK s : s = [r EXCEPT !.stage = "stored"] /\ more = {s}
        BY <2>10, <3>1
      <4>2. /\ s.count = r.count /\ s.item = r.item /\ s.live = r.live
            /\ s.stage = "stored" /\ s.value = r.value
        BY <1>16, <4>1
      <4> QED BY <2>1, <3>1, <4>1, <4>2 DEF OfPlace
    <3>2. CASE ~r.live
      BY <2>1, <2>10, <3>2 DEF OfPlace
    <3> QED BY <3>1, <3>2
  <2>12. PICK f, saves, said : f = field[c][i] /\ saves = Saves(c, i) /\ said = Said(c, i)
    OBVIOUS
  <2>13. PageStands(f, saves, said) /\ r \in saves
    BY <1>3, <1>12, <2>1, <2>12
  <2>14. PageStands(f, (saves \ {r}) \cup more, {r.value})
    BY <2>11, <2>13, StandsOnWrite
  <2>15. /\ Saves(c, i)' = (Saves(c, i) \ {r}) \cup more
         /\ \A d, j : d # c \/ j # i => Saves(d, j)' = Saves(d, j)
    BY <2>10, <2>11, SavesOfPlace
  <2>16. UNCHANGED field
    BY <1>18 DEF SaveWrite
  <2>17. PageStands(field[c][i], Saves(c, i), Said(c, i))'
    <3>1. PICK now, says : now = (saves \ {r}) \cup more /\ says = {r.value}
      OBVIOUS
    <3>2. f = field'[c][i] /\ now = Saves(c, i)' /\ says = Said(c, i)'
      BY <2>9, <2>12, <2>15, <2>16, <3>1
    <3> QED BY <2>14, <3>1, <3>2
  <2>18. \A d \in Counts, j \in Items : d # c \/ j # i => Untouched(d, j)
    BY <2>8, <2>15, <2>16 DEF Untouched
  <2> QED BY <2>17, <2>18, UntouchedStands
<1>19. ASSUME NEW r \in requests, Saved(r) PROVE PageInv'
  <2>1. PICK c \in Counts, i \in Items : c = r.count /\ i = r.item
    BY <1>3
  <2>2. PICK f \in Field : f = field[c][i]
    BY <1>12
  <2>3. FieldSet(c, i, Answered(f, r.value))
    BY <1>1, <1>19, <2>1, <2>2, FieldsSet
  <2>4. PICK more : more = IF f.value # r.value THEN {Save(c, i, f)} ELSE {}
    OBVIOUS
  <2>5. /\ Save(c, i, f).live /\ Save(c, i, f).stage = "sent"
        /\ Save(c, i, f).count = c /\ Save(c, i, f).item = i
    BY DEF Save
  <2>6. /\ \A s, t \in more : s = t /\ s.live /\ s.stage = "sent"
        /\ IF f.value # r.value THEN \E s \in more : s.live ELSE more = {}
        /\ OfPlace(more, c, i) /\ OfPlace({r}, c, i)
    BY <2>1, <2>4, <2>5 DEF OfPlace
  <2>7. PICK saves, said : saves = Saves(c, i) /\ said = Said(c, i)
    OBVIOUS
  <2>8. PageStands(f, saves, said) /\ r \in saves /\ r.live /\ r.stage = "stored"
    BY <1>3, <1>12, <1>19, <2>1, <2>2, <2>7 DEF Saved
  <2>9. PageStands(Answered(f, r.value), (saves \ {r}) \cup more, said)
    BY <2>6, <2>8, StandsOnAnswer
  <2>10. requests' = (requests \ {r}) \cup more /\ UNCHANGED count
    BY <1>19, <2>1, <2>2, <2>4 DEF Saved
  <2> QED BY <2>3, <2>6, <2>7, <2>9, <2>10, PlaceStands
<1>20. ASSUME NEW r \in requests, NotSaved(r) PROVE PageInv'
  <2>1. PICK c \in Counts, i \in Items : c = r.count /\ i = r.item
    BY <1>3
  <2>2. PICK f \in Field, g \in {[field[c][i] EXCEPT !.state = "error"]} :
            f = field[c][i] /\ g = [f EXCEPT !.state = "error"]
    BY <1>12
  <2>3. FieldSet(c, i, g)
    BY <1>1, <1>20, <2>1, <2>2, FieldsSet
  <2>4. PICK saves, said : saves = Saves(c, i) /\ said = Said(c, i)
    OBVIOUS
  <2>5. \A s \in {r} : s.stage # "stored"
    BY <1>20 DEF NotSaved
  <2>6. PageStands(g, saves \ {r}, said)
    BY <1>12, <2>2, <2>4, <2>5, StandsOnError
  <2>7. /\ requests' = (requests \ {r}) \cup {} /\ UNCHANGED count
        /\ (Saves(c, i) \ {r}) \cup {} = saves \ {r}
    BY <1>20, <2>4 DEF NotSaved
  <2>8. OfPlace({r}, c, i) /\ OfPlace({}, c, i)
    BY <2>1 DEF OfPlace
  <2> QED BY <2>3, <2>4, <2>6, <2>7, <2>8, PlaceStands
<1>21. ASSUME NEW r \in requests, Drop(r) PROVE PageInv'
  <2>1. PICK c \in Counts, i \in Items : c = r.count /\ i = r.item
    BY <1>3
  <2>2. PICK f \in Field, g \in {[field[c][i] EXCEPT !.state = "error", !.doubt = TRUE]} :
            f = field[c][i] /\ g = [f EXCEPT !.state = "error", !.doubt = TRUE]
    BY <1>12
  <2>3. FieldSet(c, i, g)
    BY <1>1, <1>21, <2>1, <2>2, FieldsSet
  <2>4. PICK saves, said : saves = Saves(c, i) /\ said = Said(c, i)
    OBVIOUS
  <2>5. PICK more : /\ requests' = (requests \ {r}) \cup more
                    /\ more = {} \/ more = {[r EXCEPT !.live = FALSE]}
    <3>1. CASE requests' = requests \ {r}
      <4>1. requests' = (requests \ {r}) \cup {}
        BY <3>1
      <4> QED BY <4>1
    <3>2. CASE Advance(r, [r EXCEPT !.live = FALSE])
      BY <3>2 DEF Advance
    <3> QED BY <1>21, <3>1, <3>2 DEF Drop
  <2>6. (\A s \in more : ~s.live) /\ OfPlace(more, c, i) /\ OfPlace({r}, c, i)
    BY <1>16, <2>1, <2>5 DEF OfPlace
  <2>7. PageStands(g, (saves \ {r}) \cup more, said)
    BY <1>12, <2>2, <2>4, <2>6, StandsOnDrop
  <2>8. UNCHANGED count
    BY <1>21 DEF Drop
  <2> QED BY <2>3, <2>4, <2>5, <2>6, <2>7, <2>8, PlaceStands
<1> QED BY <1>5, <1>6, <1>7, <1>8, <1>9, <1>10, <1>11, <1>13, <1>14, <1>17, <1>18, <1>19, <1>20,
           <1>21 DEF Next, Typed

-----------------------------------------------------------------------------
(* The fourth layer: the shelf and the ledger. *)

(* The fourth layer holds of an empty ledger.                              *)
LEMMA LedgerStarts == Init => LedgerInv
<1> SUFFICES ASSUME Init PROVE LedgerInv
  OBVIOUS
<1>1. requests = {} /\ rows = <<>> /\ \A c \in Counts : ~desk[c].open /\ count[c].lines = NoLines
  BY DEF Init, Closed
<1>2. ASSUME NEW c \in Counts PROVE Counted(c) = {}
  BY <1>1 DEF Counted, NoLines
<1>3. ASSUME NEW c \in Counts PROVE LinesStand(c) /\ DeskStands(c)
  BY <1>1, <1>2 DEF LinesStand, DeskStands
<1>4. ReadsFollow /\ RowsAreApplied
  BY <1>1 DEF ReadsFollow, RowsAreApplied
<1> QED BY <1>3, <1>4 DEF LedgerInv

(* What rows add up to is a whole number.                                  *)
LEMMA RowsSum ==
    ASSUME CountTypeOK, NEW ks \in SUBSET (DOMAIN rows), NEW i
    PROVE  Sum(rows, ks, i) \in Int
<1>1. PICK old \in Seq(RowSet) : old = rows
  BY DEF CountTypeOK
<1>2. \A n \in DOMAIN old : old[n] \in RowSet
  OBVIOUS
<1>3. \A n \in ks : old[n].qty \in Int
  BY <1>1, <1>2 DEF RowSet
<1>4. DOMAIN old = 1..Len(old) /\ Len(old) \in Nat
  OBVIOUS
<1>5. IsFiniteSet(ks)
  <2>1. IsFiniteSet(1..Len(old))
    BY <1>4, FS_Interval
  <2>2. ks \in SUBSET (1..Len(old))
    BY <1>1, <1>4
  <2> QED BY <2>1, <2>2, FS_Subset
<1>6. Sum(old, ks, i) \in Int
  BY <1>3, <1>5, SumIsSum
<1> QED BY <1>1, <1>6

(* A post of doc leaves every figure and what moved since on the shelf,    *)
(* and every applied figure but those of doc itself.                       *)
LEMMA PostKeeps ==
    ASSUME CountTypeOK, NEW doc \in Documents \cup Counts, NEW lines \in Seq(DocumentLine),
           ~TooLittle(lines), Moves(doc, lines),
           NEW i \in Items, NEW line, line.at \in Nat
    PROVE  /\ line.system \in Int /\ Pending(i, line) => Pending(i, line)'
           /\ \A c \in Counts :
                 c # doc /\ line.counted \in Int /\ Settled(c, i, line) => Settled(c, i, line)'
<1>1. /\ rows' \in Seq(RowSet) /\ Len(rows') = Len(rows) + Len(lines)
      /\ \A n \in DOMAIN rows : rows'[n] = rows[n]
      /\ \A k \in DOMAIN lines : rows'[Len(rows) + k].doc = doc
      /\ shelf'[i] = shelf[i] + Sum(lines, DOMAIN lines, i)
      /\ \A since \in SUBSET (DOMAIN rows) :
            Sum(rows', since \cup Beyond(Len(rows), Len(lines)), i)
                = Sum(rows, since, i) + Sum(lines, DOMAIN lines, i)
  BY MovesMade
<1>2. PICK old \in Seq(RowSet), all \in Seq(RowSet), n \in Nat, m \in Nat, at \in Nat :
          old = rows /\ all = rows' /\ n = Len(rows) /\ m = Len(lines) /\ at = line.at
  BY <1>1 DEF CountTypeOK
<1>3. /\ DOMAIN old = 1..n /\ DOMAIN all = 1..(n + m) /\ DOMAIN lines = 1..m
      /\ \A k \in 1..n : all[k] = old[k]
      /\ \A k \in 1..m : all[n + k].doc = doc
  <2>1. DOMAIN lines = 1..m /\ DOMAIN old = 1..n
    BY <1>2
  <2>2. Len(all) = n + m
    BY <1>1, <1>2
  <2>3. DOMAIN all = 1..(n + m)
    BY <2>2
  <2>4. \A k \in DOMAIN old : all[k] = old[k]
    BY <1>1, <1>2
  <2>5. \A k \in DOMAIN lines : all[n + k].doc = doc
    BY <1>1, <1>2
  <2> QED BY <2>1, <2>3, <2>4, <2>5
<1>4. \A k \in Beyond(n, m) : k \in 1..(n + m) /\ k > n /\ all[k].doc = doc
  <2> SUFFICES ASSUME NEW k \in Beyond(n, m)
               PROVE  k \in 1..(n + m) /\ k > n /\ all[k].doc = doc
    OBVIOUS
  <2>1. k - n \in 1..m /\ n + (k - n) = k
    BY DEF Beyond
  <2>2. all[n + (k - n)].doc = doc
    BY <1>3, <2>1
  <2> QED BY <2>1, <2>2
<1>5. \A k \in 1..(n + m) : k \in 1..n \/ k \in Beyond(n, m)
  BY DEF Beyond
<1>6. PICK moved \in Int : moved = Sum(lines, DOMAIN lines, i)
  <2>1. \A k \in DOMAIN lines : lines[k] \in DocumentLine
    OBVIOUS
  <2>2. \A k \in DOMAIN lines : lines[k].qty \in Int
    BY <2>1 DEF DocumentLine
  <2>3. DOMAIN lines = 1..m
    BY <1>3
  <2>4. IsFiniteSet(1..m)
    BY FS_Interval
  <2>5. IsFiniteSet(DOMAIN lines)
    BY <2>3, <2>4
  <2> QED BY <2>2, <2>5, SumIsSum
<1>7. shelf[i] \in Int
  BY DEF CountTypeOK
<1>8. ASSUME NEW figure \in Int, NEW since \in SUBSET (DOMAIN rows), at <= n,
             shelf[i] = figure + Sum(rows, since, i)
      PROVE  /\ at <= Len(rows')
             /\ shelf'[i] = figure + Sum(rows', since \cup Beyond(n, m), i)
  <2>1. PICK was \in Int : was = Sum(rows, since, i)
    BY RowsSum
  <2>2. Sum(rows', since \cup Beyond(n, m), i) = was + moved
    BY <1>1, <1>2, <1>6, <2>1
  <2>3. shelf'[i] = (figure + was) + moved
    BY <1>1, <1>6, <1>8, <2>1
  <2>4. Len(rows') = n + m
    BY <1>1, <1>2
  <2> QED BY <1>8, <2>2, <2>3, <2>4
<1>9. ASSUME line.system \in Int, Pending(i, line) PROVE Pending(i, line)'
  <2>1. at <= n /\ shelf[i] = line.system + Sum(rows, After(line.at), i)
    BY <1>2, <1>9 DEF Pending
  <2>2. After(line.at)' = After(line.at) \cup Beyond(n, m)
    <3>1. \A k : k \in 1..(n + m) /\ k > at <=> (k \in 1..n /\ k > at) \/ k \in Beyond(n, m)
      BY <1>4, <1>5, <2>1
    <3>2. After(line.at)' = {k \in 1..(n + m) : k > at}
      BY <1>2, <1>3 DEF After
    <3>3. After(line.at) = {k \in 1..n : k > at}
      BY <1>2, <1>3 DEF After
    <3> QED BY <3>1, <3>2, <3>3
  <2>3. After(line.at) \in SUBSET (DOMAIN rows)
    BY DEF After
  <2>4. at <= Len(rows') /\ shelf'[i] = line.system + Sum(rows', After(line.at) \cup Beyond(n, m), i)
    BY <1>8, <1>9, <2>1, <2>3
  <2>5. PICK now : now = After(line.at)' /\ now = After(line.at) \cup Beyond(n, m)
    BY <2>2
  <2>6. shelf'[i] = line.system + Sum(rows', now, i)
    BY <2>4, <2>5
  <2> QED BY <1>2, <2>4, <2>5, <2>6 DEF Pending
<1>10. ASSUME NEW c \in Counts, c # doc, line.counted \in Int, Settled(c, i, line)
       PROVE  Settled(c, i, line)'
  <2>1. at <= n /\ shelf[i] = line.counted + Sum(rows, Since(c, line.at), i)
    BY <1>2, <1>10 DEF Settled
  <2>2. Since(c, line.at)' = Since(c, line.at) \cup Beyond(n, m)
    <3>1. \A k : k \in 1..(n + m) /\ k > at /\ all[k].doc # c
                   <=> (k \in 1..n /\ k > at /\ old[k].doc # c) \/ k \in Beyond(n, m)
      BY <1>3, <1>4, <1>5, <1>10, <2>1
    <3>2. Since(c, line.at)' = {k \in 1..(n + m) : k > at /\ all[k].doc # c}
      BY <1>2, <1>3 DEF Since
    <3>3. Since(c, line.at) = {k \in 1..n : k > at /\ old[k].doc # c}
      BY <1>2, <1>3 DEF Since
    <3> QED BY <3>1, <3>2, <3>3
  <2>3. Since(c, line.at) \in SUBSET (DOMAIN rows)
    BY DEF Since
  <2>4. /\ at <= Len(rows')
        /\ shelf'[i] = line.counted + Sum(rows', Since(c, line.at) \cup Beyond(n, m), i)
    BY <1>8, <1>10, <2>1, <2>3
  <2>5. PICK now : now = Since(c, line.at)' /\ now = Since(c, line.at) \cup Beyond(n, m)
    BY <2>2
  <2>6. shelf'[i] = line.counted + Sum(rows', now, i)
    BY <2>4, <2>5
  <2> QED BY <1>2, <2>4, <2>5, <2>6 DEF Settled
<1> QED BY <1>9, <1>10

(* The post of a count settles its own lines.                              *)
LEMMA PostSettles ==
    ASSUME CountTypeOK, NEW c \in Counts, ~TooLittle(CountLines(c)), Moves(c, CountLines(c)),
           \A n \in DOMAIN rows : rows[n].doc # c,
           NEW i \in Counted(c), NEW line \in Line, line = count[c].lines[i], Pending(i, line),
           Difference(c, i) = IF i \in DOMAIN desk[c].post THEN desk[c].post[i] ELSE 0
    PROVE  Settled(c, i, line)'
<1> DEFINE lines == CountLines(c)
<1>1. /\ lines \in Seq(DocumentLine) /\ i \in Items
      /\ line.counted \in Nat /\ line.system \in Nat /\ line.at \in Nat
      /\ Difference(c, i) = line.counted - line.system
  BY CountLinesMade, CountedLines
<1>2. Sum(lines, DOMAIN lines, i) = line.counted - line.system
  BY <1>1, CountLinesMade
<1> HIDE DEF lines
<1>3. /\ rows' \in Seq(RowSet) /\ Len(rows') = Len(rows) + Len(lines)
      /\ \A n \in DOMAIN rows : rows'[n] = rows[n]
      /\ \A k \in DOMAIN lines : rows'[Len(rows) + k].doc = c
      /\ shelf'[i] = shelf[i] + Sum(lines, DOMAIN lines, i)
  BY <1>1, MovesMade DEF lines
<1>4. PICK old \in Seq(RowSet), all \in Seq(RowSet), n \in Nat, m \in Nat, at \in Nat :
          old = rows /\ all = rows' /\ n = Len(rows) /\ m = Len(lines) /\ at = line.at
  BY <1>1, <1>3 DEF CountTypeOK
<1>5. /\ DOMAIN old = 1..n /\ DOMAIN all = 1..(n + m) /\ DOMAIN lines = 1..m
      /\ \A k \in 1..n : all[k] = old[k]
      /\ \A k \in 1..m : all[n + k].doc = c
  <2>1. DOMAIN lines = 1..m /\ DOMAIN old = 1..n
    BY <1>1, <1>4
  <2>2. Len(all) = n + m
    BY <1>3, <1>4
  <2>3. DOMAIN all = 1..(n + m)
    BY <2>2
  <2>4. \A k \in DOMAIN old : all[k] = old[k]
    BY <1>3, <1>4
  <2>5. \A k \in DOMAIN lines : all[n + k].doc = c
    BY <1>3, <1>4
  <2> QED BY <2>1, <2>3, <2>4, <2>5
<1>6. \A k \in 1..(n + m) : k \in 1..n \/ all[k].doc = c
  <2> SUFFICES ASSUME NEW k \in 1..(n + m), k \notin 1..n PROVE all[k].doc = c
    OBVIOUS
  <2>1. k - n \in 1..m /\ n + (k - n) = k
    OBVIOUS
  <2> QED BY <1>5, <2>1
<1>7. Since(c, line.at)' = After(line.at)
  <2>1. \A k : k \in 1..(n + m) /\ k > at /\ all[k].doc # c <=> k \in 1..n /\ k > at
    <3>1. \A k \in 1..n : k \in 1..(n + m) /\ all[k].doc # c
      BY <1>4, <1>5
    <3> QED BY <1>6, <3>1
  <2>2. Since(c, line.at)' = {k \in 1..(n + m) : k > at /\ all[k].doc # c}
    BY <1>4, <1>5 DEF Since
  <2>3. After(line.at) = {k \in 1..n : k > at}
    BY <1>4, <1>5 DEF After
  <2> QED BY <2>1, <2>2, <2>3
<1>8. PICK after \in SUBSET (DOMAIN rows) : after = After(line.at) /\ after = Since(c, line.at)'
  BY <1>7 DEF After
<1>9. PICK was \in Int : was = Sum(rows, after, i)
  BY RowsSum
<1>10. Sum(rows', after, i) = was
  <2>1. \A k \in DOMAIN old : old[k] \in RowSet
    OBVIOUS
  <2>2. \A k \in after : /\ old[k].qty \in Int
                         /\ all[k].qty = old[k].qty /\ all[k].item = old[k].item
    BY <1>4, <1>5, <1>8, <2>1 DEF RowSet
  <2>3. IsFiniteSet(after)
    <3>1. IsFiniteSet(1..n)
      BY FS_Interval
    <3>2. after \in SUBSET (1..n)
      BY <1>4, <1>5, <1>8
    <3> QED BY <3>1, <3>2, FS_Subset
  <2>4. Sum(all, after, i) = Sum(old, after, i)
    BY <2>2, <2>3, SumAgrees
  <2> QED BY <1>4, <1>9, <2>4
<1>11. at <= n /\ shelf[i] = line.system + was
  BY <1>4, <1>8, <1>9 DEF Pending
<1>12. shelf'[i] = (line.system + was) + (line.counted - line.system)
  BY <1>2, <1>3, <1>11
<1>13. shelf'[i] = line.counted + was
  <2>1. PICK figure \in Int, system \in Int : figure = line.counted /\ system = line.system
    BY <1>1
  <2>2. (system + was) + (figure - system) = figure + was
    OBVIOUS
  <2> QED BY <1>12, <2>1, <2>2, Zenon
<1>14. line.at <= Len(rows')
  <2>1. Len(rows') = n + m
    BY <1>3, <1>4
  <2> QED BY <1>4, <1>11, <2>1
<1> QED BY <1>8, <1>10, <1>13, <1>14 DEF Settled

(* The shelf and the ledger stay, or doc posts its lines.                  *)
PostsOnly(doc) ==
    \/ UNCHANGED <<shelf, rows>>
    \/ /\ doc \in Documents \cup Counts
       /\ \E lines \in Seq(DocumentLine) : ~TooLittle(lines) /\ Moves(doc, lines)

Spares(doc, c) == doc # c \/ UNCHANGED <<shelf, rows>>

(* What is new in the ledger is of the document that posts.                *)
LEMMA RowsOfPost ==
    ASSUME CountTypeOK, NEW doc, PostsOnly(doc),
           NEW n \in DOMAIN rows'
    PROVE  (n \in DOMAIN rows /\ rows'[n] = rows[n]) \/ rows'[n].doc = doc
<1>1. CASE UNCHANGED <<shelf, rows>>
  BY <1>1
<1>2. ASSUME doc \in Documents \cup Counts, NEW lines \in Seq(DocumentLine), ~TooLittle(lines),
             Moves(doc, lines)
      PROVE  (n \in DOMAIN rows /\ rows'[n] = rows[n]) \/ rows'[n].doc = doc
  <2>1. /\ rows' \in Seq(RowSet) /\ Len(rows') = Len(rows) + Len(lines)
        /\ \A k \in DOMAIN rows : rows'[k] = rows[k]
        /\ \A k \in DOMAIN lines : rows'[Len(rows) + k].doc = doc
    BY <1>2, MovesMade
  <2>2. PICK old \in Seq(RowSet), all \in Seq(RowSet), m \in Nat, k \in Nat :
            old = rows /\ all = rows' /\ m = Len(lines) /\ k = Len(rows)
    <3>1. rows \in Seq(RowSet)
      BY DEF CountTypeOK
    <3>2. Len(rows) \in Nat /\ Len(lines) \in Nat
      BY <3>1
    <3> QED BY <2>1, <3>1, <3>2
  <2>3. DOMAIN old = 1..k /\ DOMAIN lines = 1..m
    BY <2>2
  <2>4. Len(all) = k + m
    BY <2>1, <2>2
  <2>5. n \in 1..(k + m)
    BY <2>2, <2>4
  <2>6. CASE n \in 1..k
    BY <2>1, <2>2, <2>3, <2>6
  <2>7. CASE n \notin 1..k
    <3>1. n - k \in 1..m /\ k + (n - k) = n
      BY <2>5, <2>7
    <3>2. \A j \in DOMAIN lines : all[k + j].doc = doc
      BY <2>1, <2>2
    <3>3. all[k + (n - k)].doc = doc
      BY <2>3, <3>1, <3>2
    <3> QED BY <2>2, <3>1, <3>3
  <2> QED BY <2>6, <2>7
<1> QED BY <1>1, <1>2 DEF PostsOnly

(* A post moves a shelf by the rows that it adds, so figures keep.         *)
LEMMA FiguresKept ==
    ASSUME CountTypeOK, NEW doc, PostsOnly(doc),
           NEW i \in Items, NEW line, line.at \in Nat
    PROVE  /\ line.system \in Int /\ Pending(i, line) => Pending(i, line)'
           /\ \A c \in Counts :
                 Spares(doc, c) /\ line.counted \in Int /\ Settled(c, i, line)
                     => Settled(c, i, line)'
<1>1. CASE UNCHANGED <<shelf, rows>>
  BY <1>1 DEF Pending, Settled, After, Since
<1>2. ASSUME doc \in Documents \cup Counts, NEW lines \in Seq(DocumentLine), ~TooLittle(lines),
             Moves(doc, lines)
      PROVE  /\ line.system \in Int /\ Pending(i, line) => Pending(i, line)'
             /\ \A c \in Counts :
                   Spares(doc, c) /\ line.counted \in Int /\ Settled(c, i, line)
                       => Settled(c, i, line)'
  <2>1. CASE UNCHANGED <<shelf, rows>>
    BY <1>1, <2>1
  <2>2. CASE ~UNCHANGED <<shelf, rows>>
    <3>1. \A c : Spares(doc, c) => c # doc
      BY <2>2 DEF Spares
    <3> QED BY <1>2, <3>1, PostKeeps
  <2> QED BY <2>1, <2>2
<1> QED BY <1>1, <1>2 DEF PostsOnly

(* So do the lines of a count that is left alone.                          *)
LEMMA LinesKept ==
    ASSUME CountTypeOK, NEW doc, PostsOnly(doc),
           NEW c \in Counts, Spares(doc, c), LinesStand(c), count'[c] = count[c]
    PROVE  LinesStand(c)'
<1>1. Counted(c)' = Counted(c)
  BY DEF Counted
<1>2. ASSUME NEW i \in Counted(c), NEW line \in Line, line = count[c].lines[i]
      PROVE  IF count[c].status = "applied" THEN Settled(c, i, line)' ELSE Pending(i, line)'
  <2>1. /\ i \in Items /\ line.at \in Nat /\ line.system \in Int /\ line.counted \in Int
    BY <1>2, CountedLines
  <2>2. IF count[c].status = "applied" THEN Settled(c, i, line) ELSE Pending(i, line)
    BY <1>2 DEF LinesStand
  <2> QED BY <2>1, <2>2, FiguresKept
<1> QED BY <1>1, <1>2 DEF LinesStand

(* A save that has read may be another than it was, of the same figure.    *)
LEMMA ReadsKept ==
    ASSUME CountTypeOK, NEW doc, PostsOnly(doc),
           ReadsFollow, NoNewRead, requests' \in SUBSET Request
    PROVE  ReadsFollow'
<1> SUFFICES ASSUME NEW r \in requests', r.stage = "read" PROVE Pending(r.item, r)'
  BY DEF ReadsFollow
<1>1. PICK s \in requests : /\ s.stage = "read" /\ s.item = r.item
                            /\ s.system = r.system /\ s.at = r.at
  BY DEF NoNewRead
<1>2. Pending(s.item, s)
  BY <1>1 DEF ReadsFollow
<1>3. Pending(r.item, r)
  BY <1>1, <1>2 DEF Pending
<1>4. r.item \in Items /\ r.at \in Nat /\ r.system \in Int
  <2>1. PICK q \in Request : q = r
    OBVIOUS
  <2>2. q.item \in Items /\ q.at \in Nat /\ q.system \in Nat
    BY DEF Request
  <2> QED BY <2>1, <2>2
<1> QED BY <1>3, <1>4, FiguresKept

(* A step that touches no count and opens no desk.                         *)
LEMMA LedgerOfRest ==
    ASSUME CountTypeOK, LedgerInv, NEW doc, PostsOnly(doc), \A c \in Counts : Spares(doc, c),
           NoNewRead,
           requests' \in SUBSET Request, UNCHANGED count,
           \A c \in Counts : desk'[c] = desk[c] \/ ~desk'[c].open
    PROVE  LedgerInv'
<1>1. \A n \in DOMAIN rows' :
          rows'[n].doc \in Counts => n \in DOMAIN rows /\ rows'[n] = rows[n]
  BY RowsOfPost DEF Spares
<1>2. ASSUME NEW c \in Counts PROVE LinesStand(c)'
  <2>1. LinesStand(c) /\ count'[c] = count[c]
    BY DEF LedgerInv
  <2> QED BY <2>1, LinesKept
<1>3. ASSUME NEW c \in Counts PROVE DeskStands(c)'
  <2>1. CASE desk'[c] = desk[c]
    BY <2>1 DEF LedgerInv, DeskStands, Counted, Difference
  <2>2. CASE ~desk'[c].open
    BY <2>2 DEF DeskStands
  <2> QED BY <2>1, <2>2
<1>4. ReadsFollow'
  BY ReadsKept DEF LedgerInv
<1>5. RowsAreApplied'
  <2> SUFFICES ASSUME NEW n \in DOMAIN rows', rows'[n].doc \in Counts
               PROVE  count[rows'[n].doc].status = "applied"
    BY DEF RowsAreApplied
  <2>1. n \in DOMAIN rows /\ rows'[n] = rows[n]
    BY <1>1
  <2> QED BY <2>1 DEF LedgerInv, RowsAreApplied
<1> QED BY <1>2, <1>3, <1>4, <1>5 DEF LedgerInv

(* A step that sets the row of a closed count that is not applied.         *)
LEMMA LedgerOfCountSet ==
    ASSUME CountTypeOK, LedgerInv, NEW c \in Counts, NEW row, CountSet(c, row),
           count[c].status # "applied", row.status # "applied", ~desk[c].open,
           \A i \in DOMAIN row.lines : row.lines[i].counted # Blank =>
               \/ i \in DOMAIN count[c].lines /\ row.lines[i] = count[c].lines[i]
               \/ Pending(i, row.lines[i]),
           NoNewRead, requests' \in SUBSET Request, UNCHANGED <<shelf, rows, desk>>
    PROVE  LedgerInv'
<1>1. /\ count'[c] = row /\ \A d \in Counts : d # c => count'[d] = count[d]
      /\ count \in [Counts -> CountRow]
  BY DEF CountSet, CountTypeOK
<1>2. \A i, line : Pending(i, line)' <=> Pending(i, line)
  BY DEF Pending, After
<1>3. ASSUME NEW d \in Counts PROVE LinesStand(d)'
  <2>1. CASE d # c
    <3>1. Counted(d)' = Counted(d) /\ LinesStand(d) /\ count'[d] = count[d]
      BY <1>1, <2>1 DEF Counted, LedgerInv
    <3>2. \A i, line : Settled(d, i, line)' <=> Settled(d, i, line)
      BY DEF Settled, Since
    <3> QED BY <1>2, <3>1, <3>2 DEF LinesStand
  <2>2. CASE d = c
    <3>1. Counted(c)' = {i \in DOMAIN row.lines : row.lines[i].counted # Blank}
      BY <1>1 DEF Counted
    <3>2. ASSUME NEW i \in Counted(c)', NEW line \in Line, line = row.lines[i]
          PROVE  Pending(i, line)'
      <4>1. \/ i \in DOMAIN count[c].lines /\ line = count[c].lines[i] /\ line.counted # Blank
            \/ Pending(i, line)
        BY <3>1, <3>2
      <4>2. ASSUME i \in DOMAIN count[c].lines, line = count[c].lines[i], line.counted # Blank
            PROVE  Pending(i, line)
        BY <4>2 DEF LedgerInv, LinesStand, Counted
      <4> QED BY <1>2, <4>1, <4>2
    <3> QED BY <1>1, <2>2, <3>2 DEF LinesStand
  <2> QED BY <2>1, <2>2
<1>4. ASSUME NEW d \in Counts PROVE DeskStands(d)'
  <2>1. CASE d # c
    BY <1>1, <2>1 DEF LedgerInv, DeskStands, Counted, Difference
  <2>2. CASE d = c
    BY <2>2 DEF DeskStands
  <2> QED BY <2>1, <2>2
<1>5. ReadsFollow'
  <2> SUFFICES ASSUME NEW r \in requests', r.stage = "read" PROVE Pending(r.item, r)'
    BY DEF ReadsFollow
  <2>1. PICK s \in requests : /\ s.stage = "read" /\ s.item = r.item
                              /\ s.system = r.system /\ s.at = r.at
    BY DEF NoNewRead
  <2>2. Pending(s.item, s)
    BY <2>1 DEF LedgerInv, ReadsFollow
  <2>3. Pending(r.item, r)
    BY <2>1, <2>2 DEF Pending
  <2> QED BY <1>2, <2>3
<1>6. RowsAreApplied'
  BY <1>1 DEF LedgerInv, RowsAreApplied
<1> QED BY <1>3, <1>4, <1>5, <1>6 DEF LedgerInv

(* Every step keeps the fourth layer.                                      *)
LEMMA LedgerHolds == ASSUME ShapeInv, ReviewInv, LedgerInv, [Next]_vars PROVE LedgerInv'
<1>1. CountTypeOK /\ CountTypeOK'
  BY ShapeHolds DEF ShapeInv
<1>2. /\ rows \in Seq(RowSet) /\ count \in [Counts -> CountRow] /\ desk \in [Counts -> DeskRow]
      /\ shelf \in [Items -> Nat]
      /\ requests \in SUBSET Request /\ requests' \in SUBSET Request
  BY <1>1 DEF CountTypeOK
<1>3. /\ \A r \in requests : r.stage = "read" =>
             r.count \in Counts /\ count[r.count].status = "draft" /\ ~desk[r.count].open
      /\ \A c \in Counts : desk[c].open => count[c].status = "draft"
  BY <1>2, RequestsMade DEF ReviewInv, ReadIsAlone, OpenIsDraft
<1>4. ASSUME UNCHANGED <<shelf, rows, count>>, NoNewRead,
             \A c \in Counts : desk'[c] = desk[c] \/ ~desk'[c].open
      PROVE  LedgerInv'
  <2>1. PICK doc : PostsOnly(doc) /\ \A c \in Counts : Spares(doc, c)
    BY <1>4 DEF PostsOnly, Spares
  <2> QED BY <1>1, <1>2, <1>4, <2>1, LedgerOfRest
<1>5. CASE UNCHANGED vars
  BY <1>1, <1>4, <1>5, ReadsAreOld DEF vars
<1>6. ASSUME NEW d \in Documents, Begin(d) PROVE LedgerInv'
  BY <1>1, <1>4, <1>6, ReadsAreOld DEF Begin
<1>7. ASSUME NEW d \in Documents, Commit(d) PROVE LedgerInv'
  <2>1. Lines[d] \in Seq(DocumentLine) /\ d \in Documents \cup Counts /\ d \notin Counts
    BY CountAssumption DEF CountAssumption
  <2>2. PostsOnly(d)
    BY <1>7, <2>1 DEF Commit, PostsOnly
  <2>3. \A c \in Counts : Spares(d, c)
    BY <2>1 DEF Spares
  <2>4. UNCHANGED <<count, desk, requests>>
    BY <1>7 DEF Commit
  <2> QED BY <1>1, <1>2, <2>2, <2>3, <2>4, ReadsAreOld, LedgerOfRest
<1>8. ASSUME NEW c \in Counts, Create(c) PROVE LedgerInv'
  <2>1. PICK row : row = [count[c] EXCEPT !.status = "draft", !.lines = [i \in Scope[c] |-> Uncounted]]
    OBVIOUS
  <2>2. CountSet(c, row)
    BY <1>1, <1>2, <1>8, <2>1, CountsSet
  <2>3. row.status = "draft" /\ row.lines = [i \in Scope[c] |-> Uncounted]
    BY <1>2, <2>1 DEF CountRow
  <2>4. \A i \in DOMAIN row.lines : row.lines[i].counted = Blank
    BY <2>3 DEF Uncounted
  <2>5. ~desk[c].open /\ count[c].status # "applied"
    BY <1>3, <1>8 DEF Create
  <2>6. UNCHANGED <<shelf, rows, desk, requests>>
    BY <1>8 DEF Create
  <2> QED BY <1>1, <1>2, <2>2, <2>3, <2>4, <2>5, <2>6, ReadsAreOld, LedgerOfCountSet
<1>9. ASSUME NEW c \in Counts, NEW i \in Items, AddLine(c, i) PROVE LedgerInv'
  <2>1. PICK row : row = [count[c] EXCEPT !.lines = [j \in DOMAIN count[c].lines \cup {i} |->
                                     IF j = i THEN Uncounted ELSE count[c].lines[j]]]
    OBVIOUS
  <2>2. CountSet(c, row)
    BY <1>1, <1>2, <1>9, <2>1, CountsSet
  <2>3. count[c].status = "draft" /\ ~desk[c].open /\ UNCHANGED <<shelf, rows, desk, requests>>
    BY <1>9 DEF AddLine
  <2>4. /\ row.status = "draft"
        /\ row.lines = [j \in DOMAIN count[c].lines \cup {i} |->
                           IF j = i THEN Uncounted ELSE count[c].lines[j]]
    BY <1>2, <2>1, <2>3 DEF CountRow
  <2>5. \A j \in DOMAIN row.lines : row.lines[j].counted # Blank =>
            j \in DOMAIN count[c].lines /\ row.lines[j] = count[c].lines[j]
    BY <2>4 DEF Uncounted
  <2> QED BY <1>1, <1>2, <2>2, <2>3, <2>4, <2>5, ReadsAreOld, LedgerOfCountSet
<1>10. ASSUME NEW c \in Counts, Cancel(c) PROVE LedgerInv'
  <2>1. PICK row : row = [count[c] EXCEPT !.status = "cancelled"]
    OBVIOUS
  <2>2. CountSet(c, row) /\ row.status = "cancelled" /\ row.lines = count[c].lines
    BY <1>1, <1>2, <1>10, <2>1, CountsSet DEF CountRow
  <2>3. /\ count[c].status = "draft" /\ ~desk[c].open
        /\ UNCHANGED <<shelf, rows, desk, requests>>
    BY <1>10 DEF Cancel, Free
  <2> QED BY <1>1, <1>2, <2>2, <2>3, ReadsAreOld, LedgerOfCountSet
<1>11. ASSUME NEW c \in Counts, NEW ack \in BOOLEAN, ApplyReview(c, ack) PROVE LedgerInv'
  <2>1. UNCHANGED <<shelf, rows, count, requests>>
    BY <1>11 DEF ApplyReview
  <2>2. PICK row : /\ DeskSet(c, row)
                   /\ row.post = [i \in {j \in Counted(c) : Difference(c, j) # 0} |->
                                     Difference(c, i)]
    <3>1. PICK post : post = [i \in {j \in Counted(c) : Difference(c, j) # 0} |->
                                 Difference(c, i)]
      OBVIOUS
    <3>2. DeskSet(c, [open |-> TRUE, ack |-> ack, seen |-> Len(rows), post |-> post])
      BY <1>1, <1>11, <3>1, DesksSet
    <3> QED BY <3>1, <3>2
  <2>3. \A i \in Counted(c) : Difference(c, i) = IF i \in DOMAIN row.post THEN row.post[i] ELSE 0
    BY <2>2
  <2>4. desk'[c] = row /\ \A d \in Counts : d # c => desk'[d] = desk[d]
    BY <2>2 DEF DeskSet
  <2>5. ASSUME NEW d \in Counts PROVE Counted(d)' = Counted(d) /\ \A i : Difference(d, i)' = Difference(d, i)
    BY <2>1 DEF Counted, Difference
  <2>6. ASSUME NEW d \in Counts PROVE DeskStands(d)'
    <3>1. CASE d = c
      BY <2>3, <2>4, <2>5, <3>1 DEF DeskStands
    <3>2. CASE d # c
      BY <2>4, <2>5, <3>2 DEF DeskStands, LedgerInv
    <3> QED BY <3>1, <3>2
  <2>7. ASSUME NEW d \in Counts PROVE LinesStand(d)'
    BY <2>1, <2>5 DEF LedgerInv, LinesStand, Pending, Settled, After, Since
  <2>8. ReadsFollow'
    BY <2>1 DEF LedgerInv, ReadsFollow, Pending, After
  <2>9. RowsAreApplied'
    BY <2>1 DEF LedgerInv, RowsAreApplied
  <2> QED BY <2>6, <2>7, <2>8, <2>9 DEF LedgerInv
<1>12. ASSUME NEW c \in Counts, ApplyPost(c) PROVE LedgerInv'
  <2>1. /\ desk'[c] = Closed /\ ~desk'[c].open
        /\ \A d \in Counts : d # c => desk'[d] = desk[d]
    BY <1>1, <1>12, DesksSet DEF DeskSet, Closed
  <2>2. desk[c].open /\ UNCHANGED requests /\ NoNewRead
    BY <1>1, <1>12, ReadsAreOld DEF ApplyPost
  <2>3. CASE TooLittle(CountLines(c))
    BY <1>4, <1>12, <2>1, <2>2, <2>3 DEF ApplyPost
  <2>4. CASE ~TooLittle(CountLines(c))
    <3>1. PICK row : row = [count[c] EXCEPT !.status = "applied", !.acked = desk[c].ack,
                                            !.seen = desk[c].seen]
      OBVIOUS
    <3>2. CountSet(c, row) /\ row.status = "applied" /\ row.lines = count[c].lines
      BY <1>1, <1>2, <1>12, <2>4, <3>1, CountsSet DEF CountRow
    <3>3. /\ count'[c].lines = count[c].lines /\ count'[c].status = "applied"
          /\ \A d \in Counts : d # c => count'[d] = count[d]
      BY <3>2 DEF CountSet
    <3>4. Moves(c, CountLines(c)) /\ CountLines(c) \in Seq(DocumentLine)
      BY <1>1, <1>12, <2>4, CountLinesMade DEF ApplyPost
    <3>5. PostsOnly(c)
      BY <2>4, <3>4 DEF PostsOnly
    <3>6. \A n \in DOMAIN rows : rows[n].doc # c
      BY <1>3, <2>2 DEF LedgerInv, RowsAreApplied
    <3>7. LinesStand(c)'
      <4>1. Counted(c)' = Counted(c)
        BY <3>3 DEF Counted
      <4>2. ASSUME NEW i \in Counted(c), NEW line \in Line, line = count[c].lines[i]
            PROVE  Settled(c, i, line)'
        <5>1. Pending(i, line)
          BY <1>3, <2>2, <4>2 DEF LedgerInv, LinesStand
        <5>2. Difference(c, i) = IF i \in DOMAIN desk[c].post THEN desk[c].post[i] ELSE 0
          BY <2>2, <4>2 DEF LedgerInv, DeskStands
        <5> QED BY <1>1, <2>4, <3>4, <3>6, <4>2, <5>1, <5>2, PostSettles
      <4> QED BY <3>3, <4>1, <4>2 DEF LinesStand
    <3>8. ASSUME NEW d \in Counts, d # c PROVE LinesStand(d)'
      <4>1. Spares(c, d) /\ LinesStand(d) /\ count'[d] = count[d]
        BY <3>3, <3>8 DEF Spares, LedgerInv
      <4> QED BY <1>1, <3>5, <4>1, LinesKept
    <3>9. ASSUME NEW d \in Counts PROVE DeskStands(d)'
      <4>1. CASE d = c
        BY <2>1, <4>1 DEF DeskStands
      <4>2. CASE d # c
        BY <2>1, <3>3, <4>2 DEF LedgerInv, DeskStands, Counted, Difference
      <4> QED BY <4>1, <4>2
    <3>10. ReadsFollow'
      BY <1>1, <1>2, <2>2, <3>5, ReadsKept DEF LedgerInv
    <3>11. RowsAreApplied'
      <4> SUFFICES ASSUME NEW n \in DOMAIN rows', rows'[n].doc \in Counts
                   PROVE  count'[rows'[n].doc].status = "applied"
        BY DEF RowsAreApplied
      <4>1. CASE rows'[n].doc = c
        BY <3>3, <4>1
      <4>2. CASE rows'[n].doc # c
        <5>1. n \in DOMAIN rows /\ rows'[n] = rows[n]
          BY <1>1, <3>5, <4>2, RowsOfPost
        <5> QED BY <3>3, <4>2, <5>1 DEF LedgerInv, RowsAreApplied
      <4> QED BY <4>1, <4>2
    <3> QED BY <3>7, <3>8, <3>9, <3>10, <3>11 DEF LedgerInv
  <2> QED BY <2>3, <2>4
<1>13. ASSUME NEW c \in Counts, NEW i \in Items, Typed(c, i) PROVE LedgerInv'
  <2>1. UNCHANGED <<shelf, rows, document, count, desk, requests>>
    BY <1>13, TypedAlone
  <2> QED BY <1>1, <1>4, <2>1, ReadsAreOld
<1>14. ASSUME NEW c \in Counts, NEW i \in Items, Leave(c, i) PROVE LedgerInv'
  BY <1>1, <1>4, <1>14, ReadsAreOld DEF Leave
<1>15. ASSUME NEW r \in requests, SaveRead(r) PROVE LedgerInv'
  <2>1. PICK s : /\ s = [r EXCEPT !.stage = "read", !.system = shelf[r.item], !.at = Len(rows)]
                 /\ requests' = (requests \ {r}) \cup {s}
    BY <1>15 DEF SaveRead, Advance
  <2>2. r \in Request /\ r.item \in Items /\ UNCHANGED <<shelf, rows, count, desk>>
    BY <1>2, <1>15, RequestsMade DEF SaveRead
  <2>3. s.item = r.item /\ s.system = shelf[r.item] /\ s.at = Len(rows)
    BY <2>1, <2>2 DEF Request
  <2>4. Pending(s.item, s)
    <3>1. PICK old \in Seq(RowSet) : old = rows
      BY <1>2
    <3>2. {n \in DOMAIN old : n > Len(old)} = {}
      OBVIOUS
    <3>3. PICK none : none = After(s.at) /\ none = {}
      BY <2>3, <3>1, <3>2 DEF After
    <3>4. Sum(rows, none, s.item) = 0
      BY <3>3, SumOfNone
    <3>5. shelf[s.item] = s.system + 0 /\ s.at <= Len(rows)
      <4>1. shelf[s.item] \in Nat /\ Len(old) \in Nat
        BY <1>2, <2>2, <2>3
      <4> QED BY <2>3, <3>1, <4>1
    <3> QED BY <3>3, <3>4, <3>5 DEF Pending
  <2>5. \A i, line : Pending(i, line)' <=> Pending(i, line)
    BY <2>2 DEF Pending, After
  <2>6. ReadsFollow'
    BY <2>1, <2>4, <2>5 DEF LedgerInv, ReadsFollow
  <2>7. ASSUME NEW d \in Counts PROVE LinesStand(d)' /\ DeskStands(d)'
    <3>1. Counted(d)' = Counted(d) /\ \A i : Difference(d, i)' = Difference(d, i)
      BY <2>2 DEF Counted, Difference
    <3>2. \A i, line : Settled(d, i, line)' <=> Settled(d, i, line)
      BY <2>2 DEF Settled, Since
    <3>3. LinesStand(d)'
      BY <2>2, <2>5, <3>1, <3>2 DEF LedgerInv, LinesStand
    <3>4. DeskStands(d)'
      BY <2>2, <3>1 DEF LedgerInv, DeskStands
    <3> QED BY <3>3, <3>4
  <2>8. RowsAreApplied'
    BY <2>2 DEF LedgerInv, RowsAreApplied
  <2> QED BY <2>6, <2>7, <2>8 DEF LedgerInv
<1>16. ASSUME NEW r \in requests, SaveRefused(r) \/ Saved(r) \/ NotSaved(r) \/ Drop(r)
       PROVE  LedgerInv'
  <2>1. UNCHANGED <<shelf, rows, count, desk>>
    BY <1>16 DEF SaveRefused, Saved, NotSaved, Drop
  <2> QED BY <1>1, <1>4, <1>16, <2>1, ReadsAreOld
<1>17. ASSUME NEW r \in requests, SaveWrite(r) PROVE LedgerInv'
  <2>1. PICK c \in Counts, i \in Items : c = r.count /\ i = r.item /\ i \in DOMAIN count[c].lines
    BY <1>2, RequestsMade DEF ShapeInv, RequestsHaveLines
  <2>2. PICK row, line : /\ line = Stamped(r)
                         /\ row = [count[c] EXCEPT !.lines = [count[c].lines EXCEPT ![i] = line]]
    OBVIOUS
  <2>3. CountSet(c, row)
    BY <1>1, <1>2, <1>17, <2>1, <2>2, CountsSet
  <2>4. r.stage = "read" /\ UNCHANGED <<shelf, rows, desk>>
    BY <1>17 DEF SaveWrite
  <2>5. count[c].status = "draft" /\ ~desk[c].open
    BY <1>3, <2>1, <2>4
  <2>6. /\ row.status = "draft" /\ row.lines = [count[c].lines EXCEPT ![i] = line]
    BY <1>2, <2>2, <2>5 DEF CountRow
  <2>7. line.counted # Blank => line.system = r.system /\ line.at = r.at
    BY <2>2 DEF Stamped, Uncounted
  <2>8. Pending(i, r)
    BY <2>1, <2>4 DEF LedgerInv, ReadsFollow
  <2>9. line.counted # Blank => Pending(i, line)
    BY <2>7, <2>8 DEF Pending
  <2>10. PICK lines : lines = count[c].lines /\ lines \in [DOMAIN lines -> Line]
    BY <1>2, OnItemsMade, CountRowsMade
  <2>11. \A j \in DOMAIN row.lines : row.lines[j].counted # Blank =>
             \/ j \in DOMAIN count[c].lines /\ row.lines[j] = count[c].lines[j]
             \/ Pending(j, row.lines[j])
    <3>1. /\ DOMAIN row.lines = DOMAIN lines /\ row.lines[i] = line
          /\ \A j \in DOMAIN lines : j # i => row.lines[j] = lines[j]
      BY <2>1, <2>6, <2>10
    <3> QED BY <2>9, <2>10, <3>1
  <2> QED BY <1>1, <1>2, <1>17, <2>3, <2>4, <2>5, <2>6, <2>11, ReadsAreOld, LedgerOfCountSet
<1> QED BY <1>5, <1>6, <1>7, <1>8, <1>9, <1>10, <1>11, <1>12, <1>13, <1>14, <1>15, <1>16, <1>17
        DEF Next, Typed

-----------------------------------------------------------------------------
(* The invariant holds, and what it says of the code. *)

(* The invariant holds of the first state, and of every state that a step  *)
(* leads to.                                                               *)
THEOREM CountInvariant == Spec => []CountInv
<1>1. Init => CountInv
  BY ShapeStarts, ReviewStarts, PageStarts, LedgerStarts DEF CountInv
<1>2. CountInv /\ [Next]_vars => CountInv'
  BY ShapeHolds, ReviewHolds, PageHolds, LedgerHolds DEF CountInv
<1> QED BY <1>1, <1>2, PTL DEF Spec

(* stockCountController: what is applied is the figure against the         *)
(* snapshot that the save took which stored it last, however many counts   *)
(* and documents move the shelf before, between and after.  The moment is  *)
(* that of the last save, be it of a note alone, and not that of the       *)
(* counting: what moved between the two is undone, which is no theorem.    *)
THEOREM CountsAppliedFromLastStamp == Spec => []AppliedFromLastStamp
<1>1. CountInv => AppliedFromLastStamp
  <2> SUFFICES ASSUME CountInv, NEW c \in Counts, count[c].status = "applied",
                      NEW i \in Counted(c)
               PROVE  shelf[i] = count[c].lines[i].counted
                                 + Sum(rows, Since(c, count[c].lines[i].at), i)
    BY DEF AppliedFromLastStamp, MovedAfter, Since
  <2>1. PICK line \in Line : line = count[c].lines[i]
    BY CountedLines DEF CountInv, ShapeInv
  <2>2. Settled(c, i, line)
    BY <2>1 DEF CountInv, LedgerInv, LinesStand
  <2> QED BY <2>1, <2>2 DEF Settled
<1> QED BY <1>1, CountInvariant, PTL

(* A count that was applied without an acknowledgement had no movement     *)
(* that its review could have seen.                                        *)
THEOREM UnflaggedOnlyForCause == Spec => []UnflaggedHasCause
<1>1. CountInv => UnflaggedHasCause
  <2> SUFFICES ASSUME CountInv, NEW c \in Counts, count[c].status = "applied", ~count[c].acked,
                      NEW i \in Counted(c), NEW n \in DOMAIN rows,
                      rows[n].item = i, n <= count[c].seen
               PROVE  rows[n].doc \in count[c].lines[i].before
    BY DEF UnflaggedHasCause
  <2>1. PICK seen \in Nat : seen = count[c].seen
    BY DEF CountInv, ShapeInv, CountTypeOK, CountRow
  <2>2. Flagless(c, seen)
    BY <2>1 DEF CountInv, ReviewInv, ReviewStands, ReviewStandsOf
  <2> QED BY <2>1, <2>2 DEF Flagless
<1> QED BY <1>1, CountInvariant, PTL

(* A field that was left, with nothing out and no error, shows what the    *)
(* server has.                                                             *)
THEOREM FieldsAreStored == Spec => []FieldIsStored
<1>1. CountInv => FieldIsStored
  <2> SUFFICES ASSUME CountInv, NEW c \in Counts, NEW i \in Items,
                      field[c][i].focus = "none", ~InFlight(c, i), field[c][i].state # "error"
               PROVE  /\ field[c][i].value = field[c][i].saved
                      /\ ~field[c][i].doubt /\ i \in DOMAIN count[c].lines
                            => field[c][i].saved = EntryOf(count[c].lines[i])
    BY DEF FieldIsStored
  <2>1. PageStands(field[c][i], Saves(c, i), Said(c, i))
    BY DEF CountInv, PageInv
  <2>2. \A r \in Saves(c, i) : ~r.live
    BY DEF InFlight, Saves
  <2>3. field[c][i].value = field[c][i].saved
    BY <2>1, <2>2 DEF PageStands, Idle
  <2>4. ASSUME ~field[c][i].doubt, i \in DOMAIN count[c].lines
        PROVE  field[c][i].saved = EntryOf(count[c].lines[i])
    <3>1. EntryOf(count[c].lines[i]) \in Said(c, i)
      BY <2>4 DEF Said
    <3> QED BY <2>1, <2>2, <2>4, <3>1 DEF PageStands
  <2> QED BY <2>3, <2>4
<1> QED BY <1>1, CountInvariant, PTL

-----------------------------------------------------------------------------
(* Every document and every applied count is one post of the ledger. *)

(* A line as the ledger has it: of the one warehouse there is.             *)
InLedger(line) == [item |-> line.item, wh |-> 1, qty |-> line.qty, type |-> line.type]

(* What the ledger's lines move of an item is what the document's do.      *)
LEMMA MovedIsSum ==
    ASSUME NEW lines \in Seq(DocumentLine), NEW listed,
           DOMAIN listed = DOMAIN lines,
           \A k \in DOMAIN lines : listed[k] = InLedger(lines[k]),
           NEW ks \in SUBSET (DOMAIN lines), NEW i
    PROVE  Ledger!Moved(listed, ks, i, {1}) = Sum(lines, ks, i)
<1> DEFINE at == {k \in ks : listed[k].item = i /\ listed[k].wh \in {1}}
           mine == Of(lines, ks, i)
           f == [k \in at |-> listed[k].qty]
           g == Quantities(lines, ks)
<1>1. \A k \in ks : /\ listed[k].item = lines[k].item /\ listed[k].wh = 1
                    /\ listed[k].qty = lines[k].qty /\ lines[k] \in DocumentLine
  BY DEF InLedger
<1>2. \A k \in ks : lines[k].qty \in Int
  BY <1>1 DEF DocumentLine
<1>3. IsFiniteSet(ks)
  <2>1. DOMAIN lines = 1..Len(lines) /\ Len(lines) \in Nat
    OBVIOUS
  <2>2. IsFiniteSet(1..Len(lines))
    BY <2>1, FS_Interval
  <2>3. ks \in SUBSET (1..Len(lines))
    BY <2>1
  <2> QED BY <2>2, <2>3, FS_Subset
<1>4. Sum(lines, ks, i) = SumOf(g, mine) /\ IsFiniteSet(mine)
  BY <1>2, <1>3, SumIsSum
<1>5. at = mine
  BY <1>1 DEF Of
<1>6. Ledger!Moved(listed, ks, i, {1}) = MapThenSumSet(LAMBDA k : listed[k].qty, at)
  BY DEF Ledger!Moved, Ledger!MapThenSumSet, Ledger!MapThenFoldSet, MapThenSumSet, MapThenFoldSet
<1>7. \A k \in at : f[k] = g[k]
  BY <1>1 DEF Quantities
<1>8. MapThenSumSet(LAMBDA k : listed[k].qty, at) = SumOf(f, at)
  <2>1. IsFiniteSet(at)
    BY <1>4, <1>5
  <2> HIDE DEF at
  <2> QED BY <2>1, SumOfQuantities
<1> HIDE DEF at, mine, f, g
<1>9. SumOf(f, at) = SumOf(g, at)
  BY <1>4, <1>5, <1>7, SumSame
<1> QED BY <1>4, <1>5, <1>6, <1>8, <1>9

(* No document has moved: the shelves are as they were opened.             *)
LEMMA LedgerBegins == Init => Ledger!LedgerInit
<1> SUFFICES ASSUME Init PROVE Ledger!LedgerInit
  OBVIOUS
<1> DEFINE opening == [i \in Items |-> [w \in {1} |-> Opening[i]]]
<1>1. shelf = Opening /\ rows = <<>> /\ Opening \in [Items -> Nat]
  BY CountAssumption DEF Init, CountAssumption
<1>2. ASSUME NEW i \in Items PROVE SumOf(opening[i], {1}) = Opening[i]
  <2> DEFINE f == opening[i]
  <2>1. f[1] = Opening[i] /\ Opening[i] \in Int
    BY <1>1
  <2>2. IsFiniteSet({1}) /\ {1} \ {1} = {}
    BY FS_Singleton
  <2>3. \A x \in {1} : f[x] \in Int
    BY <2>1
  <2> HIDE DEF f
  <2>4. SumOf(f, {1}) = f[1] + SumOf(f, {1} \ {1})
    BY <2>2, <2>3, SumTake
  <2>5. SumOf(f, {1} \ {1}) = 0
    BY <2>2, SumEmpty
  <2>6. SumOf(f, {1}) = Opening[i]
    BY <2>1, <2>4, <2>5
  <2> QED BY <2>6 DEF f
<1>3. Opening = [i \in Items |-> MapThenSumSet(LAMBDA w : opening[i][w], {1})]
  <2>1. \A i \in Items : MapThenSumSet(LAMBDA w : opening[i][w], {1}) = Opening[i]
    BY <1>2 DEF SumOf
  <2> HIDE DEF opening
  <2> QED BY <1>1, <2>1
<1>4. [n \in DOMAIN rows |-> [line |-> [item |-> rows[n].item, wh |-> 1, qty |-> rows[n].qty,
                                       type |-> rows[n].type],
                             doc |-> rows[n].doc, before |-> rows[n].before,
                             after |-> rows[n].after]] = <<>>
  BY <1>1
<1>5. Ledger!LedgerInit
      <=> /\ [i \in Items |-> [w \in {1} |-> shelf[i]]] = opening
          /\ shelf = [i \in Items |-> MapThenSumSet(LAMBDA w : opening[i][w], {1})]
          /\ [n \in DOMAIN rows |-> [line |-> [item |-> rows[n].item, wh |-> 1,
                                              qty |-> rows[n].qty, type |-> rows[n].type],
                                    doc |-> rows[n].doc, before |-> rows[n].before,
                                    after |-> rows[n].after]] = <<>>
  BY DEF Ledger!LedgerInit, Ledger!MapThenSumSet, Ledger!MapThenFoldSet, MapThenSumSet, MapThenFoldSet
<1> QED BY <1>1, <1>3, <1>4, <1>5

(* The rows as the ledger has them.                                        *)
AsLedger(rs) ==
    [n \in DOMAIN rs |->
        [line |-> [item |-> rs[n].item, wh |-> 1, qty |-> rs[n].qty, type |-> rs[n].type],
         doc |-> rs[n].doc, before |-> rs[n].before, after |-> rs[n].after]]

(* What a list holds, as the ledger has it, is joined when lists are.      *)
LEMMA LedgersJoined ==
    ASSUME NEW old \in Seq(RowSet), NEW new \in Seq(RowSet)
    PROVE  /\ Len(AsLedger(old)) = Len(old) /\ Len(AsLedger(old \o new)) = Len(old) + Len(new)
           /\ AsLedger(old \o new) = AsLedger(old) \o AsLedger(new)
           /\ \A k \in 1..Len(new) : AsLedger(old \o new)[Len(old) + k] = AsLedger(new)[k]
<1> DEFINE T == {AsLedger(rs)[n] : rs \in Seq(RowSet), n \in Nat}
<1>1. ASSUME NEW rs \in Seq(RowSet)
      PROVE  AsLedger(rs) \in Seq(T) /\ Len(AsLedger(rs)) = Len(rs)
  <2>1. DOMAIN AsLedger(rs) = 1..Len(rs) /\ Len(rs) \in Nat
    BY DEF AsLedger
  <2>2. \A n \in 1..Len(rs) : AsLedger(rs)[n] \in T
    OBVIOUS
  <2>3. AsLedger(rs) = [n \in 1..Len(rs) |-> AsLedger(rs)[n]]
    BY <2>1 DEF AsLedger
  <2> HIDE DEF T
  <2> QED BY <2>1, <2>2, <2>3
<1> HIDE DEF T
<1>2. /\ old \o new \in Seq(RowSet) /\ Len(old \o new) = Len(old) + Len(new)
      /\ \A n \in DOMAIN old : (old \o new)[n] = old[n]
      /\ \A k \in DOMAIN new : (old \o new)[Len(old) + k] = new[k]
  BY ListsJoined
<1>3. PICK all \in Seq(RowSet) : all = old \o new
  BY <1>2
<1>4. PICK a \in Seq(T), b \in Seq(T), c \in Seq(T) :
          a = AsLedger(old) /\ b = AsLedger(new) /\ c = AsLedger(all)
  BY <1>1
<1>5. Len(a) = Len(old) /\ Len(b) = Len(new) /\ Len(c) = Len(old) + Len(new)
  BY <1>1, <1>2, <1>3, <1>4
<1>6. ASSUME NEW k \in 1..Len(new) PROVE c[Len(old) + k] = b[k]
  <2>1. Len(old) + k \in DOMAIN all /\ k \in DOMAIN new
    BY <1>2, <1>3
  <2>2. all[Len(old) + k] = new[k]
    BY <1>2, <1>3, <2>1
  <2> QED BY <1>4, <2>1, <2>2 DEF AsLedger
<1>7. ASSUME NEW k \in 1..Len(old) PROVE c[k] = a[k]
  <2>1. k \in DOMAIN all /\ k \in DOMAIN old
    BY <1>2, <1>3
  <2>2. all[k] = old[k]
    BY <1>2, <1>3, <2>1
  <2> QED BY <1>4, <2>1, <2>2 DEF AsLedger
<1>8. c = a \o b
  <2>1. \A k \in 1..Len(b) : c[Len(a) + k] = b[k]
    BY <1>5, <1>6
  <2>2. \A k \in 1..Len(a) : c[k] = a[k]
    BY <1>5, <1>7
  <2>3. Len(c) = Len(a) + Len(b)
    BY <1>5
  <2>4. a \o b \in Seq(T) /\ Len(a \o b) = Len(a) + Len(b)
    OBVIOUS
  <2>5. ASSUME NEW n \in 1..(Len(a) + Len(b)) PROVE c[n] = (a \o b)[n]
    <3>1. /\ \A m \in DOMAIN a : (a \o b)[m] = a[m]
          /\ \A k \in DOMAIN b : (a \o b)[Len(a) + k] = b[k]
      BY ListsJoined
    <3>2. CASE n <= Len(a)
      <4>1. n \in 1..Len(a) /\ n \in DOMAIN a
        BY <3>2
      <4> QED BY <2>2, <3>1, <4>1
    <3>3. CASE n > Len(a)
      <4>1. PICK k \in 1..Len(b) : n = Len(a) + k
        <5>1. n - Len(a) \in 1..Len(b) /\ n = Len(a) + (n - Len(a))
          BY <3>3
        <5> QED BY <5>1
      <4>2. k \in DOMAIN b
        OBVIOUS
      <4> QED BY <2>1, <3>1, <4>1, <4>2
    <3> QED BY <3>2, <3>3
  <2>6. PICK d \in Seq(T) : d = a \o b
    BY <2>4
  <2>7. Len(c) = Len(d) /\ DOMAIN c = 1..Len(c) /\ DOMAIN d = 1..Len(d)
    BY <2>3, <2>4, <2>6
  <2>8. \A n \in DOMAIN c : c[n] = d[n]
    BY <2>3, <2>5, <2>6, <2>7
  <2>9. c = [n \in DOMAIN c |-> c[n]] /\ d = [n \in DOMAIN d |-> d[n]]
    OBVIOUS
  <2>10. c = d
    BY <2>7, <2>8, <2>9
  <2> QED BY <2>6, <2>10
<1> QED BY <1>3, <1>4, <1>5, <1>6, <1>8

(* A document that moves something is a post of the ledger.                *)
LEMMA LedgerPosts ==
    ASSUME CountTypeOK, NEW doc \in Documents \cup Counts, NEW lines \in Seq(DocumentLine),
           lines # <<>>, ~TooLittle(lines), Moves(doc, lines)
    PROVE  Ledger!Post
<1> DEFINE start(k) == shelf[lines[k].item] + Sum(lines, 1..(k - 1), lines[k].item)
           new == [k \in DOMAIN lines |-> Row(doc, lines[k], start(k))]
           listed == [k \in DOMAIN lines |-> InLedger(lines[k])]
<1>1. /\ DOMAIN lines = 1..Len(lines) /\ Len(lines) \in Nat /\ Len(lines) > 0
      /\ \A k \in DOMAIN lines : /\ lines[k].item \in Items /\ lines[k].qty \in Int
                                 /\ lines[k].type \in MovementType
  <2>1. \A k \in DOMAIN lines : lines[k] \in DocumentLine
    OBVIOUS
  <2>2. DOMAIN lines = 1..Len(lines) /\ Len(lines) \in Nat /\ Len(lines) > 0
    OBVIOUS
  <2> QED BY <2>1, <2>2 DEF DocumentLine
<1>2. ASSUME NEW k \in DOMAIN lines, NEW i
      PROVE  Sum(lines, 1..k, i) \in Int /\ Sum(lines, 1..(k - 1), i) \in Int
  <2>1. IsFiniteSet(1..k) /\ IsFiniteSet(1..(k - 1))
    BY <1>1, FS_Interval
  <2>2. \A j \in 1..k : lines[j].qty \in Int
    BY <1>1
  <2>3. \A j \in 1..(k - 1) : lines[j].qty \in Int
    BY <1>1
  <2> QED BY <2>1, <2>2, <2>3, SumIsSum
<1>3. shelf \in [Items -> Nat] /\ rows \in Seq(RowSet)
  BY DEF CountTypeOK
<1>4. ASSUME NEW k \in DOMAIN lines
      PROVE  start(k) \in Int /\ start(k) + lines[k].qty = shelf[lines[k].item] + Sum(lines, 1..k, lines[k].item)
  <2> DEFINE i == lines[k].item
  <2>1. PICK A, B : A = 1..(k - 1) /\ B = {k}
    OBVIOUS
  <2>0. k \in 1..Len(lines) /\ k \in Nat
    BY <1>1
  <2>2. A \cup B = 1..k /\ A \cap B = {} /\ \A j \in A \cup B : j \in DOMAIN lines
    BY <1>1, <2>0, <2>1
  <2>7. IsFiniteSet(A) /\ IsFiniteSet(B)
    <3>1. 1 \in Int /\ k - 1 \in Int
      BY <2>0
    <3>2. IsFiniteSet(1..(k - 1))
      BY <3>1, FS_Interval
    <3> QED BY <2>1, <3>2, FS_Singleton
  <2>8. \A j \in A \cup B : lines[j].qty \in Int
    BY <1>1, <2>2
  <2>3. Sum(lines, A \cup B, i) = Sum(lines, A, i) + Sum(lines, B, i)
    <3> HIDE DEF i
    <3> QED BY <2>2, <2>7, <2>8, SumSplit
  <2>4. Sum(lines, B, i) = lines[k].qty
    <3>1. k \in B /\ \A j \in B : lines[j].item = i <=> j = k
      BY <2>1
    <3> HIDE DEF i
    <3> QED BY <2>7, <2>8, <3>1, SumOfOne
  <2> HIDE DEF i
  <2>5. shelf[i] \in Int /\ Sum(lines, A, i) \in Int /\ lines[k].qty \in Int
    BY <1>1, <1>2, <1>3, <2>1 DEF i
  <2>6. shelf[i] + Sum(lines, A, i) + lines[k].qty = shelf[i] + Sum(lines, 1..k, i)
    <3>1. PICK x \in Int, y \in Int, z \in Int :
              x = shelf[i] /\ y = Sum(lines, A, i) /\ z = lines[k].qty
      BY <2>5
    <3>2. Sum(lines, 1..k, i) = y + z
      BY <2>2, <2>3, <2>4, <3>1
    <3> QED BY <3>1, <3>2
  <2>9. start(k) = shelf[i] + Sum(lines, A, i)
    BY <2>1 DEF i
  <2> HIDE DEF start
  <2> QED BY <2>5, <2>6, <2>9 DEF i
<1>5. new \in Seq(RowSet) /\ DOMAIN new = DOMAIN lines /\ Len(new) = Len(lines)
      /\ \A k \in DOMAIN lines : new[k] = Row(doc, lines[k], start(k))
  <2>1. \A k \in DOMAIN lines : Row(doc, lines[k], start(k)) \in RowSet
    <3> SUFFICES ASSUME NEW k \in DOMAIN lines PROVE Row(doc, lines[k], start(k)) \in RowSet
      OBVIOUS
    <3>1. start(k) \in Int
      BY <1>4
    <3> HIDE DEF start
    <3> QED BY <1>1, <3>1 DEF Row, RowSet
  <2> HIDE DEF start
  <2> QED BY <1>1, <2>1
<1>6. rows' = rows \o new
  BY DEF Moves
<1> HIDE DEF start, new
<1>7. PICK old \in Seq(RowSet), all \in Seq(RowSet), more \in Seq(RowSet) :
          old = rows /\ all = rows' /\ more = new /\ all = old \o more
  BY <1>3, <1>5, <1>6, ListsJoined
<1>8. /\ Len(AsLedger(old)) = Len(old) /\ Len(AsLedger(all)) = Len(old) + Len(lines)
      /\ AsLedger(all) = AsLedger(old) \o AsLedger(new)
      /\ \A k \in 1..Len(lines) : AsLedger(all)[Len(old) + k] = AsLedger(new)[k]
  <2>1. Len(more) = Len(lines)
    BY <1>5, <1>7
  <2>2. /\ Len(AsLedger(old)) = Len(old) /\ Len(AsLedger(old \o more)) = Len(old) + Len(more)
        /\ AsLedger(old \o more) = AsLedger(old) \o AsLedger(more)
        /\ \A k \in 1..Len(more) : AsLedger(old \o more)[Len(old) + k] = AsLedger(more)[k]
    BY LedgersJoined
  <2> QED BY <1>7, <2>1, <2>2
<1>9. ASSUME NEW k \in DOMAIN lines
      PROVE  AsLedger(new)[k] = [line |-> listed[k], doc |-> doc, before |-> start(k),
                                 after |-> start(k) + lines[k].qty]
  <2>1. new[k] = Row(doc, lines[k], start(k)) /\ k \in DOMAIN new
    BY <1>5
  <2> QED BY <2>1 DEF AsLedger, Row, InLedger
<1>10. AsLedger(rows)
           = [n \in DOMAIN rows |->
                 [line |-> [item |-> rows[n].item, wh |-> 1, qty |-> rows[n].qty,
                            type |-> rows[n].type],
                  doc |-> rows[n].doc, before |-> rows[n].before, after |-> rows[n].after]]
  BY DEF AsLedger
<1>11. PICK post, past :
         /\ past = AsLedger(old) /\ post = AsLedger(all)
         /\ past = [n \in DOMAIN rows |->
                 [line |-> [item |-> rows[n].item, wh |-> 1, qty |-> rows[n].qty,
                            type |-> rows[n].type],
                  doc |-> rows[n].doc, before |-> rows[n].before, after |-> rows[n].after]]
         /\ post = [n \in DOMAIN rows' |->
                 [line |-> [item |-> rows'[n].item, wh |-> 1, qty |-> rows'[n].qty,
                            type |-> rows'[n].type],
                  doc |-> rows'[n].doc, before |-> rows'[n].before, after |-> rows'[n].after]]
  BY <1>7 DEF AsLedger
<1>12. Ledger!Gained = [k \in 1..(Len(post) - Len(past)) |-> post[Len(past) + k].line]
  BY <1>11 DEF Ledger!Gained
<1>13. Len(post) - Len(past) = Len(lines) /\ Len(post) > Len(past)
  <2>1. PICK n \in Nat, m \in Nat : n = Len(old) /\ m = Len(lines)
    <3>1. Len(old) \in Nat
      OBVIOUS
    <3> QED BY <1>1, <3>1
  <2>2. Len(post) = n + m /\ Len(past) = n /\ m > 0
    BY <1>1, <1>8, <1>11, <2>1
  <2> QED BY <2>1, <2>2
<1>14. Ledger!Gained = listed
  <2> HIDE DEF listed
  <2>1. \A k \in 1..Len(lines) : post[Len(past) + k].line = listed[k]
    <3> SUFFICES ASSUME NEW k \in 1..Len(lines) PROVE post[Len(past) + k].line = listed[k]
      OBVIOUS
    <3>1. k \in DOMAIN lines
      BY <1>1
    <3>2. post[Len(past) + k] = AsLedger(new)[k]
      BY <1>8, <1>11
    <3>3. AsLedger(new)[k] = [line |-> listed[k], doc |-> doc, before |-> start(k),
                              after |-> start(k) + lines[k].qty]
      BY <1>9, <3>1
    <3>4. AsLedger(new)[k].line = listed[k]
      BY <3>3
    <3> QED BY <3>2, <3>4
  <2>2. listed = [k \in 1..Len(lines) |-> listed[k]]
    BY <1>1 DEF listed
  <2> QED BY <1>12, <1>13, <2>1, <2>2
<1>15. /\ DOMAIN listed = DOMAIN lines
       /\ \A k \in DOMAIN lines : listed[k] = InLedger(lines[k])
  OBVIOUS
<1> HIDE DEF listed
<1>16. ASSUME NEW ks \in SUBSET (DOMAIN lines), NEW i
       PROVE  Ledger!Moved(listed, ks, i, {1}) = Sum(lines, ks, i)
  BY <1>15, MovedIsSum
<1>17. ASSUME NEW k \in DOMAIN lines
       PROVE  /\ Ledger!After(listed, k) = start(k) + lines[k].qty
              /\ Ledger!After(listed, k) = shelf[lines[k].item] + Sum(lines, 1..k, lines[k].item)
  <2>1. listed[k].item = lines[k].item /\ listed[k].wh = 1 /\ lines[k].item \in Items
    BY <1>1, <1>15 DEF InLedger
  <2>2. 1..k \in SUBSET (DOMAIN lines)
    BY <1>1
  <2>3. Ledger!Moved(listed, 1..k, lines[k].item, {1}) = Sum(lines, 1..k, lines[k].item)
    BY <1>16, <2>2
  <2>4. Ledger!After(listed, k) = shelf[lines[k].item] + Sum(lines, 1..k, lines[k].item)
    BY <2>1, <2>3 DEF Ledger!After
  <2> QED BY <1>4, <2>4
<1>18. ~Ledger!Refused(listed, {1})
  <2>1. ASSUME NEW k \in DOMAIN lines PROVE ~(Ledger!After(listed, k) < 0) /\ listed[k].wh \in {1}
    <3>1. ~(shelf[lines[k].item] + Sum(lines, 1..k, lines[k].item) < 0)
      BY DEF TooLittle
    <3> QED BY <3>1, <1>15, <1>17 DEF InLedger
  <2> QED BY <2>1, <1>15 DEF Ledger!Refused
<1>19. Ledger!PostLines(doc, Ledger!Gained, shelf)
  <2>1. shelf' = [i \in Items |-> shelf[i] + Sum(lines, DOMAIN lines, i)]
    BY DEF Moves
  <2>2. ASSUME NEW i \in Items
        PROVE  shelf'[i] = shelf[i] + Ledger!Moved(listed, DOMAIN listed, i, {1})
    BY <1>15, <1>16, <2>1
  <2>3. ASSUME NEW i \in Items, \A k \in DOMAIN listed : listed[k].item # i
        PROVE  shelf'[i] = shelf[i]
    <3>1. \A k \in DOMAIN lines : lines[k].item # i
      BY <2>3, <1>15 DEF InLedger
    <3>2. Sum(lines, DOMAIN lines, i) = 0
      BY <3>1, SumOfNone
    <3> QED BY <2>1, <3>2, <1>3
  <2>4. post = past \o [k \in DOMAIN listed |->
                          [line |-> listed[k], doc |-> doc,
                           before |-> Ledger!After(listed, k) - listed[k].qty,
                           after |-> Ledger!After(listed, k)]]
    <3>1. ASSUME NEW k \in DOMAIN lines
          PROVE  AsLedger(new)[k] = [line |-> listed[k], doc |-> doc,
                                     before |-> Ledger!After(listed, k) - listed[k].qty,
                                     after |-> Ledger!After(listed, k)]
      <4>1. listed[k].qty = lines[k].qty /\ lines[k].qty \in Int /\ start(k) \in Int
        BY <1>1, <1>4, <1>15 DEF InLedger
      <4>2. Ledger!After(listed, k) - listed[k].qty = start(k)
        BY <4>1, <1>17
      <4> QED BY <4>2, <1>9, <1>17
    <3>2. AsLedger(new) = [k \in DOMAIN lines |-> AsLedger(new)[k]]
      BY <1>5 DEF AsLedger
    <3>3. AsLedger(new) = [k \in DOMAIN listed |->
                          [line |-> listed[k], doc |-> doc,
                           before |-> Ledger!After(listed, k) - listed[k].qty,
                           after |-> Ledger!After(listed, k)]]
      BY <3>1, <3>2, <1>15
    <3> QED BY <3>3, <1>8, <1>11
  <2>5. [i \in Items |-> [w \in {1} |-> shelf'[i]]]
            = [i \in Items |-> [w \in {1} |->
                  [j \in Items |-> [v \in {1} |-> shelf[j]]][i][w]
                      + Ledger!Moved(listed, DOMAIN listed, i, {w})]]
    BY <2>2
  <2>6. shelf' = [i \in Items |-> IF \E k \in DOMAIN listed : listed[k].item = i
                                  THEN shelf[i] + Ledger!Moved(listed, DOMAIN listed, i, {1})
                                  ELSE shelf[i]]
    <3>1. ASSUME NEW i \in Items
          PROVE  shelf'[i] = IF \E k \in DOMAIN listed : listed[k].item = i
                             THEN shelf[i] + Ledger!Moved(listed, DOMAIN listed, i, {1})
                             ELSE shelf[i]
      BY <2>2, <2>3
    <3>2. shelf' = [i \in Items |-> shelf'[i]]
      BY <2>1
    <3> QED BY <3>1, <3>2
  <2> QED BY <2>4, <2>5, <2>6, <1>11, <1>14 DEF Ledger!PostLines
<1>20. doc \in Documents \cup Counts
  OBVIOUS
<1>21. \E d \in Documents \cup Counts : Ledger!PostLines(d, Ledger!Gained, shelf)
  BY <1>19, <1>20
<1>23. Ledger!Gained \in Seq(Ledger!StockLine) \ {<<>>}
  <2>1. \A k \in 1..Len(lines) : listed[k] \in Ledger!StockLine
    <3>1. MovementType = Ledger!MovementType
      BY DEF MovementType, Ledger!MovementType
    <3>2. ASSUME NEW k \in DOMAIN lines PROVE InLedger(lines[k]) \in Ledger!StockLine
      BY <1>1, <3>1, <3>2 DEF InLedger, Ledger!StockLine
    <3> QED BY <1>1, <1>15, <3>2
  <2>2. listed = [k \in 1..Len(lines) |-> listed[k]] /\ DOMAIN listed = 1..Len(lines)
    BY <1>1 DEF listed
  <2>3. listed \in Seq(Ledger!StockLine) /\ 1 \in DOMAIN listed
    BY <1>1, <2>1, <2>2
  <2> QED BY <1>14, <2>3
<1>22. ~Ledger!Refused(Ledger!Gained, {1})
  BY <1>14, <1>18
<1> QED BY <1>21, <1>22, <1>23 DEF Ledger!Post

(* A step of the shop is a post of the ledger, or none of its business.    *)
LEMMA LedgerSteps == ASSUME CountTypeOK, [Next]_vars PROVE [Ledger!Post]_Ledger!ledgerVars
<1>1. ASSUME UNCHANGED <<shelf, rows>> PROVE UNCHANGED Ledger!ledgerVars
  BY <1>1 DEF Ledger!ledgerVars
<1>2. ASSUME NEW doc \in Documents \cup Counts, NEW lines \in Seq(DocumentLine),
             ~TooLittle(lines), Moves(doc, lines)
      PROVE  Ledger!Post \/ UNCHANGED <<shelf, rows>>
  <2>1. CASE lines # <<>>
    BY <1>2, <2>1, LedgerPosts
  <2>2. CASE lines = <<>>
    <3>1. \A i \in Items : Sum(lines, DOMAIN lines, i) = 0
      <4> SUFFICES ASSUME NEW i \in Items PROVE Sum(lines, DOMAIN lines, i) = 0
        OBVIOUS
      <4>1. \A k \in DOMAIN lines : lines[k].item # i
        BY <2>2
      <4> QED BY <4>1, SumOfNone
    <3>2. shelf' = [i \in Items |-> shelf[i] + Sum(lines, DOMAIN lines, i)]
      BY <1>2 DEF Moves
    <3>3. shelf \in [Items -> Nat]
      BY DEF CountTypeOK
    <3>4. shelf' = shelf
      BY <3>1, <3>2, <3>3
    <3>5. PICK old \in Seq(RowSet) : old = rows
      BY DEF CountTypeOK
    <3>6. rows' = old \o [k \in DOMAIN lines |->
                            Row(doc, lines[k],
                                shelf[lines[k].item] + Sum(lines, 1..(k - 1), lines[k].item))]
      BY <1>2, <3>5 DEF Moves
    <3>7. rows' = old \o <<>>
      BY <2>2, <3>6
    <3> QED BY <3>4, <3>5, <3>7
  <2> QED BY <2>1, <2>2
<1>3. ASSUME NEW d \in Documents, Commit(d) PROVE Ledger!Post \/ UNCHANGED <<shelf, rows>>
  <2>1. Lines[d] \in Seq(DocumentLine)
    BY CountAssumption DEF CountAssumption
  <2> QED BY <1>2, <1>3, <2>1 DEF Commit
<1>4. ASSUME NEW c \in Counts, ApplyPost(c) PROVE Ledger!Post \/ UNCHANGED <<shelf, rows>>
  <2>1. CountLines(c) \in Seq(DocumentLine)
    BY CountLinesMade
  <2> QED BY <1>2, <1>4, <2>1 DEF ApplyPost
<1>5. ASSUME NEW d \in Documents, Begin(d) PROVE UNCHANGED <<shelf, rows>>
  BY <1>5 DEF Begin
<1>6. ASSUME NEW c \in Counts, NEW ack, Create(c) \/ Cancel(c) \/ ApplyReview(c, ack)
      PROVE  UNCHANGED <<shelf, rows>>
  BY <1>6 DEF Create, Cancel, ApplyReview
<1>7. ASSUME NEW c \in Counts, NEW i \in Items, AddLine(c, i) \/ Leave(c, i) \/ Typed(c, i)
      PROVE  UNCHANGED <<shelf, rows>>
  BY <1>7, TypedAlone DEF AddLine, Leave
<1>8. ASSUME NEW r \in requests,
             \/ SaveRead(r) \/ SaveRefused(r) \/ SaveWrite(r)
             \/ Saved(r) \/ NotSaved(r) \/ Drop(r)
      PROVE  UNCHANGED <<shelf, rows>>
  BY <1>8 DEF SaveRead, SaveRefused, SaveWrite, Saved, NotSaved, Drop
<1>9. CASE UNCHANGED vars
  BY <1>1, <1>9 DEF vars
<1>10. CASE Next
  <2>1. Ledger!Post \/ UNCHANGED <<shelf, rows>>
    BY <1>3, <1>4, <1>5, <1>6, <1>7, <1>8, <1>10 DEF Next, Typed
  <2> QED BY <1>1, <2>1
<1> QED BY <1>9, <1>10

(* Every invoice, adjustment and applied count moves the stock as the      *)
(* abstract ledger does: all of its lines at once and none below nothing   *)
(* (planStockMovements), each row the before and after of its shelf.       *)
THEOREM CountsPostToLedger == Spec => MovesAsLedger
<1>1. Init => Ledger!LedgerInit
  BY LedgerBegins
<1>2. CountInv /\ [Next]_vars => [Ledger!Post]_Ledger!ledgerVars
  BY LedgerSteps DEF CountInv, ShapeInv
<1> QED BY <1>1, <1>2, CountInvariant, PTL DEF Spec, MovesAsLedger, Ledger!LedgerSpec
=============================================================================

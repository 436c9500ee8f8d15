-------------------------------- MODULE Sums --------------------------------
(***************************************************************************)
(* What a sum over a finite set is: MapThenSumSet of the community modules *)
(* takes the members in an order of its own; here it is shown to be a sum  *)
(* in any order, so that what a document adds to a ledger can be told from *)
(* what was there before.                                                  *)
(*                                                                         *)
(* Induction is by a least counterexample: a set of subsets of a finite    *)
(* set has a member that contains no other.                                *)
(***************************************************************************)
EXTENDS Integers, Sequences, FiniteSetsExt, FiniteSetTheorems, WellFoundedInduction, TLAPS

Pick(s) == CHOOSE x \in s : TRUE

(* The sum of f over S, f a function. *)
SumOf(f, S) == MapThenSumSet(LAMBDA k : f[k], S)

(* g gives the sum of f over every subset of S. *)
IsSum(f, S, g) ==
    g = [s \in SUBSET S |-> IF s = {} THEN 0 ELSE f[Pick(s)] + g[s \ {Pick(s)}]]

(* Among subsets of a finite set there is one that contains no other. *)
LEMMA LeastSubset ==
    ASSUME NEW S, IsFiniteSet(S), NEW bad \in SUBSET (SUBSET S), bad # {}
    PROVE  \E T \in bad : \A U \in bad : U \subseteq T => U = T
<1>1. FiniteSubsetsOf(S) = SUBSET S
  BY FS_FiniteSubsetsOfFinite
<1>2. PICK T \in bad : \A U \in bad : <<U, T>> \notin StrictSubsetOrdering(S)
  BY <1>1, FS_StrictSubsetOrderingWellFounded, WFMin
<1>3. ASSUME NEW U \in bad, U \subseteq T, U # T PROVE <<U, T>> \in StrictSubsetOrdering(S)
  <2>1. U \in SUBSET S /\ T \in SUBSET S
    OBVIOUS
  <2> QED BY <1>3, <2>1 DEF StrictSubsetOrdering
<1>4. \A U \in bad : U \subseteq T => U = T
  BY <1>2, <1>3
<1> QED BY <1>4

(* A set that is not empty has the member that is picked. *)
LEMMA PickIsIn == ASSUME NEW s, s # {} PROVE Pick(s) \in s
BY DEF Pick

(* Two such functions agree where both are defined. *)
LEMMA SumIsOne ==
    ASSUME NEW f, NEW S, IsFiniteSet(S), NEW g, IsSum(f, S, g),
           NEW T \in SUBSET S, NEW h, IsSum(f, T, h)
    PROVE  \A U \in SUBSET T : g[U] = h[U]
<1> DEFINE bad == {U \in SUBSET T : g[U] # h[U]}
<1>1. IsFiniteSet(T)
  BY FS_Subset
<1>2. SUFFICES ASSUME bad # {} PROVE FALSE
  OBVIOUS
<1>3. PICK U \in bad : \A V \in bad : V \subseteq U => V = U
  <2>1. bad \in SUBSET (SUBSET T)
    OBVIOUS
  <2> HIDE DEF bad
  <2> QED BY <1>1, <1>2, <2>1, LeastSubset
<1>4. U \in SUBSET T /\ U \in SUBSET S /\ g[U] # h[U]
  OBVIOUS
<1>5. g[U] = IF U = {} THEN 0 ELSE f[Pick(U)] + g[U \ {Pick(U)}]
  BY <1>4 DEF IsSum
<1>6. h[U] = IF U = {} THEN 0 ELSE f[Pick(U)] + h[U \ {Pick(U)}]
  BY <1>4 DEF IsSum
<1>7. U # {} /\ U \ {Pick(U)} \in SUBSET T /\ U \ {Pick(U)} # U
  BY <1>4, <1>5, <1>6, PickIsIn
<1>8. g[U \ {Pick(U)}] = h[U \ {Pick(U)}]
  BY <1>3, <1>7
<1> QED BY <1>4, <1>5, <1>6, <1>7, <1>8

(* There is one. *)
LEMMA SumExists ==
    ASSUME NEW f, NEW S, IsFiniteSet(S)
    PROVE  \E g : IsSum(f, S, g)
<1> DEFINE bad == {T \in SUBSET S : ~\E g : IsSum(f, T, g)}
           G(U) == CHOOSE g : IsSum(f, U, g)
           rest(U) == U \ {Pick(U)}
<1>1. SUFFICES ASSUME bad # {} PROVE FALSE
  <2>1. S \notin bad => \E g : IsSum(f, S, g)
    OBVIOUS
  <2> HIDE DEF bad
  <2> QED BY <1>1, <2>1
<1>2. PICK T \in bad : \A V \in bad : V \subseteq T => V = T
  <2>1. bad \in SUBSET (SUBSET S)
    OBVIOUS
  <2> HIDE DEF bad
  <2> QED BY <1>1, <2>1, LeastSubset
<1>3. T \in SUBSET S /\ ~\E g : IsSum(f, T, g)
  OBVIOUS
<1>4. \A U \in SUBSET T : U # T => IsSum(f, U, G(U)) /\ IsFiniteSet(U)
  <2> SUFFICES ASSUME NEW U \in SUBSET T, U # T PROVE IsSum(f, U, G(U)) /\ IsFiniteSet(U)
    OBVIOUS
  <2>1. U \notin bad /\ U \in SUBSET S
    BY <1>2, <1>3
  <2>2. \E g : IsSum(f, U, g)
    BY <2>1
  <2> QED BY <2>1, <2>2, FS_Subset
<1> DEFINE val == [U \in SUBSET T |-> IF U = {} THEN 0 ELSE f[Pick(U)] + G(rest(U))[rest(U)]]
<1>5. ASSUME NEW U \in SUBSET T, U # {}
      PROVE  val[rest(U)] = G(rest(U))[rest(U)]
  <2> DEFINE R == rest(U)
  <2>1. R \in SUBSET T /\ R # T
    BY <1>5, PickIsIn
  <2>2. IsSum(f, R, G(R)) /\ IsFiniteSet(R)
    BY <1>4, <2>1
  <2> HIDE DEF G, R
  <2>3. G(R)[R] = IF R = {} THEN 0 ELSE f[Pick(R)] + G(R)[rest(R)]
    BY <2>2 DEF IsSum
  <2>4. val[R] = IF R = {} THEN 0 ELSE f[Pick(R)] + G(rest(R))[rest(R)]
    BY <2>1
  <2>5. ASSUME R # {} PROVE G(R)[rest(R)] = G(rest(R))[rest(R)]
    <3>1. rest(R) \in SUBSET R /\ rest(R) \in SUBSET T /\ rest(R) # T
      BY <2>1
    <3>2. IsSum(f, rest(R), G(rest(R)))
      BY <1>4, <3>1
    <3> HIDE DEF rest
    <3> QED BY <2>2, <3>1, <3>2, SumIsOne
  <2>6. val[R] = G(R)[R]
    BY <2>3, <2>4, <2>5
  <2> QED BY <2>6 DEF R
<1>6. IsSum(f, T, val)
  <2> DEFINE body(U) == IF U = {} THEN 0 ELSE f[Pick(U)] + G(rest(U))[rest(U)]
             step(U) == IF U = {} THEN 0 ELSE f[Pick(U)] + val[rest(U)]
  <2>1. ASSUME NEW U \in SUBSET T PROVE body(U) = step(U)
    <3>1. CASE U = {}
      BY <3>1
    <3>2. CASE U # {}
      <4>1. val[rest(U)] = G(rest(U))[rest(U)]
        BY <1>5, <3>2
      <4> HIDE DEF val, G, rest
      <4> QED BY <4>1
    <3> QED BY <3>1, <3>2
  <2>2. val = [U \in SUBSET T |-> body(U)]
    OBVIOUS
  <2> HIDE DEF body, step
  <2>3. val = [U \in SUBSET T |-> step(U)]
    BY <2>1, <2>2
  <2> HIDE DEF val
  <2> QED BY <2>3 DEF IsSum, step
<1> QED BY <1>3, <1>6

(* The operator of the community modules is that sum. *)
LEMMA SumValue ==
    ASSUME NEW f, NEW S, IsFiniteSet(S), NEW g, IsSum(f, S, g)
    PROVE  SumOf(f, S) = g[S]
<1> DEFINE h == CHOOSE h : h = [s \in SUBSET S |->
                    IF s = {} THEN 0
                    ELSE f[CHOOSE x \in s : TRUE] + h[s \ {CHOOSE x \in s : TRUE}]]
<1>1. SumOf(f, S) = h[S]
  BY DEF SumOf, MapThenSumSet, MapThenFoldSet
<1>2. g = [s \in SUBSET S |->
              IF s = {} THEN 0
              ELSE f[CHOOSE x \in s : TRUE] + g[s \ {CHOOSE x \in s : TRUE}]]
  BY DEF IsSum, Pick
<1>3. h = [s \in SUBSET S |->
              IF s = {} THEN 0
              ELSE f[CHOOSE x \in s : TRUE] + h[s \ {CHOOSE x \in s : TRUE}]]
  BY <1>2
<1>4. IsSum(f, S, h)
  BY <1>3 DEF IsSum, Pick
<1> HIDE DEF h
<1>5. g[S] = h[S]
  BY <1>4, SumIsOne
<1> QED BY <1>1, <1>5

(* What holds of a set once it holds of its smaller subsets holds of every *)
(* subset of a finite set.                                                 *)
LEMMA SubsetInduction ==
    ASSUME NEW S, IsFiniteSet(S), NEW good,
           \A T \in SUBSET S : (\A U \in SUBSET T : U # T => U \in good) => T \in good
    PROVE  S \in good
<1> DEFINE bad == {T \in SUBSET S : T \notin good}
<1>1. SUFFICES ASSUME bad # {} PROVE FALSE
  <2>1. S \notin bad => S \in good
    OBVIOUS
  <2> HIDE DEF bad
  <2> QED BY <1>1, <2>1
<1>2. PICK T \in bad : \A V \in bad : V \subseteq T => V = T
  <2>1. bad \in SUBSET (SUBSET S)
    OBVIOUS
  <2> HIDE DEF bad
  <2> QED BY <1>1, <2>1, LeastSubset
<1>3. T \in SUBSET S /\ T \notin good
  OBVIOUS
<1>4. ASSUME NEW U \in SUBSET T, U # T PROVE U \in good
  <2>1. U \notin bad /\ U \in SUBSET S
    BY <1>2, <1>3, <1>4
  <2> QED BY <2>1
<1> QED BY <1>3, <1>4

(* Of nothing the sum is nothing; of something, it is one member and the   *)
(* sum of the others.                                                      *)
LEMMA SumEmpty == ASSUME NEW f PROVE SumOf(f, {}) = 0
<1>1. IsFiniteSet({})
  BY FS_EmptySet
<1>2. PICK g : IsSum(f, {}, g)
  BY <1>1, SumExists
<1>3. g[{}] = 0
  BY <1>2 DEF IsSum
<1> QED BY <1>1, <1>2, <1>3, SumValue

(* The member is the one that is picked. *)
LEMMA SumPick ==
    ASSUME NEW f, NEW S, IsFiniteSet(S), S # {}
    PROVE  SumOf(f, S) = f[Pick(S)] + SumOf(f, S \ {Pick(S)})
<1> DEFINE R == S \ {Pick(S)}
<1>1. R \in SUBSET S /\ IsFiniteSet(R)
  BY FS_Subset
<1> HIDE DEF R
<1>2. PICK g : IsSum(f, S, g)
  BY SumExists
<1>3. PICK h : IsSum(f, R, h)
  BY <1>1, SumExists
<1>4. g[R] = h[R]
  BY <1>1, <1>2, <1>3, SumIsOne
<1>5. g[S] = f[Pick(S)] + g[R]
  BY <1>2 DEF IsSum, R
<1>6. SumOf(f, S) = g[S] /\ SumOf(f, R) = h[R]
  BY <1>1, <1>2, <1>3, SumValue
<1> QED BY <1>4, <1>5, <1>6 DEF R

(* Functions that agree on a set have one sum over it. *)
LEMMA SumSame ==
    ASSUME NEW f, NEW g, NEW S, IsFiniteSet(S), \A x \in S : f[x] = g[x]
    PROVE  SumOf(f, S) = SumOf(g, S)
<1> DEFINE good == {T \in SUBSET S : SumOf(f, T) = SumOf(g, T)}
<1>1. ASSUME NEW T \in SUBSET S, \A U \in SUBSET T : U # T => U \in good
      PROVE  T \in good
  <2>1. CASE T = {}
    BY <2>1, SumEmpty
  <2>2. CASE T # {}
    <3> DEFINE R == T \ {Pick(T)}
    <3>1. Pick(T) \in S /\ R \in SUBSET T /\ R # T /\ IsFiniteSet(T)
      BY <2>2, PickIsIn, FS_Subset
    <3>2. SumOf(f, R) = SumOf(g, R)
      BY <1>1, <3>1
    <3>3. SumOf(f, T) = f[Pick(T)] + SumOf(f, R) /\ SumOf(g, T) = g[Pick(T)] + SumOf(g, R)
      BY <2>2, <3>1, SumPick
    <3>4. f[Pick(T)] = g[Pick(T)]
      BY <3>1
    <3> QED BY <3>2, <3>3, <3>4
  <2> QED BY <2>1, <2>2
<1>2. S \in good
  <2> HIDE DEF good
  <2> QED BY <1>1, SubsetInduction
<1> QED BY <1>2

(* A sum of whole numbers is one. *)
LEMMA SumType ==
    ASSUME NEW f, NEW S, IsFiniteSet(S), \A x \in S : f[x] \in Int
    PROVE  SumOf(f, S) \in Int
<1> DEFINE good == {T \in SUBSET S : SumOf(f, T) \in Int}
<1>1. ASSUME NEW T \in SUBSET S, \A U \in SUBSET T : U # T => U \in good
      PROVE  T \in good
  <2>1. CASE T = {}
    BY <2>1, SumEmpty
  <2>2. CASE T # {}
    <3> DEFINE R == T \ {Pick(T)}
    <3>1. Pick(T) \in S /\ R \in SUBSET T /\ R # T /\ IsFiniteSet(T)
      BY <2>2, PickIsIn, FS_Subset
    <3>2. SumOf(f, R) \in Int
      BY <1>1, <3>1
    <3>3. SumOf(f, T) = f[Pick(T)] + SumOf(f, R)
      BY <2>2, <3>1, SumPick
    <3>4. f[Pick(T)] \in Int
      BY <3>1
    <3> QED BY <3>2, <3>3, <3>4
  <2> QED BY <2>1, <2>2
<1>2. S \in good
  <2> HIDE DEF good
  <2> QED BY <1>1, SubsetInduction
<1> QED BY <1>2

(* Any member can be taken first. *)
LEMMA SumTake ==
    ASSUME NEW f, NEW S, IsFiniteSet(S), \A x \in S : f[x] \in Int, NEW x \in S
    PROVE  SumOf(f, S) = f[x] + SumOf(f, S \ {x})
<1> DEFINE good == {T \in SUBSET S : \A y \in T : SumOf(f, T) = f[y] + SumOf(f, T \ {y})}
<1>1. ASSUME NEW T \in SUBSET S, \A U \in SUBSET T : U # T => U \in good, NEW y \in T
      PROVE  SumOf(f, T) = f[y] + SumOf(f, T \ {y})
  <2> DEFINE p == Pick(T)
             R == T \ {p}
             Q == T \ {y}
             both == R \ {y}
  <2>1. p \in T /\ R \in SUBSET T /\ R # T /\ IsFiniteSet(T)
    BY PickIsIn, FS_Subset
  <2>2. SumOf(f, T) = f[p] + SumOf(f, R)
    BY <2>1, SumPick
  <2>3. CASE p = y
    BY <2>2, <2>3
  <2>4. CASE p # y
    <3>1. SumOf(f, R) = f[y] + SumOf(f, both)
      <4>1. y \in R /\ R \in good
        BY <1>1, <2>1, <2>4
      <4> QED BY <4>1
    <3>2. SumOf(f, Q) = f[p] + SumOf(f, Q \ {p})
      <4>1. p \in Q /\ Q \in SUBSET T /\ Q # T
        BY <2>1, <2>4
      <4>2. Q \in good
        BY <1>1, <4>1
      <4> QED BY <4>1, <4>2
    <3>3. Q \ {p} = both
      OBVIOUS
    <3>4. f[p] \in Int /\ f[y] \in Int /\ SumOf(f, both) \in Int
      <4>1. both \in SUBSET S /\ IsFiniteSet(both)
        BY <2>1, FS_Subset
      <4> QED BY <4>1, <2>1, SumType
    <3>5. SumOf(f, T) = f[y] + SumOf(f, Q)
      <4>1. SumOf(f, Q) = f[p] + SumOf(f, both)
        BY <3>2, <3>3
      <4>2. SumOf(f, T) = f[p] + (f[y] + SumOf(f, both))
        BY <2>2, <3>1
      <4> HIDE DEF both, R, Q, p
      <4> QED BY <3>4, <4>1, <4>2
    <3> QED BY <3>5
  <2> QED BY <2>3, <2>4
<1>2. S \in good
  <2>1. \A T \in SUBSET S : (\A U \in SUBSET T : U # T => U \in good) => T \in good
    BY <1>1
  <2> HIDE DEF good
  <2> QED BY <2>1, SubsetInduction
<1> QED BY <1>2

(* The sum over two sets that share nothing is the two sums. *)
LEMMA SumUnion ==
    ASSUME NEW f, NEW A, NEW B, IsFiniteSet(A), IsFiniteSet(B), A \cap B = {},
           \A x \in A \cup B : f[x] \in Int
    PROVE  SumOf(f, A \cup B) = SumOf(f, A) + SumOf(f, B)
<1> DEFINE good == {T \in SUBSET B : SumOf(f, A \cup T) = SumOf(f, A) + SumOf(f, T)}
<1>1. SumOf(f, A) \in Int
  BY SumType
<1>2. ASSUME NEW T \in SUBSET B, \A U \in SUBSET T : U # T => U \in good
      PROVE  T \in good
  <2>1. CASE T = {}
    <3>1. A \cup T = A
      BY <2>1
    <3> QED BY <1>1, <2>1, <3>1, SumEmpty
  <2>2. CASE T # {}
    <3> DEFINE p == Pick(T)
               R == T \ {p}
    <3>1. p \in T /\ R \in SUBSET T /\ R # T /\ IsFiniteSet(T)
      BY <2>2, PickIsIn, FS_Subset
    <3>2. SumOf(f, A \cup R) = SumOf(f, A) + SumOf(f, R)
      BY <1>2, <3>1
    <3>3. IsFiniteSet(A \cup T) /\ IsFiniteSet(R)
      BY <3>1, FS_Union, FS_Subset
    <3>4. (A \cup T) \ {p} = A \cup R /\ p \in A \cup T
      BY <3>1
    <3>5. SumOf(f, A \cup T) = f[p] + SumOf(f, A \cup R)
      BY <3>3, <3>4, SumTake
    <3>6. SumOf(f, T) = f[p] + SumOf(f, R)
      BY <2>2, <3>1, SumPick
    <3>7. f[p] \in Int /\ SumOf(f, R) \in Int
      BY <3>1, <3>3, SumType
    <3> HIDE DEF p, R
    <3>8. SumOf(f, A \cup T) = SumOf(f, A) + SumOf(f, T)
      BY <1>1, <3>2, <3>5, <3>6, <3>7
    <3> QED BY <3>8
  <2> QED BY <2>1, <2>2
<1>3. B \in good
  <2> HIDE DEF good
  <2> QED BY <1>2, SubsetInduction
<1> QED BY <1>3

(* Sums add up member by member. *)
LEMMA SumAdd ==
    ASSUME NEW f, NEW g, NEW h, NEW S, IsFiniteSet(S),
           \A x \in S : f[x] \in Int /\ g[x] \in Int /\ h[x] = f[x] + g[x]
    PROVE  SumOf(h, S) = SumOf(f, S) + SumOf(g, S)
<1> DEFINE good == {T \in SUBSET S : SumOf(h, T) = SumOf(f, T) + SumOf(g, T)}
<1>2. ASSUME NEW T \in SUBSET S, \A U \in SUBSET T : U # T => U \in good
      PROVE  T \in good
  <2>1. CASE T = {}
    <3>1. SumOf(f, T) = 0 /\ SumOf(g, T) = 0 /\ SumOf(h, T) = 0
      BY <2>1, SumEmpty
    <3> QED BY <3>1
  <2>2. CASE T # {}
    <3> DEFINE p == Pick(T)
               R == T \ {p}
    <3>1. p \in T /\ p \in S /\ R \in SUBSET T /\ R # T /\ IsFiniteSet(T)
      BY <2>2, PickIsIn, FS_Subset
    <3>2. IsFiniteSet(R)
      BY <3>1, FS_Subset
    <3>3. SumOf(h, R) = SumOf(f, R) + SumOf(g, R)
      BY <1>2, <3>1
    <3>4. /\ SumOf(f, T) = f[p] + SumOf(f, R)
          /\ SumOf(g, T) = g[p] + SumOf(g, R)
          /\ SumOf(h, T) = h[p] + SumOf(h, R)
      BY <2>2, <3>1, SumPick
    <3>5. SumOf(f, R) \in Int /\ SumOf(g, R) \in Int
      <4>1. (\A x \in R : f[x] \in Int) /\ (\A x \in R : g[x] \in Int)
        BY <3>1
      <4> HIDE DEF R
      <4> QED BY <3>2, <4>1, SumType
    <3>6. f[p] \in Int /\ g[p] \in Int /\ h[p] = f[p] + g[p]
      BY <3>1
    <3> HIDE DEF p, R
    <3>8. SumOf(h, T) = SumOf(f, T) + SumOf(g, T)
      BY <3>3, <3>4, <3>5, <3>6
    <3> QED BY <3>8
  <2> QED BY <2>1, <2>2
<1>3. S \in good
  <2> HIDE DEF good
  <2> QED BY <1>2, SubsetInduction
<1> QED BY <1>3

(* Members may be renamed. *)
LEMMA SumRenamed ==
    ASSUME NEW f, NEW g, NEW S, IsFiniteSet(S), NEW name,
           \A x, y \in S : name[x] = name[y] => x = y,
           \A x \in S : f[x] \in Int /\ g[name[x]] = f[x]
    PROVE  SumOf(g, {name[x] : x \in S}) = SumOf(f, S)
<1> DEFINE Named(T) == {name[x] : x \in T}
           good == {T \in SUBSET S : SumOf(g, Named(T)) = SumOf(f, T)}
<1>1. ASSUME NEW T \in SUBSET S, \A U \in SUBSET T : U # T => U \in good
      PROVE  T \in good
  <2>1. CASE T = {}
    <3>1. Named(T) = {}
      BY <2>1
    <3> HIDE DEF Named
    <3> QED BY <2>1, <3>1, SumEmpty
  <2>2. CASE T # {}
    <3> DEFINE p == Pick(T)
               R == T \ {p}
    <3>1. p \in T /\ R \in SUBSET T /\ R # T /\ IsFiniteSet(T)
      BY <2>2, PickIsIn, FS_Subset
    <3>2. SumOf(g, Named(R)) = SumOf(f, R)
      BY <1>1, <3>1
    <3>3. IsFiniteSet(Named(T))
      <4>1. [x \in T |-> name[x]] \in Surjection(T, Named(T))
        BY DEF Surjection
      <4> HIDE DEF Named
      <4> QED BY <3>1, <4>1, FS_Surjection
    <3>4. Named(T) \ {name[p]} = Named(R) /\ name[p] \in Named(T)
      BY <3>1
    <3>5. \A n \in Named(T) : g[n] \in Int
      OBVIOUS
    <3>6. SumOf(g, Named(T)) = g[name[p]] + SumOf(g, Named(R))
      <4> HIDE DEF Named, R, p
      <4> QED BY <3>3, <3>4, <3>5, SumTake
    <3>7. SumOf(f, T) = f[p] + SumOf(f, R)
      BY <2>2, <3>1, SumPick
    <3>8. g[name[p]] = f[p]
      BY <3>1
    <3> HIDE DEF Named, R, p
    <3>9. SumOf(g, Named(T)) = SumOf(f, T)
      BY <3>2, <3>6, <3>7, <3>8
    <3> QED BY <3>9
  <2> QED BY <2>1, <2>2
<1>2. S \in good
  <2> HIDE DEF good
  <2> QED BY <1>1, SubsetInduction
<1> QED BY <1>2

(* The sum of the quantities of lines is a sum of a function. *)
LEMMA SumOfQuantities ==
    ASSUME NEW lines, NEW S, IsFiniteSet(S)
    PROVE  MapThenSumSet(LAMBDA k : lines[k].qty, S) = SumOf([k \in S |-> lines[k].qty], S)
<1> DEFINE f == [k \in S |-> lines[k].qty]
           h == CHOOSE h : h = [s \in SUBSET S |->
                    IF s = {} THEN 0
                    ELSE lines[CHOOSE x \in s : TRUE].qty + h[s \ {CHOOSE x \in s : TRUE}]]
           own(g) == [s \in SUBSET S |->
                    IF s = {} THEN 0 ELSE lines[Pick(s)].qty + g[s \ {Pick(s)}]]
           its(g) == [s \in SUBSET S |->
                    IF s = {} THEN 0 ELSE f[Pick(s)] + g[s \ {Pick(s)}]]
<1>1. MapThenSumSet(LAMBDA k : lines[k].qty, S) = h[S]
  BY DEF MapThenSumSet, MapThenFoldSet
<1>2. ASSUME NEW g PROVE own(g) = its(g)
  <2>1. \A s \in SUBSET S : s # {} => lines[Pick(s)].qty = f[Pick(s)]
    BY PickIsIn
  <2> HIDE DEF f
  <2> QED BY <2>1
<1>3. PICK g : IsSum(f, S, g)
  BY SumExists
<1>4. g = own(g)
  BY <1>2, <1>3 DEF IsSum
<1>5. h = own(h)
  BY <1>4 DEF Pick
<1>6. h = its(h)
  BY <1>2, <1>5
<1> HIDE DEF f, h
<1>7. IsSum(f, S, h)
  BY <1>6 DEF IsSum
<1>8. SumOf(f, S) = h[S]
  BY <1>7, SumValue
<1> QED BY <1>1, <1>8 DEF f

-----------------------------------------------------------------------------
(* Numbers up to k that there are have a last one.                         *)
LEMMA LastExists ==
    ASSUME NEW k \in Nat, NEW rows \in SUBSET (1..k), rows # {}
    PROVE  \E n \in rows : \A m \in rows : m <= n
<1> DEFINE Later(n) == {m \in rows : m > n}
           Laters == {Later(n) : n \in rows}
<1>1. FiniteSubsetsOf(1..k) = SUBSET (1..k)
  <2>1. IsFiniteSet(1..k)
    BY FS_Interval
  <2> QED BY <2>1, FS_FiniteSubsetsOfFinite
<1>2. Laters \subseteq SUBSET (1..k) /\ Laters # {}
  <2>1. \A n \in rows : Later(n) \subseteq 1..k
    OBVIOUS
  <2> HIDE DEF Later
  <2> QED BY <2>1
<1>3. PICK least \in Laters :
         \A other \in Laters : <<other, least>> \notin StrictSubsetOrdering(1..k)
  <2> HIDE DEF Laters
  <2> QED BY <1>1, <1>2, FS_StrictSubsetOrderingWellFounded, WFMin
<1>4. PICK n \in rows : least = Later(n)
  OBVIOUS
<1>5. ASSUME NEW m \in rows, m > n PROVE FALSE
  <2>1. m \in Nat /\ n \in Nat /\ \A o \in rows : o \in Nat
    OBVIOUS
  <2>2. Later(m) \subseteq Later(n)
    <3> SUFFICES ASSUME NEW o \in rows, o > m PROVE o > n
      OBVIOUS
    <3> QED BY <1>5, <2>1
  <2>3. m \in Later(n) /\ m \notin Later(m)
    BY <1>5, <2>1
  <2>4. Later(m) \in Laters /\ Later(n) \in Laters
    OBVIOUS
  <2>5. <<Later(m), Later(n)>> \in StrictSubsetOrdering(1..k)
    <3> HIDE DEF Later, Laters
    <3>1. Later(m) \in SUBSET (1..k) /\ Later(n) \in SUBSET (1..k) /\ Later(m) # Later(n)
      BY <1>2, <2>3, <2>4
    <3> QED BY <2>2, <3>1 DEF StrictSubsetOrdering
  <2> QED BY <1>3, <1>4, <2>4, <2>5
<1>6. \A m \in rows : m <= n
  BY <1>5
<1> QED BY <1>6

(* The members of S, a set of numbers, in order. *)
Ids(S) ==
    [k \in 1..Cardinality(S) |-> CHOOSE x \in S : Cardinality({y \in S : y < x}) = k - 1]

(* Ids in order are all of the ids, each once, and nothing else.           *)
LEMMA IdsInOrder ==
    ASSUME NEW S \in SUBSET Nat, IsFiniteSet(S)
    PROVE  /\ Ids(S) \in Seq(S)
           /\ \A x \in S : \E j \in DOMAIN Ids(S) : Ids(S)[j] = x
           /\ \A j, k \in DOMAIN Ids(S) : Ids(S)[j] = Ids(S)[k] => j = k
           /\ \A j, k \in DOMAIN Ids(S) : j < k => Ids(S)[j] < Ids(S)[k]
<1> DEFINE below(x) == {y \in S : y < x}
           n == Cardinality(S)
           rank == [x \in S |-> Cardinality(below(x)) + 1]
<1>1. n \in Nat
  BY FS_CardinalityType
<1>2. ASSUME NEW x \in S
      PROVE  IsFiniteSet(below(x)) /\ Cardinality(below(x)) \in 0..(n - 1)
  <2>1. below(x) \in SUBSET S /\ below(x) # S
    OBVIOUS
  <2>2. /\ IsFiniteSet(below(x))
        /\ Cardinality(below(x)) <= n
        /\ Cardinality(below(x)) # n
    BY <2>1, FS_Subset
  <2>3. Cardinality(below(x)) \in Nat
    BY <2>2, FS_CardinalityType
  <2> HIDE DEF below
  <2> QED BY <1>1, <2>2, <2>3
<1>3. ASSUME NEW x \in S, NEW y \in S, x < y
      PROVE  Cardinality(below(x)) < Cardinality(below(y))
  <2>0. \A z \in S : z \in Nat
    OBVIOUS
  <2>1. x \in below(y) /\ x \notin below(x)
    BY <1>3, <2>0
  <2>3. ASSUME NEW z \in below(x)
        PROVE  z \in below(y)
    <3>1. z \in S /\ z < x /\ z \in Nat /\ x \in Nat /\ y \in Nat
      BY <2>0
    <3> QED BY <1>3, <3>1
  <2>2. /\ Cardinality(below(x)) <= Cardinality(below(y))
        /\ Cardinality(below(x)) # Cardinality(below(y))
    BY <1>2, <2>1, <2>3, FS_Subset
  <2> HIDE DEF below
  <2> QED BY <1>2, <2>2
<1>4. rank \in Injection(S, 1..n)
  <2>1. rank \in [S -> 1..n]
    BY <1>1, <1>2
  <2>2. ASSUME NEW x \in S, NEW y \in S, rank[x] = rank[y]
        PROVE  x = y
    <3>1. x \in Nat /\ y \in Nat
      OBVIOUS
    <3>2. Cardinality(below(x)) = Cardinality(below(y))
      BY <1>2, <2>2
    <3> QED BY <1>2, <1>3, <3>1, <3>2
  <2> HIDE DEF rank, n
  <2> QED BY <2>1, <2>2 DEF Injection, IsInjective
<1>5. rank \in Surjection(S, 1..n)
  <2>1. IsFiniteSet(1..n) /\ Cardinality(1..n) = n
    BY <1>1, FS_Interval
  <2> HIDE DEF rank
  <2> QED BY <1>4, <2>1, FS_Injection
<1>7. /\ DOMAIN Ids(S) = 1..n
      /\ Ids(S) = [k \in 1..n |-> CHOOSE x \in S : Cardinality(below(x)) = k - 1]
  BY DEF Ids
<1>6. ASSUME NEW k \in 1..n
      PROVE  Ids(S)[k] \in S /\ rank[Ids(S)[k]] = k
  <2>1. \E x \in S : rank[x] = k
    <3> HIDE DEF rank
    <3> QED BY <1>5 DEF Surjection
  <2>2. \E x \in S : Cardinality(below(x)) = k - 1
    <3>1. PICK x \in S : Cardinality(below(x)) + 1 = k
      BY <2>1
    <3> HIDE DEF below
    <3> QED BY <1>1, <1>2, <3>1
  <2>3. Ids(S)[k] = CHOOSE x \in S : Cardinality(below(x)) = k - 1
    BY <1>7
  <2>4. Ids(S)[k] \in S /\ Cardinality(below(Ids(S)[k])) = k - 1
    <3> HIDE DEF below
    <3> QED BY <2>2, <2>3, Zenon
  <2> QED BY <1>1, <2>4
<1>8. Ids(S) \in Seq(S)
  <2> HIDE DEF n, rank
  <2>1. DOMAIN Ids(S) = 1..n /\ Ids(S) = [k \in 1..n |-> Ids(S)[k]]
    BY <1>7
  <2>2. \A k \in 1..n : Ids(S)[k] \in S
    BY <1>6
  <2> QED BY <1>1, <2>1, <2>2
<1>9. ASSUME NEW x \in S
      PROVE  \E j \in DOMAIN Ids(S) : Ids(S)[j] = x
  <2>1. rank[x] \in 1..n
    BY <1>4 DEF Injection
  <2>2. Ids(S)[rank[x]] = x
    <3> HIDE DEF rank, n
    <3>1. Ids(S)[rank[x]] \in S /\ rank[Ids(S)[rank[x]]] = rank[x]
      BY <1>6, <2>1
    <3>2. \A y \in S : rank[y] = rank[x] => y = x
      BY <1>4 DEF Injection, IsInjective
    <3> QED BY <3>1, <3>2
  <2> QED BY <1>7, <2>1, <2>2
<1>10. ASSUME NEW j \in DOMAIN Ids(S), NEW k \in DOMAIN Ids(S), Ids(S)[j] = Ids(S)[k]
       PROVE  j = k
  <2>1. j \in 1..n /\ k \in 1..n
    BY <1>7
  <2> HIDE DEF rank, n
  <2> QED BY <1>6, <1>10, <2>1
<1>11. ASSUME NEW j \in DOMAIN Ids(S), NEW k \in DOMAIN Ids(S), j < k
       PROVE  Ids(S)[j] < Ids(S)[k]
  <2>1. j \in 1..n /\ k \in 1..n
    BY <1>7
  <2>2. PICK x \in S, y \in S : x = Ids(S)[j] /\ y = Ids(S)[k]
    BY <1>6, <2>1
  <2>3. Cardinality(below(x)) + 1 = j /\ Cardinality(below(y)) + 1 = k
    BY <1>6, <2>1, <2>2
  <2>4. Cardinality(below(x)) \in Nat /\ Cardinality(below(y)) \in Nat
    BY <1>1, <1>2
  <2>5. x # y /\ ~(y < x)
    <3> HIDE DEF below, n
    <3>1. Cardinality(below(x)) < Cardinality(below(y))
      BY <1>11, <2>3, <2>4
    <3>2. ~(Cardinality(below(y)) < Cardinality(below(x)))
      BY <2>4, <3>1
    <3> QED BY <1>3, <2>4, <3>1, <3>2
  <2>6. x \in Nat /\ y \in Nat
    OBVIOUS
  <2> QED BY <2>2, <2>5, <2>6
<1> QED BY <1>8, <1>9, <1>10, <1>11
=============================================================================

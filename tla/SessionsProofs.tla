--------------------------- MODULE SessionsProofs ---------------------------
(***************************************************************************)
(* Proofs about Sessions, for any users, browsers, tabs and requests.      *)
(***************************************************************************)
EXTENDS Sessions, FiniteSetTheorems, WellFoundedInduction, TLAPS

(* The browser a call belongs to. *)
Home(c) == BrowserOf[c[1]]

-----------------------------------------------------------------------------
(* There is a place for the row of every call that opens a session.        *)

(* What a function takes on over a finite set is no larger than the set,   *)
(* and smaller without a value that it takes on.                           *)
LEMMA ImageIsSmall ==
    ASSUME NEW S, IsFiniteSet(S), NEW f
    PROVE  /\ IsFiniteSet({f[x] : x \in S})
           /\ Cardinality({f[x] : x \in S}) \in Nat /\ Cardinality(S) \in Nat
           /\ Cardinality({f[x] : x \in S}) <= Cardinality(S)
<1> DEFINE T == {f[x] : x \in S}
           g == [x \in S |-> f[x]]
<1>1. g \in Surjection(S, T)
  BY DEF Surjection
<1>2. IsFiniteSet(T) /\ Cardinality(T) <= Cardinality(S)
  <2> HIDE DEF g, T
  <2> QED BY <1>1, FS_Surjection
<1> QED BY <1>2, FS_CardinalityType

(* A value that is left out makes one less. *)
LEMMA ImageWithout ==
    ASSUME NEW S, IsFiniteSet(S), NEW f, NEW x \in S
    PROVE  /\ IsFiniteSet({f[y] : y \in S} \ {f[x]})
           /\ Cardinality({f[y] : y \in S} \ {f[x]}) \in Nat /\ Cardinality(S) \in Nat
           /\ Cardinality({f[y] : y \in S} \ {f[x]}) <= Cardinality(S) - 1
<1> DEFINE R == S \ {x}
           T == {f[y] : y \in S} \ {f[x]}
           U == {f[y] : y \in R}
<1>1. IsFiniteSet(R) /\ Cardinality(R) = Cardinality(S) - 1 /\ Cardinality(S) \in Nat
  BY FS_RemoveElement, FS_CardinalityType
<1>2. IsFiniteSet(U) /\ Cardinality(U) \in Nat /\ Cardinality(U) <= Cardinality(R)
  <2> HIDE DEF R
  <2> QED BY <1>1, ImageIsSmall
<1>3. T \subseteq U
  OBVIOUS
<1>4. IsFiniteSet(T) /\ Cardinality(T) <= Cardinality(U) /\ Cardinality(T) \in Nat
  <2> HIDE DEF T, U
  <2> QED BY <1>2, <1>3, FS_Subset, FS_CardinalityType
<1> HIDE DEF T
<1>5. Cardinality(T) <= Cardinality(S) - 1
  <2> HIDE DEF U, R
  <2> QED BY <1>1, <1>2, <1>4
<1> QED BY <1>1, <1>4, <1>5 DEF T

(* What a function takes on over a set, but for 0. *)
Values(f, S) == {f[x] : x \in S} \ {0}

(* Not more values than elements, and fewer when one of them is 0.         *)
LEMMA ValuesAreFew ==
    ASSUME NEW S, IsFiniteSet(S), NEW f
    PROVE  /\ IsFiniteSet(Values(f, S))
           /\ Cardinality(Values(f, S)) \in Nat /\ Cardinality(S) \in Nat
           /\ Cardinality(Values(f, S)) <= Cardinality(S)
           /\ (\E x \in S : f[x] = 0) => Cardinality(Values(f, S)) <= Cardinality(S) - 1
<1> DEFINE T == {f[x] : x \in S}
<1>1. /\ IsFiniteSet(T) /\ Cardinality(T) \in Nat /\ Cardinality(S) \in Nat
      /\ Cardinality(T) <= Cardinality(S)
  BY ImageIsSmall
<1>2. ASSUME NEW x \in S, f[x] = 0
      PROVE  Cardinality(T \ {0}) <= Cardinality(S) - 1
  BY <1>2, ImageWithout
<1> HIDE DEF T
<1>3. /\ IsFiniteSet(T \ {0}) /\ Cardinality(T \ {0}) \in Nat
      /\ Cardinality(T \ {0}) <= Cardinality(T)
  BY <1>1, FS_Subset, FS_CardinalityType
<1>4. Values(f, S) = T \ {0}
  BY DEF Values, T
<1>5. (\E x \in S : f[x] = 0) => Cardinality(T \ {0}) <= Cardinality(S) - 1
  BY <1>2
<1>6. Cardinality(T \ {0}) <= Cardinality(S)
  BY <1>1, <1>3
<1> QED BY <1>1, <1>3, <1>4, <1>5, <1>6

(* Two finite sets together. *)
LEMMA TogetherSmall ==
    ASSUME NEW S, IsFiniteSet(S), NEW T, IsFiniteSet(T)
    PROVE  /\ IsFiniteSet(S \cup T)
           /\ Cardinality(S \cup T) \in Nat
           /\ Cardinality(S) \in Nat /\ Cardinality(T) \in Nat
           /\ Cardinality(S \cup T) <= Cardinality(S) + Cardinality(T)
<1>1. IsFiniteSet(S \cap T)
  BY FS_Subset
<1>2. Cardinality(S \cap T) \in Nat
  BY <1>1, FS_CardinalityType
<1>3. /\ IsFiniteSet(S \cup T)
      /\ Cardinality(S \cup T) = Cardinality(S) + Cardinality(T) - Cardinality(S \cap T)
  BY FS_Union
<1>4. Cardinality(S) \in Nat /\ Cardinality(T) \in Nat /\ Cardinality(S \cup T) \in Nat
  BY <1>3, FS_CardinalityType
<1> QED BY <1>2, <1>3, <1>4

(* One value for each jar and five for each tab. *)
Places(j, B, g1, g2, g3, g4, g5, T) ==
    Values(j, B) \cup Values(g1, T) \cup Values(g2, T)
        \cup Values(g3, T) \cup Values(g4, T) \cup Values(g5, T)

(* So many, and one less where one of them is 0. *)
LEMMA OnePlaceLeft ==
    ASSUME NEW B, IsFiniteSet(B), NEW T, IsFiniteSet(T),
           NEW j, NEW g1, NEW g2, NEW g3, NEW g4, NEW g5,
           \E x \in T : g3[x] = 0 \/ g4[x] = 0 \/ g5[x] = 0,
           NEW R, R \subseteq Places(j, B, g1, g2, g3, g4, g5, T)
    PROVE  IsFiniteSet(R) /\ Cardinality(R) <= Cardinality(B) + 5 * Cardinality(T) - 1
<1> PICK x \in T : g3[x] = 0 \/ g4[x] = 0 \/ g5[x] = 0
  OBVIOUS
<1>1. PICK V0, V1, V2, V3, V4, V5 :
         /\ V0 = Values(j, B) /\ V1 = Values(g1, T) /\ V2 = Values(g2, T)
         /\ V3 = Values(g3, T) /\ V4 = Values(g4, T) /\ V5 = Values(g5, T)
  OBVIOUS
<1>2. /\ IsFiniteSet(V0) /\ Cardinality(V0) \in Nat /\ Cardinality(B) \in Nat
      /\ Cardinality(V0) <= Cardinality(B)
  BY <1>1, ValuesAreFew
<1>3. /\ IsFiniteSet(V1) /\ Cardinality(V1) \in Nat /\ Cardinality(T) \in Nat
      /\ Cardinality(V1) <= Cardinality(T)
  BY <1>1, ValuesAreFew
<1>4. IsFiniteSet(V2) /\ Cardinality(V2) \in Nat /\ Cardinality(V2) <= Cardinality(T)
  BY <1>1, ValuesAreFew
<1>5. /\ IsFiniteSet(V3) /\ Cardinality(V3) \in Nat /\ Cardinality(V3) <= Cardinality(T)
      /\ g3[x] = 0 => Cardinality(V3) <= Cardinality(T) - 1
  BY <1>1, ValuesAreFew
<1>6. /\ IsFiniteSet(V4) /\ Cardinality(V4) \in Nat /\ Cardinality(V4) <= Cardinality(T)
      /\ g4[x] = 0 => Cardinality(V4) <= Cardinality(T) - 1
  BY <1>1, ValuesAreFew
<1>7. /\ IsFiniteSet(V5) /\ Cardinality(V5) \in Nat /\ Cardinality(V5) <= Cardinality(T)
      /\ g5[x] = 0 => Cardinality(V5) <= Cardinality(T) - 1
  BY <1>1, ValuesAreFew
<1>8. PICK W1 : W1 = V0 \cup V1
  OBVIOUS
<1>9. PICK W2 : W2 = W1 \cup V2
  OBVIOUS
<1>10. PICK W3 : W3 = W2 \cup V3
  OBVIOUS
<1>11. PICK W4 : W4 = W3 \cup V4
  OBVIOUS
<1>12. PICK W5 : W5 = W4 \cup V5
  OBVIOUS
<1>13. /\ IsFiniteSet(W1) /\ Cardinality(W1) \in Nat
       /\ Cardinality(W1) <= Cardinality(V0) + Cardinality(V1)
  BY <1>2, <1>3, <1>8, TogetherSmall
<1>14. /\ IsFiniteSet(W2) /\ Cardinality(W2) \in Nat
       /\ Cardinality(W2) <= Cardinality(W1) + Cardinality(V2)
  BY <1>4, <1>9, <1>13, TogetherSmall
<1>15. /\ IsFiniteSet(W3) /\ Cardinality(W3) \in Nat
       /\ Cardinality(W3) <= Cardinality(W2) + Cardinality(V3)
  BY <1>5, <1>10, <1>14, TogetherSmall
<1>16. /\ IsFiniteSet(W4) /\ Cardinality(W4) \in Nat
       /\ Cardinality(W4) <= Cardinality(W3) + Cardinality(V4)
  BY <1>6, <1>11, <1>15, TogetherSmall
<1>17. /\ IsFiniteSet(W5) /\ Cardinality(W5) \in Nat
       /\ Cardinality(W5) <= Cardinality(W4) + Cardinality(V5)
  BY <1>7, <1>12, <1>16, TogetherSmall
<1>18. Cardinality(W5) <= Cardinality(B) + 5 * Cardinality(T) - 1
  BY <1>2, <1>3, <1>4, <1>5, <1>6, <1>7, <1>13, <1>14, <1>15, <1>16, <1>17
<1>19. R \subseteq W5
  BY <1>1, <1>8, <1>9, <1>10, <1>11, <1>12 DEF Places
<1>20. IsFiniteSet(R) /\ Cardinality(R) \in Nat /\ Cardinality(R) <= Cardinality(W5)
  BY <1>17, <1>19, FS_Subset, FS_CardinalityType
<1> QED BY <1>2, <1>3, <1>17, <1>18, <1>20

(* A set of numbers that is not empty has a least one. *)
LEMMA LeastIsIn ==
    ASSUME NEW S \in SUBSET Nat, S # {}
    PROVE  Min(S) \in S
<1>1. PICK x \in S : \A y \in S : <<y, x>> \notin OpToRel(<, Nat)
  BY NatLessThanWellFounded, WFMin
<1>2. ASSUME NEW y \in S PROVE x <= y
  <2>1. x \in Nat /\ y \in Nat /\ <<y, x>> \in Nat \X Nat
    OBVIOUS
  <2>2. <<y, x>> \notin {ss \in Nat \X Nat : ss[1] < ss[2]}
    BY <1>1 DEF OpToRel
  <2>3. ~(y < x)
    BY <2>1, <2>2
  <2> QED BY <2>1, <2>3
<1> QED BY <1>2 DEF Min

-----------------------------------------------------------------------------
(* What the calls of each slot look like. *)
Shaped(c, row) ==
    /\ row.pc = "idle" => row.presented = 0 /\ row.issued = 0
    /\ row.pc # "answered" => row.answer = "none"
    /\ row.issued # 0 => row.answer = "ok"
    /\ row.answer = "ok" => row.issued \in Rows /\ row.kind # "logout"
    /\ row.pc # "idle" => (c[2] = "form" <=> row.kind # "refresh")
    /\ row.kind = "login" => row.presented = 0 /\ (row.pc # "idle" => row.user \in Users)
    /\ row.pc \in {"checked", "spent"} => row.kind # "logout" /\ row.user \in Users
    /\ row.pc = "spent" => row.kind = "refresh"
    /\ row.pc \in {"checked", "spent"} /\ row.kind = "refresh" => row.presented \in Rows

CallsShaped == \A c \in Calls : Shaped(c, call[c])

TypeInv == TypeOK /\ CallsShaped /\ \A u \in Users : resets[u] <= events

(* Only call c moves, and into a row that a call of its slot may have.     *)
OnlyCall(c) ==
    /\ call' = [d \in Calls |-> IF d = c THEN call'[c] ELSE call[d]]
    /\ call'[c] \in CallRow /\ Shaped(c, call'[c])

(* Such a step leaves every call in its type and shape. *)
LEMMA OneCallTyped ==
    ASSUME TypeInv, NEW c \in Calls, OnlyCall(c)
    PROVE  call' \in [Calls -> CallRow] /\ CallsShaped'
<1>1. call \in [Calls -> CallRow] /\ \A d \in Calls : Shaped(d, call[d])
  BY DEF TypeInv, TypeOK, CallsShaped
<1>2. \A d \in Calls : call'[d] = IF d = c THEN call'[c] ELSE call[d]
  BY DEF OnlyCall
<1>3. \A d \in Calls : call'[d] \in CallRow /\ Shaped(d, call'[d])
  BY <1>1, <1>2 DEF OnlyCall
<1>4. call' \in [Calls -> CallRow]
  BY <1>3 DEF OnlyCall
<1> QED BY <1>3, <1>4 DEF CallsShaped

(* A call that holds a proof leaves a place for its row.                   *)
LEMMA PlaceIsFree ==
    ASSUME TypeInv, NEW c \in Calls, call[c].pc \in {"checked", "spent"}
    PROVE  Min(FreeRows) \in FreeRows
<1> DEFINE g1 == [t \in Tabs |-> call[<<t, "renewal">>].presented]
           g2 == [t \in Tabs |-> call[<<t, "gone">>].presented]
           g3 == [t \in Tabs |-> call[<<t, "renewal">>].issued]
           g4 == [t \in Tabs |-> call[<<t, "gone">>].issued]
           g5 == [t \in Tabs |-> IF call[<<t, "form">>].issued # 0
                                 THEN call[<<t, "form">>].issued
                                 ELSE call[<<t, "form">>].presented]
           R == Rows \cap Held(cookie, call)
<1>1. PICK t \in Tabs, slot \in {"renewal", "form", "gone"} : c = <<t, slot>>
  BY DEF Calls
<1>2. \A d \in Calls : Shaped(d, call[d])
  BY DEF TypeInv, CallsShaped
<1>3. call[c].issued = 0
  BY <1>2 DEF Shaped
<1>4. g3[t] = 0 \/ g4[t] = 0 \/ g5[t] = 0
  <2>1. CASE slot = "renewal"
    BY <1>1, <1>3, <2>1
  <2>2. CASE slot = "gone"
    BY <1>1, <1>3, <2>2
  <2>3. CASE slot = "form"
    <3>1. call[c].presented = 0
      <4>1. c[2] = "form"
        BY <1>1, <2>3
      <4>2. call \in [Calls -> CallRow]
        BY DEF TypeInv, TypeOK
      <4> QED BY <1>2, <4>1, <4>2 DEF Shaped, CallRow
    <3> QED BY <1>1, <1>3, <2>3, <3>1
  <2> QED BY <1>1, <2>1, <2>2, <2>3
<1>5. ASSUME NEW k \in R
      PROVE  k \in Values(cookie, Browsers) \cup Values(g1, Tabs) \cup Values(g2, Tabs)
                       \cup Values(g3, Tabs) \cup Values(g4, Tabs) \cup Values(g5, Tabs)
  <2>1. k # 0
    BY TokensAssumption
  <2>2. CASE \E b \in Browsers : k = cookie[b]
    BY <2>1, <2>2 DEF Values
  <2>3. CASE \E d \in Calls : k \in {call[d].presented, call[d].issued}
    <3>1. PICK d \in Calls : k \in {call[d].presented, call[d].issued}
      BY <2>3
    <3>2. PICK s \in Tabs, place \in {"renewal", "form", "gone"} : d = <<s, place>>
      BY DEF Calls
    <3>3. CASE place = "renewal"
      <4>1. k = g1[s] \/ k = g3[s]
        BY <3>1, <3>2, <3>3
      <4> HIDE DEF g1, g2, g3, g4, g5
      <4> QED BY <2>1, <4>1 DEF Values
    <3>4. CASE place = "gone"
      <4>1. k = g2[s] \/ k = g4[s]
        BY <3>1, <3>2, <3>4
      <4> HIDE DEF g1, g2, g3, g4, g5
      <4> QED BY <2>1, <4>1 DEF Values
    <3>5. CASE place = "form"
      <4>1. call[d].issued # 0 => call[d].presented = 0
        <5>1. d[2] = "form" /\ call[d] \in CallRow /\ Shaped(d, call[d])
          BY <1>2, <3>2, <3>5 DEF TypeInv, TypeOK
        <5> QED BY <5>1 DEF Shaped, CallRow
      <4>2. k = g5[s]
        BY <2>1, <3>1, <3>2, <3>5, <4>1
      <4> HIDE DEF g1, g2, g3, g4, g5
      <4> QED BY <2>1, <4>2 DEF Values
    <3> QED BY <3>2, <3>3, <3>4, <3>5
  <2> QED BY <2>2, <2>3 DEF Held
<1>6. IsFiniteSet(R) /\ Cardinality(R) <= Cardinality(Browsers) + 5 * Cardinality(Tabs) - 1
  <2>1. IsFiniteSet(Browsers) /\ IsFiniteSet(Tabs)
    BY SessionsAssumption
  <2> HIDE DEF g1, g2, g3, g4, g5, R
  <2>2. R \subseteq Places(cookie, Browsers, g1, g2, g3, g4, g5, Tabs)
    BY <1>5 DEF Places
  <2>3. \E x \in Tabs : g3[x] = 0 \/ g4[x] = 0 \/ g5[x] = 0
    BY <1>1, <1>4
  <2> QED BY <2>1, <2>2, <2>3, OnePlaceLeft
<1>7. FreeRows # {}
  <2>1. SUFFICES ASSUME FreeRows = {} PROVE FALSE
    OBVIOUS
  <2>2. R = Rows
    BY <2>1 DEF FreeRows
  <2>3. Cardinality(Browsers) \in Nat /\ Cardinality(Tabs) \in Nat /\ Cardinality(R) \in Nat
    BY <1>6, SessionsAssumption, FS_CardinalityType
  <2> HIDE DEF R
  <2>4. Cardinality(Rows) >= Cardinality(Browsers) + 5 * Cardinality(Tabs)
    BY SessionsAssumption
  <2> QED BY <1>6, <2>2, <2>3, <2>4
<1>8. FreeRows \subseteq Nat
  BY TokensAssumption DEF FreeRows
<1> QED BY <1>7, <1>8, LeastIsIn

-----------------------------------------------------------------------------
(* What the steps do to the rows. *)
RowsTyped ==
    /\ tokens \in [Rows -> TokenRow]
    /\ \A k \in Rows : tokens[k].state = "none" <=> tokens[k].user = NoUser

(* A row goes, or stays with the user and the reset it was issued at, and  *)
(* is not revived.                                                         *)
RowsAge ==
    \A k \in Rows :
        tokens'[k].state # "none" =>
            /\ tokens[k].state # "none"
            /\ tokens'[k].user = tokens[k].user /\ tokens'[k].since = tokens[k].since
            /\ tokens'[k].state = "live" => tokens[k].state = "live"

(* Only rows of S are revoked. *)
NewlyRevoked(S) ==
    \A k \in Rows : tokens'[k].state = "revoked" /\ tokens[k].state # "revoked" => k \in S

(* Rows that are gone, revoked, expired or as they were.                   *)
MayBecome(old, new) ==
    \/ new = old \/ new = NoRow
    \/ old.state # "none" /\ new = [old EXCEPT !.state = "revoked"]
    \/ new = [old EXCEPT !.expired = TRUE]

(* A row that becomes one of these stays typed and is not revived.         *)
LEMMA RowBecomes ==
    ASSUME NEW old \in TokenRow, old.state = "none" <=> old.user = NoUser,
           NEW new, MayBecome(old, new)
    PROVE  /\ new \in TokenRow
           /\ new.state = "none" <=> new.user = NoUser
           /\ new.state # "none" =>
                 /\ old.state # "none"
                 /\ new.user = old.user /\ new.since = old.since
                 /\ new.state = "live" => old.state = "live"
<1>1. CASE new = old
  BY <1>1
<1>2. CASE new = NoRow
  BY <1>2 DEF TokenRow, NoRow
<1>3. CASE old.state # "none" /\ new = [old EXCEPT !.state = "revoked"]
  BY <1>3 DEF TokenRow
<1>4. CASE new = [old EXCEPT !.expired = TRUE]
  BY <1>4 DEF TokenRow
<1> QED BY <1>1, <1>2, <1>3, <1>4 DEF MayBecome

(* So of all rows at once. *)
LEMMA RowsChange ==
    ASSUME TypeInv, tokens' = [k \in Rows |-> tokens'[k]],
           \A k \in Rows : MayBecome(tokens[k], tokens'[k])
    PROVE  RowsTyped' /\ RowsAge
<1>1. RowsTyped
  BY DEF TypeInv, TypeOK, RowsTyped
<1>2. ASSUME NEW k \in Rows
      PROVE  /\ tokens'[k] \in TokenRow
             /\ tokens'[k].state = "none" <=> tokens'[k].user = NoUser
             /\ tokens'[k].state # "none" =>
                  /\ tokens[k].state # "none"
                  /\ tokens'[k].user = tokens[k].user /\ tokens'[k].since = tokens[k].since
                  /\ tokens'[k].state = "live" => tokens[k].state = "live"
  <2>1. /\ tokens[k] \in TokenRow /\ NoRow \in TokenRow
        /\ tokens[k].state = "none" <=> tokens[k].user = NoUser
    BY <1>1 DEF RowsTyped, TokenRow, NoRow
  <2>2. MayBecome(tokens[k], tokens'[k])
    OBVIOUS
  <2> QED BY <2>1, <2>2, RowBecomes
<1>3. tokens' \in [Rows -> TokenRow]
  BY <1>2
<1> QED BY <1>2, <1>3 DEF RowsTyped, RowsAge

(* Rows that are left alone age. *)
LEMMA RowsSame ==
    ASSUME TypeInv, UNCHANGED tokens
    PROVE  RowsTyped' /\ RowsAge /\ NewlyRevoked({})
<1>1. tokens' = [k \in Rows |-> tokens'[k]]
  BY DEF TypeInv, TypeOK
<1> QED BY <1>1, RowsChange DEF MayBecome, NewlyRevoked

(* So do those of which the unreachable are dropped. *)
LEMMA RowsForgotten ==
    ASSUME TypeInv, NEW jars, NEW calls, Forget(jars, calls)
    PROVE  RowsTyped' /\ RowsAge /\ NewlyRevoked({})
<1>1. /\ tokens' = [k \in Rows |-> tokens'[k]]
      /\ \A k \in Rows : tokens'[k] \in {tokens[k], NoRow}
  BY DEF Forget
<1>2. RowsTyped' /\ RowsAge
  BY <1>1, RowsChange DEF MayBecome
<1> QED BY <1>1, <1>2 DEF NewlyRevoked, NoRow

(* deleteMany leaves the user no row. *)
LEMMA RowsDeleted ==
    ASSUME TypeInv, NEW u \in Users, tokens' = DeleteAll(u)
    PROVE  /\ RowsTyped' /\ RowsAge /\ NewlyRevoked({})
           /\ \A k \in Rows : tokens'[k].user # u
<1>1. /\ tokens' = [k \in Rows |-> tokens'[k]]
      /\ \A k \in Rows : /\ tokens'[k] \in {tokens[k], NoRow}
                         /\ tokens[k].user = u => tokens'[k] = NoRow
  BY DEF DeleteAll
<1>2. RowsTyped' /\ RowsAge
  BY <1>1, RowsChange DEF MayBecome
<1> QED BY <1>1, <1>2, TokensAssumption DEF NewlyRevoked, NoRow

(* updateMany revives none. *)
LEMMA RowsRevoked ==
    ASSUME TypeInv, NEW u, tokens' = RevokeAll(u)
    PROVE  RowsTyped' /\ RowsAge
<1>1. /\ tokens' = [k \in Rows |-> tokens'[k]]
      /\ \A k \in Rows : \/ tokens'[k] = tokens[k]
                         \/ /\ tokens[k].state = "live"
                            /\ tokens'[k] = [tokens[k] EXCEPT !.state = "revoked"]
  BY DEF RevokeAll
<1> QED BY <1>1, RowsChange DEF MayBecome

(* A row that grows old is neither revived nor revoked. *)
LEMMA RowExpires ==
    ASSUME TypeInv, NEW j \in Rows, TokenExpires(j)
    PROVE  RowsTyped' /\ RowsAge /\ NewlyRevoked({})
<1>1. /\ tokens' = [k \in Rows |-> tokens'[k]]
      /\ \A k \in Rows : \/ tokens'[k] = tokens[k]
                         \/ tokens'[k] = [tokens[k] EXCEPT !.expired = TRUE]
  BY DEF TokenExpires, TypeInv, TypeOK
<1>2. RowsTyped' /\ RowsAge
  BY <1>1, RowsChange DEF MayBecome
<1>3. ASSUME NEW k \in Rows PROVE tokens'[k].state = tokens[k].state
  BY <1>1 DEF TypeInv, TypeOK, TokenRow
<1> QED BY <1>2, <1>3 DEF NewlyRevoked

(* A logout deletes at most a row. *)
LEMMA RowEnds ==
    ASSUME TypeInv, NEW c \in Calls, EndSession(c)
    PROVE  RowsTyped' /\ RowsAge /\ NewlyRevoked({})
<1>1. /\ tokens' = [k \in Rows |-> tokens'[k]]
      /\ \A k \in Rows : tokens'[k] \in {tokens[k], NoRow}
  BY DEF EndSession
<1>2. RowsTyped' /\ RowsAge
  BY <1>1, RowsChange DEF MayBecome
<1> QED BY <1>1, <1>2 DEF NewlyRevoked, NoRow

(* A rotation revokes the presented row alone and sweeps expired ones.     *)
LEMMA RowSpent ==
    ASSUME TypeInv, NEW c \in Calls, Spend(c)
    PROVE  RowsTyped' /\ RowsAge /\ NewlyRevoked({call[c].presented})
<1>1. CASE UNCHANGED tokens
  BY <1>1, RowsSame DEF NewlyRevoked
<1>2. CASE /\ tokens[call[c].presented].state # "none"
           /\ tokens' = [j \in Rows |->
                  IF tokens[j].user = call[c].user /\ tokens[j].expired THEN NoRow
                  ELSE IF j = call[c].presented
                       THEN [tokens[j] EXCEPT !.state = "revoked"] ELSE tokens[j]]
  <2>1. /\ tokens' = [k \in Rows |-> tokens'[k]]
        /\ \A k \in Rows :
              \/ tokens'[k] = tokens[k] \/ tokens'[k] = NoRow
              \/ /\ k = call[c].presented
                 /\ tokens'[k] = [tokens[k] EXCEPT !.state = "revoked"]
    BY <1>2
  <2>2. RowsTyped' /\ RowsAge
    BY <1>2, <2>1, RowsChange DEF MayBecome
  <2> QED BY <2>1, <2>2 DEF NewlyRevoked, NoRow
<1> QED BY <1>1, <1>2 DEF Spend

(* A row is issued into a free place and nothing else is written.          *)
RowIssued(c, k) ==
    /\ k \in FreeRows
    /\ tokens' = [tokens EXCEPT ![k] = [user |-> call[c].user, state |-> "live",
                                       expired |-> FALSE, since |-> call[c].since]]

(* A row that is inserted keeps the table typed and revokes none.          *)
LEMMA IssuedTyped ==
    ASSUME TypeInv, NEW c \in Calls, call[c].pc \in {"checked", "spent"}, NEW k, RowIssued(c, k)
    PROVE  RowsTyped' /\ NewlyRevoked({})
<1>1. /\ k \in Rows /\ tokens \in [Rows -> TokenRow]
      /\ call[c].user \in Users /\ call[c].since \in Nat
      /\ \A j \in Rows : tokens[j].state = "none" <=> tokens[j].user = NoUser
  BY DEF RowIssued, FreeRows, TypeInv, TypeOK, CallsShaped, Shaped, CallRow
<1>2. /\ \A j \in Rows \ {k} : tokens'[j] = tokens[j]
      /\ tokens'[k] = [user |-> call[c].user, state |-> "live",
                       expired |-> FALSE, since |-> call[c].since]
  BY <1>1 DEF RowIssued
<1>3. tokens' \in [Rows -> TokenRow]
  BY <1>1 DEF RowIssued, TokenRow
<1> QED BY <1>1, <1>2, <1>3, TokensAssumption DEF RowsTyped, NewlyRevoked

-----------------------------------------------------------------------------
(* What the steps do to the calls. *)
LEMMA NobodyCalls ==
    ASSUME TypeInv, NEW c \in Calls
    PROVE  NoCall \in CallRow /\ Shaped(c, NoCall)
BY DEF NoCall, CallRow, Shaped, Ids

(* A call that is answered without a row stays a call of its slot.         *)
LEMMA AnswerTyped ==
    ASSUME TypeInv, NEW c \in Calls, call[c].pc \in {"sent", "checked", "spent"},
           NEW a \in {"refused", "noCookie", "denied", "cleared", "failed"}, Answers(c, a)
    PROVE  /\ OnlyCall(c)
           /\ call'[c] = [call[c] EXCEPT !.pc = "answered", !.answer = a]
<1>1. call \in [Calls -> CallRow] /\ Shaped(c, call[c])
  BY DEF TypeInv, TypeOK, CallsShaped
<1>2. /\ call' = [d \in Calls |-> IF d = c THEN call'[c] ELSE call[d]]
      /\ call'[c] = [call[c] EXCEPT !.pc = "answered", !.answer = a]
  BY <1>1 DEF Answers
<1>3. call'[c] \in CallRow /\ Shaped(c, call'[c])
  <2>1. call[c] \in CallRow
    BY <1>1
  <2>2. call'[c] \in CallRow
    BY <1>2, <2>1 DEF CallRow
  <2>3. /\ call'[c].pc = "answered" /\ call'[c].answer = a /\ call'[c].kind = call[c].kind
        /\ call'[c].presented = call[c].presented /\ call'[c].issued = call[c].issued
        /\ call'[c].user = call[c].user
    BY <1>2, <2>1 DEF CallRow
  <2>4. Shaped(c, call'[c])
    BY <1>1, <2>3 DEF Shaped
  <2> QED BY <2>2, <2>4
<1> QED BY <1>2, <1>3 DEF OnlyCall

(* The call as it leaves, field by field. *)
LEMMA LeavesIs ==
    ASSUME NEW t, NEW kind, NEW u
    PROVE  Leaves(t, kind, u) =
               [pc |-> "sent", kind |-> kind, left |-> FALSE,
                presented |-> IF kind = "login" THEN 0 ELSE cookie[BrowserOf[t]],
                issued |-> 0, user |-> u, since |-> 0, answer |-> "none"]
<1>1. PICK p : p = IF kind = "login" THEN 0 ELSE cookie[BrowserOf[t]]
  OBVIOUS
<1>2. Leaves(t, kind, u) = [NoCall EXCEPT !.pc = "sent", !.kind = kind, !.user = u,
                                         !.presented = p]
  BY <1>1 DEF Leaves
<1>3. Leaves(t, kind, u) = [pc |-> "sent", kind |-> kind, left |-> FALSE, presented |-> p,
                            issued |-> 0, user |-> u, since |-> 0, answer |-> "none"]
  BY <1>2 DEF NoCall
<1> QED BY <1>1, <1>3

(* What the other proofs need of it. *)
LEMMA LeavesFields ==
    ASSUME NEW t, NEW kind, NEW u
    PROVE  /\ Leaves(t, kind, u).pc = "sent" /\ Leaves(t, kind, u).kind = kind
           /\ Leaves(t, kind, u).issued = 0
           /\ Leaves(t, kind, u).presented =
                  IF kind = "login" THEN 0 ELSE cookie[BrowserOf[t]]
<1>1. PICK p : p = IF kind = "login" THEN 0 ELSE cookie[BrowserOf[t]]
  OBVIOUS
<1>2. Leaves(t, kind, u) = [pc |-> "sent", kind |-> kind, left |-> FALSE, presented |-> p,
                            issued |-> 0, user |-> u, since |-> 0, answer |-> "none"]
  BY <1>1, LeavesIs
<1> QED BY <1>1, <1>2

(* A call that starts is one of its slot. *)
LEMMA StartTyped ==
    ASSUME TypeInv, NEW t \in Tabs, NEW slot \in {"renewal", "form"},
           NEW kind \in {"login", "refresh", "logout"}, NEW u \in Users \cup {NoUser},
           slot = "form" <=> kind # "refresh", kind = "login" => u \in Users,
           Starts(t, slot, kind, u)
    PROVE  /\ <<t, slot>> \in Calls
           /\ OnlyCall(<<t, slot>>) /\ call'[<<t, slot>>] = Leaves(t, kind, u)
<1>1. /\ <<t, slot>> \in Calls /\ call \in [Calls -> CallRow]
      /\ cookie[BrowserOf[t]] \in Ids
  BY SessionsAssumption DEF TypeInv, TypeOK, Calls
<1>2. PICK c \in Calls : c = <<t, slot>> /\ (c[2] = "form" <=> kind # "refresh")
  BY <1>1
<1>3. Leaves(t, kind, u) \in CallRow /\ Shaped(c, Leaves(t, kind, u))
  BY <1>1, <1>2 DEF Leaves, CallRow, Shaped, NoCall, Ids
<1>4. call' = [call EXCEPT ![c] = Leaves(t, kind, u)]
  BY <1>2 DEF Starts
<1>5. call'[c] = Leaves(t, kind, u)
  BY <1>1, <1>4
<1> QED BY <1>1, <1>2, <1>3, <1>4, <1>5 DEF OnlyCall

(* The login is proved while the account is active, or denied. *)
LEMMA ProveTyped ==
    ASSUME TypeInv, NEW c \in Calls, Prove(c)
    PROVE  /\ OnlyCall(c)
           /\ \/ /\ standing[call[c].user] = "active"
                 /\ call'[c] = [call[c] EXCEPT !.pc = "checked", !.since = resets[call[c].user]]
              \/ call'[c] = [call[c] EXCEPT !.pc = "answered", !.answer = "denied"]
<1>1. /\ call \in [Calls -> CallRow] /\ Shaped(c, call[c])
      /\ call[c].kind = "login" /\ call[c].pc = "sent"
  BY DEF TypeInv, TypeOK, CallsShaped, Prove, At
<1>2. CASE Answers(c, "denied")
  BY <1>1, <1>2, AnswerTyped
<1>3. CASE /\ standing[call[c].user] = "active"
           /\ call' = [call EXCEPT ![c].pc = "checked", ![c].since = resets[call[c].user]]
  <2>1. resets[call[c].user] \in Nat /\ call[c].user \in Users
    BY <1>1 DEF Shaped, TypeInv, TypeOK
  <2>2. /\ call' = [d \in Calls |-> IF d = c THEN call'[c] ELSE call[d]]
        /\ call'[c] = [call[c] EXCEPT !.pc = "checked", !.since = resets[call[c].user]]
    BY <1>1, <1>3
  <2>3. call'[c] \in CallRow /\ Shaped(c, call'[c])
    BY <1>1, <2>1, <2>2 DEF CallRow, Shaped
  <2> QED BY <1>3, <2>2, <2>3 DEF OnlyCall
<1> QED BY <1>2, <1>3 DEF Prove

(* A lookup finds a revoked row, refuses, or lets the renewal go on.       *)
LookedUp(c, k) ==
    /\ k \in Rows /\ tokens[k].state = "live"
    /\ standing[tokens[k].user] = "active" /\ tokens[k].user \in Users
    /\ call'[c] = [call[c] EXCEPT !.pc = "checked", !.user = tokens[k].user,
                                  !.since = resets[tokens[k].user]]

(* The three ways a lookup goes. *)
LEMMA LookupTyped ==
    ASSUME TypeInv, NEW c \in Calls, Lookup(c)
    PROVE  /\ OnlyCall(c) /\ RowsTyped' /\ RowsAge
           /\ call[c].kind = "refresh" /\ call[c].pc = "sent"
           /\ \/ /\ call[c].presented \in Rows /\ tokens[call[c].presented].state = "revoked"
                 /\ alarmed' = TRUE
              \/ UNCHANGED <<tokens, alarmed>>
           /\ \/ LookedUp(c, call[c].presented)
              \/ \E a \in {"noCookie", "refused"} :
                    call'[c] = [call[c] EXCEPT !.pc = "answered", !.answer = a]
<1> DEFINE k == call[c].presented
<1>1. /\ call \in [Calls -> CallRow] /\ Shaped(c, call[c])
      /\ call[c].kind = "refresh" /\ call[c].pc = "sent" /\ k \in Ids
  BY DEF TypeInv, TypeOK, CallsShaped, Lookup, At, CallRow
<1>2. CASE k = 0
  <2>1. Answers(c, "noCookie") /\ UNCHANGED <<tokens, alarmed>>
    BY <1>2 DEF Lookup
  <2> QED BY <1>1, <2>1, AnswerTyped, RowsSame
<1>3. CASE k # 0 /\ tokens[k].state = "revoked"
  <2>1. Answers(c, "refused") /\ tokens' = RevokeAll(tokens[k].user) /\ alarmed' = TRUE
    BY <1>3 DEF Lookup
  <2>2. k \in Rows
    BY <1>1, <1>3 DEF Ids
  <2> QED BY <1>1, <1>3, <2>1, <2>2, AnswerTyped, RowsRevoked
<1>4. CASE k # 0 /\ tokens[k].state # "revoked"
  <2>1. /\ UNCHANGED <<tokens, alarmed>>
        /\ IF /\ tokens[k].state = "live" /\ ~tokens[k].expired
              /\ standing[tokens[k].user] = "active"
           THEN call' = [call EXCEPT ![c].pc = "checked", ![c].user = tokens[k].user,
                                     ![c].since = resets[tokens[k].user]]
           ELSE Answers(c, "refused")
    BY <1>4 DEF Lookup
  <2>2. k \in Rows
    BY <1>1, <1>4 DEF Ids
  <2>3. CASE Answers(c, "refused")
    BY <1>1, <2>1, <2>3, AnswerTyped, RowsSame
  <2>4. CASE /\ tokens[k].state = "live" /\ standing[tokens[k].user] = "active"
             /\ call' = [call EXCEPT ![c].pc = "checked", ![c].user = tokens[k].user,
                                     ![c].since = resets[tokens[k].user]]
    <3>1. tokens[k].user \in Users /\ resets[tokens[k].user] \in Nat
      <4>1. tokens[k] \in TokenRow /\ tokens[k].user # NoUser
        BY <2>2, <2>4 DEF TypeInv, TypeOK
      <4>2. tokens[k].user \in Users
        BY <4>1 DEF TokenRow
      <4> QED BY <4>2 DEF TypeInv, TypeOK
    <3>2. PICK u \in Users, n \in Nat : u = tokens[k].user /\ n = resets[tokens[k].user]
      BY <3>1
    <3>3. /\ call' = [d \in Calls |-> IF d = c THEN call'[c] ELSE call[d]]
          /\ call'[c] = [call[c] EXCEPT !.pc = "checked", !.user = u, !.since = n]
      BY <1>1, <2>4, <3>2
    <3>4. call'[c] \in CallRow /\ Shaped(c, call'[c])
      BY <1>1, <2>2, <3>3 DEF CallRow, Shaped
    <3>5. LookedUp(c, k)
      BY <2>2, <2>4, <3>1, <3>2, <3>3 DEF LookedUp
    <3> QED BY <1>1, <2>1, <3>3, <3>4, <3>5, RowsSame DEF OnlyCall
  <2> QED BY <2>1, <2>3, <2>4
<1> QED BY <1>2, <1>3, <1>4

(* The two ways a rotation goes. *)
LEMMA SpendTyped ==
    ASSUME TypeInv, NEW c \in Calls, Spend(c)
    PROVE  /\ OnlyCall(c) /\ call[c].kind = "refresh" /\ call[c].pc = "checked"
           /\ call[c].presented \in Rows
           /\ \/ /\ UNCHANGED <<tokens, twice>>
                 /\ call'[c] = [call[c] EXCEPT !.pc = "answered", !.answer = "failed"]
              \/ /\ call'[c] = [call[c] EXCEPT !.pc = "spent"]
                 /\ twice' = (twice \/ tokens[call[c].presented].state = "revoked")
<1> DEFINE k == call[c].presented
<1>1. /\ call \in [Calls -> CallRow] /\ Shaped(c, call[c])
      /\ call[c].kind = "refresh" /\ call[c].pc = "checked"
  BY DEF TypeInv, TypeOK, CallsShaped, Spend, At
<1>2. k \in Rows
  BY <1>1 DEF Shaped
<1>3. CASE tokens[k].state = "none"
  <2>1. Answers(c, "failed") /\ UNCHANGED <<tokens, twice>>
    BY <1>3 DEF Spend
  <2> QED BY <1>1, <1>2, <2>1, AnswerTyped
<1>4. CASE tokens[k].state # "none"
  <2>1. /\ call' = [call EXCEPT ![c].pc = "spent"]
        /\ twice' = (twice \/ tokens[k].state = "revoked")
    BY <1>4 DEF Spend
  <2>2. /\ call' = [d \in Calls |-> IF d = c THEN call'[c] ELSE call[d]]
        /\ call'[c] = [call[c] EXCEPT !.pc = "spent"]
    BY <1>1, <2>1
  <2>3. call'[c] \in CallRow /\ Shaped(c, call'[c])
    BY <1>1, <2>2 DEF CallRow, Shaped
  <2> QED BY <1>1, <1>2, <2>1, <2>2, <2>3 DEF OnlyCall
<1> QED BY <1>3, <1>4

(* The two ways an insert goes; the place is free by the counting above.   *)
LEMMA IssueTyped ==
    ASSUME TypeInv, NEW c \in Calls, NEW k, k = Min(FreeRows), Issue(c, k)
    PROVE  /\ OnlyCall(c) /\ RowsTyped' /\ NewlyRevoked({})
           /\ \/ call[c].kind = "login" /\ call[c].pc = "checked"
              \/ call[c].kind = "refresh" /\ call[c].pc = "spent"
           /\ \/ /\ UNCHANGED tokens /\ standing[call[c].user] = "deleted"
                 /\ call'[c] = [call[c] EXCEPT !.pc = "answered", !.answer = "failed"]
              \/ /\ RowIssued(c, k) /\ standing[call[c].user] # "deleted"
                 /\ call'[c] = [call[c] EXCEPT !.pc = "answered", !.answer = "ok",
                                               !.issued = k]
<1>1. /\ call \in [Calls -> CallRow] /\ Shaped(c, call[c])
      /\ \/ call[c].kind = "login" /\ call[c].pc = "checked"
         \/ call[c].kind = "refresh" /\ call[c].pc = "spent"
  BY DEF TypeInv, TypeOK, CallsShaped, Issue, At
<1>2. k \in FreeRows /\ k \in Rows
  BY <1>1, PlaceIsFree DEF FreeRows
<1>3. CASE standing[call[c].user] = "deleted"
  <2>1. Answers(c, "failed") /\ UNCHANGED tokens
    BY <1>3 DEF Issue
  <2> QED BY <1>1, <1>3, <2>1, AnswerTyped, RowsSame
<1>4. CASE standing[call[c].user] # "deleted"
  <2>1. /\ call' = [call EXCEPT ![c].pc = "answered", ![c].answer = "ok", ![c].issued = k]
        /\ RowIssued(c, k)
    BY <1>2, <1>4 DEF Issue, RowIssued
  <2>2. /\ call' = [d \in Calls |-> IF d = c THEN call'[c] ELSE call[d]]
        /\ call'[c] = [call[c] EXCEPT !.pc = "answered", !.answer = "ok", !.issued = k]
    BY <1>1, <2>1
  <2>3. call'[c] \in CallRow /\ Shaped(c, call'[c])
    BY <1>1, <1>2, <2>2, TokensAssumption DEF CallRow, Shaped, Ids
  <2> QED BY <1>1, <1>4, <2>1, <2>2, <2>3, IssuedTyped DEF OnlyCall
<1> QED BY <1>3, <1>4

(* A logout is always answered. *)
LEMMA EndTyped ==
    ASSUME TypeInv, NEW c \in Calls, EndSession(c)
    PROVE  /\ OnlyCall(c) /\ call[c].kind = "logout" /\ call[c].pc = "sent"
           /\ call'[c] = [call[c] EXCEPT !.pc = "answered", !.answer = "cleared"]
<1>1. call[c].kind = "logout" /\ call[c].pc = "sent" /\ Answers(c, "cleared")
  BY DEF EndSession, At
<1> QED BY <1>1, AnswerTyped

-----------------------------------------------------------------------------
(* What the answers do to the tabs. *)
TabsTyped == tab \in [Tabs -> TabRow] /\ request \in [Requests -> RequestRow]

(* Requests that go on or fail with their renewal are requests. *)
LEMMA ResumeTyped ==
    ASSUME TypeInv, NEW t, NEW access \in {"none", "good"}, Resume(t, access)
    PROVE  request' \in [Requests -> RequestRow]
<1>1. request \in [Requests -> RequestRow]
  BY DEF TypeInv, TypeOK
<1>2. ASSUME NEW q \in Requests
      PROVE  [request[q] EXCEPT !.pc = "sent", !.bearer = access] \in RequestRow
  BY <1>1 DEF RequestRow
<1>3. NoRequest \in RequestRow
  BY DEF NoRequest, RequestRow
<1> QED BY <1>1, <1>2, <1>3 DEF Resume

(* What an answer makes of its tab and requests. *)
LEMMA SettledTyped ==
    ASSUME TypeInv, NEW c \in Calls, NEW answer, answer \in {"failed", call[c].answer},
           Settled(c, answer)
    PROVE  TabsTyped'
<1>1. /\ tab \in [Tabs -> TabRow] /\ request \in [Requests -> RequestRow] /\ c[1] \in Tabs
      /\ call[c] \in CallRow
  BY DEF TypeInv, TypeOK, Calls
<1>2. CASE UNCHANGED <<tab, request>>
  BY <1>1, <1>2 DEF TabsTyped
<1>3. ASSUME NEW u, u = IF answer = "ok" THEN tokens[call[c].issued].user ELSE NoUser,
             Refreshed(c[1], answer = "ok", u)
      PROVE  TabsTyped'
  <2>1. u \in Users \cup {NoUser}
    <3>1. CASE answer = "ok"
      <4>1. call[c].issued \in Rows
        BY <3>1 DEF TypeInv, CallsShaped, Shaped
      <4> QED BY <1>3, <4>1 DEF TypeInv, TypeOK, TokenRow
    <3> QED BY <1>3, <3>1
  <2>2. Resume(c[1], IF answer = "ok" THEN "good" ELSE "none")
    BY <1>3 DEF Refreshed
  <2>3. request' \in [Requests -> RequestRow]
    BY <2>2, ResumeTyped
  <2>4. PICK r : /\ tab' = [tab EXCEPT ![c[1]] = r]
                 /\ r \in TabRow
    <3>1. tab[c[1]] \in TabRow
      BY <1>1
    <3>2. PICK given \in BOOLEAN, ok \in BOOLEAN :
             given = (Waiting(c[1]) # {} /\ ~ok) /\ ok = (answer = "ok")
      OBVIOUS
    <3>3. PICK s : s = IF ok THEN (IF tab[c[1]].loading THEN u ELSE tab[c[1]].shows)
                       ELSE IF given \/ tab[c[1]].loading THEN NoUser ELSE tab[c[1]].shows
      OBVIOUS
    <3>4. PICK a : a = IF ok THEN u ELSE IF given THEN NoUser ELSE tab[c[1]].acts
      OBVIOUS
    <3>5. PICK x : x = IF ok THEN "good" ELSE IF given THEN "none" ELSE tab[c[1]].access
      OBVIOUS
    <3>6. tab' = [tab EXCEPT ![c[1]] = [loading |-> FALSE, shows |-> s, acts |-> a, access |-> x]]
      BY <1>3, <3>2, <3>3, <3>4, <3>5 DEF Refreshed
    <3>7. [loading |-> FALSE, shows |-> s, acts |-> a, access |-> x] \in TabRow
      BY <2>1, <3>1, <3>3, <3>4, <3>5 DEF TabRow
    <3> QED BY <3>6, <3>7
  <2> QED BY <1>1, <2>3, <2>4 DEF TabsTyped
<1>4. ASSUME NEW u \in Users \cup {NoUser}, NEW access \in {"good", "none"},
             SetTab(c[1], u, access)
      PROVE  TabsTyped'
  <2>1. tab[c[1]] \in TabRow
    BY <1>1
  <2>2. [tab[c[1]] EXCEPT !.shows = u, !.acts = u, !.access = access] \in TabRow
    BY <2>1 DEF TabRow
  <2>3. tab' = [tab EXCEPT ![c[1]] = [tab[c[1]] EXCEPT !.shows = u, !.acts = u, !.access = access]]
    BY <1>1, <1>4 DEF SetTab
  <2> QED BY <1>1, <1>4, <2>2, <2>3 DEF SetTab, TabsTyped
<1>5. call[c].user \in Users \cup {NoUser}
  BY <1>1 DEF CallRow
<1> QED BY <1>2, <1>3, <1>4, <1>5 DEF Settled

(* The answer leaves its call empty, and the cookie may take what it set.  *)
LEMMA DeliverTyped ==
    ASSUME TypeInv, NEW c \in Calls, Deliver(c)
    PROVE  /\ OnlyCall(c) /\ call'[c] = NoCall /\ TabsTyped' /\ RowsTyped' /\ RowsAge
           /\ NewlyRevoked({}) /\ cookie' \in [Browsers -> Ids] /\ Home(c) \in Browsers
           /\ \A b \in Browsers \ {Home(c)} : cookie'[b] = cookie[b]
           /\ cookie'[Home(c)] = IF call[c].answer = "ok" THEN call[c].issued
                                 ELSE IF call[c].answer \in {"refused", "cleared"} THEN 0
                                 ELSE cookie[Home(c)]
<1>1. /\ call \in [Calls -> CallRow] /\ cookie \in [Browsers -> Ids] /\ Home(c) \in Browsers
      /\ call[c].issued \in Ids /\ 0 \in Ids
  BY SessionsAssumption DEF TypeInv, TypeOK, Calls, Home, CallRow, Ids
<1>2. OnlyCall(c) /\ call'[c] = NoCall
  <2>1. call' = [call EXCEPT ![c] = NoCall]
    BY DEF Deliver
  <2> QED BY <1>1, <2>1, NobodyCalls DEF OnlyCall
<1>3. RowsTyped' /\ RowsAge /\ NewlyRevoked({})
  <2>1. PICK jars, calls : Forget(jars, calls)
    BY DEF Deliver
  <2> QED BY <2>1, RowsForgotten
<1>4. TabsTyped'
  BY SettledTyped DEF Deliver
<1>5. cookie' = [cookie EXCEPT ![Home(c)] =
                    IF call[c].answer = "ok" THEN call[c].issued
                    ELSE IF call[c].answer \in {"refused", "cleared"} THEN 0
                    ELSE cookie[Home(c)]]
  BY <1>1 DEF Deliver, Home
<1> QED BY <1>1, <1>2, <1>3, <1>4, <1>5

(* A lost answer leaves its call empty and the cookies alone. *)
LEMMA LoseTyped ==
    ASSUME TypeInv, NEW c \in Calls, Lose(c)
    PROVE  /\ OnlyCall(c) /\ call'[c] = NoCall /\ TabsTyped' /\ RowsTyped' /\ RowsAge
           /\ NewlyRevoked({}) /\ UNCHANGED cookie
<1>1. call \in [Calls -> CallRow]
  BY DEF TypeInv, TypeOK
<1>2. OnlyCall(c) /\ call'[c] = NoCall
  <2>1. call' = [call EXCEPT ![c] = NoCall]
    BY DEF Lose
  <2> QED BY <1>1, <2>1, NobodyCalls DEF OnlyCall
<1>3. RowsTyped' /\ RowsAge /\ NewlyRevoked({})
  <2>1. PICK jars, calls : Forget(jars, calls)
    BY DEF Lose
  <2> QED BY <2>1, RowsForgotten
<1>4. TabsTyped'
  BY SettledTyped DEF Lose
<1> QED BY <1>2, <1>3, <1>4 DEF Lose

(* A failure answers the call. *)
LEMMA FailTyped ==
    ASSUME TypeInv, NEW c \in Calls, Fail(c)
    PROVE  /\ OnlyCall(c) /\ call'[c] = [call[c] EXCEPT !.pc = "answered", !.answer = "failed"]
           /\ call[c].pc \in {"sent", "checked", "spent"}
BY AnswerTyped DEF Fail

(* A reload puts the renewal aside and starts another. *)
LEMMA ReloadTyped ==
    ASSUME TypeInv, NEW t \in Tabs, Reload(t)
    PROVE  /\ call' \in [Calls -> CallRow] /\ CallsShaped' /\ TabsTyped'
           /\ <<t, "renewal">> \in Calls /\ <<t, "gone">> \in Calls /\ <<t, "form">> \in Calls
           /\ call'[<<t, "renewal">>] = Leaves(t, "refresh", NoUser)
           /\ call'[<<t, "gone">>] = [call[<<t, "renewal">>] EXCEPT !.left = TRUE]
           /\ call'[<<t, "form">>] = [call[<<t, "form">>] EXCEPT !.left = Busy(t, "form")]
           /\ \A d \in Calls : \/ d \in {<<t, "renewal">>, <<t, "gone">>, <<t, "form">>}
                               \/ call'[d] = call[d]
<1>1. PICK r \in Calls, g \in Calls, f \in Calls :
         r = <<t, "renewal">> /\ g = <<t, "gone">> /\ f = <<t, "form">>
  BY DEF Calls
<1>2. /\ r # g /\ r # f /\ g # f
      /\ r[2] # "form" /\ g[2] # "form" /\ f[2] = "form"
  BY <1>1
<1>3. /\ call \in [Calls -> CallRow] /\ \A d \in Calls : Shaped(d, call[d])
      /\ cookie[BrowserOf[t]] \in Ids
  BY SessionsAssumption DEF TypeInv, TypeOK, CallsShaped
<1>4. call' = [call EXCEPT ![g] = [call[r] EXCEPT !.left = TRUE],
                           ![f].left = Busy(t, "form"),
                           ![r] = Leaves(t, "refresh", NoUser)]
  BY <1>1 DEF Reload
<1>5. /\ call'[r] = Leaves(t, "refresh", NoUser)
      /\ call'[g] = [call[r] EXCEPT !.left = TRUE]
      /\ call'[f] = [call[f] EXCEPT !.left = Busy(t, "form")]
      /\ \A d \in Calls : d \in {r, g, f} \/ call'[d] = call[d]
  BY <1>2, <1>3, <1>4
<1>6. call'[r] \in CallRow /\ Shaped(r, call'[r])
  <2>1. PICK j \in Ids : j = cookie[BrowserOf[t]]
    BY <1>3
  <2>2. call'[r] = [pc |-> "sent", kind |-> "refresh", left |-> FALSE, presented |-> j,
                    issued |-> 0, user |-> NoUser, since |-> 0, answer |-> "none"]
    BY <1>5, <2>1, LeavesIs
  <2> QED BY <1>2, <2>2 DEF CallRow, Shaped, Ids
<1>7. call'[g] \in CallRow /\ Shaped(g, call'[g])
  <2>1. call[r] \in CallRow /\ Shaped(r, call[r])
    BY <1>3
  <2> QED BY <1>2, <1>5, <2>1 DEF CallRow, Shaped
<1>8. call'[f] \in CallRow /\ Shaped(f, call'[f])
  <2>1. call[f] \in CallRow /\ Shaped(f, call[f]) /\ Busy(t, "form") \in BOOLEAN
    BY <1>3 DEF Busy
  <2> QED BY <1>2, <1>5, <2>1 DEF CallRow, Shaped
<1>9. \A d \in Calls : call'[d] \in CallRow /\ Shaped(d, call'[d])
  BY <1>3, <1>5, <1>6, <1>7, <1>8
<1>10. call' \in [Calls -> CallRow] /\ CallsShaped'
  BY <1>3, <1>4, <1>9 DEF CallsShaped
<1>11. TabsTyped'
  <2>1. /\ tab \in [Tabs -> TabRow] /\ request \in [Requests -> RequestRow]
        /\ NoRequest \in RequestRow
        /\ [loading |-> TRUE, shows |-> NoUser, acts |-> NoUser, access |-> "none"] \in TabRow
    BY DEF TypeInv, TypeOK, NoRequest, RequestRow, TabRow
  <2> QED BY <2>1 DEF Reload, TabsTyped
<1> QED BY <1>1, <1>5, <1>10, <1>11

(* The requests of the pages, and the renewal that one may start.          *)
LEMMA RequestsTyped ==
    ASSUME TypeInv, NEW q \in Requests, Send(q) \/ Serve(q) \/ Renew(q)
    PROVE  TabsTyped'
<1>1. /\ tab \in [Tabs -> TabRow] /\ request \in [Requests -> RequestRow]
      /\ NoRequest \in RequestRow /\ TabOf[q] \in Tabs
  BY SessionsAssumption DEF TypeInv, TypeOK, NoRequest, RequestRow
<1>2. PICK r \in RequestRow : request' = [request EXCEPT ![q] = r]
  <2>1. tab[TabOf[q]].access \in {"none", "good", "expired"}
    BY <1>1 DEF TabRow
  <2>2. CASE Send(q)
    <3>1. [pc |-> "sent", retried |-> FALSE, bearer |-> tab[TabOf[q]].access] \in RequestRow
      BY <2>1 DEF RequestRow
    <3> QED BY <2>2, <3>1 DEF Send
  <2>3. CASE Serve(q)
    BY <1>1, <2>3 DEF Serve
  <2>4. CASE Renew(q)
    <3>1. [pc |-> "waiting", retried |-> TRUE, bearer |-> "none"] \in RequestRow
      BY DEF RequestRow
    <3> QED BY <1>1, <2>4, <3>1 DEF Renew
  <2> QED BY <2>2, <2>3, <2>4
<1>3. tab' = tab
  BY DEF Send, Serve, Renew
<1> QED BY <1>1, <1>2, <1>3 DEF TabsTyped

(* A token that grows old stays a token. *)
LEMMA ExpiryTyped ==
    ASSUME TypeInv, NEW t \in Tabs, AccessExpires(t)
    PROVE  TabsTyped'
<1>1. tab \in [Tabs -> TabRow] /\ request \in [Requests -> RequestRow]
  BY DEF TypeInv, TypeOK
<1>2. tab' = [tab EXCEPT ![t] = [tab[t] EXCEPT !.access = "expired"]]
      /\ [tab[t] EXCEPT !.access = "expired"] \in TabRow
  <2>1. tab[t] \in TabRow
    BY <1>1
  <2> QED BY <1>1, <2>1 DEF AccessExpires, TabRow
<1>3. \A q \in Requests : [request[q] EXCEPT !.bearer = "expired"] \in RequestRow
  BY <1>1 DEF RequestRow
<1>4. request' \in [Requests -> RequestRow]
  BY <1>1, <1>3 DEF AccessExpires
<1>5. tab' \in [Tabs -> TabRow]
  BY <1>1, <1>2
<1> QED BY <1>4, <1>5 DEF TabsTyped

(* A page starts a renewal, or joins the one under way.                    *)
Renews(t) ==
    /\ <<t, "renewal">> \in Calls /\ ~Busy(t, "renewal") /\ OnlyCall(<<t, "renewal">>)
    /\ call'[<<t, "renewal">>] = Leaves(t, "refresh", NoUser)
    /\ crossed' = (crossed \/ SiblingRefreshing(t))

(* A refused request starts one renewal, joins one or is given up.         *)
LEMMA RenewTyped ==
    ASSUME TypeInv, NEW q \in Requests, Renew(q)
    PROVE  UNCHANGED <<call, crossed>> \/ \E t \in Tabs : Renews(t)
<1>1. TabOf[q] \in Tabs
  BY SessionsAssumption
<1>2. ASSUME Starts(TabOf[q], "renewal", "refresh", NoUser),
             crossed' = (crossed \/ SiblingRefreshing(TabOf[q]))
      PROVE  Renews(TabOf[q])
  <2>1. PICK t \in Tabs : t = TabOf[q]
    BY <1>1
  <2>2. /\ <<t, "renewal">> \in Calls /\ OnlyCall(<<t, "renewal">>)
        /\ call'[<<t, "renewal">>] = Leaves(t, "refresh", NoUser)
    BY <1>2, <2>1, StartTyped
  <2> QED BY <1>2, <2>1, <2>2 DEF Renews, Starts
<1> QED BY <1>1, <1>2 DEF Renew, RefreshSession

(* A form starts the call of its slot. *)
LEMMA FormTyped ==
    ASSUME TypeInv, NEW t \in Tabs, Logout(t) \/ \E u \in Users : Login(t, u)
    PROVE  \E kind \in {"login", "logout"}, u \in Users \cup {NoUser} :
              /\ <<t, "form">> \in Calls /\ ~Busy(t, "form") /\ OnlyCall(<<t, "form">>)
              /\ call'[<<t, "form">>] = Leaves(t, kind, u)
<1>1. CASE Logout(t)
  <2>1. Starts(t, "form", "logout", NoUser)
    BY <1>1 DEF Logout
  <2> QED BY <2>1, StartTyped DEF Starts
<1>2. ASSUME NEW u \in Users, Login(t, u)
      PROVE  /\ <<t, "form">> \in Calls /\ ~Busy(t, "form") /\ OnlyCall(<<t, "form">>)
             /\ call'[<<t, "form">>] = Leaves(t, "login", u)
  <2>1. Starts(t, "form", "login", u)
    BY <1>2 DEF Login
  <2> QED BY <2>1, StartTyped DEF Starts
<1> QED BY <1>1, <1>2

-----------------------------------------------------------------------------
(* A session or a proof from before the last reset of its user was raced   *)
(* by a reset.                                                             *)
Excused(u, n) == n < resets[u] => u \in raced

Proven(row) == row.pc \in {"checked", "spent"}

ResetInv ==
    /\ \A k \in Rows : tokens[k].state = "live" => Excused(tokens[k].user, tokens[k].since)
    /\ \A c \in Calls : Proven(call[c]) => Excused(call[c].user, call[c].since)

(* A proof was there, or is as young as the last reset. *)
ProofsFrom ==
    \A d \in Calls : Proven(call'[d]) =>
        \/ call'[d].since = resets[call'[d].user]
        \/ \E e \in Calls : /\ Proven(call[e]) /\ call[e].user = call'[d].user
                            /\ call[e].since = call'[d].since

(* A live row was so, or was issued on a proof. *)
RowsFrom ==
    \A k \in Rows : tokens'[k].state = "live" =>
        \/ /\ tokens[k].state = "live" /\ tokens'[k].user = tokens[k].user
           /\ tokens'[k].since = tokens[k].since
        \/ \E e \in Calls : /\ Proven(call[e]) /\ call[e].user = tokens'[k].user
                            /\ call[e].since = tokens'[k].since

(* A step whose proofs and live rows have an origin keeps ResetInv.        *)
LEMMA ResetKept ==
    ASSUME TypeInv, TypeInv', ResetInv, UNCHANGED <<resets, raced>>, ProofsFrom, RowsFrom
    PROVE  ResetInv'
<1>1. ASSUME NEW k \in Rows, tokens'[k].state = "live"
      PROVE  Excused(tokens'[k].user, tokens'[k].since)
  BY <1>1 DEF ResetInv, RowsFrom
<1>2. ASSUME NEW d \in Calls, Proven(call'[d])
      PROVE  Excused(call'[d].user, call'[d].since)
  <2>1. CASE call'[d].since = resets[call'[d].user]
    <3>1. call'[d].user \in Users
      BY <1>2 DEF TypeInv, CallsShaped, Shaped, Proven
    <3>2. resets[call'[d].user] \in Nat
      BY <3>1, SessionsAssumption DEF TypeInv, TypeOK
    <3>3. ~(call'[d].since < resets[call'[d].user])
      BY <2>1, <3>2
    <3> QED BY <3>3 DEF Excused
  <2> QED BY <1>2, <2>1 DEF ResetInv, ProofsFrom
<1>3. ASSUME NEW k \in Rows, tokens'[k].state = "live", tokens'[k].since < resets[tokens'[k].user]
      PROVE  tokens'[k].user \in raced
  BY <1>1, <1>3 DEF Excused
<1>4. ASSUME NEW d \in Calls, Proven(call'[d]), call'[d].since < resets[call'[d].user]
      PROVE  call'[d].user \in raced
  BY <1>2, <1>4 DEF Excused
<1>5. resets' = resets /\ raced' = raced
  OBVIOUS
<1> QED BY <1>3, <1>4, <1>5 DEF ResetInv, Excused, Proven

(* Rows that only age have one. *)
LEMMA AgedRows == ASSUME RowsAge PROVE RowsFrom
BY DEF RowsAge, RowsFrom

(* A call that holds no proof afterwards, or the one it had. *)
LEMMA OneProof ==
    ASSUME NEW c \in Calls, OnlyCall(c),
           Proven(call'[c]) =>
              \/ call'[c].since = resets[call'[c].user]
              \/ /\ Proven(call[c]) /\ call'[c].user = call[c].user
                 /\ call'[c].since = call[c].since
    PROVE  ProofsFrom
<1>1. \A d \in Calls : call'[d] = IF d = c THEN call'[c] ELSE call[d]
  BY DEF OnlyCall
<1> QED BY <1>1 DEF ProofsFrom

-----------------------------------------------------------------------------
(* Every step keeps the types, and the sessions that a reset ends.         *)
CountsTyped ==
    /\ standing \in [Users -> {"active", "disabled", "deleted"}]
    /\ resets \in [Users -> 0..MaxEvents]
    /\ \A u \in Users : resets[u] <= events
    /\ events \in 0..MaxEvents
    /\ alarmed \in BOOLEAN /\ twice \in BOOLEAN /\ raced \subseteq Users
    /\ lost \in BOOLEAN /\ crossed \in BOOLEAN

CallsTyped == call \in [Calls -> CallRow] /\ CallsShaped

CookiesTyped == cookie \in [Browsers -> Ids]

(* The type invariant, in the parts that a step writes together.           *)
LEMMA TypeParts ==
    TypeInv <=> CountsTyped /\ RowsTyped /\ CallsTyped /\ TabsTyped /\ CookiesTyped
BY DEF TypeInv, TypeOK, CountsTyped, RowsTyped, CallsTyped, TabsTyped, CookiesTyped

(* The same, after a step. *)
LEMMA TypePartsNext ==
    CountsTyped' /\ RowsTyped' /\ CallsTyped' /\ TabsTyped' /\ CookiesTyped' => TypeInv'
BY DEF TypeInv, TypeOK, CountsTyped, RowsTyped, CallsTyped, TabsTyped, CookiesTyped

(* The steps that write neither events nor an account. *)
LEMMA CountsSame ==
    ASSUME TypeInv, UNCHANGED <<standing, resets, raced, events>>,
           alarmed' \in BOOLEAN, twice' \in BOOLEAN, lost' \in BOOLEAN, crossed' \in BOOLEAN
    PROVE  CountsTyped'
BY TypeParts DEF CountsTyped

(* The ones that are counted. *)
LEMMA CountsMore ==
    ASSUME TypeInv, UNCHANGED <<standing, resets, raced>>,
           events < MaxEvents, events' = events + 1,
           alarmed' \in BOOLEAN, twice' \in BOOLEAN, lost' \in BOOLEAN, crossed' \in BOOLEAN
    PROVE  CountsTyped'
<1>1. CountsTyped /\ MaxEvents \in Nat
  BY TypeParts, SessionsAssumption
<1>2. events' \in 0..MaxEvents
  BY <1>1 DEF CountsTyped
<1>3. \A u \in Users : resets[u] <= events'
  BY <1>1 DEF CountsTyped
<1> QED BY <1>1, <1>2, <1>3 DEF CountsTyped

(* A step of one call that writes no account.                              *)
LEMMA CallStep ==
    ASSUME TypeInv, ResetInv, NEW c \in Calls, OnlyCall(c), CountsTyped',
           UNCHANGED <<resets, raced>>, RowsTyped', RowsFrom, TabsTyped', CookiesTyped',
           Proven(call'[c]) =>
              \/ call'[c].since = resets[call'[c].user]
              \/ /\ Proven(call[c]) /\ call'[c].user = call[c].user
                 /\ call'[c].since = call[c].since
    PROVE  TypeInv' /\ ResetInv'
<1>1. CallsTyped'
  BY OneCallTyped DEF CallsTyped
<1>2. TypeInv'
  BY <1>1, TypePartsNext
<1>3. ProofsFrom
  BY OneProof
<1> QED BY <1>2, <1>3, ResetKept

(* A step that moves no call. *)
LEMMA QuietStep ==
    ASSUME TypeInv, ResetInv, CountsTyped', UNCHANGED <<call, resets, raced>>,
           RowsTyped', RowsAge, TabsTyped', CookiesTyped'
    PROVE  TypeInv' /\ ResetInv'
<1>1. CallsTyped'
  BY TypeParts DEF CallsTyped, CallsShaped
<1>2. TypeInv'
  BY <1>1, TypePartsNext
<1>3. ProofsFrom
  BY DEF ProofsFrom
<1> QED BY <1>2, <1>3, AgedRows, ResetKept

(* What the server does of a call. *)
LEMMA ServerKeeps ==
    ASSUME TypeInv, ResetInv, NEW c \in Calls, Server(c)
    PROVE  TypeInv' /\ ResetInv'
<1>1. UNCHANGED <<standing, resets, raced, cookie, tab, request, lost, crossed, events>>
  BY DEF Server, clientVars, serverVars, Prove, Lookup, Spend, Issue, EndSession
<1>2. TabsTyped' /\ CookiesTyped' /\ lost' \in BOOLEAN /\ crossed' \in BOOLEAN
      /\ alarmed \in BOOLEAN /\ twice \in BOOLEAN
  BY <1>1, TypeParts DEF TabsTyped, CookiesTyped, CountsTyped
<1>3. call[c] \in CallRow
  BY DEF TypeInv, TypeOK
<1>4. CASE Prove(c)
  <2>1. OnlyCall(c) /\ (\/ call'[c] = [call[c] EXCEPT !.pc = "checked",
                                                     !.since = resets[call[c].user]]
                        \/ call'[c] = [call[c] EXCEPT !.pc = "answered", !.answer = "denied"])
    BY <1>4, ProveTyped
  <2>2. Proven(call'[c]) => call'[c].since = resets[call'[c].user]
    BY <1>3, <2>1 DEF CallRow, Proven
  <2>3. RowsTyped' /\ RowsFrom
    BY <1>4, RowsSame, AgedRows DEF Prove, serverVars
  <2>4. CountsTyped'
    BY <1>1, <1>2, <1>4, CountsSame DEF Prove, serverVars
  <2> QED BY <1>1, <1>2, <2>1, <2>2, <2>3, <2>4, CallStep
<1>5. CASE Lookup(c)
  <2>1. OnlyCall(c) /\ RowsTyped' /\ RowsFrom
    BY <1>5, LookupTyped, AgedRows
  <2>2. alarmed' \in BOOLEAN /\ twice' \in BOOLEAN
    BY <1>2, <1>5, LookupTyped DEF Lookup
  <2>3. Proven(call'[c]) => call'[c].since = resets[call'[c].user]
    <3>1. CASE LookedUp(c, call[c].presented)
      <4>1. PICK u, n : u = tokens[call[c].presented].user /\ n = resets[u]
        OBVIOUS
      <4>2. call'[c] = [call[c] EXCEPT !.pc = "checked", !.user = u, !.since = n]
        BY <3>1, <4>1 DEF LookedUp
      <4> QED BY <1>3, <4>1, <4>2 DEF CallRow
    <3>2. CASE call'[c].pc = "answered"
      BY <3>2 DEF Proven
    <3>3. CASE \E a \in {"noCookie", "refused"} :
                  call'[c] = [call[c] EXCEPT !.pc = "answered", !.answer = a]
      BY <1>3, <3>2, <3>3 DEF CallRow
    <3> QED BY <1>5, <3>1, <3>3, LookupTyped
  <2>4. CountsTyped'
    BY <1>1, <1>2, <2>2, CountsSame
  <2> QED BY <1>1, <1>2, <2>1, <2>3, <2>4, CallStep
<1>6. CASE Spend(c)
  <2>1. OnlyCall(c) /\ RowsTyped' /\ RowsFrom
    BY <1>6, SpendTyped, RowSpent, AgedRows
  <2>2. alarmed' \in BOOLEAN /\ twice' \in BOOLEAN
    BY <1>2, <1>6, SpendTyped DEF Spend
  <2>3. Proven(call'[c]) => /\ Proven(call[c]) /\ call'[c].user = call[c].user
                            /\ call'[c].since = call[c].since
    BY <1>3, <1>6, SpendTyped DEF CallRow, Proven
  <2>4. CountsTyped'
    BY <1>1, <1>2, <2>2, CountsSame
  <2> QED BY <1>1, <1>2, <2>1, <2>3, <2>4, CallStep
<1>7. CASE Issue(c, Min(FreeRows))
  <2>1. PICK k : k = Min(FreeRows)
    OBVIOUS
  <2>2. OnlyCall(c) /\ RowsTyped' /\ Proven(call[c])
    BY <1>7, <2>1, IssueTyped DEF Proven
  <2>3. RowsFrom
    <3>1. CASE UNCHANGED tokens
      BY <3>1 DEF RowsFrom
    <3>2. CASE RowIssued(c, k)
      <4>1. \A j \in Rows : \/ tokens'[j] = tokens[j]
                            \/ /\ tokens'[j].user = call[c].user
                               /\ tokens'[j].since = call[c].since
        BY <3>2 DEF RowIssued, TypeInv, TypeOK
      <4> QED BY <2>2, <4>1 DEF RowsFrom
    <3> QED BY <1>7, <2>1, <3>1, <3>2, IssueTyped
  <2>4. ~Proven(call'[c])
    BY <1>3, <1>7, <2>1, IssueTyped DEF CallRow, Proven
  <2>5. CountsTyped'
    BY <1>1, <1>2, <1>7, CountsSame DEF Issue
  <2> QED BY <1>1, <1>2, <2>2, <2>3, <2>4, <2>5, CallStep
<1>8. CASE EndSession(c)
  <2>1. OnlyCall(c) /\ RowsTyped' /\ RowsFrom
    BY <1>8, EndTyped, RowEnds, AgedRows
  <2>2. ~Proven(call'[c])
    BY <1>3, <1>8, EndTyped DEF CallRow, Proven
  <2>3. CountsTyped'
    BY <1>1, <1>2, <1>8, CountsSame DEF EndSession
  <2> QED BY <1>1, <1>2, <2>1, <2>2, <2>3, CallStep
<1> QED BY <1>4, <1>5, <1>6, <1>7, <1>8 DEF Server

(* What the network makes of its answer. *)
LEMMA AnswerKeeps ==
    ASSUME TypeInv, ResetInv, NEW c \in Calls, Deliver(c) \/ Lose(c) \/ Fail(c)
    PROVE  TypeInv' /\ ResetInv'
<1>1. /\ call[c] \in CallRow /\ CountsTyped /\ TabsTyped /\ CookiesTyped /\ NoCall.pc = "idle"
  BY TypeParts DEF TypeInv, TypeOK, NoCall
<1>2. CASE Deliver(c)
  <2>1. /\ OnlyCall(c) /\ TabsTyped' /\ RowsTyped' /\ RowsFrom /\ CookiesTyped'
        /\ ~Proven(call'[c])
    BY <1>1, <1>2, DeliverTyped, AgedRows DEF Proven, CookiesTyped
  <2>2. /\ UNCHANGED <<standing, resets, raced, events>>
        /\ alarmed' \in BOOLEAN /\ twice' \in BOOLEAN /\ lost' \in BOOLEAN /\ crossed' \in BOOLEAN
    BY <1>1, <1>2 DEF Deliver, CountsTyped
  <2>3. CountsTyped'
    BY <2>2, CountsSame
  <2> QED BY <2>1, <2>2, <2>3, CallStep
<1>3. CASE Lose(c)
  <2>1. /\ OnlyCall(c) /\ TabsTyped' /\ RowsTyped' /\ RowsFrom /\ CookiesTyped'
        /\ ~Proven(call'[c])
    BY <1>1, <1>3, LoseTyped, AgedRows DEF Proven, CookiesTyped
  <2>2. /\ UNCHANGED <<standing, resets, raced>>
        /\ alarmed' \in BOOLEAN /\ twice' \in BOOLEAN /\ lost' \in BOOLEAN /\ crossed' \in BOOLEAN
        /\ \/ events' = events
           \/ events < MaxEvents /\ events' = events + 1
    BY <1>1, <1>3 DEF Lose, CountsTyped
  <2>3. CountsTyped'
    BY <2>2, CountsSame, CountsMore
  <2> QED BY <2>1, <2>2, <2>3, CallStep
<1>4. CASE Fail(c)
  <2>1. /\ OnlyCall(c) /\ call'[c].pc = "answered"
    BY <1>1, <1>4, FailTyped DEF CallRow
  <2>2. /\ UNCHANGED <<tokens, standing, resets, raced, tab, request, cookie>>
        /\ alarmed' \in BOOLEAN /\ twice' \in BOOLEAN /\ lost' \in BOOLEAN /\ crossed' \in BOOLEAN
        /\ events < MaxEvents /\ events' = events + 1
    BY <1>1, <1>4 DEF Fail, CountsTyped, serverVars, clientVars
  <2>3. CountsTyped' /\ RowsTyped' /\ RowsFrom /\ TabsTyped' /\ CookiesTyped'
    BY <1>1, <2>2, CountsMore, RowsSame, AgedRows DEF TabsTyped, CookiesTyped
  <2>4. ~Proven(call'[c])
    BY <2>1 DEF Proven
  <2> QED BY <2>1, <2>2, <2>3, <2>4, CallStep
<1> QED BY <1>2, <1>3, <1>4

(* A page that is loaded anew. *)
LEMMA ReloadKeeps ==
    ASSUME TypeInv, ResetInv, NEW t \in Tabs, Reload(t)
    PROVE  TypeInv' /\ ResetInv'
<1>1. /\ UNCHANGED <<tokens, standing, resets, raced, cookie, alarmed, twice>>
      /\ events < MaxEvents /\ events' = events + 1
      /\ CountsTyped /\ CookiesTyped /\ lost' \in BOOLEAN /\ crossed' \in BOOLEAN
  <2>1. CountsTyped /\ CookiesTyped
    BY TypeParts
  <2> QED BY <2>1 DEF Reload, serverVars, CountsTyped, Busy, SiblingRefreshing
<1>2. CountsTyped' /\ RowsTyped' /\ RowsFrom /\ CookiesTyped'
  BY <1>1, CountsMore, RowsSame, AgedRows DEF CookiesTyped, CountsTyped
<1>3. CallsTyped' /\ TabsTyped'
  BY ReloadTyped DEF CallsTyped
<1>4. TypeInv'
  BY <1>2, <1>3, TypePartsNext
<1>5. ProofsFrom
  <2>1. call \in [Calls -> CallRow]
    BY DEF TypeInv, TypeOK
  <2>2. ASSUME NEW d \in Calls
        PROVE  ~Proven(call'[d]) \/ \E e \in Calls : /\ call'[d].pc = call[e].pc
                                                     /\ call'[d].user = call[e].user
                                                     /\ call'[d].since = call[e].since
    <3>1. CASE d = <<t, "renewal">>
      <4>1. call'[d].pc = "sent"
        <5>1. call'[<<t, "renewal">>] = Leaves(t, "refresh", NoUser)
          BY ReloadTyped
        <5> QED BY <3>1, <5>1, LeavesFields
      <4> QED BY <4>1 DEF Proven
    <3>2. CASE d = <<t, "gone">>
      <4>1. PICK e \in Calls : e = <<t, "renewal">>
        BY ReloadTyped
      <4>2. call'[d] = [call[e] EXCEPT !.left = TRUE]
        BY <3>2, <4>1, ReloadTyped
      <4> QED BY <2>1, <4>2 DEF CallRow
    <3>3. CASE d = <<t, "form">>
      <4>1. call'[d] = [call[d] EXCEPT !.left = Busy(t, "form")]
        BY <3>3, ReloadTyped
      <4> QED BY <2>1, <4>1 DEF CallRow
    <3>4. CASE call'[d] = call[d]
      BY <3>4
    <3> QED BY <3>1, <3>2, <3>3, <3>4, ReloadTyped
  <2> QED BY <2>2 DEF ProofsFrom, Proven
<1> QED BY <1>1, <1>2, <1>4, <1>5, ResetKept

(* The forms and requests of the pages. *)
LEMMA PageKeeps ==
    ASSUME TypeInv, ResetInv,
           \/ \E t \in Tabs : Logout(t) \/ AccessExpires(t) \/ \E u \in Users : Login(t, u)
           \/ \E q \in Requests : Send(q) \/ Serve(q) \/ Renew(q)
    PROVE  TypeInv' /\ ResetInv'
<1>1. CountsTyped /\ TabsTyped /\ CookiesTyped
  BY TypeParts
<1>2. ASSUME NEW c \in Calls, OnlyCall(c), call'[c].pc = "sent", CountsTyped', TabsTyped',
             UNCHANGED <<tokens, resets, raced, cookie>>
      PROVE  TypeInv' /\ ResetInv'
  <2>1. RowsTyped' /\ RowsFrom /\ CookiesTyped' /\ ~Proven(call'[c])
    BY <1>1, <1>2, RowsSame, AgedRows DEF CookiesTyped, Proven
  <2> QED BY <1>2, <2>1, CallStep
<1>3. ASSUME UNCHANGED <<tokens, call, resets, raced, cookie>>, CountsTyped', TabsTyped'
      PROVE  TypeInv' /\ ResetInv'
  <2>1. RowsTyped' /\ RowsAge /\ CookiesTyped'
    BY <1>1, <1>3, RowsSame DEF CookiesTyped
  <2> QED BY <1>3, <2>1, QuietStep
<1>4. ASSUME NEW t \in Tabs, Logout(t) \/ \E u \in Users : Login(t, u)
      PROVE  TypeInv' /\ ResetInv'
  <2>1. PICK c \in Calls : OnlyCall(c) /\ call'[c].pc = "sent"
    <3>1. PICK kind, u : /\ <<t, "form">> \in Calls /\ OnlyCall(<<t, "form">>)
                         /\ call'[<<t, "form">>] = Leaves(t, kind, u)
      BY <1>4, FormTyped
    <3> QED BY <3>1, LeavesFields
  <2>2. /\ UNCHANGED <<standing, tokens, resets, raced, cookie, tab, request, alarmed, twice, lost, crossed>>
        /\ \/ events' = events
           \/ events < MaxEvents /\ events' = events + 1
    BY <1>4 DEF Login, Logout, serverVars, clientVars
  <2>3. CountsTyped' /\ TabsTyped'
    BY <1>1, <2>2, CountsSame, CountsMore DEF CountsTyped, TabsTyped
  <2> QED BY <1>2, <2>1, <2>2, <2>3
<1>5. ASSUME NEW t \in Tabs, AccessExpires(t)
      PROVE  TypeInv' /\ ResetInv'
  <2>1. UNCHANGED <<standing, tokens, resets, raced, cookie, call, alarmed, twice, lost, crossed, events>>
    BY <1>5 DEF AccessExpires, serverVars
  <2>2. CountsTyped' /\ TabsTyped'
    BY <1>1, <1>5, <2>1, CountsSame, ExpiryTyped DEF CountsTyped
  <2> QED BY <1>3, <2>1, <2>2
<1>6. ASSUME NEW q \in Requests, Send(q) \/ Serve(q)
      PROVE  TypeInv' /\ ResetInv'
  <2>1. UNCHANGED <<standing, tokens, resets, raced, cookie, call, alarmed, twice, lost, crossed, events>>
    BY <1>6 DEF Send, Serve, serverVars
  <2>2. CountsTyped' /\ TabsTyped'
    BY <1>1, <1>6, <2>1, CountsSame, RequestsTyped DEF CountsTyped
  <2> QED BY <1>3, <2>1, <2>2
<1>7. ASSUME NEW q \in Requests, Renew(q)
      PROVE  TypeInv' /\ ResetInv'
  <2>1. UNCHANGED <<standing, tokens, resets, raced, cookie, alarmed, twice, lost, events>>
    BY <1>7 DEF Renew, serverVars
  <2>2. TabsTyped'
    BY <1>7, RequestsTyped
  <2>3. CASE UNCHANGED <<call, crossed>>
    <3>1. CountsTyped'
      BY <1>1, <2>1, <2>3, CountsSame DEF CountsTyped
    <3> QED BY <1>3, <2>1, <2>2, <2>3, <3>1
  <2>4. ASSUME NEW t \in Tabs, Renews(t)
        PROVE  TypeInv' /\ ResetInv'
    <3>1. PICK c \in Calls : OnlyCall(c) /\ call'[c].pc = "sent"
      BY <2>4, LeavesFields DEF Renews
    <3>2. CountsTyped'
      BY <1>1, <2>1, <2>4, CountsSame DEF Renews, CountsTyped, SiblingRefreshing
    <3> QED BY <1>2, <2>1, <2>2, <3>1, <3>2
  <2> QED BY <1>7, <2>3, <2>4, RenewTyped
<1> QED BY <1>4, <1>5, <1>6, <1>7

(* The actions on an account: a reset ends its sessions and marks the      *)
(* users whose proofs it crossed.                                          *)
LEMMA ChangeKeeps ==
    ASSUME TypeInv, ResetInv, Change
    PROVE  TypeInv' /\ ResetInv'
<1>1. /\ CountsTyped /\ TabsTyped' /\ CookiesTyped' /\ MaxEvents \in Nat
      /\ events < MaxEvents /\ events' = events + 1 /\ UNCHANGED <<lost, crossed>>
  <2>1. CountsTyped /\ TabsTyped /\ CookiesTyped
    BY TypeParts
  <2> QED BY <2>1, SessionsAssumption DEF Change, clientVars, TabsTyped, CookiesTyped
<1>2. ASSUME NEW u \in Users, ToggleActive(u) \/ Remove(u)
      PROVE  TypeInv' /\ ResetInv'
  <2>1. UNCHANGED <<resets, call, alarmed, twice, raced>> /\ RowsTyped' /\ RowsAge
    BY <1>2, RowsSame, RowsDeleted DEF ToggleActive, Remove
  <2>2. standing' \in [Users -> {"active", "disabled", "deleted"}]
    BY <1>1, <1>2 DEF ToggleActive, Remove, CountsTyped
  <2>3. CountsTyped'
    BY <1>1, <2>1, <2>2 DEF CountsTyped
  <2> QED BY <1>1, <2>1, <2>3, QuietStep
<1>3. ASSUME NEW k \in Rows, TokenExpires(k)
      PROVE  TypeInv' /\ ResetInv'
  <2>1. UNCHANGED <<standing, resets, call, alarmed, twice, raced>> /\ RowsTyped' /\ RowsAge
    BY <1>3, RowExpires DEF TokenExpires
  <2>2. CountsTyped'
    BY <1>1, <2>1, CountsMore DEF CountsTyped
  <2> QED BY <1>1, <2>1, <2>2, QuietStep
<1>4. ASSUME NEW u \in Users, ResetPassword(u)
      PROVE  TypeInv' /\ ResetInv'
  <2>1. /\ UNCHANGED <<standing, call, alarmed, twice>>
        /\ tokens' = DeleteAll(u) /\ resets' = [resets EXCEPT ![u] = @ + 1]
        /\ raced' = IF HoldsProof(u) = {} THEN raced ELSE raced \cup {u}
    BY <1>4 DEF ResetPassword
  <2>2. RowsTyped' /\ RowsAge /\ \A k \in Rows : tokens'[k].user # u
    BY <2>1, RowsDeleted
  <2>3. CountsTyped'
    <3>1. \A v \in Users : resets'[v] \in 0..MaxEvents /\ resets'[v] <= events'
      BY <1>1, <2>1 DEF CountsTyped
    <3>2. resets' \in [Users -> 0..MaxEvents]
      BY <1>1, <2>1, <3>1 DEF CountsTyped
    <3>3. events' \in 0..MaxEvents /\ raced' \subseteq Users
      BY <1>1, <2>1 DEF CountsTyped
    <3> QED BY <1>1, <2>1, <3>1, <3>2, <3>3 DEF CountsTyped
  <2>4. CallsTyped'
    BY <2>1, TypeParts DEF CallsTyped, CallsShaped
  <2>5. TypeInv'
    BY <1>1, <2>2, <2>3, <2>4, TypePartsNext
  <2>6. \A v : v # u => resets'[v] = resets[v]
    <3>1. \A v \in Users : v # u => resets'[v] = resets[v]
      BY <1>1, <2>1 DEF CountsTyped
    <3> QED BY <1>1, <2>1 DEF CountsTyped
  <2>7. raced \subseteq raced'
    BY <2>1
  <2>8. ASSUME NEW k \in Rows, tokens'[k].state = "live",
               tokens'[k].since < resets'[tokens'[k].user]
        PROVE  tokens'[k].user \in raced'
    <3>1. /\ tokens[k].state = "live" /\ tokens'[k].user = tokens[k].user
          /\ tokens'[k].since = tokens[k].since /\ tokens'[k].user # u
      BY <2>2, <2>8 DEF RowsAge
    <3>2. tokens[k].since < resets[tokens[k].user]
      BY <2>6, <2>8, <3>1
    <3> QED BY <2>7, <3>1, <3>2 DEF ResetInv, Excused
  <2>9. ASSUME NEW c \in Calls, Proven(call[c]), call[c].since < resets'[call[c].user]
        PROVE  call[c].user \in raced'
    <3>1. CASE call[c].user = u
      BY <2>1, <2>9, <3>1 DEF HoldsProof, Proven
    <3>2. CASE call[c].user # u
      BY <2>6, <2>7, <2>9, <3>2 DEF ResetInv, Excused
    <3> QED BY <3>1, <3>2
  <2>10. ResetInv'
    BY <2>1, <2>8, <2>9 DEF ResetInv, Excused, Proven
  <2> QED BY <2>5, <2>10
<1> QED BY <1>2, <1>3, <1>4 DEF Change

(* Nobody is logged in and nothing was reset. *)
LEMMA InitKeeps == Init => TypeInv /\ ResetInv
<1> SUFFICES ASSUME Init PROVE TypeInv /\ ResetInv
  OBVIOUS
<1>1. CountsTyped
  <2>1. MaxEvents \in Nat /\ 0 \in 0..MaxEvents
    BY SessionsAssumption
  <2>2. /\ standing = [u \in Users |-> "active"] /\ resets = [u \in Users |-> 0]
        /\ events = 0 /\ raced = {}
    BY DEF Init, ServerInit
  <2>3. /\ standing \in [Users -> {"active", "disabled", "deleted"}]
        /\ resets \in [Users -> 0..MaxEvents] /\ \A u \in Users : resets[u] <= events
        /\ events \in 0..MaxEvents /\ raced \subseteq Users
    BY <2>1, <2>2
  <2>4. /\ alarmed \in BOOLEAN /\ twice \in BOOLEAN
        /\ lost \in BOOLEAN /\ crossed \in BOOLEAN
    BY DEF Init, ServerInit
  <2> QED BY <2>3, <2>4 DEF CountsTyped
<1>2. RowsTyped
  BY DEF Init, ServerInit, RowsTyped, TokenRow, NoRow
<1>3. TabsTyped /\ CookiesTyped
  BY DEF Init, ClientInit, TabsTyped, CookiesTyped, TabRow, NoRequest, RequestRow, Ids
<1>4. CallsTyped
  BY DEF Init, ServerInit, CallsTyped, CallsShaped, Shaped, NoCall, CallRow, Ids
<1>5. ResetInv
  BY DEF Init, ServerInit, ResetInv, Proven, NoCall, NoRow
<1> QED BY <1>1, <1>2, <1>3, <1>4, <1>5, TypeParts

(* Types and resets are kept by every step. *)
LEMMA NextKeeps == TypeInv /\ ResetInv /\ [Next]_vars => TypeInv' /\ ResetInv'
<1> SUFFICES ASSUME TypeInv, ResetInv, [Next]_vars PROVE TypeInv' /\ ResetInv'
  OBVIOUS
<1>1. CASE Next
  BY <1>1, ServerKeeps, AnswerKeeps, ReloadKeeps, PageKeeps, ChangeKeeps DEF Next
<1>2. CASE UNCHANGED vars
  <2>1. CountsTyped' /\ TabsTyped' /\ CookiesTyped' /\ RowsTyped' /\ RowsAge
    BY <1>2, TypeParts, RowsSame
       DEF vars, serverVars, clientVars, CountsTyped, TabsTyped, CookiesTyped
  <2> QED BY <1>2, <2>1, QuietStep DEF vars, serverVars
<1> QED BY <1>1, <1>2

(* Every variable of the sessions keeps its type: of the rows, calls,      *)
(* cookies and tabs, for any number of them.                               *)
THEOREM SessionsTyped == Spec => []TypeOK
<1>1. TypeInv => TypeOK
  BY DEF TypeInv
<1> QED BY <1>1, InitKeeps, NextKeeps, PTL DEF Spec

(* After a password reset no session lives that was opened on a proof from *)
(* before it, unless the call that held the proof was under way.           *)
THEOREM ResetsEndSessions == Spec => []ResetEndsSessionsAtRest
<1>1. TypeInv /\ ResetInv => ResetEndsSessionsAtRest
  BY DEF ResetInv, Excused, ResetEndsSessionsAtRest
<1> QED BY <1>1, InitKeeps, NextKeeps, PTL DEF Spec

-----------------------------------------------------------------------------
(* Why a renewal goes wrong only for a cause. *)
Quiet == ~lost /\ ~crossed

Revoked(k) == k \in Rows /\ tokens[k].state = "revoked"

(* A renewal that has spent what it presented and is still to be heard of. *)
Rotated(row) == row.kind = "refresh" /\ (row.pc = "spent" \/ row.answer = "ok")

Asks(row) == row.kind = "refresh" /\ row.pc \in {"sent", "checked"}

Renewing(c) == c[2] # "form" /\ call[c].pc # "idle"

OneRenewal ==
    /\ \A c \in Calls : c[2] = "gone" => ~Renewing(c)
    /\ \A c, d \in Calls : Renewing(c) /\ Renewing(d) /\ Home(c) = Home(d) => c = d

(* A row that may be presented is one browser's. *)
OneHome ==
    /\ \A c, d \in Calls :
          call[c].presented # 0 /\ call[c].presented = call[d].presented => Home(c) = Home(d)
    /\ \A b \in Browsers, c \in Calls :
          call[c].presented # 0 /\ call[c].presented = cookie[b] => Home(c) = b
    /\ \A a, b \in Browsers : cookie[a] # 0 /\ cookie[a] = cookie[b] => a = b

(* A row that was issued is nobody's before its answer arrives. *)
IssuedAlone ==
    \A c \in Calls : call[c].issued # 0 =>
        /\ ~Revoked(call[c].issued)
        /\ \A b \in Browsers : cookie[b] # call[c].issued
        /\ \A d \in Calls : /\ call[d].presented # call[c].issued
                            /\ call[d].issued = call[c].issued => d = c

(* What a renewal is about to present, and has presented, is good. *)
AskedStands == \A c \in Calls : Asks(call[c]) => ~Revoked(call[c].presented)

(* A cookie whose row is spent belongs to a renewal that will replace it.  *)
SpentIsRenewed ==
    \A b \in Browsers : Revoked(cookie[b]) =>
        \E c \in Calls : /\ Home(c) = b /\ Rotated(call[c])
                         /\ call[c].presented = cookie[b]

(* The row a renewal presents is its user's, as long as it is there.       *)
OwnRow ==
    \A c \in Calls :
        /\ Proven(call[c]) /\ call[c].presented \in Rows
        /\ tokens[call[c].presented].state # "none"
        => tokens[call[c].presented].user = call[c].user

QuietInv ==
    /\ ~alarmed /\ ~twice
    /\ OneRenewal /\ OneHome /\ IssuedAlone /\ AskedStands /\ SpentIsRenewed /\ OwnRow

AccountsStand ==
    \A k \in Rows : tokens[k].state # "none" => standing[tokens[k].user] # "deleted"

RenewInv == AccountsStand /\ (Quiet => QuietInv)

RevokedNext(k) == k \in Rows /\ tokens'[k].state = "revoked"

(* A call goes on with what it had, or ends, and spends nothing.           *)
Fades(d) ==
    /\ call'[d].presented \in {call[d].presented, 0}
    /\ call'[d].issued \in {call[d].issued, 0}
    /\ call'[d].pc # "idle" => call[d].pc # "idle"
    /\ Asks(call'[d]) => Asks(call[d])
    /\ Rotated(call[d]) => \/ ~RevokedNext(call[d].presented)
                           \/ Rotated(call'[d]) /\ call'[d].presented = call[d].presented
    /\ Proven(call'[d]) =>
          \/ Proven(call[d]) /\ call'[d].user = call[d].user
          \/ /\ call'[d].presented \in Rows
                => tokens'[call'[d].presented].user = call'[d].user

(* Calls and cookies that lose their rows share none. *)
LEMMA FadingHomes ==
    ASSUME TypeInv, OneHome, \A b \in Browsers : cookie'[b] \in {cookie[b], 0},
           \A d \in Calls : call'[d].presented \in {call[d].presented, 0}
    PROVE  OneHome'
<1>1. ASSUME NEW c \in Calls, NEW d \in Calls,
             call'[c].presented # 0, call'[c].presented = call'[d].presented
      PROVE  Home(c) = Home(d)
  <2>1. call'[c].presented = call[c].presented /\ call'[d].presented = call[d].presented
    BY <1>1
  <2> QED BY <1>1, <2>1 DEF OneHome
<1>2. ASSUME NEW b \in Browsers, NEW c \in Calls,
             call'[c].presented # 0, call'[c].presented = cookie'[b]
      PROVE  Home(c) = b
  <2>1. call'[c].presented = call[c].presented /\ cookie'[b] = cookie[b]
    BY <1>2
  <2> QED BY <1>2, <2>1 DEF OneHome
<1>3. ASSUME NEW a \in Browsers, NEW b \in Browsers, cookie'[a] # 0, cookie'[a] = cookie'[b]
      PROVE  a = b
  <2>1. cookie'[a] = cookie[a] /\ cookie'[b] = cookie[b]
    BY <1>3
  <2> QED BY <1>3, <2>1 DEF OneHome
<1> QED BY <1>1, <1>2, <1>3 DEF OneHome, Home

(* An issued row stays its call's. *)
LEMMA FadingIssues ==
    ASSUME TypeInv, IssuedAlone, \A b \in Browsers : cookie'[b] \in {cookie[b], 0},
           \A d \in Calls : /\ call'[d].presented \in {call[d].presented, 0}
                            /\ call'[d].issued \in {call[d].issued, 0},
           \A c \in Calls : call[c].issued # 0 => ~RevokedNext(call[c].issued)
    PROVE  IssuedAlone'
<1>1. ASSUME NEW c \in Calls, call'[c].issued # 0
      PROVE  /\ ~RevokedNext(call'[c].issued)
             /\ \A b \in Browsers : cookie'[b] # call'[c].issued
             /\ \A d \in Calls : /\ call'[d].presented # call'[c].issued
                                 /\ call'[d].issued = call'[c].issued => d = c
  <2>1. call'[c].issued = call[c].issued
    BY <1>1
  <2> QED BY <1>1, <2>1 DEF IssuedAlone
<1> QED BY <1>1 DEF IssuedAlone, Revoked, RevokedNext

(* Where no call starts, no second renewal does. *)
LEMMA FadingRenewals ==
    ASSUME TypeInv, OneRenewal, \A d \in Calls : call'[d].pc # "idle" => call[d].pc # "idle"
    PROVE  OneRenewal'
<1>1. \A d \in Calls : Renewing(d)' => Renewing(d)
  BY DEF Renewing
<1> QED BY <1>1 DEF OneRenewal, Home

(* Steps in which calls only fade keep the renewals apart. *)
LEMMA FadeKeeps ==
    ASSUME TypeInv, QuietInv, \A b \in Browsers : cookie'[b] \in {cookie[b], 0},
           \A d \in Calls : Fades(d), RowsAge, NewlyRevoked({}), ~alarmed', ~twice'
    PROVE  QuietInv'
<1>1. ASSUME NEW k, RevokedNext(k) PROVE Revoked(k)
  BY <1>1 DEF RevokedNext, Revoked, NewlyRevoked
<1>2. OneHome' /\ OneRenewal'
  BY FadingHomes, FadingRenewals DEF Fades, QuietInv
<1>3. IssuedAlone'
  <2>1. \A c \in Calls : call[c].issued # 0 => ~RevokedNext(call[c].issued)
    BY <1>1 DEF QuietInv, IssuedAlone
  <2> QED BY <2>1, FadingIssues DEF Fades, QuietInv
<1>4. AskedStands'
  <2>1. ASSUME NEW c \in Calls, Asks(call'[c]), RevokedNext(call'[c].presented) PROVE FALSE
    <3>1. call'[c].presented = call[c].presented /\ Asks(call[c])
      BY <2>1, TokensAssumption DEF Fades, RevokedNext
    <3> QED BY <1>1, <2>1, <3>1 DEF QuietInv, AskedStands
  <2> QED BY <2>1 DEF AskedStands, Asks, Revoked, RevokedNext
<1>5. SpentIsRenewed'
  <2>1. ASSUME NEW b \in Browsers, RevokedNext(cookie'[b])
        PROVE  \E c \in Calls : /\ Home(c) = b /\ Rotated(call'[c])
                                /\ call'[c].presented = cookie'[b]
    <3>1. cookie'[b] = cookie[b] /\ Revoked(cookie[b])
      BY <1>1, <2>1, TokensAssumption DEF RevokedNext
    <3>2. PICK c \in Calls : Home(c) = b /\ Rotated(call[c]) /\ call[c].presented = cookie[b]
      BY <3>1 DEF QuietInv, SpentIsRenewed
    <3> QED BY <2>1, <3>1, <3>2 DEF Fades
  <2> QED BY <2>1 DEF SpentIsRenewed, Rotated, Revoked, RevokedNext, Home
<1>6. OwnRow'
  <2>1. ASSUME NEW c \in Calls, Proven(call'[c]), call'[c].presented \in Rows,
               tokens'[call'[c].presented].state # "none"
        PROVE  tokens'[call'[c].presented].user = call'[c].user
    <3>1. call'[c].presented = call[c].presented
      BY <2>1, TokensAssumption DEF Fades
    <3>2. CASE Proven(call[c]) /\ call'[c].user = call[c].user
      BY <2>1, <3>1, <3>2 DEF RowsAge, QuietInv, OwnRow
    <3> QED BY <2>1, <3>2 DEF Fades
  <2> QED BY <2>1 DEF OwnRow, Proven
<1> QED BY <1>2, <1>3, <1>4, <1>5, <1>6 DEF QuietInv

(* A call starts with the cookie as it is; a renewal only where none is.   *)
Starting(c) ==
    /\ call[c].pc = "idle" /\ call'[c].pc = "sent"
    /\ call'[c].presented \in {0, cookie[Home(c)]} /\ call'[c].issued = 0
    /\ c[2] # "gone"
    /\ call'[c].kind = "refresh" => c[2] # "form"
    /\ c[2] # "form" => \A d \in Calls : Renewing(d) => Home(d) # Home(c)

(* So does a call that starts. *)
LEMMA StartKeeps ==
    ASSUME TypeInv, QuietInv, UNCHANGED <<cookie, tokens, alarmed, twice>>,
           NEW c \in Calls, Starting(c), \A d \in Calls \ {c} : Fades(d)
    PROVE  QuietInv'
<1>1. /\ call[c].presented = 0 /\ call[c].issued = 0 /\ Home(c) \in Browsers
      /\ \A d \in Calls : call[d].pc = "idle" => call[d].presented = 0 /\ call[d].issued = 0
  BY SessionsAssumption DEF TypeInv, CallsShaped, Shaped, Starting, Home, Calls
<1>2. \A k : RevokedNext(k) <=> Revoked(k)
  BY DEF RevokedNext, Revoked
<1>3. OneRenewal'
  <2>1. ASSUME NEW d \in Calls, d # c, call'[d].pc # "idle" PROVE call[d].pc # "idle"
    BY <2>1 DEF Fades
  <2>2. ASSUME NEW d \in Calls, d[2] = "gone" PROVE ~(call'[d].pc # "idle" /\ d[2] # "form")
    BY <2>1, <2>2 DEF Starting, QuietInv, OneRenewal, Renewing
  <2>3. ASSUME NEW d \in Calls, NEW e \in Calls, d[2] # "form", e[2] # "form",
               call'[d].pc # "idle", call'[e].pc # "idle", Home(d) = Home(e)
        PROVE  d = e
    <3>1. CASE d # c /\ e # c
      BY <2>1, <2>3, <3>1 DEF QuietInv, OneRenewal, Renewing
    <3>2. CASE d = c /\ e # c
      BY <2>1, <2>3, <3>2 DEF Starting, Renewing
    <3>3. CASE d # c /\ e = c
      BY <2>1, <2>3, <3>3 DEF Starting, Renewing
    <3> QED BY <3>1, <3>2, <3>3
  <2> QED BY <2>2, <2>3 DEF OneRenewal, Renewing, Home
<1>4. OneHome'
  <2>1. ASSUME NEW d \in Calls, call'[d].presented # 0
        PROVE  \/ call'[d].presented = cookie[Home(d)]
               \/ d # c /\ call'[d].presented = call[d].presented
    BY <2>1 DEF Starting, Fades
  <2>2. ASSUME NEW d \in Calls, NEW e \in Calls,
               call'[d].presented # 0, call'[d].presented = call'[e].presented
        PROVE  Home(d) = Home(e)
    <3>1. Home(d) \in Browsers /\ Home(e) \in Browsers
      BY SessionsAssumption DEF Home, Calls
    <3> QED BY <2>1, <2>2, <3>1 DEF QuietInv, OneHome
  <2>3. ASSUME NEW b \in Browsers, NEW d \in Calls,
               call'[d].presented # 0, call'[d].presented = cookie[b]
        PROVE  Home(d) = b
    <3>1. Home(d) \in Browsers
      BY SessionsAssumption DEF Home, Calls
    <3> QED BY <2>1, <2>3, <3>1 DEF QuietInv, OneHome
  <2>4. \A a, b \in Browsers : cookie[a] # 0 /\ cookie[a] = cookie[b] => a = b
    BY DEF QuietInv, OneHome
  <2> QED BY <2>2, <2>3, <2>4 DEF OneHome, Home
<1>5. IssuedAlone'
  <2>1. ASSUME NEW d \in Calls, call'[d].issued # 0
        PROVE  /\ ~RevokedNext(call'[d].issued)
               /\ \A b \in Browsers : cookie'[b] # call'[d].issued
               /\ \A e \in Calls : /\ call'[e].presented # call'[d].issued
                                   /\ call'[e].issued = call'[d].issued => e = d
    <3>1. d # c /\ call'[d].issued = call[d].issued /\ call[d].issued # 0
      BY <2>1 DEF Starting, Fades
    <3>2. /\ ~RevokedNext(call'[d].issued)
          /\ \A b \in Browsers : cookie[b] # call[d].issued
          /\ \A e \in Calls : /\ call[e].presented # call[d].issued
                              /\ call[e].issued = call[d].issued => e = d
      BY <1>2, <3>1 DEF QuietInv, IssuedAlone
    <3>3. ASSUME NEW e \in Calls
          PROVE  /\ call'[e].presented # call[d].issued
                 /\ call'[e].issued = call[d].issued => e = d
      <4>1. CASE e = c
        BY <1>1, <3>1, <3>2, <4>1 DEF Starting
      <4>2. CASE e # c
        BY <3>1, <3>2, <4>2 DEF Fades
      <4> QED BY <4>1, <4>2
    <3> QED BY <3>1, <3>2, <3>3
  <2> QED BY <2>1 DEF IssuedAlone, Revoked, RevokedNext
<1>6. AskedStands'
  <2>1. ASSUME NEW d \in Calls, Asks(call'[d]), RevokedNext(call'[d].presented) PROVE FALSE
    <3>1. CASE d # c
      <4>1. call'[d].presented = call[d].presented /\ Asks(call[d])
        BY <2>1, <3>1, TokensAssumption DEF Fades, RevokedNext
      <4> QED BY <1>2, <2>1, <4>1 DEF QuietInv, AskedStands
    <3>2. CASE d = c
      <4>1. Revoked(cookie[Home(c)]) /\ c[2] # "form"
        BY <1>2, <2>1, <3>2, TokensAssumption DEF Starting, RevokedNext, Revoked, Asks
      <4>2. PICK e \in Calls : Home(e) = Home(c) /\ Rotated(call[e])
        BY <1>1, <4>1 DEF QuietInv, SpentIsRenewed
      <4>3. Renewing(e)
        BY <4>2 DEF Rotated, Renewing, TypeInv, CallsShaped, Shaped
      <4> QED BY <4>1, <4>2, <4>3 DEF Starting
    <3> QED BY <3>1, <3>2
  <2> QED BY <2>1 DEF AskedStands, Asks, Revoked, RevokedNext
<1>7. SpentIsRenewed'
  <2>1. ASSUME NEW b \in Browsers, RevokedNext(cookie[b])
        PROVE  \E d \in Calls : /\ Home(d) = b /\ Rotated(call'[d])
                                /\ call'[d].presented = cookie[b]
    <3>1. PICK d \in Calls : Home(d) = b /\ Rotated(call[d]) /\ call[d].presented = cookie[b]
      BY <1>2, <2>1 DEF QuietInv, SpentIsRenewed
    <3>2. d # c
      BY <3>1 DEF Starting, Rotated, TypeInv, CallsShaped, Shaped
    <3> QED BY <2>1, <3>1, <3>2 DEF Fades
  <2> QED BY <2>1 DEF SpentIsRenewed, Rotated, Revoked, RevokedNext, Home
<1>8. OwnRow'
  <2>1. ASSUME NEW d \in Calls, Proven(call'[d]), call'[d].presented \in Rows,
               tokens[call'[d].presented].state # "none"
        PROVE  tokens[call'[d].presented].user = call'[d].user
    <3>1. d # c
      BY <2>1 DEF Starting, Proven
    <3>2. call'[d].presented = call[d].presented
      BY <2>1, <3>1, TokensAssumption DEF Fades
    <3>3. CASE Proven(call[d]) /\ call'[d].user = call[d].user
      BY <2>1, <3>2, <3>3 DEF QuietInv, OwnRow
    <3> QED BY <2>1, <3>1, <3>3 DEF Fades
  <2> QED BY <2>1 DEF OwnRow, Proven
<1> QED BY <1>3, <1>4, <1>5, <1>6, <1>7, <1>8 DEF QuietInv

(* A renewal spends what it presented: that is its browser's alone.        *)
LEMMA SpendKeeps ==
    ASSUME TypeInv, QuietInv, NEW c \in Calls, Spend(c), UNCHANGED cookie,
           call'[c] = [call[c] EXCEPT !.pc = "spent"],
           twice' = (twice \/ tokens[call[c].presented].state = "revoked")
    PROVE  QuietInv'
<1>1. PICK p \in Rows : p = call[c].presented
  BY SpendTyped
<1>2. /\ call \in [Calls -> CallRow] /\ call[c].kind = "refresh" /\ call[c].pc = "checked"
      /\ call[c].answer = "none" /\ c[2] # "form" /\ p # 0
  BY <1>1, SpendTyped, TokensAssumption DEF TypeInv, TypeOK, CallsShaped, Shaped
<1>3. /\ \A d \in Calls : d # c => call'[d] = call[d]
      /\ call'[c].presented = p /\ call'[c].issued = call[c].issued /\ call'[c].pc = "spent"
      /\ call'[c].kind = "refresh" /\ call'[c].user = call[c].user
  <2>1. OnlyCall(c)
    BY SpendTyped
  <2>2. \A d \in Calls : call'[d] = IF d = c THEN call'[c] ELSE call[d]
    BY <2>1 DEF OnlyCall
  <2> QED BY <1>1, <1>2, <2>2 DEF CallRow
<1>4. cookie' = cookie /\ RowsAge /\ NewlyRevoked({p}) /\ alarmed' = alarmed
  <2>1. alarmed' = alarmed
    BY DEF Spend
  <2> QED BY <1>1, <2>1, RowSpent
<1>5. ~twice' /\ ~alarmed' /\ ~Revoked(p)
  BY <1>1, <1>2, <1>4 DEF QuietInv, AskedStands, Asks, Revoked
<1>6. ASSUME NEW k, RevokedNext(k) PROVE Revoked(k) \/ k = p
  BY <1>4, <1>6 DEF RevokedNext, Revoked, NewlyRevoked
<1>7. \A d \in Calls : /\ call'[d].presented = call[d].presented
                       /\ call'[d].issued = call[d].issued
                       /\ call'[d].pc # "idle" => call[d].pc # "idle"
  <2>1. /\ call'[c].presented = call[c].presented /\ call'[c].issued = call[c].issued
        /\ call[c].pc # "idle"
    BY <1>1, <1>2, <1>3
  <2>2. ASSUME NEW d \in Calls
        PROVE  /\ call'[d].presented = call[d].presented /\ call'[d].issued = call[d].issued
               /\ call'[d].pc # "idle" => call[d].pc # "idle"
    <3>1. CASE d = c
      BY <2>1, <3>1
    <3>2. CASE d # c
      <4>1. call'[d] = call[d]
        BY <1>3, <3>2
      <4> QED BY <4>1
    <3> QED BY <3>1, <3>2
  <2> QED BY <2>2
<1>8. OneHome' /\ OneRenewal'
  BY <1>4, <1>7, FadingHomes, FadingRenewals DEF QuietInv
<1>9. IssuedAlone'
  <2>1. ASSUME NEW d \in Calls, call[d].issued # 0 PROVE ~RevokedNext(call[d].issued)
    BY <1>1, <1>6, <2>1 DEF QuietInv, IssuedAlone
  <2> QED BY <1>4, <1>7, <2>1, FadingIssues DEF QuietInv
<1>10. AskedStands'
  <2>1. ASSUME NEW d \in Calls, Asks(call'[d]), RevokedNext(call'[d].presented) PROVE FALSE
    <3>1. d # c
      BY <1>3, <2>1 DEF Asks
    <3>2. Asks(call[d]) /\ call'[d].presented = call[d].presented
      BY <1>3, <2>1, <3>1
    <3>3. call[d].presented = p
      BY <1>6, <2>1, <3>2 DEF QuietInv, AskedStands
    <3>4. Home(d) = Home(c)
      BY <1>1, <1>2, <3>3 DEF QuietInv, OneHome
    <3>5. Renewing(d) /\ Renewing(c)
      BY <1>2, <3>2 DEF Renewing, Asks, TypeInv, CallsShaped, Shaped
    <3> QED BY <3>1, <3>4, <3>5 DEF QuietInv, OneRenewal
  <2> QED BY <2>1 DEF AskedStands, Asks, Revoked, RevokedNext
<1>11. SpentIsRenewed'
  <2>1. ASSUME NEW b \in Browsers, RevokedNext(cookie[b])
        PROVE  \E d \in Calls : /\ Home(d) = b /\ Rotated(call'[d])
                                /\ call'[d].presented = cookie[b]
    <3>1. CASE cookie[b] = p
      <4>1. Home(c) = b
        BY <1>1, <1>2, <3>1 DEF QuietInv, OneHome
      <4> QED BY <1>3, <3>1, <4>1 DEF Rotated
    <3>2. CASE Revoked(cookie[b])
      <4>1. PICK d \in Calls : Home(d) = b /\ Rotated(call[d]) /\ call[d].presented = cookie[b]
        BY <3>2 DEF QuietInv, SpentIsRenewed
      <4>2. d # c
        BY <1>2, <4>1 DEF Rotated
      <4> QED BY <1>3, <4>1, <4>2
    <3> QED BY <1>6, <2>1, <3>1, <3>2
  <2> QED BY <1>4, <2>1 DEF SpentIsRenewed, Rotated, Revoked, RevokedNext, Home
<1>12. OwnRow'
  <2>1. ASSUME NEW d \in Calls, Proven(call'[d]), call'[d].presented \in Rows,
               tokens'[call'[d].presented].state # "none"
        PROVE  tokens'[call'[d].presented].user = call'[d].user
    <3>1. call'[d].presented = call[d].presented /\ call'[d].user = call[d].user
          /\ Proven(call[d])
      BY <1>2, <1>3, <1>7, <2>1 DEF Proven
    <3> QED BY <1>4, <2>1, <3>1 DEF RowsAge, QuietInv, OwnRow
  <2> QED BY <2>1 DEF OwnRow, Proven
<1> QED BY <1>5, <1>8, <1>9, <1>10, <1>11, <1>12 DEF QuietInv

(* A row is issued to a call, and nobody else has it.                      *)
LEMMA IssueKeeps ==
    ASSUME TypeInv, QuietInv, UNCHANGED <<cookie, alarmed, twice>>,
           NEW c \in Calls, OnlyCall(c), NEW k, RowIssued(c, k), NewlyRevoked({}),
           Proven(call[c]),
           call'[c] = [call[c] EXCEPT !.pc = "answered", !.answer = "ok", !.issued = k]
    PROVE  QuietInv'
<1>1. /\ call \in [Calls -> CallRow] /\ k \in Rows /\ k # 0
      /\ \A b \in Browsers : cookie[b] # k
      /\ \A d \in Calls : call[d].presented # k /\ call[d].issued # k
  BY TokensAssumption DEF TypeInv, TypeOK, RowIssued, FreeRows, Held
<1>2. /\ \A d \in Calls : d # c => call'[d] = call[d]
      /\ call'[c].presented = call[c].presented /\ call'[c].issued = k
      /\ call'[c].pc = "answered" /\ call'[c].kind = call[c].kind /\ call'[c].answer = "ok"
  <2>1. \A d \in Calls : call'[d] = IF d = c THEN call'[c] ELSE call[d]
    BY DEF OnlyCall
  <2> QED BY <1>1, <2>1 DEF CallRow
<1>3. /\ tokens'[k].state = "live"
      /\ \A j \in Rows : j # k => tokens'[j] = tokens[j]
  BY <1>1 DEF RowIssued, TypeInv, TypeOK
<1>4. ASSUME NEW j, RevokedNext(j) PROVE Revoked(j) /\ j # k
  BY <1>3, <1>4 DEF RevokedNext, Revoked, NewlyRevoked
<1>5. \A e \in Calls : /\ call'[e].presented = call[e].presented
                       /\ \/ e = c /\ call'[e].issued = k
                          \/ e # c /\ call'[e].issued = call[e].issued
  <2>1. ASSUME NEW e \in Calls
        PROVE  /\ call'[e].presented = call[e].presented
               /\ \/ e = c /\ call'[e].issued = k
                  \/ e # c /\ call'[e].issued = call[e].issued
    <3>1. CASE e = c
      BY <1>2, <3>1
    <3>2. CASE e # c
      <4>1. call'[e] = call[e]
        BY <1>2, <3>2
      <4> QED BY <3>2, <4>1
    <3> QED BY <3>1, <3>2
  <2> QED BY <2>1
<1>6. OneHome' /\ OneRenewal'
  <2>1. \A d \in Calls : /\ call'[d].presented = call[d].presented
                         /\ call'[d].pc # "idle" => call[d].pc # "idle"
    BY <1>2 DEF Proven
  <2> QED BY <2>1, FadingHomes, FadingRenewals DEF QuietInv
<1>7. IssuedAlone'
  <2>1. ASSUME NEW d \in Calls, call'[d].issued # 0
        PROVE  /\ ~RevokedNext(call'[d].issued)
               /\ \A b \in Browsers : cookie[b] # call'[d].issued
               /\ \A e \in Calls : /\ call'[e].presented # call'[d].issued
                                   /\ call'[e].issued = call'[d].issued => e = d
    <3> DEFINE j == call'[d].issued
    <3>1. CASE d = c
      <4>1. j = k /\ ~RevokedNext(k)
        BY <1>2, <1>4, <3>1
      <4> HIDE DEF j
      <4>2. ASSUME NEW e \in Calls PROVE call'[e].presented # k /\ (call'[e].issued = k => e = d)
        <5>1. call[e].presented # k /\ call[e].issued # k
          BY <1>1
        <5>2. call'[e].presented = call[e].presented
          BY <1>5
        <5>3. call'[e].issued = k => e = c
          BY <1>5, <5>1
        <5> QED BY <3>1, <5>1, <5>2, <5>3
      <4>3. \A b \in Browsers : cookie[b] # k
        BY <1>1
      <4> QED BY <4>1, <4>2, <4>3 DEF j
    <3>2. CASE d # c
      <4>1. call'[d].issued = call[d].issued /\ call[d].issued # k
        BY <1>1, <1>2, <3>2
      <4>2. /\ ~RevokedNext(call[d].issued)
            /\ \A b \in Browsers : cookie[b] # call[d].issued
            /\ \A e \in Calls : /\ call[e].presented # call[d].issued
                                /\ call[e].issued = call[d].issued => e = d
        BY <1>4, <2>1, <4>1 DEF QuietInv, IssuedAlone
      <4>3. ASSUME NEW e \in Calls
            PROVE  /\ call'[e].presented # call[d].issued
                   /\ call'[e].issued = call[d].issued => e = d
        <5>1. call'[e].presented = call[e].presented
          BY <1>5
        <5>2. call'[e].issued = k \/ call'[e].issued = call[e].issued
          BY <1>5
        <5> QED BY <4>1, <4>2, <5>1, <5>2
      <4> HIDE DEF j
      <4>4. j = call[d].issued
        BY <4>1 DEF j
      <4> QED BY <4>2, <4>3, <4>4 DEF j
    <3> QED BY <3>1, <3>2
  <2> QED BY <2>1 DEF IssuedAlone, Revoked, RevokedNext
<1>8. AskedStands'
  <2>1. ASSUME NEW d \in Calls, Asks(call'[d]), RevokedNext(call'[d].presented) PROVE FALSE
    <3>1. d # c
      BY <1>2, <2>1 DEF Asks
    <3> QED BY <1>2, <1>4, <2>1, <3>1 DEF QuietInv, AskedStands
  <2> QED BY <2>1 DEF AskedStands, Asks, Revoked, RevokedNext
<1>9. SpentIsRenewed'
  <2>1. ASSUME NEW b \in Browsers, RevokedNext(cookie[b])
        PROVE  \E d \in Calls : /\ Home(d) = b /\ Rotated(call'[d])
                                /\ call'[d].presented = cookie[b]
    <3>1. PICK d \in Calls : Home(d) = b /\ Rotated(call[d]) /\ call[d].presented = cookie[b]
      BY <1>4, <2>1 DEF QuietInv, SpentIsRenewed
    <3>2. Rotated(call'[d]) /\ call'[d].presented = call[d].presented
      BY <1>2, <3>1 DEF Rotated
    <3> QED BY <3>1, <3>2
  <2> QED BY <2>1 DEF SpentIsRenewed, Rotated, Revoked, RevokedNext, Home
<1>10. OwnRow'
  <2>1. ASSUME NEW d \in Calls, Proven(call'[d]), call'[d].presented \in Rows,
               tokens'[call'[d].presented].state # "none"
        PROVE  tokens'[call'[d].presented].user = call'[d].user
    <3>1. d # c
      BY <1>2, <2>1 DEF Proven
    <3> QED BY <1>1, <1>2, <1>3, <2>1, <3>1 DEF QuietInv, OwnRow
  <2> QED BY <2>1 DEF OwnRow, Proven
<1> QED BY <1>6, <1>7, <1>8, <1>9, <1>10 DEF QuietInv

(* The answer puts the issued row into the cookie of its browser.          *)
LEMMA CookieKeeps ==
    ASSUME TypeInv, QuietInv, NEW c \in Calls, Deliver(c), call[c].answer = "ok"
    PROVE  QuietInv'
<1>1. PICK j, h : j = call[c].issued /\ h = Home(c)
  OBVIOUS
<1>2. /\ h \in Browsers /\ cookie'[h] = j /\ \A b \in Browsers : b # h => cookie'[b] = cookie[b]
      /\ RowsAge /\ NewlyRevoked({}) /\ call'[c] = NoCall
  BY <1>1, DeliverTyped
<1>3. \A d \in Calls : d # c => call'[d] = call[d]
  <2>1. OnlyCall(c)
    BY DeliverTyped
  <2> QED BY <2>1 DEF OnlyCall
<1>4. /\ j \in Rows /\ j # 0 /\ ~Revoked(j)
      /\ \A b \in Browsers : cookie[b] # j
      /\ \A d \in Calls : call[d].presented # j /\ (call[d].issued = j => d = c)
  <2>1. j \in Rows /\ j # 0
    BY <1>1, TokensAssumption DEF TypeInv, CallsShaped, Shaped
  <2> QED BY <1>1, <2>1 DEF QuietInv, IssuedAlone
<1>5. /\ NoCall.pc = "idle" /\ NoCall.presented = 0 /\ NoCall.issued = 0 /\ NoCall.kind = "login"
      /\ UNCHANGED <<alarmed, twice>>
  BY DEF NoCall, Deliver
<1>6. ASSUME NEW k, RevokedNext(k) PROVE Revoked(k)
  BY <1>2, <1>6 DEF RevokedNext, Revoked, NewlyRevoked
<1>7. \A d \in Calls : /\ call'[d].presented \in {call[d].presented, 0}
                       /\ call'[d].issued \in {call[d].issued, 0}
                       /\ call'[d].pc # "idle" => d # c /\ call[d].pc # "idle"
  BY <1>2, <1>3, <1>5
<1>8. OneRenewal'
  BY <1>7, FadingRenewals DEF QuietInv
<1>9. OneHome'
  <2>1. ASSUME NEW d \in Calls, NEW e \in Calls,
               call'[d].presented # 0, call'[d].presented = call'[e].presented
        PROVE  Home(d) = Home(e)
    <3>1. call'[d].presented = call[d].presented /\ call'[e].presented = call[e].presented
      BY <1>7, <2>1
    <3> QED BY <2>1, <3>1 DEF QuietInv, OneHome
  <2>2. ASSUME NEW b \in Browsers, NEW d \in Calls,
               call'[d].presented # 0, call'[d].presented = cookie'[b]
        PROVE  Home(d) = b
    <3>1. call'[d].presented = call[d].presented
      BY <1>7, <2>2
    <3>2. cookie'[b] = cookie[b]
      BY <1>2, <1>4, <2>2, <3>1
    <3> QED BY <2>2, <3>1, <3>2 DEF QuietInv, OneHome
  <2>3. ASSUME NEW a \in Browsers, NEW b \in Browsers, cookie'[a] # 0, cookie'[a] = cookie'[b]
        PROVE  a = b
    BY <1>2, <1>4, <2>3 DEF QuietInv, OneHome
  <2> QED BY <2>1, <2>2, <2>3 DEF OneHome, Home
<1>10. IssuedAlone'
  <2>1. ASSUME NEW d \in Calls, call'[d].issued # 0
        PROVE  /\ ~RevokedNext(call'[d].issued)
               /\ \A b \in Browsers : cookie'[b] # call'[d].issued
               /\ \A e \in Calls : /\ call'[e].presented # call'[d].issued
                                   /\ call'[e].issued = call'[d].issued => e = d
    <3>1. d # c /\ call'[d].issued = call[d].issued /\ call[d].issued # j
      BY <1>2, <1>3, <1>4, <1>5, <2>1
    <3>2. /\ ~RevokedNext(call[d].issued)
          /\ \A b \in Browsers : cookie[b] # call[d].issued
          /\ \A e \in Calls : /\ call[e].presented # call[d].issued
                              /\ call[e].issued = call[d].issued => e = d
      BY <1>6, <2>1, <3>1 DEF QuietInv, IssuedAlone
    <3>3. \A b \in Browsers : cookie'[b] # call[d].issued
      BY <1>2, <3>1, <3>2
    <3>4. ASSUME NEW e \in Calls
          PROVE  /\ call'[e].presented # call[d].issued
                 /\ call'[e].issued = call[d].issued => e = d
      BY <1>7, <2>1, <3>1, <3>2
    <3> QED BY <3>1, <3>2, <3>3, <3>4
  <2> QED BY <2>1 DEF IssuedAlone, Revoked, RevokedNext
<1>11. AskedStands'
  <2>1. ASSUME NEW d \in Calls, Asks(call'[d]), RevokedNext(call'[d].presented) PROVE FALSE
    <3>1. d # c
      BY <1>2, <1>5, <2>1 DEF Asks
    <3> QED BY <1>3, <1>6, <2>1, <3>1 DEF QuietInv, AskedStands
  <2> QED BY <2>1 DEF AskedStands, Asks, Revoked, RevokedNext
<1>12. SpentIsRenewed'
  <2>1. ASSUME NEW b \in Browsers, RevokedNext(cookie'[b])
        PROVE  \E d \in Calls : /\ Home(d) = b /\ Rotated(call'[d])
                                /\ call'[d].presented = cookie'[b]
    <3>1. b # h /\ cookie'[b] = cookie[b]
      BY <1>2, <1>4, <1>6, <2>1
    <3>2. PICK d \in Calls : Home(d) = b /\ Rotated(call[d]) /\ call[d].presented = cookie[b]
      BY <1>6, <2>1, <3>1 DEF QuietInv, SpentIsRenewed
    <3>3. d # c
      BY <1>1, <3>1, <3>2
    <3> QED BY <1>3, <3>1, <3>2, <3>3
  <2> QED BY <2>1 DEF SpentIsRenewed, Rotated, Revoked, RevokedNext, Home
<1>13. OwnRow'
  <2>1. ASSUME NEW d \in Calls, Proven(call'[d]), call'[d].presented \in Rows,
               tokens'[call'[d].presented].state # "none"
        PROVE  tokens'[call'[d].presented].user = call'[d].user
    <3>1. d # c
      BY <1>7, <2>1 DEF Proven
    <3> QED BY <1>2, <1>3, <2>1, <3>1 DEF RowsAge, QuietInv, OwnRow
  <2> QED BY <2>1 DEF OwnRow, Proven
<1> QED BY <1>5, <1>8, <1>9, <1>10, <1>11, <1>12, <1>13 DEF QuietInv

(* A call that stays as it is fades. *)
LEMMA StillFades ==
    ASSUME NEW d, call'[d] = call[d]
    PROVE  Fades(d)
BY DEF Fades

(* One call moves, and it fades; or none does.                             *)
LEMMA OneFades ==
    ASSUME TypeInv, QuietInv, \A b \in Browsers : cookie'[b] \in {cookie[b], 0},
           NEW c \in Calls, OnlyCall(c), Fades(c), RowsAge, NewlyRevoked({}),
           UNCHANGED <<alarmed, twice>>
    PROVE  QuietInv'
<1>1. \A d \in Calls : call'[d] = IF d = c THEN call'[c] ELSE call[d]
  BY DEF OnlyCall
<1>2. \A d \in Calls : Fades(d)
  BY <1>1, StillFades
<1>3. ~alarmed' /\ ~twice'
  BY DEF QuietInv
<1> QED BY <1>2, <1>3, FadeKeeps

(* A step that moves no call keeps them too. *)
LEMMA NoneMoves ==
    ASSUME TypeInv, QuietInv, RowsAge, NewlyRevoked({}), UNCHANGED <<call, cookie, alarmed, twice>>
    PROVE  QuietInv'
<1>1. \A d \in Calls : Fades(d)
  BY StillFades
<1>2. ~alarmed' /\ ~twice'
  BY DEF QuietInv
<1> QED BY <1>1, <1>2, FadeKeeps

(* No account that has a row is deleted.                                   *)
LEMMA StandingKept ==
    ASSUME TypeInv, AccountsStand, RowsTyped', RowsAge,
           \A u \in Users : standing'[u] = "deleted" =>
               standing[u] = "deleted" \/ \A k \in Rows : tokens'[k].user # u
    PROVE  AccountsStand'
<1>1. ASSUME NEW k \in Rows, tokens'[k].state # "none" PROVE standing'[tokens'[k].user] # "deleted"
  <2>1. /\ tokens[k].state # "none" /\ tokens'[k].user = tokens[k].user
        /\ tokens[k] \in TokenRow /\ tokens[k].user # NoUser
    BY <1>1 DEF RowsAge, TypeInv, TypeOK
  <2>2. tokens[k].user \in Users
    BY <2>1 DEF TokenRow
  <2> QED BY <2>1, <2>2 DEF AccountsStand
<1> QED BY <1>1 DEF AccountsStand

(* A call that is to be answered without a row fades.                      *)
LEMMA AnswerFades ==
    ASSUME TypeInv, NEW c \in Calls, call[c].pc \in {"sent", "checked", "spent"},
           NEW a \in {"refused", "noCookie", "denied", "cleared", "failed"},
           call'[c] = [call[c] EXCEPT !.pc = "answered", !.answer = a],
           call[c].pc = "spent" => ~RevokedNext(call[c].presented)
    PROVE  Fades(c)
<1>1. call[c] \in CallRow /\ Shaped(c, call[c])
  BY DEF TypeInv, TypeOK, CallsShaped
<1>2. /\ call'[c].presented = call[c].presented /\ call'[c].issued = call[c].issued
      /\ call'[c].pc = "answered" /\ call[c].answer = "none"
  BY <1>1 DEF CallRow, Shaped
<1> QED BY <1>2 DEF Fades, Asks, Proven, Rotated

(* A row is issued to no deleted account. *)
LEMMA ServerStands ==
    ASSUME TypeInv, AccountsStand, NEW c \in Calls, Server(c)
    PROVE  AccountsStand'
<1>1. UNCHANGED standing
  BY DEF Server, serverVars, Prove, Lookup, Spend, Issue, EndSession
<1>2. CASE Prove(c) \/ Lookup(c) \/ Spend(c) \/ EndSession(c)
  <2>1. RowsTyped' /\ RowsAge
    BY <1>2, RowsSame, LookupTyped, RowSpent, RowEnds DEF Prove, serverVars
  <2> QED BY <1>1, <2>1, StandingKept
<1>3. CASE Issue(c, Min(FreeRows))
  <2>1. PICK k : k = Min(FreeRows)
    OBVIOUS
  <2>2. CASE UNCHANGED tokens
    BY <1>1, <2>2, RowsSame, StandingKept
  <2>3. CASE RowIssued(c, k) /\ standing[call[c].user] # "deleted"
    <3>1. \A j \in Rows : tokens'[j] = tokens[j] \/ tokens'[j].user = call[c].user
      BY <2>3 DEF RowIssued, TypeInv, TypeOK
    <3> QED BY <1>1, <2>3, <3>1 DEF AccountsStand
  <2> QED BY <1>3, <2>1, <2>2, <2>3, IssueTyped
<1> QED BY <1>2, <1>3 DEF Server

(* What the server does of a call keeps the renewals apart.                *)
LEMMA ServerRenews ==
    ASSUME TypeInv, QuietInv, AccountsStand, NEW c \in Calls, Server(c)
    PROVE  QuietInv'
<1>1. /\ UNCHANGED <<standing, cookie>> /\ call[c] \in CallRow /\ Shaped(c, call[c])
      /\ \A b \in Browsers : cookie'[b] \in {cookie[b], 0}
  BY DEF Server, clientVars, serverVars, Prove, Lookup, Spend, Issue, EndSession,
         TypeInv, TypeOK, CallsShaped
<1>2. CASE Prove(c)
  <2>1. /\ OnlyCall(c)
        /\ \/ call'[c] = [call[c] EXCEPT !.pc = "checked", !.since = resets[call[c].user]]
           \/ call'[c] = [call[c] EXCEPT !.pc = "answered", !.answer = "denied"]
    BY <1>2, ProveTyped
  <2>2. RowsTyped' /\ RowsAge /\ NewlyRevoked({}) /\ UNCHANGED <<alarmed, twice>>
    BY <1>2, RowsSame DEF Prove, serverVars
  <2>3. call[c].kind = "login" /\ call[c].pc = "sent" /\ call[c].presented = 0
    BY <1>1, <1>2 DEF Prove, At, Shaped
  <2>4. /\ call'[c].kind = "login" /\ call'[c].presented = 0
        /\ call'[c].issued = call[c].issued
    BY <1>1, <2>1, <2>3 DEF CallRow
  <2>5. Fades(c)
    BY <2>3, <2>4, TokensAssumption DEF Fades, Asks, Rotated
  <2> QED BY <1>1, <2>1, <2>2, <2>5, OneFades
<1>3. CASE Lookup(c)
  <2>1. /\ OnlyCall(c) /\ RowsTyped' /\ RowsAge
        /\ call[c].kind = "refresh" /\ call[c].pc = "sent" /\ twice' = twice
    BY <1>3, LookupTyped DEF Lookup
  <2>2. UNCHANGED <<tokens, alarmed>>
    BY <1>3, <2>1, LookupTyped DEF QuietInv, AskedStands, Asks, Revoked
  <2>3. Fades(c)
    <3>1. CASE LookedUp(c, call[c].presented)
      <4>1. PICK p, u, n : /\ p = call[c].presented /\ u = tokens[p].user /\ n = resets[u]
        OBVIOUS
      <4>2. /\ call'[c] = [call[c] EXCEPT !.pc = "checked", !.user = u, !.since = n]
            /\ p \in Rows
        BY <3>1, <4>1 DEF LookedUp
      <4>3. /\ call'[c].presented = p /\ call'[c].issued = call[c].issued
            /\ call'[c].user = u /\ call'[c].kind = "refresh" /\ call[c].answer = "none"
        BY <1>1, <2>1, <4>1, <4>2 DEF CallRow, Shaped
      <4>4. tokens'[call'[c].presented].user = call'[c].user
        BY <2>2, <4>1, <4>3
      <4> QED BY <2>1, <4>1, <4>3, <4>4 DEF Fades, Asks, Rotated
    <3>2. CASE \E a \in {"noCookie", "refused"} :
                  call'[c] = [call[c] EXCEPT !.pc = "answered", !.answer = a]
      BY <2>1, <3>2, AnswerFades
    <3> QED BY <1>3, <3>1, <3>2, LookupTyped
  <2>4. NewlyRevoked({})
    BY <2>2, RowsSame
  <2> QED BY <1>1, <2>1, <2>2, <2>3, <2>4, OneFades
<1>4. CASE Spend(c)
  <2>1. /\ OnlyCall(c) /\ call[c].pc = "checked" /\ RowsTyped' /\ RowsAge
    BY <1>4, SpendTyped, RowSpent
  <2>2. CASE /\ UNCHANGED <<tokens, twice>>
             /\ call'[c] = [call[c] EXCEPT !.pc = "answered", !.answer = "failed"]
    <3>1. Fades(c)
      BY <2>1, <2>2, AnswerFades
    <3>2. NewlyRevoked({}) /\ alarmed' = alarmed
      BY <1>4, <2>2, RowsSame DEF Spend
    <3> QED BY <1>1, <2>1, <2>2, <3>1, <3>2, OneFades
  <2>3. CASE /\ call'[c] = [call[c] EXCEPT !.pc = "spent"]
             /\ twice' = (twice \/ tokens[call[c].presented].state = "revoked")
    BY <1>1, <1>4, <2>3, SpendKeeps
  <2> QED BY <1>4, <2>2, <2>3, SpendTyped
<1>5. CASE Issue(c, Min(FreeRows))
  <2>1. PICK k : k = Min(FreeRows)
    OBVIOUS
  <2>2. /\ OnlyCall(c) /\ RowsTyped' /\ NewlyRevoked({}) /\ Proven(call[c])
        /\ UNCHANGED <<alarmed, twice>>
    BY <1>5, <2>1, IssueTyped DEF Proven, Issue
  <2>3. CASE /\ UNCHANGED tokens /\ standing[call[c].user] = "deleted"
             /\ call'[c] = [call[c] EXCEPT !.pc = "answered", !.answer = "failed"]
    <3>1. ASSUME call[c].pc = "spent" PROVE ~RevokedNext(call[c].presented)
      BY <2>2, <2>3 DEF QuietInv, OwnRow, AccountsStand, RevokedNext
    <3>2. Fades(c)
      BY <2>2, <2>3, <3>1, AnswerFades DEF Proven
    <3>3. RowsAge
      BY <2>3, RowsSame
    <3> QED BY <1>1, <2>2, <3>2, <3>3, OneFades
  <2>4. CASE /\ RowIssued(c, k) /\ standing[call[c].user] # "deleted"
             /\ call'[c] = [call[c] EXCEPT !.pc = "answered", !.answer = "ok", !.issued = k]
    BY <1>1, <2>2, <2>4, IssueKeeps
  <2> QED BY <1>5, <2>1, <2>3, <2>4, IssueTyped
<1>6. CASE EndSession(c)
  <2>1. /\ OnlyCall(c) /\ call[c].pc = "sent"
        /\ call'[c] = [call[c] EXCEPT !.pc = "answered", !.answer = "cleared"]
    BY <1>6, EndTyped
  <2>2. RowsTyped' /\ RowsAge /\ NewlyRevoked({}) /\ UNCHANGED <<alarmed, twice>>
    BY <1>6, RowEnds DEF EndSession
  <2>3. Fades(c)
    BY <2>1, AnswerFades
  <2> QED BY <1>1, <2>1, <2>2, <2>3, OneFades
<1> QED BY <1>2, <1>3, <1>4, <1>5, <1>6 DEF Server

(* The answer arrives, is lost, or the call fails on the way.              *)
LEMMA AnswerRenews ==
    ASSUME TypeInv, RenewInv, NEW c \in Calls, Deliver(c) \/ Lose(c) \/ Fail(c)
    PROVE  RenewInv'
<1>1. /\ call[c] \in CallRow /\ Shaped(c, call[c])
      /\ UNCHANGED <<standing, alarmed, twice, crossed>>
  BY DEF TypeInv, TypeOK, CallsShaped, Deliver, Lose, Fail, serverVars
<1>2. /\ NoCall.pc = "idle" /\ NoCall.presented = 0 /\ NoCall.issued = 0
      /\ NoCall.kind = "login"
  BY DEF NoCall
<1>3. ASSUME call'[c] = NoCall, Rotated(call[c]) => FALSE PROVE Fades(c)
  BY <1>2, <1>3 DEF Fades, Asks, Proven
<1>4. CASE Deliver(c)
  <2>1. /\ OnlyCall(c) /\ call'[c] = NoCall /\ RowsTyped' /\ RowsAge /\ NewlyRevoked({})
        /\ Home(c) \in Browsers
        /\ \A b \in Browsers \ {Home(c)} : cookie'[b] = cookie[b]
        /\ cookie'[Home(c)] = IF call[c].answer = "ok" THEN call[c].issued
                              ELSE IF call[c].answer \in {"refused", "cleared"} THEN 0
                              ELSE cookie[Home(c)]
    BY <1>4, DeliverTyped
  <2>2. AccountsStand'
    BY <1>1, <2>1, StandingKept DEF RenewInv
  <2>3. ASSUME Quiet' PROVE QuietInv'
    <3>1. QuietInv /\ call[c].pc = "answered"
      BY <1>4, <2>3 DEF RenewInv, Quiet, Deliver
    <3>2. CASE call[c].answer = "ok"
      BY <1>4, <3>1, <3>2, CookieKeeps
    <3>3. CASE call[c].answer # "ok"
      <4>1. \A b \in Browsers : cookie'[b] \in {cookie[b], 0}
        BY <2>1, <3>3
      <4>2. Fades(c)
        BY <1>3, <2>1, <3>1, <3>3 DEF Rotated
      <4> QED BY <1>1, <2>1, <3>1, <4>1, <4>2, OneFades
    <3> QED BY <3>2, <3>3
  <2> QED BY <2>2, <2>3 DEF RenewInv
<1>5. CASE Lose(c)
  <2>1. /\ OnlyCall(c) /\ call'[c] = NoCall /\ RowsTyped' /\ RowsAge /\ NewlyRevoked({})
        /\ UNCHANGED cookie
    BY <1>5, LoseTyped
  <2>2. AccountsStand'
    BY <1>1, <2>1, StandingKept DEF RenewInv
  <2>3. ASSUME Quiet' PROVE QuietInv'
    <3>1. QuietInv /\ call[c].pc = "answered" /\ ~(call[c].kind = "refresh" /\ call[c].answer = "ok")
      BY <1>5, <2>3 DEF RenewInv, Quiet, Lose
    <3>2. Fades(c)
      BY <1>3, <2>1, <3>1 DEF Rotated
    <3>3. \A b \in Browsers : cookie'[b] \in {cookie[b], 0}
      BY <2>1
    <3> QED BY <1>1, <2>1, <3>1, <3>2, <3>3, OneFades
  <2> QED BY <2>2, <2>3 DEF RenewInv
<1>6. CASE Fail(c)
  <2>1. /\ OnlyCall(c) /\ call[c].pc \in {"sent", "checked", "spent"}
        /\ call'[c] = [call[c] EXCEPT !.pc = "answered", !.answer = "failed"]
        /\ UNCHANGED <<tokens, cookie>>
    BY <1>6, FailTyped DEF Fail, serverVars, clientVars
  <2>2. RowsTyped' /\ RowsAge /\ NewlyRevoked({})
    BY <2>1, RowsSame
  <2>3. AccountsStand'
    BY <1>1, <2>2, StandingKept DEF RenewInv
  <2>4. ASSUME Quiet' PROVE QuietInv'
    <3>1. QuietInv /\ call[c].pc # "spent"
      BY <1>6, <2>4 DEF RenewInv, Quiet, Fail
    <3>2. Fades(c)
      BY <2>1, <3>1, AnswerFades
    <3>3. \A b \in Browsers : cookie'[b] \in {cookie[b], 0}
      BY <2>1
    <3> QED BY <1>1, <2>1, <2>2, <3>1, <3>2, <3>3, OneFades
  <2> QED BY <2>3, <2>4 DEF RenewInv
<1> QED BY <1>4, <1>5, <1>6

(* No other renewal of its browser is under way, and this call starts.     *)
LEMMA RenewalStarts ==
    ASSUME TypeInv, QuietInv, UNCHANGED <<cookie, tokens, alarmed, twice>>,
           NEW t \in Tabs, <<t, "renewal">> \in Calls,
           ~Busy(t, "renewal"), ~SiblingRefreshing(t),
           call'[<<t, "renewal">>] = Leaves(t, "refresh", NoUser),
           \A d \in Calls \ {<<t, "renewal">>} : Fades(d)
    PROVE  QuietInv'
<1>1. PICK c \in Calls : c = <<t, "renewal">>
  OBVIOUS
<1>2. c[1] = t /\ c[2] = "renewal" /\ Home(c) = BrowserOf[t]
  BY <1>1 DEF Home
<1>3. /\ call'[c].pc = "sent" /\ call'[c].kind = "refresh" /\ call'[c].issued = 0
      /\ call'[c].presented = cookie[Home(c)] /\ call[c].pc = "idle"
  BY <1>1, <1>2, LeavesFields DEF Busy
<1>4. ASSUME NEW d \in Calls, Renewing(d), Home(d) = Home(c) PROVE FALSE
  <2>1. PICK o \in Tabs, slot \in {"renewal", "form", "gone"} : d = <<o, slot>>
    BY DEF Calls
  <2>2. slot = "renewal"
    BY <1>4, <2>1 DEF QuietInv, OneRenewal, Renewing
  <2>3. Busy(o, "renewal") /\ BrowserOf[o] = BrowserOf[t]
    BY <1>2, <1>4, <2>1, <2>2 DEF Busy, Renewing, Home
  <2> QED BY <2>3 DEF SiblingRefreshing
<1>5. Starting(c)
  BY <1>2, <1>3, <1>4 DEF Starting
<1> QED BY <1>1, <1>5, StartKeeps

(* A reload while nothing is under way starts a renewal and leaves none.   *)
LEMMA ReloadRenews ==
    ASSUME TypeInv, RenewInv, NEW t \in Tabs, Reload(t)
    PROVE  RenewInv'
<1>1. UNCHANGED <<standing, tokens, cookie, alarmed, twice>>
  BY DEF Reload, serverVars
<1>2. AccountsStand'
  BY <1>1, RowsSame, StandingKept DEF RenewInv
<1>3. ASSUME Quiet' PROVE QuietInv'
  <2>1. QuietInv /\ ~Busy(t, "renewal") /\ ~SiblingRefreshing(t) /\ ~Busy(t, "gone")
    BY <1>3 DEF RenewInv, Quiet, Reload
  <2>2. ASSUME NEW d \in Calls, d # <<t, "renewal">> PROVE Fades(d)
    <3>1. call[d] \in CallRow /\ Shaped(d, call[d])
      BY DEF TypeInv, TypeOK, CallsShaped
    <3>2. CASE d = <<t, "gone">>
      <4>1. PICK e \in Calls : e = <<t, "renewal">>
        BY ReloadTyped
      <4>2. /\ call'[d] = [call[e] EXCEPT !.left = TRUE]
            /\ call[e].pc = "idle" /\ call[d].pc = "idle"
        BY <2>1, <3>2, <4>1, ReloadTyped DEF Busy
      <4>3. call[e] \in CallRow /\ call[e].presented = 0 /\ call[e].issued = 0
        BY <4>2 DEF TypeInv, TypeOK, CallsShaped, Shaped
      <4>4. call'[d].presented = 0 /\ call'[d].issued = 0 /\ call'[d].pc = "idle"
        BY <4>2, <4>3 DEF CallRow
      <4>5. ~Rotated(call[d])
        BY <3>1, <4>2 DEF Rotated, Shaped
      <4> QED BY <4>4, <4>5 DEF Fades, Asks, Proven
    <3>3. CASE d = <<t, "form">>
      <4>1. call'[d] = [call[d] EXCEPT !.left = Busy(t, "form")]
        BY <3>3, ReloadTyped
      <4>2. /\ call'[d].presented = call[d].presented /\ call'[d].issued = call[d].issued
            /\ call'[d].pc = call[d].pc /\ call'[d].kind = call[d].kind
            /\ call'[d].answer = call[d].answer /\ call'[d].user = call[d].user
        BY <3>1, <4>1 DEF CallRow
      <4> QED BY <4>2 DEF Fades, Asks, Rotated, Proven
    <3>4. CASE call'[d] = call[d]
      BY <3>4, StillFades
    <3> QED BY <2>2, <3>2, <3>3, <3>4, ReloadTyped
  <2>3. /\ <<t, "renewal">> \in Calls
        /\ call'[<<t, "renewal">>] = Leaves(t, "refresh", NoUser)
    BY ReloadTyped
  <2> QED BY <1>1, <2>1, <2>2, <2>3, RenewalStarts
<1> QED BY <1>2, <1>3 DEF RenewInv

(* What the forms and the requests of a page start.                        *)
LEMMA PageRenews ==
    ASSUME TypeInv, RenewInv,
           \/ \E t \in Tabs : Logout(t) \/ AccessExpires(t) \/ \E u \in Users : Login(t, u)
           \/ \E q \in Requests : Send(q) \/ Serve(q) \/ Renew(q)
    PROVE  RenewInv'
<1>1. UNCHANGED <<standing, tokens, cookie, alarmed, twice, lost>>
  BY DEF Logout, AccessExpires, Login, Send, Serve, Renew, serverVars, clientVars
<1>2. RowsTyped' /\ RowsAge /\ NewlyRevoked({})
  BY <1>1, RowsSame
<1>3. AccountsStand'
  BY <1>1, <1>2, StandingKept DEF RenewInv
<1>4. ASSUME UNCHANGED <<call, crossed>> PROVE Quiet' => QuietInv'
  BY <1>1, <1>2, <1>4, NoneMoves DEF RenewInv, Quiet
<1>5. ASSUME NEW t \in Tabs, Renews(t), Quiet' PROVE QuietInv'
  <2>1. QuietInv /\ ~SiblingRefreshing(t)
    BY <1>1, <1>5 DEF RenewInv, Quiet, Renews
  <2>2. PICK c \in Calls : c = <<t, "renewal">> /\ OnlyCall(c)
    BY <1>5 DEF Renews
  <2>3. \A d \in Calls : call'[d] = IF d = c THEN call'[c] ELSE call[d]
    BY <2>2 DEF OnlyCall
  <2>4. \A d \in Calls \ {c} : Fades(d)
    BY <2>3, StillFades
  <2> QED BY <1>1, <1>5, <2>1, <2>2, <2>4, RenewalStarts DEF Renews
<1>6. ASSUME NEW t \in Tabs, Logout(t) \/ \E u \in Users : Login(t, u), Quiet'
      PROVE  QuietInv'
  <2>1. QuietInv
    <3>1. crossed' = crossed
      BY <1>6 DEF Logout, Login
    <3> QED BY <1>1, <1>6, <3>1 DEF RenewInv, Quiet
  <2>2. PICK kind \in {"login", "logout"}, u \in Users \cup {NoUser} :
           /\ <<t, "form">> \in Calls /\ ~Busy(t, "form") /\ OnlyCall(<<t, "form">>)
           /\ call'[<<t, "form">>] = Leaves(t, kind, u)
    BY <1>6, FormTyped
  <2>3. PICK c \in Calls : c = <<t, "form">> /\ OnlyCall(c)
    BY <2>2
  <2>4. /\ call'[c].pc = "sent" /\ call'[c].kind = kind /\ call'[c].issued = 0
        /\ call'[c].presented \in {0, cookie[BrowserOf[t]]}
    BY <2>2, <2>3, LeavesFields
  <2>5. call[c].pc = "idle" /\ c[2] = "form" /\ Home(c) = BrowserOf[t]
    BY <2>2, <2>3 DEF Busy, Home
  <2>6. Starting(c)
    BY <2>4, <2>5 DEF Starting
  <2>7. \A d \in Calls : call'[d] = IF d = c THEN call'[c] ELSE call[d]
    BY <2>3 DEF OnlyCall
  <2>8. \A d \in Calls \ {c} : Fades(d)
    BY <2>7, StillFades
  <2> QED BY <1>1, <2>1, <2>6, <2>8, StartKeeps
<1>7. Quiet' => QuietInv'
  <2>1. CASE \E t \in Tabs : AccessExpires(t)
    BY <1>4, <2>1 DEF AccessExpires
  <2>2. CASE \E q \in Requests : Send(q) \/ Serve(q)
    BY <1>4, <2>2 DEF Send, Serve
  <2>3. CASE \E q \in Requests : Renew(q)
    BY <1>4, <1>5, <2>3, RenewTyped
  <2>4. CASE \E t \in Tabs : Logout(t) \/ \E u \in Users : Login(t, u)
    BY <1>6, <2>4
  <2> QED BY <2>1, <2>2, <2>3, <2>4
<1> QED BY <1>3, <1>7 DEF RenewInv

(* An account that is deleted takes its rows with it.                      *)
LEMMA ChangeRenews ==
    ASSUME TypeInv, RenewInv, Change
    PROVE  RenewInv'
<1>1. UNCHANGED <<call, cookie, alarmed, twice, lost, crossed>>
  BY DEF Change, ToggleActive, Remove, ResetPassword, TokenExpires, clientVars
<1>2. ASSUME NEW u \in Users, ToggleActive(u) \/ Remove(u) \/ ResetPassword(u)
      PROVE  RowsTyped' /\ RowsAge /\ NewlyRevoked({}) /\ AccountsStand'
  <2>1. standing \in [Users -> {"active", "disabled", "deleted"}] /\ AccountsStand
    BY DEF RenewInv, TypeInv, TypeOK
  <2>2. CASE ToggleActive(u)
    <3>1. RowsTyped' /\ RowsAge /\ NewlyRevoked({})
      BY <2>2, RowsSame DEF ToggleActive
    <3>2. \A v \in Users : standing'[v] = "deleted" => standing[v] = "deleted"
      BY <2>1, <2>2 DEF ToggleActive
    <3> QED BY <2>1, <3>1, <3>2, StandingKept
  <2>3. CASE Remove(u)
    <3>1. /\ RowsTyped' /\ RowsAge /\ NewlyRevoked({})
          /\ \A k \in Rows : tokens'[k].user # u
      BY <2>3, RowsDeleted DEF Remove
    <3>2. \A v \in Users : standing'[v] = "deleted" => standing[v] = "deleted" \/ v = u
      BY <2>1, <2>3 DEF Remove
    <3> QED BY <2>1, <3>1, <3>2, StandingKept
  <2>4. CASE ResetPassword(u)
    <3>1. RowsTyped' /\ RowsAge /\ NewlyRevoked({}) /\ standing' = standing
      BY <2>4, RowsDeleted DEF ResetPassword
    <3> QED BY <2>1, <3>1, StandingKept
  <2> QED BY <1>2, <2>2, <2>3, <2>4
<1>3. ASSUME NEW k \in Rows, TokenExpires(k)
      PROVE  RowsTyped' /\ RowsAge /\ NewlyRevoked({}) /\ AccountsStand'
  <2>1. RowsTyped' /\ RowsAge /\ NewlyRevoked({}) /\ standing' = standing
    BY <1>3, RowExpires DEF TokenExpires
  <2> QED BY <2>1, StandingKept DEF RenewInv
<1>4. RowsAge /\ NewlyRevoked({}) /\ AccountsStand'
  BY <1>2, <1>3 DEF Change
<1>5. Quiet' => QuietInv'
  BY <1>1, <1>4, NoneMoves DEF RenewInv, Quiet
<1> QED BY <1>4, <1>5 DEF RenewInv

(* With no row, no cookie and no call there is nothing to confuse.         *)
LEMMA RenewInit == Init => RenewInv
<1> SUFFICES ASSUME Init PROVE RenewInv
  OBVIOUS
<1>1. /\ ~alarmed /\ ~twice
      /\ \A k \in Rows : tokens[k].state = "none"
      /\ \A b \in Browsers : cookie[b] = 0
      /\ \A c \in Calls : /\ call[c].pc = "idle" /\ call[c].kind = "login"
                          /\ call[c].presented = 0 /\ call[c].issued = 0
  BY DEF Init, ServerInit, ClientInit, NoRow, NoCall
<1>2. OneRenewal /\ OneHome /\ IssuedAlone
  BY <1>1 DEF OneRenewal, OneHome, IssuedAlone, Renewing
<1>3. AskedStands /\ SpentIsRenewed /\ OwnRow
  BY <1>1 DEF AskedStands, SpentIsRenewed, OwnRow, Asks, Revoked, Proven
<1> QED BY <1>1, <1>2, <1>3 DEF RenewInv, AccountsStand, QuietInv

(* Every step keeps the accounts and, while it is quiet, the renewals.     *)
LEMMA NextRenews == TypeInv /\ RenewInv /\ [Next]_vars => RenewInv'
<1> SUFFICES ASSUME TypeInv, RenewInv, [Next]_vars PROVE RenewInv'
  OBVIOUS
<1>1. ASSUME NEW c \in Calls, Server(c) PROVE RenewInv'
  <2>1. UNCHANGED <<lost, crossed>>
    BY <1>1 DEF Server
  <2>2. Quiet' => QuietInv'
    BY <1>1, <2>1, ServerRenews DEF RenewInv, Quiet
  <2>3. AccountsStand'
    BY <1>1, ServerStands DEF RenewInv
  <2> QED BY <2>2, <2>3 DEF RenewInv
<1>2. CASE UNCHANGED vars
  <2>1. UNCHANGED <<standing, tokens, call, cookie, alarmed, twice, lost, crossed>>
    BY <1>2 DEF vars, serverVars, clientVars
  <2>2. RowsTyped' /\ RowsAge /\ NewlyRevoked({})
    BY <2>1, RowsSame
  <2>3. AccountsStand'
    BY <2>1, <2>2, StandingKept DEF RenewInv
  <2>4. Quiet' => QuietInv'
    BY <2>1, <2>2, NoneMoves DEF RenewInv, Quiet
  <2> QED BY <2>3, <2>4 DEF RenewInv
<1> QED BY <1>1, <1>2, AnswerRenews, ReloadRenews, PageRenews, ChangeRenews DEF Next

(* A renewal ends every session of its user, or leaves two successors of   *)
(* one token, only after a rotation was answered to nobody or two tabs of  *)
(* one browser renewed at once.                                            *)
THEOREM RenewalsFailForCause == Spec => []RenewalFailsForCause
<1>1. RenewInv => RenewalFailsForCause
  BY DEF RenewInv, Quiet, QuietInv, RenewalFailsForCause
<1> QED BY <1>1, InitKeeps, NextKeeps, RenewInit, NextRenews, PTL DEF Spec
=============================================================================

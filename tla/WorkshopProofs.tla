---------------------------- MODULE WorkshopProofs ----------------------------
(***************************************************************************)
(* What the office, the bench and their screens keep, for every set of     *)
(* callers, accounts, invoices, requests, files, exports, forms and pages: *)
(* a code is spent once and its ceilings hold, a super admin loses that    *)
(* standing only as the property says, an invoice that reads as paid was   *)
(* paid, and its parts are where its status says; then the safety of a     *)
(* device, of the photos and pictures, of the exports, and of the form and *)
(* the list these are worked from.                                         *)
(***************************************************************************)
EXTENDS Verification, Personnel, RepairInvoice, StockLedgerProofs, Pictures, Devices, Exports,
        ListPage, DeviceForm, FiniteSetTheorems, SequenceTheorems, WellFoundedInduction, TLAPS

AccountRow == [role : Roles \cup {"none"}, active : BOOLEAN]

Judges == Roles \cup {"none"}

Acts == {NoAct}
        \cup [pc : {"create", "role"}, of : Users, as : Judges, found : Judges, role : Roles]
        \cup [pc : {"active"}, of : Users, as : Judges, found : Judges, active : BOOLEAN]
        \cup [pc : {"remove"}, of : Users, as : Judges, found : Judges]

PersonnelTypeOK ==
    /\ account \in [Users -> AccountRow]
    /\ token \in [Users -> Roles \cup {"none"}]
    /\ act \in [Users -> Acts]

(* A request by u is about somebody else's account, and a token that may   *)
(* do as much began it.                                                    *)
Fair(u, w) ==
    /\ w.of # u
    /\ \/ w.as = "super_admin"
       \/ w.as = "admin" /\ \/ w.pc \in {"create", "role"}
                            \/ w.pc = "active" /\ w.found # "super_admin"

ActsWithStanding == \A u \in Users : act[u] # NoAct => Fair(u, act[u])

PersonnelInv == PersonnelTypeOK /\ ActsWithStanding

(* What a request is, by what it is about. *)
LEMMA ActShapes ==
    \A w \in Acts : \/ w = NoAct /\ w.pc = "idle"
                    \/ w.pc \in {"create", "role"} /\ w.of \in Users /\ w.role \in Roles
                    \/ w.pc = "active" /\ w.of \in Users /\ w.active \in BOOLEAN
                    \/ w.pc = "remove" /\ w.of \in Users
BY DEF Acts, NoAct

(* The acts of the routes are acts with the typed parts the code fills in. *)
LEMMA ActsMade ==
    ASSUME NEW v \in Users, NEW as \in Judges, NEW found \in Judges
    PROVE  /\ \A role \in Roles :
                 /\ [pc |-> "create", of |-> v, as |-> as, found |-> found, role |-> role] \in Acts
                 /\ [pc |-> "role", of |-> v, as |-> as, found |-> found, role |-> role] \in Acts
           /\ \A active \in BOOLEAN :
                 [pc |-> "active", of |-> v, as |-> as, found |-> found, active |-> active] \in Acts
           /\ [pc |-> "remove", of |-> v, as |-> as, found |-> found] \in Acts
BY DEF Acts

(* A changed account is an account. *)
LEMMA AccountsMade ==
    /\ \A r \in AccountRow : /\ r.role \in Roles \cup {"none"}
                             /\ \A role \in Roles : /\ [r EXCEPT !.role = role] \in AccountRow
                                                    /\ [r EXCEPT !.role = role].role = role
                                                    /\ [r EXCEPT !.role = role].active = r.active
                             /\ \A active \in BOOLEAN :
                                   /\ [r EXCEPT !.active = active] \in AccountRow
                                   /\ [r EXCEPT !.active = active].role = r.role
    /\ \A role \in Roles : [role |-> role, active |-> TRUE] \in AccountRow
    /\ [role |-> "none", active |-> FALSE] \in AccountRow
BY DEF AccountRow, Roles

(* The workspace begins with its owner, and nobody at work. *)
LEMMA PersonnelInitInv == PersonnelInit => PersonnelInv
<1> SUFFICES ASSUME PersonnelInit PROVE PersonnelInv
  OBVIOUS
<1>1. account \in [Users -> AccountRow]
  BY DEF PersonnelInit, AccountRow, Roles
<1>2. act \in [Users -> Acts] /\ \A u \in Users : act[u] = NoAct
  BY DEF PersonnelInit, Acts
<1> QED BY <1>1, <1>2 DEF PersonnelInit, PersonnelInv, PersonnelTypeOK, ActsWithStanding

(* A request that begins. *)
LEMMA BeginsKeeps ==
    ASSUME PersonnelInv, NEW u \in Users, NEW w \in Acts, Begins(u, w), Fair(u, w)
    PROVE  PersonnelInv'
<1> USE DEF PersonnelInv
<1>1. act' = [act EXCEPT ![u] = w] /\ UNCHANGED <<account, token>>
  BY DEF Begins
<1>2. /\ act' \in [Users -> Acts]
      /\ \A o \in Users : act'[o] = IF o = u THEN w ELSE act[o]
  BY <1>1 DEF PersonnelTypeOK
<1>3. ActsWithStanding'
  BY <1>2 DEF ActsWithStanding
<1> QED BY <1>1, <1>2, <1>3 DEF PersonnelTypeOK

(* A request that ends, with its write or without it. *)
LEMMA EndsKeeps ==
    ASSUME PersonnelInv, NEW u \in Users, act' = [act EXCEPT ![u] = NoAct]
    PROVE  act' \in [Users -> Acts] /\ ActsWithStanding'
<1>1. /\ act' \in [Users -> Acts]
      /\ \A o \in Users : act'[o] = IF o = u THEN NoAct ELSE act[o]
  BY DEF PersonnelInv, PersonnelTypeOK, Acts
<1> QED BY <1>1 DEF ActsWithStanding, PersonnelInv

(* What a write leaves: the account it is of, and no other, is another one. *)
LEMMA WriteKeeps ==
    ASSUME PersonnelInv, NEW u \in Users, Write(u)
    PROVE  /\ PersonnelInv'
           /\ act[u] # NoAct /\ act'[u] = NoAct
           /\ \A v \in Users \ {act[u].of} : account'[v] = account[v]
           /\ act[u].pc = "create" /\ account[act[u].of].role # "none" =>
                 account'[act[u].of] = account[act[u].of]
<1> DEFINE w == act[u]
           v == w.of
           new == CASE w.pc = "create" -> IF Exists(v) THEN account[v]
                                          ELSE [role |-> w.role, active |-> TRUE]
                    [] w.pc = "role"   -> IF Exists(v) THEN [account[v] EXCEPT !.role = w.role]
                                          ELSE account[v]
                    [] w.pc = "active" -> IF Exists(v) THEN [account[v] EXCEPT !.active = w.active]
                                          ELSE account[v]
                    [] w.pc = "remove" -> [role |-> "none", active |-> FALSE]
<1> USE DEF PersonnelInv
<1>1. /\ w # NoAct /\ act' = [act EXCEPT ![u] = NoAct]
      /\ account' = [account EXCEPT ![v] = new]
      /\ UNCHANGED token
  BY DEF Write
<1>2. /\ w \in Acts /\ v \in Users /\ account[v] \in AccountRow
      /\ \/ w.pc \in {"create", "role"} /\ w.role \in Roles
         \/ w.pc = "active" /\ w.active \in BOOLEAN
         \/ w.pc = "remove"
  BY <1>1, ActShapes DEF PersonnelTypeOK
<1>3. new \in AccountRow
  BY <1>2, AccountsMade
<1>4. w.pc = "create" /\ account[v].role # "none" => new = account[v]
  BY DEF Exists
<1> HIDE DEF new
<1>5. /\ account' \in [Users -> AccountRow]
      /\ account'[v] = new /\ \A o \in Users \ {v} : account'[o] = account[o]
  BY <1>1, <1>2, <1>3 DEF PersonnelTypeOK
<1>6. act' \in [Users -> Acts] /\ ActsWithStanding'
  BY <1>1, EndsKeeps
<1>7. act'[u] = NoAct
  BY <1>1 DEF PersonnelTypeOK
<1>8. PersonnelInv'
  BY <1>1, <1>5, <1>6 DEF PersonnelTypeOK
<1> QED BY <1>1, <1>4, <1>5, <1>7, <1>8

(* Every request judged and every write that follows it keeps them, and    *)
(* none but a write touches an account.                                    *)
LEMMA PersonnelNextInv ==
    ASSUME PersonnelInv, [PersonnelNext]_personnelVars
    PROVE  PersonnelInv' /\ (UNCHANGED account \/ \E u \in Users : Write(u))
<1> DEFINE Goal == PersonnelInv' /\ (UNCHANGED account \/ \E u \in Users : Write(u))
<1> USE DEF PersonnelInv
<1>1. ASSUME NEW u \in Users, SignIn(u) \/ TokenExpires(u) PROVE Goal
  <2>1. UNCHANGED <<account, act>>
    BY <1>1 DEF SignIn, TokenExpires
  <2>2. token' \in [Users -> Roles \cup {"none"}]
    BY <1>1 DEF SignIn, TokenExpires, PersonnelTypeOK, AccountRow
  <2> QED BY <2>1, <2>2 DEF PersonnelTypeOK, ActsWithStanding
<1>2. ASSUME NEW u \in Users, Write(u) PROVE Goal
  BY <1>2, WriteKeeps
<1>3. ASSUME NEW u \in Users, ActFails(u) PROVE Goal
  <2>1. act' = [act EXCEPT ![u] = NoAct] /\ UNCHANGED <<account, token>>
    BY <1>3 DEF ActFails
  <2> QED BY <2>1, EndsKeeps DEF PersonnelTypeOK
<1>4. ASSUME NEW u \in Users, NEW v \in Users, ToggleActive(u, v) PROVE Goal
  <2> DEFINE w == [pc |-> "active", of |-> v, as |-> token[u], found |-> account[v].role,
                   active |-> ~account[v].active]
  <2>1. token[u] \in Judges /\ account[v].role \in Judges
    BY DEF PersonnelTypeOK, AccountRow, Judges
  <2>2. w \in Acts
    BY <2>1, ActsMade
  <2>3. Begins(u, w) /\ Fair(u, w)
    BY <1>4 DEF ToggleActive, AtLeastAdmin, Fair
  <2> HIDE DEF w
  <2> QED BY <2>2, <2>3, BeginsKeeps DEF Begins
<1>5. ASSUME NEW u \in Users, NEW v \in Users, Remove(u, v) PROVE Goal
  <2> DEFINE w == [pc |-> "remove", of |-> v, as |-> token[u], found |-> account[v].role]
  <2>1. token[u] \in Judges /\ account[v].role \in Judges
    BY DEF PersonnelTypeOK, AccountRow, Judges
  <2>2. w \in Acts
    BY <2>1, ActsMade
  <2>3. Begins(u, w) /\ Fair(u, w)
    BY <1>5 DEF Remove, Fair
  <2> HIDE DEF w
  <2> QED BY <2>2, <2>3, BeginsKeeps DEF Begins
<1>6. ASSUME NEW u \in Users, NEW v \in Users, NEW role \in Roles, Create(u, v, role)
      PROVE  Goal
  <2> DEFINE w == [pc |-> "create", of |-> v, as |-> token[u], found |-> account[v].role,
                   role |-> role]
  <2>1. token[u] \in Judges /\ account[v].role \in Judges
    BY DEF PersonnelTypeOK, AccountRow, Judges
  <2>2. w \in Acts
    BY <2>1, ActsMade
  <2>3. v # u
    BY <1>6 DEF Create, AtLeastAdmin
  <2>4. Begins(u, w) /\ Fair(u, w)
    BY <1>6, <2>3 DEF Create, AtLeastAdmin, Fair
  <2> HIDE DEF w
  <2> QED BY <2>2, <2>4, BeginsKeeps DEF Begins
<1>7. ASSUME NEW u \in Users, NEW v \in Users, NEW role \in Roles, Update(u, v, role)
      PROVE  Goal
  <2> DEFINE w == [pc |-> "role", of |-> v, as |-> token[u], found |-> account[v].role,
                   role |-> role]
  <2>1. token[u] \in Judges /\ account[v].role \in Judges
    BY DEF PersonnelTypeOK, AccountRow, Judges
  <2>2. w \in Acts
    BY <2>1, ActsMade
  <2>3. Begins(u, w) /\ Fair(u, w)
    BY <1>7 DEF Update, AtLeastAdmin, Fair
  <2> HIDE DEF w
  <2> QED BY <2>2, <2>3, BeginsKeeps DEF Begins
<1>8. CASE UNCHANGED personnelVars
  BY <1>8 DEF personnelVars, PersonnelTypeOK, ActsWithStanding
<1> QED BY <1>1, <1>2, <1>3, <1>4, <1>5, <1>6, <1>7, <1>8 DEF PersonnelNext

(* Every request under way is about somebody else's account, and its token *)
(* may do as much.                                                         *)
THEOREM PersonnelInvariant == PersonnelSpec => []PersonnelInv
BY PersonnelInitInv, PersonnelNextInv, PTL DEF PersonnelSpec

(* The step that takes a super admin's standing is the write of such a     *)
(* request, of somebody else's.                                            *)
LEMMA TakenByWrite ==
    ASSUME PersonnelInv, [PersonnelNext]_personnelVars, NEW v \in Users, Stands(v), ~Stands(v)'
    PROVE  \E u \in Users \ {v} :
              /\ act[u] # NoAct /\ act[u].of = v /\ act'[u] = NoAct
              /\ \/ act[u].as = "super_admin"
                 \/ act[u].as = "admin" /\ act[u].pc = "role"
                 \/ act[u].as = "admin" /\ act[u].pc = "active" /\ act[u].found # "super_admin"
<1>1. account'[v] # account[v]
  BY DEF Stands
<1>2. PICK u \in Users : Write(u)
  BY <1>1, PersonnelNextInv
<1>3. act[u] # NoAct /\ act'[u] = NoAct /\ act[u].of = v
  BY <1>1, <1>2, WriteKeeps
<1>4. act[u].pc # "create"
  BY <1>1, <1>2, <1>3, WriteKeeps DEF Stands
<1>5. Fair(u, act[u])
  BY <1>3 DEF PersonnelInv, ActsWithStanding
<1> QED BY <1>3, <1>4, <1>5 DEF Fair

(* An active super admin loses that standing only to somebody else, whom a *)
(* super admin's token served, or an admin's where the code lets it pass,  *)
(* for any number of accounts, tokens of any age and requests that cross.  *)
THEOREM PersonnelStandingIsTaken == PersonnelSpec => StandingIsTaken
<1>1. PersonnelInv /\ [PersonnelNext]_personnelVars =>
         [\A v \in Users : Stands(v) /\ ~Stands(v)' =>
             \E u \in Users \ {v} :
                /\ act[u] # NoAct /\ act[u].of = v /\ act'[u] = NoAct
                /\ \/ act[u].as = "super_admin"
                   \/ act[u].as = "admin" /\ act[u].pc = "role"
                   \/ act[u].as = "admin" /\ act[u].pc = "active" /\ act[u].found # "super_admin"
         ]_personnelVars
  BY TakenByWrite
<1> QED BY <1>1, PersonnelInvariant, PTL DEF PersonnelSpec, StandingIsTaken
-----------------------------------------------------------------------------
CallerRow == [pc : {"idle", "counted", "cleared", "made", "unsent", "refused", "verified"},
              purpose : Purposes, code : Nat]

OtpTypeOK ==
    /\ codes \in Seq(CodeRow)
    /\ user \in {"none", "active", "disabled"}
    /\ caller \in [Callers -> CallerRow]
    /\ effects \in [1..MaxCodes -> Nat]
    /\ overlapped \in BOOLEAN /\ broken \in BOOLEAN

Counting == {o \in Callers : caller[o].pc \in {"counted", "cleared"}}

(* There is room for the codes that are being made, and nothing came yet   *)
(* of those.                                                               *)
RoomForCodes ==
    /\ IsFiniteSet(Counting) /\ Len(codes) + Cardinality(Counting) <= MaxCodes
    /\ \A n \in 1..MaxCodes : n > Len(codes) => effects[n] = 0

CodesInHand ==
    \A c \in Callers : caller[c].pc \in {"made", "unsent", "refused", "verified"} =>
        caller[c].code \in DOMAIN codes

GoneIsOld == \A n \in DOMAIN codes : codes[n].gone => codes[n].age = "old" /\ codes[n].missed = 0

OneAtATime == \A c, o \in Callers : ~At(c, "idle") /\ ~At(o, "idle") => c = o

(* The ceiling has room for the code that is being made. *)
CeilingHasRoom ==
    /\ Cardinality(Recent) <= OTP_SEND_LIMIT
    /\ Counting # {} => Cardinality(Recent) < OTP_SEND_LIMIT

(* A wrong guess that is not counted yet is about to be. *)
MissedIsCounted ==
    \A n \in DOMAIN codes :
        \/ codes[n].missed <= codes[n].attempts
        \/ /\ codes[n].missed = codes[n].attempts + 1 /\ codes[n].attempts < OTP_MAX_ATTEMPTS
           /\ \E c \in Callers : At(c, "refused") /\ caller[c].code = n

OtpInv ==
    /\ OtpTypeOK /\ RoomForCodes /\ CodesInHand /\ GoneIsOld /\ CodeOpensOnce
    /\ overlapped \/ (OneAtATime /\ CeilingHasRoom /\ (broken \/ MissedIsCounted))

(* A row that is written is a row. *)
LEMMA RowsMade ==
    \A rec \in CodeRow :
        /\ rec.attempts \in Nat /\ rec.missed \in Nat /\ rec.attempts <= OTP_MAX_ATTEMPTS
        /\ Deleted(rec) \in CodeRow
        /\ Deleted(rec).spent = rec.spent /\ Deleted(rec).age = "old"
        /\ Deleted(rec).gone /\ Deleted(rec).missed = 0 /\ Deleted(rec).attempts = 0
<1> SUFFICES ASSUME NEW rec \in CodeRow
             PROVE  /\ rec.attempts \in Nat /\ rec.missed \in Nat
                    /\ rec.attempts <= OTP_MAX_ATTEMPTS
                    /\ Deleted(rec) \in CodeRow
                    /\ Deleted(rec).spent = rec.spent /\ Deleted(rec).age = "old"
                    /\ Deleted(rec).gone /\ Deleted(rec).missed = 0 /\ Deleted(rec).attempts = 0
  OBVIOUS
<1>1. rec.attempts \in Nat /\ rec.missed \in Nat /\ rec.attempts <= OTP_MAX_ATTEMPTS
  BY VerificationAssumption DEF CodeRow
<1>2. 0 \in 0..OTP_MAX_ATTEMPTS /\ 0 \in Nat
  BY VerificationAssumption
<1>3. Deleted(rec) \in CodeRow
  BY <1>2 DEF CodeRow, Deleted
<1>4. /\ Deleted(rec).spent = rec.spent /\ Deleted(rec).age = "old"
      /\ Deleted(rec).gone /\ Deleted(rec).missed = 0 /\ Deleted(rec).attempts = 0
  BY DEF CodeRow, Deleted
<1> QED BY <1>1, <1>3, <1>4

(* Writing one row leaves the others. *)
LEMMA OneRowWritten ==
    ASSUME OtpTypeOK, NEW n \in DOMAIN codes, NEW rec \in CodeRow,
           codes' = [codes EXCEPT ![n] = rec]
    PROVE  /\ codes' \in Seq(CodeRow) /\ Len(codes') = Len(codes)
           /\ DOMAIN codes' = DOMAIN codes
           /\ codes'[n] = rec /\ \A m \in DOMAIN codes \ {n} : codes'[m] = codes[m]
BY DEF OtpTypeOK

(* The codes counted for the ceiling are finitely many. *)
LEMMA RecentIsFinite == OtpTypeOK => IsFiniteSet(Recent) /\ Cardinality(Recent) \in Nat
<1> SUFFICES ASSUME OtpTypeOK PROVE IsFiniteSet(Recent)
  BY FS_CardinalityType
<1>1. Recent \subseteq 1..Len(codes)
  BY DEF Recent, OtpTypeOK
<1>2. IsFiniteSet(1..Len(codes))
  BY FS_Interval DEF OtpTypeOK
<1> QED BY <1>1, <1>2, FS_Subset

(* At first no code was made and nobody asks for one. *)
LEMMA OtpInitInv == OtpInit => OtpInv
<1> SUFFICES ASSUME OtpInit PROVE OtpInv
  OBVIOUS
<1>1. OtpTypeOK
  <2>1. Resting \in CallerRow
    BY DEF CallerRow, Resting, Purposes
  <2>2. caller \in [Callers -> CallerRow] /\ effects \in [1..MaxCodes -> Nat]
    BY <2>1 DEF OtpInit
  <2>3. codes \in Seq(CodeRow)
    BY DEF OtpInit
  <2> QED BY <2>2, <2>3 DEF OtpInit, OtpTypeOK
<1>2. Counting = {} /\ Recent = {} /\ Len(codes) = 0 /\ DOMAIN codes = {}
  BY DEF OtpInit, Counting, Recent, Resting
<1>3. IsFiniteSet({}) /\ Cardinality({}) = 0
  BY FS_EmptySet
<1>4. RoomForCodes
  BY <1>2, <1>3, VerificationAssumption DEF OtpInit, RoomForCodes
<1>5. CodesInHand /\ GoneIsOld /\ CodeOpensOnce /\ MissedIsCounted
  BY <1>2 DEF OtpInit, CodesInHand, GoneIsOld, CodeOpensOnce, MissedIsCounted, Resting
<1>6. OneAtATime
  BY DEF OtpInit, OneAtATime, At, Resting
<1>7. CeilingHasRoom
  BY <1>2, <1>3, VerificationAssumption DEF CeilingHasRoom
<1> QED BY <1>1, <1>4, <1>5, <1>6, <1>7 DEF OtpInv

(* A step that makes no code keeps the counts. *)
LEMMA CountsKeep ==
    ASSUME OtpInv, OtpTypeOK', Len(codes') = Len(codes), DOMAIN codes' = DOMAIN codes,
           Counting' \subseteq Counting,
           \A n \in 1..MaxCodes : n > Len(codes) => effects'[n] = effects[n],
           CodesInHand', GoneIsOld', CodeOpensOnce',
           \A n \in DOMAIN codes : ~codes'[n].gone /\ codes'[n].age # "old" =>
              ~codes[n].gone /\ codes[n].age # "old",
           ~overlapped' => ~overlapped /\ OneAtATime',
           ~overlapped' /\ ~broken' => MissedIsCounted'
    PROVE  OtpInv'
<1> USE DEF OtpInv
<1>1. RoomForCodes'
  <2>1. IsFiniteSet(Counting') /\ Cardinality(Counting') <= Cardinality(Counting)
    BY FS_Subset DEF RoomForCodes
  <2>2. Cardinality(Counting) \in Nat /\ Cardinality(Counting') \in Nat
    BY <2>1, FS_CardinalityType DEF RoomForCodes
  <2>3. Len(codes) \in Nat /\ MaxCodes \in Nat
    BY VerificationAssumption DEF OtpTypeOK
  <2> QED BY <2>1, <2>2, <2>3 DEF RoomForCodes
<1>2. ASSUME ~overlapped' PROVE CeilingHasRoom'
  <2>1. Recent' \subseteq Recent
    BY DEF Recent
  <2>2. /\ IsFiniteSet(Recent) /\ Cardinality(Recent) \in Nat
        /\ Cardinality(Recent') \in Nat /\ Cardinality(Recent') <= Cardinality(Recent)
    BY <2>1, RecentIsFinite, FS_Subset, FS_CardinalityType
  <2>3. CeilingHasRoom
    BY <1>2
  <2> QED BY <2>2, <2>3, VerificationAssumption DEF CeilingHasRoom
<1> QED BY <1>1, <1>2

(* A request that moves, and one that ends. *)
LEMMA CallerMoves ==
    ASSUME OtpTypeOK, NEW c \in Callers, NEW w \in CallerRow,
           caller' = [caller EXCEPT ![c] = w]
    PROVE  /\ caller' \in [Callers -> CallerRow] /\ caller'[c] = w
           /\ \A o \in Callers \ {c} : caller'[o] = caller[o]
           /\ w.pc \in {"counted", "cleared"} => c \in Counting' /\ Counting' = Counting \cup {c}
           /\ w.pc \notin {"counted", "cleared"} => Counting' = Counting \ {c}
           /\ ~At(c, "idle") /\ OneAtATime => OneAtATime'
           /\ OneAtATime /\ ~Others(c) => OneAtATime'
<1>1. /\ caller' \in [Callers -> CallerRow] /\ caller'[c] = w
      /\ \A o \in Callers \ {c} : caller'[o] = caller[o]
  BY DEF OtpTypeOK
<1>2. w.pc \in {"counted", "cleared"} => c \in Counting' /\ Counting' = Counting \cup {c}
  BY <1>1 DEF Counting
<1>3. w.pc \notin {"counted", "cleared"} => Counting' = Counting \ {c}
  BY <1>1 DEF Counting
<1>4. ~At(c, "idle") /\ OneAtATime => OneAtATime'
  BY <1>1 DEF OneAtATime, At
<1>5. OneAtATime /\ ~Others(c) => OneAtATime'
  BY <1>1 DEF OneAtATime, At, Others
<1> QED BY <1>1, <1>2, <1>3, <1>4, <1>5

(* A caller at rest is a caller. *)
LEMMA RestingIsCaller == Resting \in CallerRow /\ Resting.pc = "idle"
BY DEF Resting, CallerRow, Purposes

(* A column that is written, and what the others are. *)
LEMMA RowWritten ==
    \A rec \in CodeRow :
        /\ \A v \in BOOLEAN :
              LET new == [rec EXCEPT !["delivered"] = v]
              IN  /\ new \in CodeRow /\ new.spent = rec.spent /\ new.age = rec.age
                  /\ new.gone = rec.gone /\ new.missed = rec.missed
                  /\ new.attempts = rec.attempts
        /\ LET new == [rec EXCEPT !["spent"] = "used"]
           IN  /\ new \in CodeRow /\ new.spent = "used" /\ new.age = rec.age
               /\ new.gone = rec.gone /\ new.missed = rec.missed
               /\ new.attempts = rec.attempts
        /\ \A age \in {"expired", "old"} :
              LET new == [rec EXCEPT !["age"] = age]
              IN  /\ new \in CodeRow /\ new.spent = rec.spent /\ new.age = age
                  /\ new.gone = rec.gone /\ new.missed = rec.missed
                  /\ new.attempts = rec.attempts
BY DEF CodeRow

(* A step that leaves the codes' uses, ages and rows as they are. *)
LEMMA SameCodes ==
    ASSUME OtpInv, codes' = codes, effects' = effects
    PROVE  /\ GoneIsOld' /\ CodeOpensOnce'
           /\ \A n \in DOMAIN codes : ~codes'[n].gone /\ codes'[n].age # "old" =>
                 ~codes[n].gone /\ codes[n].age # "old"
BY DEF OtpInv, GoneIsOld, CodeOpensOnce

(* One row that changes in what nobody's use depends on. *)
LEMMA OneCodeChanges ==
    ASSUME OtpInv, NEW n \in DOMAIN codes, NEW rec \in CodeRow,
           codes' = [codes EXCEPT ![n] = rec], effects' = effects,
           rec.spent = "used" <=> codes[n].spent = "used",
           rec.gone => rec.age = "old" /\ rec.missed = 0,
           ~rec.gone /\ rec.age # "old" => ~codes[n].gone /\ codes[n].age # "old"
    PROVE  /\ codes' \in Seq(CodeRow) /\ Len(codes') = Len(codes)
           /\ DOMAIN codes' = DOMAIN codes /\ codes'[n] = rec
           /\ \A m \in DOMAIN codes \ {n} : codes'[m] = codes[m]
           /\ GoneIsOld' /\ CodeOpensOnce'
           /\ \A m \in DOMAIN codes : ~codes'[m].gone /\ codes'[m].age # "old" =>
                 ~codes[m].gone /\ codes[m].age # "old"
<1>1. /\ codes' \in Seq(CodeRow) /\ Len(codes') = Len(codes)
      /\ DOMAIN codes' = DOMAIN codes /\ codes'[n] = rec
      /\ \A m \in DOMAIN codes \ {n} : codes'[m] = codes[m]
  BY OneRowWritten DEF OtpInv
<1>2. GoneIsOld'
  BY <1>1 DEF OtpInv, GoneIsOld
<1>3. CodeOpensOnce'
  BY <1>1 DEF OtpInv, CodeOpensOnce
<1>4. \A m \in DOMAIN codes : ~codes'[m].gone /\ codes'[m].age # "old" =>
         ~codes[m].gone /\ codes[m].age # "old"
  BY <1>1
<1> QED BY <1>1, <1>2, <1>3, <1>4

(* A caller that moves without a guess of its own to count. *)
LEMMA MissedKeeps ==
    ASSUME OtpInv, NEW c \in Callers, DOMAIN codes' = DOMAIN codes,
           \A n \in DOMAIN codes : \/ codes'[n].missed = 0 /\ codes'[n].attempts \in Nat
                                   \/ /\ codes'[n].missed = codes[n].missed
                                      /\ codes'[n].attempts = codes[n].attempts,
           ~At(c, "refused"), \A o \in Callers \ {c} : caller'[o] = caller[o],
           ~overlapped, ~broken
    PROVE  MissedIsCounted'
<1> SUFFICES ASSUME NEW n \in DOMAIN codes
             PROVE  \/ codes'[n].missed <= codes'[n].attempts
                    \/ /\ codes'[n].missed = codes'[n].attempts + 1
                       /\ codes'[n].attempts < OTP_MAX_ATTEMPTS
                       /\ \E o \in Callers : At(o, "refused")' /\ caller'[o].code = n
  BY DEF MissedIsCounted
<1>1. CASE codes'[n].missed = 0 /\ codes'[n].attempts \in Nat
  BY <1>1
<1>2. CASE codes'[n].missed = codes[n].missed /\ codes'[n].attempts = codes[n].attempts
  <2>1. \/ codes[n].missed <= codes[n].attempts
        \/ /\ codes[n].missed = codes[n].attempts + 1 /\ codes[n].attempts < OTP_MAX_ATTEMPTS
           /\ \E o \in Callers : At(o, "refused") /\ caller[o].code = n
    BY DEF OtpInv, MissedIsCounted
  <2>2. CASE codes[n].missed <= codes[n].attempts
    BY <1>2, <2>2
  <2>3. ASSUME codes[n].missed = codes[n].attempts + 1, codes[n].attempts < OTP_MAX_ATTEMPTS,
               NEW o \in Callers, At(o, "refused"), caller[o].code = n
        PROVE  \/ codes'[n].missed <= codes'[n].attempts
               \/ /\ codes'[n].missed = codes'[n].attempts + 1
                  /\ codes'[n].attempts < OTP_MAX_ATTEMPTS
                  /\ \E q \in Callers : At(q, "refused")' /\ caller'[q].code = n
    BY <1>2, <2>3 DEF At
  <2> QED BY <2>1, <2>2, <2>3
<1> QED BY <1>1, <1>2

(* Counting the recent codes changes only what the caller knows. *)
LEMMA AskCodeKeeps ==
    ASSUME OtpInv, NEW c \in Callers, NEW purpose \in Purposes, AskCode(c, purpose)
    PROVE  OtpInv'
<1> DEFINE w == [Resting EXCEPT !.pc = "counted", !.purpose = purpose]
<1> USE DEF OtpInv
<1>1. /\ At(c, "idle") /\ caller' = [caller EXCEPT ![c] = w]
      /\ Len(codes) + Cardinality(Counting) < MaxCodes
      /\ Cardinality(Recent) < OTP_SEND_LIMIT
      /\ overlapped' = (overlapped \/ Others(c))
      /\ UNCHANGED <<codes, user, effects, broken>>
  BY DEF AskCode, Counting
<1>2. w \in CallerRow /\ w.pc = "counted"
  BY DEF Resting, CallerRow
<1> HIDE DEF w
<1>3. /\ caller' \in [Callers -> CallerRow] /\ caller'[c] = w
      /\ \A o \in Callers \ {c} : caller'[o] = caller[o]
      /\ Counting' = Counting \cup {c}
      /\ OneAtATime /\ ~Others(c) => OneAtATime'
  BY <1>1, <1>2, CallerMoves
<1>4. OtpTypeOK'
  BY <1>1, <1>3 DEF OtpTypeOK
<1>5. c \notin Counting /\ IsFiniteSet(Counting)
  BY <1>1 DEF Counting, At, RoomForCodes
<1>6. RoomForCodes'
  <2>1. IsFiniteSet(Counting') /\ Cardinality(Counting') = Cardinality(Counting) + 1
    BY <1>3, <1>5, FS_AddElement
  <2>2. Cardinality(Counting) \in Nat /\ Len(codes) \in Nat
    BY <1>5, FS_CardinalityType DEF OtpTypeOK
  <2> QED BY <1>1, <2>1, <2>2, VerificationAssumption DEF RoomForCodes
<1>7. CodesInHand'
  BY <1>1, <1>2, <1>3 DEF CodesInHand
<1>8. GoneIsOld' /\ CodeOpensOnce'
  BY <1>1, SameCodes
<1>9. ASSUME ~overlapped'
      PROVE  OneAtATime' /\ CeilingHasRoom' /\ (broken' \/ MissedIsCounted')
  <2>1. ~overlapped /\ ~Others(c) /\ OneAtATime'
    BY <1>1, <1>3, <1>9
  <2>2. Recent' = Recent
    BY <1>1 DEF Recent
  <2>3. CeilingHasRoom'
    BY <1>1, <2>2, RecentIsFinite, VerificationAssumption DEF CeilingHasRoom
  <2>4. ~broken => MissedIsCounted'
    <3>1. ~At(c, "refused")
      BY <1>1 DEF At
    <3> QED BY <1>1, <1>3, <2>1, <3>1, MissedKeeps
  <2> QED BY <1>1, <2>1, <2>3, <2>4
<1> QED BY <1>4, <1>6, <1>7, <1>8, <1>9

(* Superseding the older codes opens nothing. *)
LEMMA SupersedeKeeps ==
    ASSUME OtpInv, NEW c \in Callers, Supersede(c)
    PROVE  OtpInv'
<1> USE DEF OtpInv
<1> DEFINE w == [caller[c] EXCEPT !.pc = "cleared"]
           rec(n) == IF codes[n].age = "old" THEN Deleted(codes[n])
                     ELSE IF codes[n].purpose = caller[c].purpose /\ codes[n].spent = "no"
                          THEN [codes[n] EXCEPT !.spent = "superseded"] ELSE codes[n]
<1>1. /\ caller[c].pc = "counted" /\ caller' = [caller EXCEPT ![c] = w]
      /\ codes' = [n \in DOMAIN codes |-> rec(n)]
      /\ UNCHANGED <<user, effects, overlapped, broken>>
  BY DEF Supersede, At
<1>2. w \in CallerRow /\ w.pc = "cleared"
  BY DEF OtpTypeOK, CallerRow
<1>3. ASSUME NEW n \in DOMAIN codes
      PROVE  /\ rec(n) \in CodeRow
             /\ rec(n).spent = "used" <=> codes[n].spent = "used"
             /\ rec(n).gone => rec(n).age = "old" /\ rec(n).missed = 0
             /\ ~rec(n).gone /\ rec(n).age # "old" => ~codes[n].gone /\ codes[n].age # "old"
             /\ \/ rec(n).missed = 0 /\ rec(n).attempts \in Nat
                \/ rec(n).missed = codes[n].missed /\ rec(n).attempts = codes[n].attempts
  <2>1. codes[n] \in CodeRow /\ (codes[n].gone => codes[n].age = "old" /\ codes[n].missed = 0)
    BY DEF OtpTypeOK, GoneIsOld
  <2>2. CASE codes[n].age = "old"
    BY <2>1, <2>2, RowsMade, VerificationAssumption
  <2>3. CASE codes[n].age # "old" /\ ~(codes[n].purpose = caller[c].purpose /\ codes[n].spent = "no")
    BY <2>1, <2>3
  <2>4. CASE /\ codes[n].age # "old"
             /\ codes[n].purpose = caller[c].purpose /\ codes[n].spent = "no"
    <3>1. rec(n) = [codes[n] EXCEPT !.spent = "superseded"]
      BY <2>4
    <3> HIDE DEF rec
    <3> QED BY <2>1, <2>4, <3>1 DEF CodeRow
  <2> QED BY <2>2, <2>3, <2>4
<1> HIDE DEF w, rec
<1>4. /\ codes' \in Seq(CodeRow) /\ Len(codes') = Len(codes) /\ DOMAIN codes' = DOMAIN codes
      /\ \A n \in DOMAIN codes : codes'[n] = rec(n)
  BY <1>1, <1>3 DEF OtpTypeOK
<1>5. /\ caller' \in [Callers -> CallerRow] /\ caller'[c] = w
      /\ \A o \in Callers \ {c} : caller'[o] = caller[o]
      /\ Counting' = Counting \cup {c}
      /\ OneAtATime => OneAtATime'
  BY <1>1, <1>2, CallerMoves DEF At
<1>6. Counting' = Counting /\ OtpTypeOK'
  BY <1>1, <1>4, <1>5 DEF Counting, OtpTypeOK
<1>7. CodesInHand'
  BY <1>2, <1>4, <1>5 DEF CodesInHand
<1>8. GoneIsOld' /\ CodeOpensOnce'
  BY <1>1, <1>3, <1>4 DEF GoneIsOld, CodeOpensOnce
<1>9. ~overlapped' /\ ~broken' => MissedIsCounted'
  <2>1. ~At(c, "refused")
    BY <1>1 DEF At
  <2> QED BY <1>1, <1>3, <1>4, <1>5, <2>1, MissedKeeps
<1> QED BY <1>1, <1>3, <1>4, <1>5, <1>6, <1>7, <1>8, <1>9, CountsKeep

(* A new code is unspent, and one caller's to send. *)
LEMMA MakeCodeKeeps ==
    ASSUME OtpInv, NEW c \in Callers, MakeCode(c)
    PROVE  OtpInv'
<1> USE DEF OtpInv
<1> DEFINE k == Len(codes) + 1
           w == [caller[c] EXCEPT !.pc = "made", !.code = k]
           rec == [purpose |-> caller[c].purpose, attempts |-> 0, spent |-> "no",
                   age |-> "fresh", gone |-> FALSE, delivered |-> FALSE, missed |-> 0]
<1>1. /\ caller[c].pc = "cleared" /\ codes' = Append(codes, rec)
      /\ caller' = [caller EXCEPT ![c].pc = "made", ![c].code = k]
      /\ UNCHANGED <<user, effects, overlapped, broken>>
  BY DEF MakeCode, At
<1>2. /\ caller[c] \in CallerRow /\ caller' = [caller EXCEPT ![c] = w]
      /\ Len(codes) \in Nat /\ k \in Nat
  <2>1. caller[c] \in CallerRow /\ Len(codes) \in Nat
    BY DEF OtpTypeOK
  <2>2. k \in Nat
    BY <2>1
  <2> HIDE DEF k
  <2>3. caller' = [caller EXCEPT ![c] = w]
    BY <1>1 DEF OtpTypeOK
  <2> QED BY <2>1, <2>2, <2>3
<1>3. w \in CallerRow /\ w.pc = "made" /\ w.code = k
  BY <1>2 DEF CallerRow
<1>4. /\ rec \in CodeRow /\ rec.spent = "no" /\ ~rec.gone /\ rec.missed = 0
      /\ rec.attempts = 0
  BY <1>2, VerificationAssumption DEF CodeRow, CallerRow
<1> HIDE DEF w, rec
<1>5. /\ codes' \in Seq(CodeRow) /\ Len(codes') = k /\ codes'[k] = rec
      /\ DOMAIN codes' = DOMAIN codes \cup {k} /\ k \notin DOMAIN codes
      /\ \A n \in DOMAIN codes : codes'[n] = codes[n]
  BY <1>1, <1>4 DEF OtpTypeOK
<1>6. /\ caller' \in [Callers -> CallerRow] /\ caller'[c] = w
      /\ \A o \in Callers \ {c} : caller'[o] = caller[o]
      /\ Counting' = Counting \ {c}
      /\ OneAtATime => OneAtATime'
  BY <1>1, <1>2, <1>3, CallerMoves DEF At
<1>7. OtpTypeOK'
  BY <1>1, <1>5, <1>6 DEF OtpTypeOK
<1>8. c \in Counting /\ IsFiniteSet(Counting)
  BY <1>1 DEF Counting, RoomForCodes
<1>9. RoomForCodes' /\ k \in 1..MaxCodes
  <2>1. IsFiniteSet(Counting') /\ Cardinality(Counting') = Cardinality(Counting) - 1
    BY <1>6, <1>8, FS_RemoveElement
  <2>2. Cardinality(Counting) \in Nat /\ Cardinality(Counting') \in Nat
    BY <1>8, <2>1, FS_CardinalityType
  <2> QED BY <1>1, <1>2, <1>5, <2>1, <2>2, VerificationAssumption DEF RoomForCodes
<1>10. CodesInHand'
  BY <1>3, <1>5, <1>6 DEF CodesInHand
<1>11. GoneIsOld'
  BY <1>4, <1>5 DEF GoneIsOld
<1>12. CodeOpensOnce'
  <2>1. effects[k] = 0
    BY <1>2, <1>9 DEF RoomForCodes
  <2> QED BY <1>1, <1>4, <1>5, <2>1 DEF CodeOpensOnce
<1>13. ASSUME ~overlapped'
       PROVE  OneAtATime' /\ CeilingHasRoom' /\ (broken' \/ MissedIsCounted')
  <2>1. ~overlapped /\ OneAtATime /\ OneAtATime'
    BY <1>1, <1>6, <1>13
  <2>2. Recent' \subseteq Recent \cup {k}
    BY <1>5 DEF Recent
  <2>3. IsFiniteSet(Recent \cup {k}) /\ Cardinality(Recent \cup {k}) <= Cardinality(Recent) + 1
    <3>1. IsFiniteSet(Recent) /\ Cardinality(Recent) \in Nat
      BY RecentIsFinite
    <3>2. /\ IsFiniteSet(Recent \cup {k})
          /\ Cardinality(Recent \cup {k})
             = IF k \in Recent THEN Cardinality(Recent) ELSE Cardinality(Recent) + 1
      BY <3>1, FS_AddElement
    <3> QED BY <3>1, <3>2
  <2>4. Cardinality(Recent') <= Cardinality(Recent) + 1
    <3>1. IsFiniteSet(Recent') /\ Cardinality(Recent') <= Cardinality(Recent \cup {k})
      BY <2>2, <2>3, FS_Subset
    <3>2. Cardinality(Recent') \in Nat /\ Cardinality(Recent \cup {k}) \in Nat
      BY <2>3, <3>1, FS_CardinalityType
    <3> QED BY <2>3, <3>1, <3>2, RecentIsFinite
  <2>5. Cardinality(Recent) < OTP_SEND_LIMIT
    BY <1>8, <2>1 DEF CeilingHasRoom
  <2>6. Counting' = {}
    BY <1>1, <1>6, <2>1 DEF Counting, OneAtATime, At
  <2>7. CeilingHasRoom'
    <3>1. Cardinality(Recent') \in Nat
      BY <1>7, <2>2, <2>3, FS_Subset, FS_CardinalityType
    <3> QED BY <2>4, <2>5, <2>6, <3>1, RecentIsFinite, VerificationAssumption DEF CeilingHasRoom
  <2>8. ~broken => MissedIsCounted'
    <3> SUFFICES ASSUME ~broken, NEW n \in DOMAIN codes'
                 PROVE  \/ codes'[n].missed <= codes'[n].attempts
                        \/ /\ codes'[n].missed = codes'[n].attempts + 1
                           /\ codes'[n].attempts < OTP_MAX_ATTEMPTS
                           /\ \E o \in Callers : At(o, "refused")' /\ caller'[o].code = n
      BY DEF MissedIsCounted
    <3>1. CASE n = k
      BY <1>4, <1>5, <3>1
    <3>2. CASE n # k
      <4>1. \/ codes[n].missed <= codes[n].attempts
            \/ /\ codes[n].missed = codes[n].attempts + 1
               /\ codes[n].attempts < OTP_MAX_ATTEMPTS
               /\ \E o \in Callers : At(o, "refused") /\ caller[o].code = n
        BY <1>5, <2>1, <3>2 DEF MissedIsCounted
      <4>2. \A o \in Callers : At(o, "refused") => o # c
        BY <1>1 DEF At
      <4> QED BY <1>5, <1>6, <3>2, <4>1, <4>2 DEF At
    <3> QED BY <3>1, <3>2
  <2> QED BY <1>1, <2>1, <2>7, <2>8
<1> QED BY <1>7, <1>9, <1>10, <1>11, <1>12, <1>13

(* A request ends, or goes on to drop its code, having written one row. *)
LEMMA RowAndEndKeeps ==
    ASSUME OtpInv, NEW c \in Callers, NEW w \in CallerRow, NEW n \in DOMAIN codes,
           NEW rec \in CodeRow,
           ~At(c, "idle"), caller' = [caller EXCEPT ![c] = w],
           w.pc = "idle" \/ (w.pc = "unsent" /\ w.code = n),
           codes' = [codes EXCEPT ![n] = rec],
           effects' = effects, user' = user, overlapped' = overlapped, broken' \in BOOLEAN,
           rec.spent = "used" <=> codes[n].spent = "used",
           rec.gone => rec.age = "old" /\ rec.missed = 0,
           ~rec.gone /\ rec.age # "old" => ~codes[n].gone /\ codes[n].age # "old",
           ~overlapped' /\ ~broken' => MissedIsCounted'
    PROVE  OtpInv'
<1>1. /\ codes' \in Seq(CodeRow) /\ Len(codes') = Len(codes)
      /\ DOMAIN codes' = DOMAIN codes
      /\ GoneIsOld' /\ CodeOpensOnce'
      /\ \A m \in DOMAIN codes : ~codes'[m].gone /\ codes'[m].age # "old" =>
            ~codes[m].gone /\ codes[m].age # "old"
  BY OneCodeChanges
<1>2. /\ caller' \in [Callers -> CallerRow] /\ caller'[c] = w
      /\ \A o \in Callers \ {c} : caller'[o] = caller[o]
      /\ Counting' = Counting \ {c}
      /\ OneAtATime => OneAtATime'
  BY CallerMoves DEF OtpInv
<1>3. OtpTypeOK'
  BY <1>1, <1>2 DEF OtpInv, OtpTypeOK
<1>4. CodesInHand'
  BY <1>1, <1>2 DEF OtpInv, CodesInHand
<1>5. ~overlapped' => ~overlapped /\ OneAtATime'
  BY <1>2 DEF OtpInv
<1> QED BY <1>1, <1>2, <1>3, <1>4, <1>5, CountsKeep

(* Sending a code changes nothing of the codes. *)
LEMMA SendCodeKeeps ==
    ASSUME OtpInv, NEW c \in Callers, SendCode(c)
    PROVE  OtpInv'
<1> USE DEF OtpInv
<1> DEFINE n == caller[c].code
<1>1. /\ caller[c].pc = "made" /\ caller[c] \in CallerRow
      /\ n \in DOMAIN codes /\ codes[n] \in CodeRow
      /\ UNCHANGED <<user, effects, overlapped>>
  BY DEF SendCode, At, CodesInHand, OtpTypeOK
<1>2. PICK out \in BOOLEAN, w \in CallerRow :
         /\ codes' = [codes EXCEPT ![n] = [codes[n] EXCEPT !["delivered"] = out]]
         /\ caller' = [caller EXCEPT ![c] = w]
         /\ broken' \in BOOLEAN
         /\ \/ w.pc = "idle" /\ broken' = broken
            \/ w.pc = "unsent" /\ w.code = n /\ broken'
  <2>1. CASE Row(n, "delivered", TRUE) /\ Ends(c) /\ broken' = broken
    BY <2>1, RestingIsCaller DEF Row, Ends, OtpTypeOK
  <2>2. CASE /\ \E out \in BOOLEAN : Row(n, "delivered", out)
             /\ caller' = [caller EXCEPT ![c].pc = "unsent"]
             /\ broken' = TRUE
    <3> DEFINE w == [caller[c] EXCEPT !.pc = "unsent"]
    <3>1. w \in CallerRow /\ w.pc = "unsent" /\ w.code = n
      BY <1>1 DEF CallerRow
    <3>2. caller' = [caller EXCEPT ![c] = w]
      BY <2>2
    <3>3. PICK out \in BOOLEAN : codes' = [codes EXCEPT ![n] = [codes[n] EXCEPT !["delivered"] = out]]
      BY <2>2 DEF Row
    <3> HIDE DEF w
    <3> QED BY <2>2, <3>1, <3>2, <3>3
  <2> QED BY <2>1, <2>2 DEF SendCode
<1> DEFINE rec == [codes[n] EXCEPT !["delivered"] = out]
<1>3. /\ rec \in CodeRow /\ rec.spent = codes[n].spent /\ rec.age = codes[n].age
      /\ rec.gone = codes[n].gone /\ rec.missed = codes[n].missed
      /\ rec.attempts = codes[n].attempts
  BY <1>1, RowWritten
<1> HIDE DEF rec, n
<1>4. codes' = [codes EXCEPT ![n] = rec]
  BY <1>2 DEF rec
<1>5. /\ DOMAIN codes' = DOMAIN codes /\ codes'[n] = rec
      /\ \A m \in DOMAIN codes \ {n} : codes'[m] = codes[m]
  BY <1>1, <1>3, <1>4, OneRowWritten
<1>6. ~overlapped' /\ ~broken' => MissedIsCounted'
  <2>1. ~At(c, "refused") /\ \A o \in Callers \ {c} : caller'[o] = caller[o]
    BY <1>1, <1>2 DEF At, OtpTypeOK
  <2>2. ~broken' => ~broken
    BY <1>2
  <2> QED BY <1>1, <1>3, <1>5, <2>1, <2>2, MissedKeeps
<1>7. codes[n].gone => codes[n].age = "old" /\ codes[n].missed = 0
  BY <1>1 DEF GoneIsOld
<1>8. /\ ~At(c, "idle") /\ effects' = effects /\ user' = user /\ overlapped' = overlapped
      /\ broken' \in BOOLEAN /\ n \in DOMAIN codes
      /\ w.pc = "idle" \/ (w.pc = "unsent" /\ w.code = n)
      /\ caller' = [caller EXCEPT ![c] = w]
  BY <1>1, <1>2 DEF At
<1>9. /\ rec.spent = "used" <=> codes[n].spent = "used"
      /\ rec.gone => rec.age = "old" /\ rec.missed = 0
      /\ ~rec.gone /\ rec.age # "old" => ~codes[n].gone /\ codes[n].age # "old"
  BY <1>3, <1>7
<1> QED BY <1>3, <1>4, <1>6, <1>8, <1>9, RowAndEndKeeps

(* A code whose message failed is given up by its own caller. *)
LEMMA DropCodeKeeps ==
    ASSUME OtpInv, NEW c \in Callers, DropCode(c)
    PROVE  OtpInv'
<1> USE DEF OtpInv
<1> DEFINE n == caller[c].code
           rec == Deleted(codes[n])
<1>1. /\ caller[c].pc = "unsent" /\ n \in DOMAIN codes /\ codes[n] \in CodeRow
      /\ codes' = [codes EXCEPT ![n] = rec]
      /\ caller' = [caller EXCEPT ![c] = Resting]
      /\ UNCHANGED <<user, effects, overlapped, broken>> /\ broken' \in BOOLEAN
  BY DEF DropCode, Ends, At, CodesInHand, OtpTypeOK
<1>2. /\ rec \in CodeRow /\ rec.spent = codes[n].spent /\ rec.age = "old" /\ rec.gone
      /\ rec.missed = 0 /\ rec.attempts = 0
  BY <1>1, RowsMade
<1> HIDE DEF rec, n
<1>3. /\ DOMAIN codes' = DOMAIN codes /\ codes'[n] = rec
      /\ \A m \in DOMAIN codes \ {n} : codes'[m] = codes[m]
  BY <1>1, <1>2, OneRowWritten
<1>4. ~overlapped' /\ ~broken' => MissedIsCounted'
  <2>1. ~At(c, "refused") /\ \A o \in Callers \ {c} : caller'[o] = caller[o]
    BY <1>1 DEF At, OtpTypeOK
  <2> QED BY <1>1, <1>2, <1>3, <2>1, MissedKeeps
<1> QED BY <1>1, <1>2, <1>4, RestingIsCaller, RowAndEndKeeps DEF At

(* Rows that there are have a newest one. *)
LEMMA NewestExists ==
    ASSUME NEW k \in Nat, NEW rows \in SUBSET (1..k), rows # {}
    PROVE  \E n \in rows : \A m \in rows : m <= n
<1> DEFINE Later(n) == {m \in rows : m > n}
           Laters == {Later(n) : n \in rows}
<1>1. FiniteSubsetsOf(1..k) = SUBSET (1..k)
  <2>1. IsFiniteSet(1..k)
    BY FS_Interval
  <2> QED BY <2>1, FS_FiniteSubsetsOfFinite
<1>2. Laters \subseteq SUBSET (1..k) /\ Laters # {}
  <2>1. \A n \in rows : Later(n) \subseteq 1..k
    OBVIOUS
  <2> HIDE DEF Later
  <2> QED BY <2>1
<1>3. PICK least \in Laters :
         \A other \in Laters : <<other, least>> \notin StrictSubsetOrdering(1..k)
  <2> HIDE DEF Laters
  <2> QED BY <1>1, <1>2, FS_StrictSubsetOrderingWellFounded, WFMin
<1>4. PICK n \in rows : least = Later(n)
  OBVIOUS
<1>5. ASSUME NEW m \in rows, m > n PROVE FALSE
  <2>1. m \in Nat /\ n \in Nat /\ \A o \in rows : o \in Nat
    OBVIOUS
  <2>2. Later(m) \subseteq Later(n)
    <3> SUFFICES ASSUME NEW o \in rows, o > m PROVE o > n
      OBVIOUS
    <3> QED BY <1>5, <2>1
  <2>3. m \in Later(n) /\ m \notin Later(m)
    BY <1>5, <2>1
  <2>4. Later(m) \in Laters /\ Later(n) \in Laters
    OBVIOUS
  <2>5. <<Later(m), Later(n)>> \in StrictSubsetOrdering(1..k)
    <3> HIDE DEF Later, Laters
    <3>1. Later(m) \in SUBSET (1..k) /\ Later(n) \in SUBSET (1..k) /\ Later(m) # Later(n)
      BY <1>2, <2>3, <2>4
    <3> QED BY <2>2, <3>1 DEF StrictSubsetOrdering
  <2> QED BY <1>3, <1>4, <2>4, <2>5
<1>6. \A m \in rows : m <= n
  BY <1>5
<1> QED BY <1>6

(* The newest live code, when there is one, is a live code. *)
LEMMA NewestIsThere ==
    ASSUME OtpTypeOK, NEW purpose, Newest(purpose) # 0
    PROVE  Newest(purpose) \in DOMAIN codes /\ ~codes[Newest(purpose)].gone
<1> DEFINE rows == {n \in DOMAIN codes : ~codes[n].gone /\ codes[n].purpose = purpose}
           newest == CHOOSE n \in rows : \A m \in rows : m <= n
<1>1. rows \in SUBSET (1..Len(codes)) /\ Len(codes) \in Nat
  BY DEF OtpTypeOK
<1>2. rows # {} /\ Newest(purpose) = newest
  BY DEF Newest
<1>3. \E n \in rows : \A m \in rows : m <= n
  <2> HIDE DEF rows
  <2> QED BY <1>1, <1>2, NewestExists
<1>4. newest \in rows
  <2> HIDE DEF rows
  <2> QED BY <1>3
<1> QED BY <1>2, <1>4

(* A verdict is given on the newest code, as it was read. *)
LEMMA UseCodeKeeps ==
    ASSUME OtpInv, NEW c \in Callers, NEW purpose \in Purposes, NEW right \in BOOLEAN,
           UseCode(c, purpose, right)
    PROVE  OtpInv'
<1> USE DEF OtpInv
<1> DEFINE n == Newest(purpose)
           next(pc) == [pc |-> pc, purpose |-> purpose, code |-> n]
           wrong == n # 0 /\ Judged(n) /\ ~right
           rec == [codes[n] EXCEPT !.missed = @ + 1]
<1>1. /\ At(c, "idle") /\ UNCHANGED <<user, effects, broken>>
      /\ overlapped' = (overlapped \/ Others(c))
      /\ codes' = IF wrong THEN [codes EXCEPT ![n] = rec] ELSE codes
  BY DEF UseCode
<1>2. PICK w \in CallerRow :
         /\ caller' = [caller EXCEPT ![c] = w]
         /\ w.pc \in {"idle", "refused", "verified"}
         /\ w.pc \in {"refused", "verified"} => n # 0 /\ w.code = n
         /\ wrong => w.pc = "refused"
  <2> DEFINE ok == n # 0 /\ Judged(n) /\ right
             w == IF n = 0 THEN Resting
                  ELSE IF ~ok THEN next("refused")
                  ELSE IF purpose = "reset" /\ user # "active" THEN Resting ELSE next("verified")
  <2>1. caller' = [caller EXCEPT ![c] = w]
    BY DEF UseCode
  <2>2. n # 0 => n \in Nat
    BY NewestIsThere DEF OtpTypeOK
  <2>3. /\ n # 0 => next("refused") \in CallerRow /\ next("verified") \in CallerRow
        /\ next("refused").pc = "refused" /\ next("refused").code = n
        /\ next("verified").pc = "verified" /\ next("verified").code = n
    BY <2>2 DEF CallerRow
  <2> HIDE DEF next, n
  <2>4. /\ w \in CallerRow /\ w.pc \in {"idle", "refused", "verified"}
        /\ w.pc \in {"refused", "verified"} => n # 0 /\ w.code = n
        /\ wrong => w.pc = "refused"
    BY <2>3, RestingIsCaller
  <2> HIDE DEF w
  <2> QED BY <2>1, <2>4
<1>3. /\ wrong => n \in DOMAIN codes /\ ~codes[n].gone
      /\ n # 0 => n \in DOMAIN codes
  BY NewestIsThere
<1> HIDE DEF n
<1>4. wrong => /\ codes[n] \in CodeRow /\ rec \in CodeRow /\ rec.spent = codes[n].spent
               /\ rec.age = codes[n].age /\ rec.gone = codes[n].gone
               /\ rec.missed = codes[n].missed + 1 /\ rec.attempts = codes[n].attempts
  <2> SUFFICES ASSUME wrong
               PROVE  /\ codes[n] \in CodeRow /\ rec \in CodeRow /\ rec.spent = codes[n].spent
                      /\ rec.age = codes[n].age /\ rec.gone = codes[n].gone
                      /\ rec.missed = codes[n].missed + 1 /\ rec.attempts = codes[n].attempts
    OBVIOUS
  <2>1. codes[n] \in CodeRow
    BY <1>3 DEF OtpTypeOK
  <2> HIDE DEF wrong
  <2> QED BY <2>1 DEF CodeRow
<1> HIDE DEF rec
<1>5. /\ codes' \in Seq(CodeRow) /\ Len(codes') = Len(codes) /\ DOMAIN codes' = DOMAIN codes
      /\ wrong => codes'[n] = rec
      /\ \A m \in DOMAIN codes : ~(wrong /\ m = n) => codes'[m] = codes[m]
      /\ GoneIsOld' /\ CodeOpensOnce'
      /\ \A m \in DOMAIN codes : ~codes'[m].gone /\ codes'[m].age # "old" =>
            ~codes[m].gone /\ codes[m].age # "old"
  <2>1. CASE wrong
    BY <1>1, <1>3, <1>4, <2>1, OneCodeChanges
  <2>2. CASE ~wrong
    BY <1>1, <2>2, SameCodes DEF OtpTypeOK
  <2> QED BY <2>1, <2>2
<1>6. /\ caller' \in [Callers -> CallerRow] /\ caller'[c] = w
      /\ \A o \in Callers \ {c} : caller'[o] = caller[o]
      /\ Counting' = Counting \ {c}
      /\ OneAtATime /\ ~Others(c) => OneAtATime'
  BY <1>2, CallerMoves
<1>7. OtpTypeOK'
  BY <1>1, <1>5, <1>6 DEF OtpTypeOK
<1>8. CodesInHand'
  BY <1>2, <1>3, <1>5, <1>6 DEF CodesInHand
<1>9. ~overlapped' => ~overlapped /\ OneAtATime'
  BY <1>1, <1>6
<1>10. ASSUME ~overlapped', ~broken' PROVE MissedIsCounted'
  <2>1. ~overlapped /\ ~broken /\ ~Others(c)
    BY <1>1, <1>10
  <2>2. \A o \in Callers : ~At(o, "refused")
    BY <1>1, <2>1 DEF Others, At
  <2>3. \A m \in DOMAIN codes : codes[m].missed <= codes[m].attempts
    BY <2>1, <2>2 DEF MissedIsCounted
  <2> SUFFICES ASSUME NEW m \in DOMAIN codes
               PROVE  \/ codes'[m].missed <= codes'[m].attempts
                      \/ /\ codes'[m].missed = codes'[m].attempts + 1
                         /\ codes'[m].attempts < OTP_MAX_ATTEMPTS
                         /\ \E o \in Callers : At(o, "refused")' /\ caller'[o].code = m
    BY <1>5 DEF MissedIsCounted
  <2>4. CASE ~(wrong /\ m = n)
    BY <1>5, <2>3, <2>4
  <2>5. CASE wrong /\ m = n
    <3>1. /\ codes'[m].missed = codes[m].missed + 1 /\ codes'[m].attempts = codes[m].attempts
          /\ codes[m].missed \in Nat /\ codes[m].attempts \in Nat
      BY <1>4, <1>5, <2>5, RowsMade
    <3>2. codes[m].attempts < OTP_MAX_ATTEMPTS
      BY <2>5, <3>1, VerificationAssumption DEF Judged, Burned
    <3>3. At(c, "refused")' /\ caller'[c].code = m
      BY <1>2, <1>6, <2>5 DEF At
    <3>4. codes[m].missed <= codes[m].attempts
      BY <2>3
    <3> QED BY <3>1, <3>2, <3>3, <3>4
  <2> QED BY <2>4, <2>5
<1> QED BY <1>1, <1>5, <1>6, <1>7, <1>8, <1>9, <1>10, CountsKeep

(* A wrong guess is counted on the code it was made of. *)
LEMMA CountAttemptKeeps ==
    ASSUME OtpInv, NEW c \in Callers, CountAttempt(c)
    PROVE  OtpInv'
<1> USE DEF OtpInv
<1> DEFINE n == caller[c].code
           rec == IF codes[n].gone \/ Burned(n) THEN codes[n]
                  ELSE [codes[n] EXCEPT !.attempts = @ + 1]
<1>1. /\ caller[c].pc = "refused" /\ n \in DOMAIN codes /\ codes[n] \in CodeRow
      /\ codes' = IF codes[n].gone \/ Burned(n) THEN codes
                  ELSE [codes EXCEPT ![n] = [codes[n] EXCEPT !.attempts = @ + 1]]
      /\ caller' = [caller EXCEPT ![c] = Resting]
      /\ UNCHANGED <<user, effects, overlapped, broken>> /\ broken' \in BOOLEAN
  BY DEF CountAttempt, Ends, At, CodesInHand, OtpTypeOK
<1>2. codes' = [codes EXCEPT ![n] = rec]
  <2>1. codes = [codes EXCEPT ![n] = codes[n]]
    BY <1>1 DEF OtpTypeOK
  <2>2. CASE codes[n].gone \/ Burned(n)
    BY <1>1, <2>1, <2>2
  <2>3. CASE ~(codes[n].gone \/ Burned(n))
    BY <1>1, <2>3
  <2> QED BY <2>2, <2>3
<1>3. /\ codes[n].attempts \in Nat /\ codes[n].missed \in Nat
      /\ codes[n].attempts <= OTP_MAX_ATTEMPTS
      /\ Burned(n) <=> codes[n].attempts >= OTP_MAX_ATTEMPTS
  BY <1>1, RowsMade DEF Burned
<1>4. /\ rec \in CodeRow /\ rec.spent = codes[n].spent /\ rec.age = codes[n].age
      /\ rec.gone = codes[n].gone /\ rec.missed = codes[n].missed
      /\ rec.attempts = IF codes[n].gone \/ codes[n].attempts >= OTP_MAX_ATTEMPTS
                        THEN codes[n].attempts ELSE codes[n].attempts + 1
  <2>1. CASE codes[n].gone \/ Burned(n)
    BY <1>1, <1>3, <2>1
  <2>2. CASE ~(codes[n].gone \/ Burned(n))
    <3>1. codes[n].attempts + 1 \in 0..OTP_MAX_ATTEMPTS
      BY <1>3, <2>2, VerificationAssumption
    <3> QED BY <1>1, <1>3, <2>2, <3>1 DEF CodeRow
  <2> QED BY <2>1, <2>2
<1>5. codes[n].gone => codes[n].age = "old" /\ codes[n].missed = 0
  BY <1>1 DEF GoneIsOld
<1> HIDE DEF rec, n
<1>6. /\ DOMAIN codes' = DOMAIN codes /\ codes'[n] = rec
      /\ \A m \in DOMAIN codes \ {n} : codes'[m] = codes[m]
  BY <1>1, <1>2, <1>4, OneRowWritten
<1>7. ASSUME ~overlapped', ~broken' PROVE MissedIsCounted'
  <2>1. OneAtATime /\ MissedIsCounted
    BY <1>1, <1>7
  <2> SUFFICES ASSUME NEW m \in DOMAIN codes
               PROVE  codes'[m].missed <= codes'[m].attempts
    BY <1>6 DEF MissedIsCounted
  <2>2. CASE m = n
    <3>1. \/ codes[n].missed <= codes[n].attempts
          \/ /\ codes[n].missed = codes[n].attempts + 1
             /\ codes[n].attempts < OTP_MAX_ATTEMPTS
      BY <1>1, <2>1 DEF MissedIsCounted
    <3> QED BY <1>3, <1>4, <1>5, <1>6, <2>2, <3>1, VerificationAssumption
  <2>3. CASE m # n
    <3>1. \A o \in Callers : At(o, "refused") => caller[o].code # m
      BY <1>1, <2>1, <2>3 DEF OneAtATime, At, n
    <3>2. codes[m].missed <= codes[m].attempts
      BY <2>1, <3>1 DEF MissedIsCounted
    <3> QED BY <1>6, <2>3, <3>2
  <2> QED BY <2>2, <2>3
<1>8. /\ ~At(c, "idle") /\ n \in DOMAIN codes /\ caller' = [caller EXCEPT ![c] = Resting]
      /\ effects' = effects /\ user' = user /\ overlapped' = overlapped /\ broken' \in BOOLEAN
  BY <1>1 DEF At, n
<1>9. /\ rec.spent = "used" <=> codes[n].spent = "used"
      /\ rec.gone => rec.age = "old" /\ rec.missed = 0
      /\ ~rec.gone /\ rec.age # "old" => ~codes[n].gone /\ codes[n].age # "old"
  BY <1>4, <1>5
<1> QED BY <1>2, <1>4, <1>7, <1>8, <1>9, RestingIsCaller, RowAndEndKeeps

(* A code that is spent is spent for the one thing that came of it. *)
LEMMA SpendKeeps ==
    ASSUME OtpInv, NEW c \in Callers, SignUp(c) \/ NewPassword(c)
    PROVE  OtpInv'
<1> USE DEF OtpInv
<1> DEFINE n == caller[c].code
           rec == [codes[n] EXCEPT !["spent"] = "used"]
<1>1. /\ caller[c].pc = "verified" /\ n \in DOMAIN codes /\ codes[n] \in CodeRow
      /\ caller' = [caller EXCEPT ![c] = Resting]
      /\ UNCHANGED <<overlapped, broken>>
      /\ user' \in {"none", "active", "disabled"}
  BY DEF SignUp, NewPassword, Ends, At, CodesInHand, OtpTypeOK
<1>2. \/ codes' = codes /\ effects' = effects
      \/ /\ codes[n].spent = "no"
         /\ codes' = [codes EXCEPT ![n] = rec]
         /\ effects' = [effects EXCEPT ![n] = @ + 1]
  BY DEF SignUp, NewPassword, Row, Spend
<1>3. /\ rec \in CodeRow /\ rec.spent = "used" /\ rec.age = codes[n].age
      /\ rec.gone = codes[n].gone /\ rec.missed = codes[n].missed
      /\ rec.attempts = codes[n].attempts
  BY <1>1, RowWritten
<1> HIDE DEF rec, n
<1>4. /\ caller' \in [Callers -> CallerRow] /\ caller'[c] = Resting
      /\ \A o \in Callers \ {c} : caller'[o] = caller[o]
      /\ Counting' = Counting \ {c}
      /\ OneAtATime => OneAtATime'
  <2>1. ~At(c, "idle")
    BY <1>1 DEF At
  <2> QED BY <1>1, <2>1, RestingIsCaller, CallerMoves
<1>5. /\ codes' \in Seq(CodeRow) /\ Len(codes') = Len(codes) /\ DOMAIN codes' = DOMAIN codes
      /\ effects' \in [1..MaxCodes -> Nat]
      /\ \A m \in 1..MaxCodes : m > Len(codes) => effects'[m] = effects[m]
      /\ \A m \in DOMAIN codes : /\ codes'[m].gone = codes[m].gone
                                 /\ codes'[m].age = codes[m].age
                                 /\ codes'[m].missed = codes[m].missed
                                 /\ codes'[m].attempts = codes[m].attempts
      /\ CodeOpensOnce'
  <2>1. CASE codes' = codes /\ effects' = effects
    BY <2>1, SameCodes DEF OtpTypeOK
  <2>2. CASE /\ codes[n].spent = "no"
             /\ codes' = [codes EXCEPT ![n] = rec]
             /\ effects' = [effects EXCEPT ![n] = @ + 1]
    <3>1. /\ codes' \in Seq(CodeRow) /\ Len(codes') = Len(codes) /\ DOMAIN codes' = DOMAIN codes
          /\ codes'[n] = rec /\ \A m \in DOMAIN codes \ {n} : codes'[m] = codes[m]
      BY <1>1, <1>3, <2>2, OneRowWritten
    <3>2. DOMAIN codes \subseteq 1..MaxCodes
      <4>1. Len(codes) <= MaxCodes /\ Len(codes) \in Nat
        <5>1. Cardinality(Counting) \in Nat
          BY FS_CardinalityType DEF RoomForCodes
        <5> QED BY <5>1, VerificationAssumption DEF RoomForCodes, OtpTypeOK
      <4> QED BY <4>1, VerificationAssumption DEF OtpTypeOK
    <3>3. n \in 1..MaxCodes /\ n <= Len(codes) /\ effects[n] \in Nat
      BY <1>1, <3>2 DEF OtpTypeOK
    <3>4. effects[n] = 0
      BY <1>1, <2>2, <3>3 DEF CodeOpensOnce
    <3>5. /\ effects' \in [1..MaxCodes -> Nat] /\ effects'[n] = 1
          /\ \A m \in (1..MaxCodes) \ {n} : effects'[m] = effects[m]
      BY <2>2, <3>3, <3>4 DEF OtpTypeOK
    <3>6. CodeOpensOnce'
      BY <1>3, <3>1, <3>2, <3>5 DEF CodeOpensOnce
    <3> QED BY <1>3, <3>1, <3>3, <3>5, <3>6
  <2> QED BY <1>2, <2>1, <2>2
<1>6. OtpTypeOK'
  BY <1>1, <1>4, <1>5 DEF OtpTypeOK
<1>7. CodesInHand'
  BY <1>4, <1>5, RestingIsCaller DEF CodesInHand
<1>8. GoneIsOld'
  BY <1>5 DEF GoneIsOld
<1>9. ~overlapped' /\ ~broken' => MissedIsCounted'
  <2>1. ~At(c, "refused")
    BY <1>1 DEF At
  <2> QED BY <1>1, <1>4, <1>5, <2>1, MissedKeeps
<1> QED BY <1>1, <1>4, <1>5, <1>6, <1>7, <1>8, <1>9, CountsKeep

(* A caller whose connection is lost has nothing in hand. *)
LEMMA DiesKeeps ==
    ASSUME OtpInv, NEW c \in Callers, Dies(c)
    PROVE  OtpInv'
<1> USE DEF OtpInv
<1>1. /\ ~At(c, "idle") /\ caller' = [caller EXCEPT ![c] = Resting]
      /\ broken' = TRUE /\ UNCHANGED <<codes, user, effects, overlapped>>
  BY DEF Dies, Ends
<1>2. /\ caller' \in [Callers -> CallerRow] /\ caller'[c] = Resting
      /\ \A o \in Callers \ {c} : caller'[o] = caller[o]
      /\ Counting' = Counting \ {c}
      /\ OneAtATime => OneAtATime'
  BY <1>1, RestingIsCaller, CallerMoves
<1>3. OtpTypeOK'
  BY <1>1, <1>2 DEF OtpTypeOK
<1>4. CodesInHand'
  BY <1>1, <1>2, RestingIsCaller DEF CodesInHand
<1> QED BY <1>1, <1>2, <1>3, <1>4, SameCodes, CountsKeep

(* A code that runs out opens nothing. *)
LEMMA AgesKeeps ==
    ASSUME OtpInv, NEW n \in Nat, n \in DOMAIN codes, Ages(n)
    PROVE  OtpInv'
<1> USE DEF OtpInv
<1> DEFINE age == IF codes[n].age = "fresh" THEN "expired" ELSE "old"
           rec == [codes[n] EXCEPT !["age"] = age]
<1>1. /\ codes[n].age # "old" /\ codes' = [codes EXCEPT ![n] = rec]
      /\ UNCHANGED <<user, caller, effects, overlapped, broken>>
      /\ codes[n] \in CodeRow
  BY DEF Ages, Row, OtpTypeOK
<1>2. /\ rec \in CodeRow /\ rec.spent = codes[n].spent /\ rec.age = age
      /\ rec.gone = codes[n].gone /\ rec.missed = codes[n].missed
      /\ rec.attempts = codes[n].attempts
  <2>1. age \in {"expired", "old"}
    OBVIOUS
  <2> HIDE DEF age
  <2> QED BY <1>1, <2>1, RowWritten
<1> HIDE DEF rec
<1>3. ~codes[n].gone
  BY <1>1 DEF GoneIsOld
<1>4. /\ codes' \in Seq(CodeRow) /\ Len(codes') = Len(codes)
      /\ DOMAIN codes' = DOMAIN codes /\ codes'[n] = rec
      /\ \A m \in DOMAIN codes \ {n} : codes'[m] = codes[m]
      /\ GoneIsOld' /\ CodeOpensOnce'
      /\ \A m \in DOMAIN codes : ~codes'[m].gone /\ codes'[m].age # "old" =>
            ~codes[m].gone /\ codes[m].age # "old"
  BY <1>1, <1>2, <1>3, OneCodeChanges
<1>5. OtpTypeOK' /\ CodesInHand' /\ Counting' = Counting
  BY <1>1, <1>4 DEF OtpTypeOK, CodesInHand, Counting
<1>6. OneAtATime => OneAtATime'
  BY <1>1 DEF OneAtATime, At
<1>7. MissedIsCounted => MissedIsCounted'
  BY <1>1, <1>2, <1>4 DEF MissedIsCounted, At
<1> QED BY <1>1, <1>4, <1>5, <1>6, <1>7, CountsKeep

(* Every statement of every request keeps the invariant. *)
LEMMA OtpNextInv == OtpInv /\ [OtpNext]_otpVars => OtpInv'
<1> SUFFICES ASSUME OtpInv, [OtpNext]_otpVars PROVE OtpInv'
  OBVIOUS
<1>1. ASSUME NEW n \in DOMAIN codes, Ages(n) PROVE OtpInv'
  <2>1. n \in Nat
    BY DEF OtpInv, OtpTypeOK
  <2> QED BY <1>1, <2>1, AgesKeeps
<1>2. CASE UNCHANGED otpVars
  BY <1>2 DEF otpVars, OtpInv, OtpTypeOK, RoomForCodes, Counting, CodesInHand, GoneIsOld,
              CodeOpensOnce, OneAtATime, At, CeilingHasRoom, Recent, MissedIsCounted
<1> QED BY <1>1, <1>2, AskCodeKeeps, UseCodeKeeps, SupersedeKeeps, MakeCodeKeeps, SendCodeKeeps,
           DropCodeKeeps, CountAttemptKeeps, SpendKeeps, DiesKeeps DEF OtpNext

(* What each caller has in hand of the codes, and what is counted of them. *)
THEOREM OtpInvariant == OtpSpec => []OtpInv
BY OtpInitInv, OtpNextInv, PTL DEF OtpSpec

(* A code is spent exactly when one thing came of it. *)
THEOREM OtpCodeOpensOnce == OtpSpec => []CodeOpensOnce
<1>1. OtpInv => CodeOpensOnce
  BY DEF OtpInv
<1> QED BY <1>1, OtpInvariant, PTL

(* The ceilings of messages and of guesses hold unless requests overlapped *)
(* or a statement was lost.                                                *)
THEOREM OtpCeilingsHaveCause == OtpSpec => []CeilingsHaveCause
<1>1. OtpInv => CeilingsHaveCause
  <2> SUFFICES ASSUME OtpInv, ~overlapped, ~broken
               PROVE  /\ Cardinality({n \in DOMAIN codes : codes[n].delivered /\ codes[n].age # "old"})
                            <= OTP_SEND_LIMIT
                      /\ \A n \in DOMAIN codes : codes[n].missed <= OTP_MAX_ATTEMPTS
    BY DEF CeilingsHaveCause
  <2> DEFINE Fresh == {n \in DOMAIN codes : codes[n].delivered /\ codes[n].age # "old"}
  <2> USE DEF OtpInv
  <2>1. Fresh \subseteq Recent
    BY DEF Recent, GoneIsOld
  <2>2. Cardinality(Fresh) <= OTP_SEND_LIMIT
    <3> HIDE DEF Fresh
    <3>1. IsFiniteSet(Fresh) /\ Cardinality(Fresh) <= Cardinality(Recent)
      BY <2>1, RecentIsFinite, FS_Subset
    <3>2. Cardinality(Fresh) \in Nat
      BY <3>1, FS_CardinalityType
    <3> QED BY <3>1, <3>2, RecentIsFinite, VerificationAssumption DEF CeilingHasRoom
  <2>3. ASSUME NEW n \in DOMAIN codes PROVE codes[n].missed <= OTP_MAX_ATTEMPTS
    <3>1. /\ codes[n].attempts \in Nat /\ codes[n].missed \in Nat
          /\ codes[n].attempts <= OTP_MAX_ATTEMPTS
      BY RowsMade DEF OtpTypeOK
    <3>2. \/ codes[n].missed <= codes[n].attempts
          \/ codes[n].missed = codes[n].attempts + 1 /\ codes[n].attempts < OTP_MAX_ATTEMPTS
      BY DEF MissedIsCounted
    <3> QED BY <3>1, <3>2, VerificationAssumption
  <2> QED BY <2>2, <2>3
<1> QED BY <1>1, OtpInvariant, PTL
-----------------------------------------------------------------------------
(* What this module needs of the invoices: their parts and the ledger are  *)
(* not part of it.                                                         *)
InvoicesTypeOK ==
    /\ invoice \in [Documents -> InvoiceRow]
    /\ collected \in [Documents -> Nat]
    /\ payment \in [Cashiers -> PaymentCall]

(* What a cashier is about to write is no more than what will have come    *)
(* in, and the total it was told from stands.                              *)
PaymentsInHand ==
    \A c \in Cashiers :
        \/ payment[c] = NoPayment
        \/ LET p == payment[c] IN
           /\ p.invoice \in Documents
           /\ invoice[p.invoice].status \in {"issued", "paid", "cancelled", "deleted"}
           /\ invoice[p.invoice].status # "deleted" =>
                 /\ p.newPaid <= collected[p.invoice] + p.amount
                 /\ p.fullyPaid => p.newPaid >= invoice[p.invoice].total

NoneIsUnpaid == \A d \in Documents : invoice[d].status = "none" => invoice[d].paid = 0

InvoicesInv == InvoicesTypeOK /\ PaymentsInHand /\ NoneIsUnpaid /\ PaidWasCollected

(* A row of an invoice, column by column. *)
LEMMA InvoiceColumns ==
    \A rec \in InvoiceRow :
        /\ rec.status \in RepairInvoiceStatus \cup {"none", "deleted"}
        /\ rec.total \in Nat /\ rec.paid \in Nat
BY DEF InvoiceRow

(* At first no invoice is made and no cashier has a payment in hand. *)
LEMMA InvoicesInitInv == RepairInit => InvoicesInv
<1> SUFFICES ASSUME RepairInit PROVE InvoicesInv
  OBVIOUS
<1>1. InvoicesTypeOK
  BY DEF RepairInit, InvoicesTypeOK, InvoiceRow, RepairInvoiceStatus, PaymentCall, NoPayment
<1>2. PaymentsInHand
  BY DEF RepairInit, PaymentsInHand
<1>3. NoneIsUnpaid /\ PaidWasCollected
  BY DEF RepairInit, NoneIsUnpaid, PaidWasCollected, RepairInvoiceStatus
<1> QED BY <1>1, <1>2, <1>3 DEF InvoicesInv

(* A handler under the row lock, which may not lower what was paid, change *)
(* the total of an invoice that left the drafts, or go back to them.       *)
LEMMA LockedKeeps ==
    ASSUME InvoicesInv, NEW d \in Documents, NEW rec \in InvoiceRow,
           invoice' = [invoice EXCEPT ![d] = rec], UNCHANGED <<collected, payment>>,
           rec.paid = invoice[d].paid, rec.status \in RepairInvoiceStatus,
           invoice[d].status \in RepairInvoiceStatus \cup {"none"},
           invoice[d].status \notin {"none", "draft"} =>
              rec.status # "draft" /\ rec.total = invoice[d].total,
           rec.status = "paid" => rec.paid >= rec.total
    PROVE  InvoicesInv'
<1> USE DEF InvoicesInv
<1>1. /\ invoice' \in [Documents -> InvoiceRow] /\ invoice'[d] = rec
      /\ \A e \in Documents \ {d} : invoice'[e] = invoice[e]
  BY DEF InvoicesTypeOK
<1>2. InvoicesTypeOK'
  BY <1>1 DEF InvoicesTypeOK
<1>3. PaymentsInHand'
  <2> SUFFICES ASSUME NEW c \in Cashiers, payment[c] # NoPayment
               PROVE  LET p == payment[c] IN
                      /\ p.invoice \in Documents
                      /\ invoice'[p.invoice].status \in {"issued", "paid", "cancelled", "deleted"}
                      /\ invoice'[p.invoice].status # "deleted" =>
                            /\ p.newPaid <= collected[p.invoice] + p.amount
                            /\ p.fullyPaid => p.newPaid >= invoice'[p.invoice].total
    BY DEF PaymentsInHand
  <2> DEFINE e == payment[c].invoice
  <2>1. /\ e \in Documents
        /\ invoice[e].status \in {"issued", "paid", "cancelled", "deleted"}
        /\ invoice[e].status # "deleted" =>
              /\ payment[c].newPaid <= collected[e] + payment[c].amount
              /\ payment[c].fullyPaid => payment[c].newPaid >= invoice[e].total
    BY DEF PaymentsInHand
  <2>2. CASE e # d
    BY <1>1, <2>1, <2>2
  <2>3. CASE e = d
    <3>1. rec.total = invoice[e].total /\ rec.status \in {"issued", "paid", "cancelled"}
      BY <2>1, <2>3 DEF RepairInvoiceStatus
    <3>2. invoice[e].status # "deleted"
      BY <2>3 DEF RepairInvoiceStatus
    <3> QED BY <1>1, <2>1, <2>3, <3>1, <3>2
  <2> QED BY <2>2, <2>3
<1>4. PaidWasCollected'
  <2>1. rec.paid \in Nat /\ rec.total \in Nat /\ collected[d] \in Nat
    BY InvoiceColumns DEF InvoicesTypeOK
  <2>2. rec.paid <= collected[d]
    <3>1. CASE invoice[d].status = "none"
      BY <2>1, <3>1 DEF NoneIsUnpaid
    <3>2. CASE invoice[d].status \in RepairInvoiceStatus
      BY <3>2 DEF PaidWasCollected
    <3> QED BY <3>1, <3>2
  <2>3. rec.status = "paid" => collected[d] >= rec.total
    BY <2>1, <2>2
  <2> QED BY <1>1, <2>2, <2>3 DEF PaidWasCollected
<1>5. NoneIsUnpaid'
  BY <1>1 DEF NoneIsUnpaid, RepairInvoiceStatus
<1> QED BY <1>2, <1>3, <1>4, <1>5

(* A payment is written as it was worked out, however late. *)
LEMMA WritePaymentKeeps ==
    ASSUME InvoicesInv, NEW c \in Cashiers, WritePayment(c)
    PROVE  InvoicesInv'
<1> DEFINE p == payment[c]
           d == p.invoice
           rec == [invoice[d] EXCEPT
                      !.paid = p.newPaid,
                      !.paymentStatus = IF p.fullyPaid THEN "paid" ELSE "partial",
                      !.status = IF p.fullyPaid THEN "paid" ELSE @]
<1> USE DEF InvoicesInv
<1>1. /\ p # NoPayment /\ invoice[d].status \in RepairInvoiceStatus
      /\ collected' = [collected EXCEPT ![d] = @ + p.amount]
      /\ invoice' = [invoice EXCEPT ![d] = rec]
      /\ payment' = [payment EXCEPT ![c] = NoPayment]
  <2>1. p # NoPayment /\ invoice[d].status \in RepairInvoiceStatus
    BY DEF WritePayment
  <2>2. /\ collected' = [collected EXCEPT ![d] = @ + p.amount]
        /\ payment' = [payment EXCEPT ![c] = NoPayment]
    BY DEF WritePayment
  <2>3. invoice' = [invoice EXCEPT ![d] = rec]
    BY DEF WritePayment
  <2> QED BY <2>1, <2>2, <2>3
<1>2. /\ d \in Documents /\ invoice[d].status \in {"issued", "paid", "cancelled"}
      /\ p.newPaid <= collected[d] + p.amount
      /\ p.fullyPaid => p.newPaid >= invoice[d].total
  BY <1>1 DEF PaymentsInHand, RepairInvoiceStatus
<1>3. /\ p.amount \in Nat /\ p.newPaid \in Nat /\ p.fullyPaid \in BOOLEAN
      /\ collected[d] \in Nat /\ invoice[d] \in InvoiceRow
  BY <1>2 DEF InvoicesTypeOK, PaymentCall
<1>4. /\ rec \in InvoiceRow /\ rec.paid = p.newPaid /\ rec.total = invoice[d].total
      /\ rec.status = IF p.fullyPaid THEN "paid" ELSE invoice[d].status
  BY <1>3 DEF InvoiceRow, RepairInvoiceStatus
<1> HIDE DEF rec, d, p
<1>5. /\ invoice' \in [Documents -> InvoiceRow] /\ invoice'[d] = rec
      /\ \A e \in Documents \ {d} : invoice'[e] = invoice[e]
      /\ collected' \in [Documents -> Nat] /\ collected'[d] = collected[d] + p.amount
      /\ \A e \in Documents \ {d} : collected'[e] = collected[e]
  BY <1>1, <1>2, <1>3, <1>4 DEF InvoicesTypeOK
<1>6. /\ payment' \in [Cashiers -> PaymentCall] /\ payment'[c] = NoPayment
      /\ \A b \in Cashiers \ {c} : payment'[b] = payment[b]
  BY <1>1 DEF InvoicesTypeOK, PaymentCall, NoPayment
<1>7. InvoicesTypeOK'
  BY <1>5, <1>6 DEF InvoicesTypeOK
<1>8. PaymentsInHand'
  <2> SUFFICES ASSUME NEW b \in Cashiers, payment'[b] # NoPayment
               PROVE  LET q == payment'[b] IN
                      /\ q.invoice \in Documents
                      /\ invoice'[q.invoice].status \in {"issued", "paid", "cancelled", "deleted"}
                      /\ invoice'[q.invoice].status # "deleted" =>
                            /\ q.newPaid <= collected'[q.invoice] + q.amount
                            /\ q.fullyPaid => q.newPaid >= invoice'[q.invoice].total
    BY DEF PaymentsInHand
  <2> DEFINE q == payment[b]
             e == q.invoice
  <2>1. payment'[b] = q
    BY <1>6
  <2>2. /\ e \in Documents
        /\ invoice[e].status \in {"issued", "paid", "cancelled", "deleted"}
        /\ invoice[e].status # "deleted" =>
              /\ q.newPaid <= collected[e] + q.amount
              /\ q.fullyPaid => q.newPaid >= invoice[e].total
    BY <2>1 DEF PaymentsInHand
  <2>3. q.newPaid \in Nat /\ q.amount \in Nat /\ collected[e] \in Nat
    BY <2>2 DEF InvoicesTypeOK, PaymentCall
  <2>4. CASE e # d
    BY <1>5, <2>1, <2>2, <2>4
  <2>5. CASE e = d
    <3>1. collected'[e] = collected[e] + p.amount /\ invoice'[e] = rec
      BY <1>5, <2>5
    <3>2. rec.status \in {"issued", "paid", "cancelled"} /\ rec.total = invoice[e].total
      BY <1>2, <1>4, <2>5
    <3>3. invoice[e].status # "deleted"
      BY <1>2, <2>5
    <3>4. q.newPaid <= collected[e] + p.amount + q.amount
      BY <1>3, <2>2, <2>3, <3>3
    <3> HIDE DEF q, e
    <3> QED BY <2>1, <2>2, <2>3, <3>1, <3>2, <3>3, <3>4 DEF e
  <2> QED BY <2>4, <2>5
<1>9. PaidWasCollected'
  <2>1. rec.paid <= collected'[d] /\ (p.fullyPaid => collected'[d] >= rec.total)
    BY <1>2, <1>3, <1>4, <1>5, InvoiceColumns
  <2>2. ~p.fullyPaid /\ rec.status = "paid" => collected'[d] >= rec.total
    <3>1. SUFFICES ASSUME invoice[d].status = "paid" PROVE collected'[d] >= invoice[d].total
      BY <1>4
    <3>2. collected[d] >= invoice[d].total
      BY <1>2, <3>1 DEF PaidWasCollected
    <3> QED BY <1>3, <1>5, <3>2, InvoiceColumns
  <2> QED BY <1>5, <2>1, <2>2 DEF PaidWasCollected
<1>10. NoneIsUnpaid'
  BY <1>2, <1>4, <1>5 DEF NoneIsUnpaid
<1> QED BY <1>7, <1>8, <1>9, <1>10

(* Every handler, and every payment between its read and its write, keeps it. *)
LEMMA InvoicesNextInv == InvoicesInv /\ [Next]_vars => InvoicesInv'
<1> SUFFICES ASSUME InvoicesInv, [Next]_vars PROVE InvoicesInv'
  OBVIOUS
<1> USE DEF InvoicesInv
<1>1. ASSUME NEW d \in Documents, CreateDraft(d) \/ UpdateDraft(d) PROVE InvoicesInv'
  <2>1. /\ invoice[d].status \in {"none", "draft"} /\ invoice[d] \in InvoiceRow
        /\ UNCHANGED <<collected, payment>>
    BY <1>1 DEF CreateDraft, UpdateDraft, InvoicesTypeOK
  <2>2. \A parts \in PartLists, t \in Totals : parts \in Seq(StockLine) /\ t \in Nat
    <3> DEFINE Uses == {l \in StockLine : l.type = "repair_use"}
    <3>1. Uses \subseteq StockLine /\ PartLists \subseteq Seq(Uses)
      BY RepairAssumption
    <3> HIDE DEF Uses
    <3>2. \A parts \in Seq(Uses) : parts \in Seq(StockLine)
      BY <3>1
    <3> QED BY <3>1, <3>2, RepairAssumption
  <2>3. PICK rec \in InvoiceRow : /\ invoice' = [invoice EXCEPT ![d] = rec]
                                  /\ rec.paid = invoice[d].paid /\ rec.status = "draft"
    <3>1. CASE CreateDraft(d)
      <4>1. PICK parts \in PartLists, t \in Totals :
               invoice' = [invoice EXCEPT ![d].status = "draft", ![d].parts = parts,
                                          ![d].total = t]
        BY <3>1 DEF CreateDraft
      <4> DEFINE rec == [invoice[d] EXCEPT !.status = "draft", !.parts = parts, !.total = t]
      <4>2. invoice' = [invoice EXCEPT ![d] = rec]
        BY <4>1 DEF InvoicesTypeOK
      <4>3. rec \in InvoiceRow /\ rec.paid = invoice[d].paid /\ rec.status = "draft"
        BY <2>1, <2>2 DEF InvoiceRow, RepairInvoiceStatus
      <4> QED BY <4>2, <4>3
    <3>2. CASE UpdateDraft(d)
      <4>1. PICK parts \in PartLists, t \in Totals :
               invoice' = [invoice EXCEPT ![d].parts = parts, ![d].total = t]
        BY <3>2 DEF UpdateDraft
      <4> DEFINE rec == [invoice[d] EXCEPT !.parts = parts, !.total = t]
      <4>2. invoice' = [invoice EXCEPT ![d] = rec]
        BY <4>1 DEF InvoicesTypeOK
      <4>3. rec \in InvoiceRow /\ rec.paid = invoice[d].paid /\ rec.status = invoice[d].status
        BY <2>1, <2>2 DEF InvoiceRow, RepairInvoiceStatus
      <4> QED BY <3>2, <4>2, <4>3 DEF UpdateDraft
    <3> QED BY <1>1, <3>1, <3>2
  <2> QED BY <2>1, <2>3, LockedKeeps DEF RepairInvoiceStatus
<1>2. ASSUME NEW d \in Documents, ChangeStatus(d) PROVE InvoicesInv'
  <2>1. PICK to \in RepairInvoiceStatus :
           /\ Allowed(invoice[d].status, to)
           /\ to = "paid" => invoice[d].paid >= invoice[d].total
           /\ invoice' = [invoice EXCEPT ![d] = [invoice[d] EXCEPT !.status = to,
                                                   !.paymentStatus = StatusAfter(invoice[d], to)]]
           /\ UNCHANGED <<collected, payment>>
    BY <1>2 DEF ChangeStatus
  <2> DEFINE rec == [invoice[d] EXCEPT !.status = to,
                                       !.paymentStatus = StatusAfter(invoice[d], to)]
  <2>2. invoice[d] \in InvoiceRow
    BY DEF InvoicesTypeOK
  <2>3. StatusAfter(invoice[d], to) \in {"pending", "partial", "paid", "cancelled"}
    BY <2>2 DEF StatusAfter, InvoiceRow
  <2>4. /\ rec \in InvoiceRow /\ rec.status = to /\ rec.paid = invoice[d].paid
        /\ rec.total = invoice[d].total
    BY <2>2, <2>3 DEF InvoiceRow
  <2>5. /\ invoice[d].status \in RepairInvoiceStatus
        /\ invoice[d].status \notin {"none", "draft"} => to # "draft"
    BY <2>1 DEF Allowed, RepairInvoiceStatus
  <2>6. invoice' = [invoice EXCEPT ![d] = rec]
    BY <2>1
  <2> HIDE DEF rec
  <2> QED BY <2>1, <2>4, <2>5, <2>6, LockedKeeps
<1>3. ASSUME NEW d \in Documents, RemoveInvoice(d) PROVE InvoicesInv'
  <2> DEFINE rec == [invoice[d] EXCEPT !.status = "deleted"]
  <2>1. /\ invoice' = [invoice EXCEPT ![d] = rec]
        /\ collected' = [collected EXCEPT ![d] = 0] /\ payment' = payment
        /\ invoice[d].status \in RepairInvoiceStatus
    BY <1>3 DEF RemoveInvoice
  <2>2. rec \in InvoiceRow /\ rec.status = "deleted"
    BY DEF InvoicesTypeOK, InvoiceRow
  <2> HIDE DEF rec
  <2>3. /\ invoice' \in [Documents -> InvoiceRow] /\ invoice'[d] = rec
        /\ \A e \in Documents \ {d} : invoice'[e] = invoice[e]
        /\ collected' \in [Documents -> Nat]
        /\ \A e \in Documents \ {d} : collected'[e] = collected[e]
    BY <2>1, <2>2 DEF InvoicesTypeOK
  <2>4. InvoicesTypeOK' /\ NoneIsUnpaid'
    BY <2>1, <2>2, <2>3 DEF InvoicesTypeOK, NoneIsUnpaid
  <2>5. PaymentsInHand'
    <3> SUFFICES ASSUME NEW c \in Cashiers, payment[c] # NoPayment
                 PROVE  LET p == payment[c] IN
                        /\ p.invoice \in Documents
                        /\ invoice'[p.invoice].status \in {"issued", "paid", "cancelled", "deleted"}
                        /\ invoice'[p.invoice].status # "deleted" =>
                              /\ p.newPaid <= collected'[p.invoice] + p.amount
                              /\ p.fullyPaid => p.newPaid >= invoice'[p.invoice].total
      BY <2>1 DEF PaymentsInHand
    <3> DEFINE e == payment[c].invoice
    <3>1. /\ e \in Documents
          /\ invoice[e].status \in {"issued", "paid", "cancelled", "deleted"}
          /\ invoice[e].status # "deleted" =>
                /\ payment[c].newPaid <= collected[e] + payment[c].amount
                /\ payment[c].fullyPaid => payment[c].newPaid >= invoice[e].total
      BY DEF PaymentsInHand
    <3>2. CASE e = d
      BY <2>2, <2>3, <3>1, <3>2
    <3>3. CASE e # d
      BY <2>3, <3>1, <3>3
    <3> QED BY <3>2, <3>3
  <2>6. PaidWasCollected'
    BY <2>2, <2>3 DEF PaidWasCollected, RepairInvoiceStatus
  <2> QED BY <2>4, <2>5, <2>6
<1>4. ASSUME NEW c \in Cashiers, NEW d \in Documents, ReadForPayment(c, d) PROVE InvoicesInv'
  <2>1. PICK a \in Amounts :
           payment' = [payment EXCEPT ![c] = [invoice |-> d, amount |-> a,
                                              newPaid |-> invoice[d].paid + a,
                                              fullyPaid |-> invoice[d].paid + a >= invoice[d].total]]
    BY <1>4 DEF ReadForPayment
  <2> DEFINE full == invoice[d].paid + a >= invoice[d].total
             call == [invoice |-> d, amount |-> a, newPaid |-> invoice[d].paid + a,
                      fullyPaid |-> full]
  <2>2. /\ payment' = [payment EXCEPT ![c] = call] /\ UNCHANGED <<invoice, collected>>
        /\ invoice[d].status \in {"issued", "paid"}
    BY <1>4, <2>1 DEF ReadForPayment, HoldsStock
  <2>3. /\ a \in Nat /\ invoice[d].paid \in Nat /\ invoice[d].total \in Nat
        /\ invoice[d].paid <= collected[d] /\ collected[d] \in Nat
    BY <2>2, RepairAssumption, InvoiceColumns
       DEF InvoicesTypeOK, PaidWasCollected, RepairInvoiceStatus
  <2>4. /\ call \in PaymentCall /\ call.invoice = d /\ call.amount = a
        /\ call.newPaid = invoice[d].paid + a
        /\ call.fullyPaid => call.newPaid >= invoice[d].total
    <3>1. full \in BOOLEAN /\ (full => invoice[d].paid + a >= invoice[d].total)
      OBVIOUS
    <3>2. call.invoice = d /\ call.amount = a /\ call.newPaid = invoice[d].paid + a
      OBVIOUS
    <3>3. call.fullyPaid = full
      OBVIOUS
    <3>4. call \in PaymentCall
      <4> HIDE DEF full
      <4> QED BY <2>3, <3>1 DEF PaymentCall
    <3> QED BY <3>1, <3>2, <3>3, <3>4
  <2> HIDE DEF call
  <2>5. /\ payment' \in [Cashiers -> PaymentCall] /\ payment'[c] = call
        /\ \A b \in Cashiers \ {c} : payment'[b] = payment[b]
    BY <2>2, <2>4 DEF InvoicesTypeOK
  <2>6. InvoicesTypeOK' /\ NoneIsUnpaid' /\ PaidWasCollected'
    BY <2>2, <2>5 DEF InvoicesTypeOK, NoneIsUnpaid, PaidWasCollected
  <2>7. call.newPaid <= collected[d] + call.amount
    BY <2>3, <2>4
  <2>8. PaymentsInHand'
    <3> SUFFICES ASSUME NEW b \in Cashiers
                 PROVE  \/ payment'[b] = NoPayment
                        \/ LET p == payment'[b] IN
                           /\ p.invoice \in Documents
                           /\ invoice[p.invoice].status \in {"issued", "paid", "cancelled", "deleted"}
                           /\ invoice[p.invoice].status # "deleted" =>
                                 /\ p.newPaid <= collected[p.invoice] + p.amount
                                 /\ p.fullyPaid => p.newPaid >= invoice[p.invoice].total
      BY <2>2 DEF PaymentsInHand
    <3>1. CASE b = c
      BY <2>2, <2>4, <2>5, <2>7, <3>1
    <3>2. CASE b # c
      BY <2>5, <3>2 DEF PaymentsInHand
    <3> QED BY <3>1, <3>2
  <2> QED BY <2>6, <2>8
<1>5. ASSUME NEW c \in Cashiers, WritePayment(c) PROVE InvoicesInv'
  BY <1>5, WritePaymentKeeps
<1>6. ASSUME NEW c \in Cashiers, PaymentFails(c) PROVE InvoicesInv'
  <2>1. payment' = [payment EXCEPT ![c] = NoPayment] /\ UNCHANGED <<invoice, collected>>
    BY <1>6 DEF PaymentFails
  <2>2. NoPayment \in PaymentCall
    BY DEF NoPayment, PaymentCall
  <2>3. /\ payment' \in [Cashiers -> PaymentCall] /\ payment'[c] = NoPayment
        /\ \A b \in Cashiers \ {c} : payment'[b] = payment[b]
    BY <2>1, <2>2 DEF InvoicesTypeOK
  <2>4. PaymentsInHand'
    BY <2>1, <2>3 DEF PaymentsInHand
  <2> QED BY <2>1, <2>3, <2>4 DEF InvoicesTypeOK, NoneIsUnpaid, PaidWasCollected
<1>7. CASE UNCHANGED vars
  BY <1>7 DEF vars, repairVars, InvoicesTypeOK, PaymentsInHand, NoneIsUnpaid, PaidWasCollected
<1> QED BY <1>1, <1>2, <1>3, <1>4, <1>5, <1>6, <1>7 DEF Next

(* What each cashier is about to write, and what came in. *)
THEOREM InvoicesInvariant == Spec => []InvoicesInv
<1>1. Init => InvoicesInv
  BY InvoicesInitInv DEF Init
<1> QED BY <1>1, InvoicesNextInv, PTL DEF Spec

(* An invoice that reads as paid was paid, whoever took the money. *)
THEOREM InvoicePaidWasCollected == Spec => []PaidWasCollected
<1>1. InvoicesInv => PaidWasCollected
  BY DEF InvoicesInv
<1> QED BY <1>1, InvoicesInvariant, PTL

-----------------------------------------------------------------------------
(* The parts that invoices take and bring back, as the ledger has them.    *)

(* The rows of an invoice that moved an item in one of the given ways. *)
Theirs(rows, d, i, types) ==
    {n \in DOMAIN rows : /\ rows[n].doc = d
                         /\ rows[n].line.item = i
                         /\ rows[n].line.type \in types}

Changes(rows, d, i, types) ==
    SumOf([n \in Theirs(rows, d, i, types) |-> rows[n].line.qty], Theirs(rows, d, i, types))

(* An invoice's rows are finitely many and their quantities whole numbers. *)
LEMMA ChangesAreWhole ==
    ASSUME NEW rows \in Seq(PostedRow), NEW d, NEW i, NEW types
    PROVE  /\ IsFiniteSet(Theirs(rows, d, i, types))
           /\ \A n \in Theirs(rows, d, i, types) : rows[n].line.qty \in Int
           /\ Changes(rows, d, i, types) \in Int
<1> DEFINE S == Theirs(rows, d, i, types)
           f == [n \in S |-> rows[n].line.qty]
<1>1. DOMAIN rows = 1..Len(rows) /\ Len(rows) \in Nat /\ \A n \in DOMAIN rows : rows[n] \in PostedRow
  OBVIOUS
<1>2. S \in SUBSET (1..Len(rows))
  BY <1>1 DEF Theirs
<1>3. IsFiniteSet(S)
  <2>1. IsFiniteSet(1..Len(rows))
    BY <1>1, FS_Interval
  <2> HIDE DEF S
  <2> QED BY <1>2, <2>1, FS_Subset
<1>4. \A n \in S : rows[n].line.qty \in Int
  BY <1>1, <1>2 DEF PostedRow, StockLine
<1>5. \A n \in S : f[n] \in Int
  BY <1>4
<1> HIDE DEF S, f
<1>6. SumOf(f, S) \in Int
  BY <1>3, <1>5, SumType
<1> QED BY <1>3, <1>4, <1>6 DEF S, f, Changes

(* What the ledger says an invoice moved is that sum.                      *)
LEMMA PartsMovedIsSum ==
    ASSUME ledger \in Seq(PostedRow), NEW d, NEW i, NEW types
    PROVE  PartsMoved(d, i, types) = Changes(ledger, d, i, types)
<1> DEFINE S == Theirs(ledger, d, i, types)
<1>1. IsFiniteSet(S)
  BY ChangesAreWhole
<1>2. PartsMoved(d, i, types) = MapThenSumSet(LAMBDA n : ledger[n].line.qty, S)
  BY DEF PartsMoved, Theirs
<1> HIDE DEF S
<1>3. MapThenSumSet(LAMBDA n : ledger[n].line.qty, S) = SumOf([n \in S |-> ledger[n].line.qty], S)
  BY <1>1, SumOfRowQuantities
<1> QED BY <1>2, <1>3 DEF S, Changes

(* Lines of one type add what they move to their own invoice and type, and *)
(* nothing to any other.                                                   *)
LEMMA ChangesAdd ==
    ASSUME NEW rows \in Seq(PostedRow), NEW more \in Seq(PostedRow), NEW lines \in Seq(StockLine),
           NEW d, Adds(rows, more, lines, d),
           NEW t, \A k \in DOMAIN lines : lines[k].type = t,
           NEW e, NEW i, NEW types
    PROVE  Changes(more, e, i, types)
              = Changes(rows, e, i, types)
                + (IF e = d /\ t \in types THEN Moved(lines, DOMAIN lines, i, Warehouses) ELSE 0)
<1> DEFINE n == Len(rows)
           m == Len(lines)
           S == Theirs(rows, e, i, types)
           T == Theirs(more, e, i, types)
           C == LinesAt(lines, DOMAIN lines, i, Warehouses)
           name == [k \in C |-> n + k]
           B == {name[k] : k \in C}
           f == [x \in S |-> rows[x].line.qty]
           g == [x \in T |-> more[x].line.qty]
           q == Quantities(lines, DOMAIN lines)
<1>1. /\ n \in Nat /\ m \in Nat /\ DOMAIN rows = 1..n /\ DOMAIN more = 1..(n + m)
      /\ DOMAIN lines = 1..m
      /\ \A j \in 1..n : more[j] = rows[j]
      /\ \A k \in 1..m : more[n + k].line = lines[k] /\ more[n + k].doc = d
  <2>1. /\ Len(rows) \in Nat /\ Len(lines) \in Nat
        /\ DOMAIN rows = 1..Len(rows) /\ DOMAIN lines = 1..Len(lines)
        /\ DOMAIN more = 1..Len(more)
    OBVIOUS
  <2>2. /\ Len(more) = Len(rows) + Len(lines)
        /\ \A j \in 1..Len(rows) : more[j] = rows[j]
        /\ \A k \in 1..Len(lines) :
              more[Len(rows) + k].line = lines[k] /\ more[Len(rows) + k].doc = d
    BY <2>1 DEF Adds
  <2> QED BY <2>1, <2>2
<1>2. /\ IsFiniteSet(S) /\ IsFiniteSet(T)
      /\ \A x \in S : f[x] \in Int
      /\ \A x \in T : g[x] \in Int
      /\ Changes(rows, e, i, types) = SumOf(f, S)
      /\ Changes(more, e, i, types) = SumOf(g, T)
  BY ChangesAreWhole DEF Changes
<1>3. /\ IsFiniteSet(C) /\ Moved(lines, DOMAIN lines, i, Warehouses) = SumOf(q, C)
      /\ \A k \in 1..m : q[k] = lines[k].qty /\ q[k] \in Int /\ lines[k].wh \in Warehouses
  <2>1. DOMAIN lines = 1..Len(lines) /\ Len(lines) \in 0..Len(lines)
    OBVIOUS
  <2>2. Countable(lines, 1..Len(lines))
    BY <2>1, LinesCount
  <2>3. \A k \in 1..m : lines[k].qty \in Int /\ lines[k].wh \in Warehouses
    BY <1>1, LinesCount
  <2> QED BY <1>1, <2>1, <2>2, <2>3, MovedIsSum DEF Quantities
<1>4. C = {k \in 1..m : lines[k].item = i}
  BY <1>1, <1>3 DEF LinesAt
<1>5. /\ \A j \in 1..n : j \in S <=> j \in T
      /\ \A j \in S : j \in 1..n /\ g[j] = f[j]
  BY <1>1 DEF Theirs
<1>6. ASSUME NEW k \in 1..m
      PROVE  /\ n + k \in 1..(n + m) /\ n + k \notin 1..n
             /\ n + k \in T <=> e = d /\ t \in types /\ k \in C
             /\ n + k \in T => g[n + k] = q[k]
  <2>1. n + k \in 1..(n + m) /\ n + k \notin 1..n
    BY <1>1
  <2>2. more[n + k].line = lines[k] /\ more[n + k].doc = d /\ lines[k].type = t
    BY <1>1
  <2>3. n + k \in T <=> e = d /\ t \in types /\ lines[k].item = i
    BY <1>1, <2>1, <2>2 DEF Theirs
  <2>4. n + k \in T => g[n + k] = q[k]
    BY <1>3, <2>2
  <2> HIDE DEF T, C, g, q, n, m
  <2> QED BY <1>4, <2>1, <2>3, <2>4
<1>7. \A j \in T : j \in 1..n \/ \E k \in 1..m : j = n + k
  <2>1. T \in SUBSET (1..(n + m))
    BY <1>1 DEF Theirs
  <2>2. \A j \in 1..(n + m) : j \in 1..n \/ (j - n \in 1..m /\ j = n + (j - n))
    BY <1>1
  <2> HIDE DEF T, n, m
  <2> QED BY <2>1, <2>2
<1>8. \A k \in C : k \in 1..m /\ k \in Nat /\ name[k] = n + k
  BY <1>4
<1> HIDE DEF S, T, C, f, g, q, n, m, name
<1>9. SumOf(g, S) = SumOf(f, S) /\ SumOf(f, S) \in Int
  BY <1>2, <1>5, SumSame, SumType
<1>10. CASE e = d /\ t \in types
  <2>1. T = S \cup B
    <3>1. \A j \in T : j \in S \/ j \in B
      BY <1>5, <1>6, <1>7, <1>8
    <3>2. \A j \in B : j \in T
      BY <1>6, <1>8, <1>10
    <3>3. \A j \in S : j \in T
      BY <1>5
    <3> HIDE DEF B
    <3> QED BY <3>1, <3>2, <3>3
  <2>2. S \cap B = {}
    BY <1>5, <1>6, <1>8
  <2>3. IsFiniteSet(B)
    BY <1>2, <2>1, FS_Subset
  <2>4. SumOf(g, B) = SumOf(q, C)
    <3>1. \A x, y \in C : name[x] = name[y] => x = y
      BY <1>1, <1>8
    <3>2. \A x \in C : q[x] \in Int /\ g[name[x]] = q[x]
      BY <1>3, <1>6, <1>8, <1>10
    <3>3. IsFiniteSet(C)
      BY <1>3
    <3>4. SumOf(g, {name[x] : x \in C}) = SumOf(q, C)
      BY <3>1, <3>2, <3>3, SumRenamed
    <3> QED BY <3>4
  <2> HIDE DEF B
  <2>5. SumOf(g, S \cup B) = SumOf(g, S) + SumOf(g, B)
    BY <1>2, <2>1, <2>2, <2>3, SumUnion
  <2> QED BY <1>2, <1>3, <1>9, <1>10, <2>1, <2>4, <2>5
<1>11. CASE ~(e = d /\ t \in types)
  <2>1. T = S
    BY <1>5, <1>6, <1>7, <1>11
  <2> QED BY <1>2, <1>9, <1>11, <2>1
<1> QED BY <1>10, <1>11

(* What the ledger may have of an item for an invoice of a status: all of  *)
(* its rows together, those that took parts, and the parts it lists.       *)
PartsSay(stands, net, used, listed) ==
    /\ stands \in {"none", "draft"} => net = 0 /\ used = 0
    /\ stands = "issued" => net = listed /\ used = listed
    /\ stands = "cancelled" => net = 0
    /\ used \in {0, listed}

PartsAreUses ==
    \A d \in Documents : \A k \in DOMAIN invoice[d].parts :
        invoice[d].parts[k].type = "repair_use"

PartsSettled ==
    \A d \in Documents, i \in Items :
        PartsSay(invoice[d].status, Changes(ledger, d, i, MovementType),
                 Changes(ledger, d, i, {"repair_use"}), Listed(d, i))

PartsInv == LedgerInv /\ PartsAreUses /\ PartsSettled

(* The lines that come back are lines of the same items, the other way.    *)
LEMMA ReturnedLines ==
    ASSUME NEW parts \in Seq(StockLine)
    PROVE  /\ Returned(parts) \in Seq(StockLine)
           /\ TakenBack(parts, Returned(parts))
           /\ \A k \in DOMAIN Returned(parts) : Returned(parts)[k].type = "reversal"
<1>1. DOMAIN parts = 1..Len(parts) /\ Len(parts) \in Nat
  OBVIOUS
<1>2. ASSUME NEW line \in StockLine
      PROVE  /\ [line EXCEPT !.qty = -@, !.type = "reversal"] \in StockLine
             /\ [line EXCEPT !.qty = -@, !.type = "reversal"].type = "reversal"
  <2>1. -line.qty \in Int /\ "reversal" \in MovementType
    BY DEF StockLine, MovementType
  <2> QED BY <2>1 DEF StockLine
<1>3. ASSUME NEW k \in DOMAIN parts
      PROVE  /\ Returned(parts)[k] \in StockLine
             /\ Returned(parts)[k].type = "reversal"
  <2>1. PICK line \in StockLine : line = parts[k]
    BY <1>1
  <2>2. Returned(parts)[k] = [line EXCEPT !.qty = -@, !.type = "reversal"]
    BY <2>1 DEF Returned
  <2> QED BY <1>2, <2>2
<1>4. DOMAIN Returned(parts) = 1..Len(parts)
  BY <1>1 DEF Returned
<1>5. TakenBack(parts, Returned(parts))
  BY DEF TakenBack, Returned
<1>6. Returned(parts) \in Seq(StockLine)
  <2>1. Returned(parts) = [k \in 1..Len(parts) |-> Returned(parts)[k]]
    BY <1>1 DEF Returned
  <2>2. PICK back : back = Returned(parts)
    OBVIOUS
  <2>3. /\ back = [k \in 1..Len(parts) |-> back[k]]
        /\ \A k \in 1..Len(parts) : back[k] \in StockLine
    BY <1>1, <1>3, <2>1, <2>2
  <2>4. back \in Seq(StockLine)
    BY <1>1, <2>3
  <2> QED BY <2>2, <2>4
<1> QED BY <1>1, <1>3, <1>4, <1>5, <1>6

(* The new rows move something for one invoice, and are of one type. *)
MovesFor(d, t, moves) ==
    \A e \in Documents, i \in Items, types \in {MovementType, {"repair_use"}} :
        Changes(ledger', e, i, types)
           = Changes(ledger, e, i, types) + (IF e = d /\ t \in types THEN moves[i] ELSE 0)

(* After such a move the invoice's new row agrees with the ledger. *)
Settles(d, rec, t, moves) ==
    \A i \in Items, net \in Int, used \in Int :
        PartsSay(invoice[d].status, net, used, Listed(d, i)) =>
           PartsSay(rec.status,
                    net + (IF t \in MovementType THEN moves[i] ELSE 0),
                    used + (IF t \in {"repair_use"} THEN moves[i] ELSE 0),
                    Moved(rec.parts, DOMAIN rec.parts, i, Warehouses))

(* The service moves an invoice's lines for that invoice alone.            *)
LEMMA ServiceMoves ==
    ASSUME LedgerInv, NEW d \in Documents, NEW lines \in Seq(StockLine), NEW t,
           \A k \in DOMAIN lines : lines[k].type = t, Service(d, lines),
           NEW moves, \A i \in Items : moves[i] = Moved(lines, DOMAIN lines, i, Warehouses)
    PROVE  LedgerInv' /\ MovesFor(d, t, moves)
<1>1. LedgerInv' /\ Adds(ledger, ledger', lines, d)
  BY PostLinesInv DEF Service
<1>2. PICK rows \in Seq(PostedRow), more \in Seq(PostedRow) : rows = ledger /\ more = ledger'
  BY <1>1 DEF LedgerInv, FiguresAdd
<1>3. ASSUME NEW e, NEW i, NEW types
      PROVE  Changes(more, e, i, types)
                = Changes(rows, e, i, types)
                  + (IF e = d /\ t \in types
                     THEN Moved(lines, DOMAIN lines, i, Warehouses) ELSE 0)
  BY <1>1, <1>2, ChangesAdd
<1> QED BY <1>1, <1>2, <1>3 DEF MovesFor

(* A step that writes one invoice's row and moves something for it.        *)
LEMMA RowSettles ==
    ASSUME InvoicesInv, PartsInv, LedgerInv', NEW d \in Documents, NEW rec \in InvoiceRow,
           invoice' = [invoice EXCEPT ![d] = rec],
           \A k \in DOMAIN rec.parts : rec.parts[k].type = "repair_use",
           NEW t, NEW moves,
           MovesFor(d, t, moves), Settles(d, rec, t, moves)
    PROVE  PartsInv'
<1>1. /\ invoice'[d] = rec
      /\ \A e \in Documents \ {d} : invoice'[e] = invoice[e]
  BY DEF InvoicesInv, InvoicesTypeOK
<1>2. PartsAreUses'
  BY <1>1 DEF PartsInv, PartsAreUses
<1>3. ASSUME NEW e \in Documents, NEW i \in Items
      PROVE  PartsSay(invoice'[e].status, Changes(ledger', e, i, MovementType),
                      Changes(ledger', e, i, {"repair_use"}), Listed(e, i)')
  <2>1. PICK net \in Int, used \in Int : /\ net = Changes(ledger, e, i, MovementType)
                                         /\ used = Changes(ledger, e, i, {"repair_use"})
    BY ChangesAreWhole DEF PartsInv, LedgerInv, FiguresAdd
  <2>2. PartsSay(invoice[e].status, net, used, Listed(e, i))
    BY <2>1 DEF PartsInv, PartsSettled
  <2>3. CASE e = d
    <3>1. /\ Changes(ledger', e, i, MovementType)
               = net + (IF t \in MovementType THEN moves[i] ELSE 0)
          /\ Changes(ledger', e, i, {"repair_use"})
               = used + (IF t \in {"repair_use"} THEN moves[i] ELSE 0)
      BY <2>1, <2>3 DEF MovesFor
    <3>2. Listed(e, i)' = Moved(rec.parts, DOMAIN rec.parts, i, Warehouses)
      BY <1>1, <2>3 DEF Listed
    <3> QED BY <1>1, <2>2, <2>3, <3>1, <3>2 DEF Settles
  <2>4. CASE e # d
    <3>1. /\ Changes(ledger', e, i, MovementType) = net + 0
          /\ Changes(ledger', e, i, {"repair_use"}) = used + 0
      BY <2>1, <2>4 DEF MovesFor
    <3>2. net + 0 = net /\ used + 0 = used
      OBVIOUS
    <3>3. Listed(e, i)' = Listed(e, i) /\ invoice'[e] = invoice[e]
      BY <1>1, <2>4 DEF Listed
    <3> QED BY <2>2, <3>1, <3>2, <3>3
  <2> QED BY <2>3, <2>4
<1> QED BY <1>2, <1>3 DEF PartsInv, PartsSettled

(* A step that writes one invoice's row and leaves the stock alone.        *)
LEMMA RowRests ==
    ASSUME InvoicesInv, PartsInv, UNCHANGED ledgerVars, NEW d \in Documents, NEW rec \in InvoiceRow,
           invoice' = [invoice EXCEPT ![d] = rec],
           \A k \in DOMAIN rec.parts : rec.parts[k].type = "repair_use",
           \A i \in Items, net \in Int, used \in Int :
              PartsSay(invoice[d].status, net, used, Listed(d, i)) =>
                 PartsSay(rec.status, net, used, Moved(rec.parts, DOMAIN rec.parts, i, Warehouses))
    PROVE  PartsInv'
<1>1. LedgerInv' /\ ledger' = ledger
  BY DEF PartsInv, LedgerInv, ledgerVars
<1>2. PICK moves : moves = [i \in Items |-> 0]
  OBVIOUS
<1>3. \A n \in Int : \A b \in BOOLEAN : n + (IF b THEN 0 ELSE 0) = n
  OBVIOUS
<1>4. MovesFor(d, "count", moves)
  <2> SUFFICES ASSUME NEW e \in Documents, NEW i \in Items,
                      NEW types \in {MovementType, {"repair_use"}}
               PROVE  Changes(ledger', e, i, types)
                         = Changes(ledger, e, i, types)
                           + (IF e = d /\ "count" \in types THEN moves[i] ELSE 0)
    BY DEF MovesFor
  <2>1. Changes(ledger, e, i, types) \in Int
    BY ChangesAreWhole DEF PartsInv, LedgerInv, FiguresAdd
  <2> QED BY <1>1, <1>2, <1>3, <2>1
<1>5. Settles(d, rec, "count", moves)
  BY <1>2, <1>3 DEF Settles
<1> QED BY <1>1, <1>4, <1>5, RowSettles

(* A change of status moves the parts that it should.                      *)
LEMMA ChangeStatusSettles ==
    ASSUME InvoicesInv, PartsInv, NEW d \in Documents, ChangeStatus(d)
    PROVE  PartsInv'
<1>1. PICK to \in RepairInvoiceStatus :
         /\ Allowed(invoice[d].status, to)
         /\ Service(d, Moves(invoice[d].status, to, invoice[d].parts))
         /\ invoice' = [invoice EXCEPT ![d] = [invoice[d] EXCEPT !.status = to,
                                                 !.paymentStatus = StatusAfter(invoice[d], to)]]
  BY DEF ChangeStatus
<1> DEFINE rec == [invoice[d] EXCEPT !.status = to,
                                     !.paymentStatus = StatusAfter(invoice[d], to)]
<1>2. PICK parts \in Seq(StockLine), from \in {invoice[d].status} : parts = invoice[d].parts /\ from = invoice[d].status
  BY DEF InvoicesInv, InvoicesTypeOK, InvoiceRow
<1>3. /\ rec \in InvoiceRow /\ rec.status = to /\ rec.parts = parts
      /\ \A k \in DOMAIN rec.parts : rec.parts[k].type = "repair_use"
      /\ invoice' = [invoice EXCEPT ![d] = rec]
  <2>1. invoice[d] \in InvoiceRow
    BY DEF InvoicesInv, InvoicesTypeOK
  <2>2. StatusAfter(invoice[d], to) \in {"pending", "partial", "paid", "cancelled"}
    BY <2>1 DEF StatusAfter, InvoiceRow
  <2>3. rec \in InvoiceRow /\ rec.status = to /\ rec.parts = parts
    BY <1>2, <2>1, <2>2 DEF InvoiceRow
  <2> HIDE DEF rec
  <2>4. \A k \in DOMAIN rec.parts : rec.parts[k].type = "repair_use"
    BY <1>2, <2>3 DEF PartsInv, PartsAreUses
  <2> QED BY <1>1, <2>3, <2>4 DEF rec
<1> HIDE DEF rec
<1> DEFINE of(i) == Moved(parts, DOMAIN parts, i, Warehouses)
<1>4. \A i \in Items : of(i) \in Int /\ Listed(d, i) = of(i)
                       /\ Moved(rec.parts, DOMAIN rec.parts, i, Warehouses) = of(i)
  BY <1>2, <1>3, ListMoves DEF Listed
<1> HIDE DEF of
<1>5. CASE from = "draft" /\ HoldsStock(to)
  <2>1. Moves(from, to, parts) = parts
    BY <1>5 DEF Moves
  <2>2. PICK moves : moves = [i \in Items |-> of(i)]
    OBVIOUS
  <2>3. LedgerInv' /\ MovesFor(d, "repair_use", moves)
    <3>1. \A i \in Items : moves[i] = Moved(parts, DOMAIN parts, i, Warehouses)
      BY <2>2 DEF of
    <3>2. Service(d, parts)
      BY <1>1, <1>2, <2>1
    <3> QED BY <1>3, <3>1, <3>2, ServiceMoves DEF PartsInv
  <2>4. Settles(d, rec, "repair_use", moves)
    BY <1>2, <1>3, <1>4, <1>5, <2>2 DEF Settles, PartsSay, MovementType, HoldsStock
  <2> QED BY <1>3, <2>3, <2>4, RowSettles
<1>6. CASE to = "cancelled" /\ HoldsStock(from)
  <2>1. Moves(from, to, parts) = Returned(parts) /\ from = "issued"
    BY <1>1, <1>2, <1>6 DEF Moves, HoldsStock, Allowed
  <2>2. PICK moves : moves = [i \in Items |-> -of(i)]
    OBVIOUS
  <2>3. PICK back \in Seq(StockLine) : back = Returned(parts)
    BY ReturnedLines
  <2>4. LedgerInv' /\ MovesFor(d, "reversal", moves)
    <3>1. \A i \in Items : moves[i] = Moved(back, DOMAIN back, i, Warehouses)
      BY <2>2, <2>3, ReturnedLines, TakenBackMoves DEF of
    <3>2. Service(d, back)
      BY <1>1, <1>2, <2>1, <2>3
    <3>3. \A k \in DOMAIN back : back[k].type = "reversal"
      BY <2>3, ReturnedLines
    <3> QED BY <3>1, <3>2, <3>3, ServiceMoves DEF PartsInv
  <2>5. Settles(d, rec, "reversal", moves)
    <3> SUFFICES ASSUME NEW i \in Items, NEW net \in Int, NEW used \in Int,
                        PartsSay("issued", net, used, of(i))
                 PROVE  PartsSay(rec.status, net + moves[i], used + 0, of(i))
      BY <1>2, <1>4, <2>1 DEF Settles, MovementType
    <3>1. net = of(i) /\ used = of(i) /\ of(i) \in Int /\ moves[i] = -of(i)
      BY <1>4, <2>2 DEF PartsSay
    <3>2. net + moves[i] = 0 /\ used + 0 = used
      BY <3>1
    <3> QED BY <1>3, <1>6, <3>1, <3>2 DEF PartsSay
  <2> QED BY <1>3, <2>4, <2>5, RowSettles
<1>7. CASE ~(from = "draft" /\ HoldsStock(to)) /\ ~(to = "cancelled" /\ HoldsStock(from))
  <2>1. Moves(from, to, parts) = <<>>
    BY <1>7 DEF Moves
  <2>2. PICK moves : moves = [i \in Items |-> 0]
    OBVIOUS
  <2>3. LedgerInv' /\ MovesFor(d, "reversal", moves)
    <3>1. DOMAIN <<>> = {} /\ <<>> \in Seq(StockLine)
      OBVIOUS
    <3>2. \A i \in Items : moves[i] = Moved(<<>>, DOMAIN <<>>, i, Warehouses)
      BY <2>2, <3>1, MovedNone
    <3>3. Service(d, <<>>)
      BY <1>1, <1>2, <2>1
    <3> QED BY <3>1, <3>2, <3>3, ServiceMoves DEF PartsInv
  <2>4. Settles(d, rec, "reversal", moves)
    BY <1>1, <1>2, <1>3, <1>4, <1>7, <2>2
       DEF Settles, PartsSay, MovementType, HoldsStock, Allowed, RepairInvoiceStatus
  <2> QED BY <1>3, <2>3, <2>4, RowSettles
<1> QED BY <1>5, <1>6, <1>7

(* A deletion brings back what the status says is out.                     *)
LEMMA RemoveSettles ==
    ASSUME InvoicesInv, PartsInv, NEW d \in Documents, RemoveInvoice(d)
    PROVE  PartsInv'
<1> DEFINE rec == [invoice[d] EXCEPT !.status = "deleted"]
<1>1. PICK parts \in Seq(StockLine), from \in {invoice[d].status} : parts = invoice[d].parts /\ from = invoice[d].status
  BY DEF InvoicesInv, InvoicesTypeOK, InvoiceRow
<1>2. /\ rec \in InvoiceRow /\ rec.status = "deleted" /\ rec.parts = parts
      /\ invoice' = [invoice EXCEPT ![d] = rec]
  BY <1>1 DEF RemoveInvoice, InvoicesInv, InvoicesTypeOK, InvoiceRow
<1> HIDE DEF rec
<1>3. PICK back \in Seq(StockLine) :
         /\ Service(d, back)
         /\ \A k \in DOMAIN back : back[k].type = "reversal"
  <2>1. DOMAIN <<>> = {} /\ <<>> \in Seq(StockLine)
    OBVIOUS
  <2>2. Returned(parts) \in Seq(StockLine)
        /\ \A k \in DOMAIN Returned(parts) : Returned(parts)[k].type = "reversal"
    BY ReturnedLines
  <2>3. Service(d, IF HoldsStock(from) THEN Returned(parts) ELSE <<>>)
    BY <1>1 DEF RemoveInvoice
  <2> QED BY <2>1, <2>2, <2>3
<1>4. PICK moves : moves = [i \in Items |-> Moved(back, DOMAIN back, i, Warehouses)]
  OBVIOUS
<1>5. LedgerInv' /\ MovesFor(d, "reversal", moves)
  <2>1. \A i \in Items : moves[i] = Moved(back, DOMAIN back, i, Warehouses)
    BY <1>4
  <2>2. LedgerInv /\ Service(d, back) /\ \A k \in DOMAIN back : back[k].type = "reversal"
    BY <1>3 DEF PartsInv
  <2> QED BY <2>1, <2>2, ServiceMoves
<1>6. /\ \A k \in DOMAIN rec.parts : rec.parts[k].type = "repair_use"
      /\ \A i \in Items : Listed(d, i) = Moved(rec.parts, DOMAIN rec.parts, i, Warehouses)
  BY <1>1, <1>2 DEF PartsInv, PartsAreUses, Listed
<1>7. Settles(d, rec, "reversal", moves)
  BY <1>2, <1>6 DEF Settles, PartsSay
<1> QED BY <1>2, <1>5, <1>6, <1>7, RowSettles

(* No handler and no payment leaves an invoice whose parts are elsewhere   *)
(* than its status says.                                                   *)
LEMMA PartsNextInv == InvoicesInv /\ PartsInv /\ [Next]_vars => PartsInv'
<1> SUFFICES ASSUME InvoicesInv, PartsInv, [Next]_vars PROVE PartsInv'
  OBVIOUS
<1>1. ASSUME NEW d \in Documents, CreateDraft(d) \/ UpdateDraft(d) PROVE PartsInv'
  <2>1. ASSUME NEW parts \in PartLists, NEW t \in Totals
        PROVE  /\ parts \in Seq(StockLine) /\ t \in Nat
               /\ \A k \in DOMAIN parts : parts[k].type = "repair_use"
    <3> DEFINE Uses == {l \in StockLine : l.type = "repair_use"}
    <3>1. parts \in Seq(Uses) /\ \A l \in Uses : l \in StockLine /\ l.type = "repair_use"
      BY RepairAssumption
    <3> HIDE DEF Uses
    <3>2. parts \in Seq(StockLine) /\ \A k \in DOMAIN parts : parts[k] \in Uses
      BY <3>1
    <3> QED BY <3>1, <3>2, RepairAssumption
  <2>2. PICK parts \in PartLists, t \in Totals :
           /\ invoice' = [invoice EXCEPT ![d] = [invoice[d] EXCEPT
                             !.status = "draft", !.parts = parts, !.total = t]]
           /\ invoice[d].status \in {"none", "draft"} /\ UNCHANGED ledgerVars
    <3>1. invoice \in [Documents -> InvoiceRow] /\ invoice[d] \in InvoiceRow
      BY DEF InvoicesInv, InvoicesTypeOK
    <3>2. CASE CreateDraft(d)
      <4>1. PICK parts \in PartLists, t \in Totals :
               invoice' = [invoice EXCEPT ![d].status = "draft", ![d].parts = parts,
                                          ![d].total = t]
        BY <3>2 DEF CreateDraft
      <4>2. invoice[d].status = "none" /\ UNCHANGED ledgerVars
        BY <3>2 DEF CreateDraft
      <4>3. invoice' = [invoice EXCEPT ![d] = [invoice[d] EXCEPT
                           !.status = "draft", !.parts = parts, !.total = t]]
        BY <3>1, <4>1
      <4> QED BY <4>2, <4>3
    <3>3. CASE UpdateDraft(d)
      <4>1. PICK parts \in PartLists, t \in Totals :
               invoice' = [invoice EXCEPT ![d].parts = parts, ![d].total = t]
        BY <3>3 DEF UpdateDraft
      <4>2. invoice[d].status = "draft" /\ UNCHANGED ledgerVars
        BY <3>3 DEF UpdateDraft
      <4>3. invoice' = [invoice EXCEPT ![d] = [invoice[d] EXCEPT !.parts = parts, !.total = t]]
        BY <3>1, <4>1
      <4>4. [invoice[d] EXCEPT !.parts = parts, !.total = t]
              = [invoice[d] EXCEPT !.status = "draft", !.parts = parts, !.total = t]
        BY <3>1, <4>2 DEF InvoiceRow
      <4> QED BY <4>2, <4>3, <4>4
    <3> QED BY <1>1, <3>2, <3>3
  <2> DEFINE rec == [invoice[d] EXCEPT !.status = "draft", !.parts = parts, !.total = t]
  <2>3. rec \in InvoiceRow /\ rec.status = "draft" /\ rec.parts = parts
    BY <2>1 DEF InvoicesInv, InvoicesTypeOK, InvoiceRow, RepairInvoiceStatus
  <2>4. invoice' = [invoice EXCEPT ![d] = rec]
    BY <2>2
  <2> HIDE DEF rec
  <2>5. \A i \in Items, net \in Int, used \in Int :
           PartsSay(invoice[d].status, net, used, Listed(d, i)) =>
              PartsSay(rec.status, net, used, Moved(rec.parts, DOMAIN rec.parts, i, Warehouses))
    BY <2>2, <2>3 DEF PartsSay
  <2> QED BY <2>1, <2>2, <2>3, <2>4, <2>5, RowRests
<1>2. ASSUME NEW c \in Cashiers, WritePayment(c) PROVE PartsInv'
  <2> DEFINE p == payment[c]
             d == p.invoice
             rec == [invoice[d] EXCEPT
                        !.paid = p.newPaid,
                        !.paymentStatus = IF p.fullyPaid THEN "paid" ELSE "partial",
                        !.status = IF p.fullyPaid THEN "paid" ELSE @]
  <2>1. /\ p # NoPayment /\ invoice[d].status \in RepairInvoiceStatus
        /\ invoice' = [invoice EXCEPT ![d] = rec] /\ UNCHANGED ledgerVars
    BY <1>2 DEF WritePayment
  <2>2. d \in Documents
    BY <2>1 DEF InvoicesInv, PaymentsInHand
  <2>3. p.newPaid \in Nat /\ p.fullyPaid \in BOOLEAN /\ invoice[d] \in InvoiceRow
    BY <2>2 DEF InvoicesInv, InvoicesTypeOK, PaymentCall
  <2>4. /\ rec \in InvoiceRow /\ rec.parts = invoice[d].parts
        /\ rec.status \in {"paid", invoice[d].status}
    BY <2>3 DEF InvoiceRow, RepairInvoiceStatus
  <2> HIDE DEF rec, d, p
  <2>5. /\ \A k \in DOMAIN rec.parts : rec.parts[k].type = "repair_use"
        /\ \A i \in Items : Listed(d, i) = Moved(rec.parts, DOMAIN rec.parts, i, Warehouses)
    BY <2>2, <2>4 DEF PartsInv, PartsAreUses, Listed
  <2>6. \A i \in Items, net \in Int, used \in Int :
           PartsSay(invoice[d].status, net, used, Listed(d, i)) =>
              PartsSay(rec.status, net, used, Moved(rec.parts, DOMAIN rec.parts, i, Warehouses))
    BY <2>4, <2>5 DEF PartsSay
  <2> QED BY <2>1, <2>2, <2>4, <2>5, <2>6, RowRests
<1>3. CASE UNCHANGED <<ledgerVars, invoice>>
  BY <1>3 DEF ledgerVars, PartsInv, LedgerInv, PartsAreUses, PartsSettled, Listed
<1>4. ASSUME NEW c \in Cashiers, (\E d \in Documents : ReadForPayment(c, d)) \/ PaymentFails(c)
      PROVE  PartsInv'
  BY <1>3, <1>4 DEF ReadForPayment, PaymentFails
<1>5. CASE UNCHANGED vars
  BY <1>3, <1>5 DEF vars, repairVars
<1> QED BY <1>1, <1>2, <1>4, <1>5, ChangeStatusSettles, RemoveSettles DEF Next

(* What the ledger has of each invoice's parts, by its status.             *)
THEOREM PartsInvariant == Spec => []PartsInv
<1>1. Init => PartsInv
  <2> SUFFICES ASSUME Init PROVE PartsInv
    OBVIOUS
  <2>1. /\ LedgerInv /\ ledger = <<>>
        /\ \A d \in Documents : invoice[d].parts = <<>> /\ invoice[d].status = "none"
    BY LedgerInitInv DEF Init, RepairInit, LedgerInit
  <2>2. DOMAIN <<>> = {}
    OBVIOUS
  <2>3. ASSUME NEW d \in Documents, NEW i \in Items, NEW types
        PROVE  Changes(ledger, d, i, types) = 0 /\ Listed(d, i) = 0
    <3>1. Listed(d, i) = 0
      BY <2>1, <2>2, MovedNone DEF Listed
    <3>2. Theirs(ledger, d, i, types) = {}
      BY <2>1, <2>2 DEF Theirs
    <3> QED BY <3>1, <3>2, SumEmpty DEF Changes
  <2>4. PartsSettled
    BY <2>1, <2>3 DEF PartsSettled, PartsSay
  <2> QED BY <2>1, <2>2, <2>4 DEF PartsInv, PartsAreUses
<1> QED BY <1>1, PartsNextInv, InvoicesInvariant, PTL DEF Spec

(* A draft or cancelled invoice has moved nothing on balance, an issued    *)
(* one exactly the parts it lists, and none has taken its parts twice, for *)
(* any invoices, part lists, payments and orders of the handlers.          *)
THEOREM InvoicePartsMatchStatus == Spec => []PartsMatchStatus
<1>1. PartsInv => PartsMatchStatus
  BY PartsMovedIsSum
     DEF PartsInv, LedgerInv, FiguresAdd, PartsSettled, PartsSay, PartsMatchStatus
<1> QED BY <1>1, PartsInvariant, PTL

(* The stock of the repair shop can be told from its ledger, whatever      *)
(* invoices take and bring back.                                           *)
THEOREM InvoiceStockIsLedger == Spec => []StockIsLedger
<1>1. PartsInv => StockIsLedger
  BY InvIsLedger DEF PartsInv
<1> QED BY <1>1, PartsInvariant, PTL

(* Each handler of an invoice is one post of the abstract ledger, or moves *)
(* nothing.                                                                *)
THEOREM InvoicesPostToLedger == Spec => LedgerSpec
<1>1. Init => LedgerInit
  BY DEF Init
<1>2. InvoicesInv /\ PartsInv /\ [Next]_vars => [Post]_ledgerVars
  <2> SUFFICES ASSUME InvoicesInv, PartsInv, [Next]_vars, ~(UNCHANGED ledgerVars)
               PROVE  Post
    OBVIOUS
  <2>1. PICK d \in Documents : ChangeStatus(d) \/ RemoveInvoice(d)
    BY DEF Next, CreateDraft, UpdateDraft, ReadForPayment, WritePayment, PaymentFails, vars
  <2>2. PICK parts \in Seq(StockLine) : parts = invoice[d].parts
    BY DEF InvoicesInv, InvoicesTypeOK, InvoiceRow
  <2>3. PICK lines \in Seq(StockLine) : Service(d, lines)
    <3>1. parts \in Seq(StockLine) /\ Returned(parts) \in Seq(StockLine) /\ <<>> \in Seq(StockLine)
      BY ReturnedLines
    <3>2. \E x \in {parts, Returned(parts), <<>>} : Service(d, x)
      BY <2>1, <2>2 DEF ChangeStatus, RemoveInvoice, Moves
    <3> QED BY <3>1, <3>2
  <2> QED BY <2>3, PostLinesPosts DEF Service, PartsInv
<1> QED BY <1>1, <1>2, InvoicesInvariant, PartsInvariant, PTL DEF Spec, LedgerSpec

-----------------------------------------------------------------------------
(* The requests that have saved the status and still owe a message of k. *)
Owing(k) == {d \in Desks : desk[d].pc = "saved" /\ k \in Notification(desk[d].from, desk[d].to)}

DesksTypeOK ==
    /\ status \in Statuses \cup {"gone"}
    /\ stamps \in Nat
    /\ desk \in [Desks -> [pc : {"free", "read", "saved"}, from : Statuses,
                           to : Statuses \cup {"same"}, dated : BOOLEAN]]
    /\ told \in [Kinds -> Nat] /\ moved \in [Kinds -> Nat]
    /\ interleaved \in BOOLEAN
    /\ \A k \in Kinds : IsFiniteSet(Owing(k))

(* One request reads at a time, and what it read is so until it writes. *)
ReadIsSo ==
    ~interleaved =>
        \A d \in Desks : desk[d].pc = "read" =>
            /\ status \in {desk[d].from, "gone"}
            /\ \A o \in Desks : desk[o].pc = "read" => o = d

(* Every message that was sent or is owed had a move of its own, and so    *)
(* had every date of hand-over.                                            *)
MovesCoverMessages ==
    ~interleaved =>
        /\ \A k \in Kinds : told[k] + Cardinality(Owing(k)) <= moved[k]
        /\ stamps <= moved["delivered"]

DeskInv == DesksTypeOK /\ ReadIsSo /\ MovesCoverMessages

(* Nobody owes a message yet. *)
LEMMA DevicesInitInv == DevicesInit => DeskInv
<1> SUFFICES ASSUME DevicesInit PROVE DeskInv
  OBVIOUS
<1>1. \A k \in Kinds : Owing(k) = {}
  BY DEF DevicesInit, Owing, Free
<1>2. \A k \in Kinds : IsFiniteSet(Owing(k)) /\ Cardinality(Owing(k)) = 0
  BY <1>1, FS_EmptySet
<1>3. DesksTypeOK
  BY <1>2 DEF DevicesInit, DesksTypeOK, Free, Statuses, Kinds
<1>4. ReadIsSo
  BY DEF DevicesInit, ReadIsSo, Free
<1>5. MovesCoverMessages
  BY <1>2 DEF DevicesInit, MovesCoverMessages, Kinds
<1> QED BY <1>3, <1>4, <1>5 DEF DeskInv

(* A request that owed a message, or owed none, owes none any more. *)
LEMMA DebtSettled ==
    ASSUME DeskInv, NEW d \in Desks, NEW k \in Kinds, desk' = [desk EXCEPT ![d] = Free]
    PROVE  /\ IsFiniteSet(Owing(k)')
           /\ Owing(k)' = Owing(k) \ {d}
           /\ Cardinality(Owing(k)') =
                 IF d \in Owing(k) THEN Cardinality(Owing(k)) - 1 ELSE Cardinality(Owing(k))
<1>1. Owing(k)' = Owing(k) \ {d}
  BY DEF DeskInv, DesksTypeOK, Owing, Free
<1>2. IsFiniteSet(Owing(k))
  BY DEF DeskInv, DesksTypeOK
<1> DEFINE owing == Owing(k)
<1>3. PICK others : others = owing
  OBVIOUS
<1>4. /\ IsFiniteSet(others \ {d})
      /\ Cardinality(others \ {d}) =
            IF d \in others THEN Cardinality(others) - 1 ELSE Cardinality(others)
  <2>1. IsFiniteSet(others)
    BY <1>2, <1>3
  <2> QED BY <2>1, FS_RemoveElement
<1> QED BY <1>1, <1>3, <1>4

(* Each step of the desks keeps their invariant. *)
LEMMA DevicesNextInv == DeskInv /\ [DevicesNext]_deviceVars => DeskInv'
<1> SUFFICES ASSUME DeskInv, [DevicesNext]_deviceVars PROVE DeskInv'
  OBVIOUS
<1>t. /\ DesksTypeOK /\ "delivered" \in Kinds
      /\ \A k \in Kinds : IsFiniteSet(Owing(k)) /\ Cardinality(Owing(k)) \in Nat
  BY FS_CardinalityType DEF DeskInv, DesksTypeOK, Kinds
<1>1. ASSUME NEW d \in Desks, NEW to \in Statuses \cup {"same"}, NEW dated \in BOOLEAN,
             ReadStatus(d, to, dated)
      PROVE  DeskInv'
  <2>1. \A k \in Kinds : Owing(k)' = Owing(k)
    BY <1>t, <1>1 DEF ReadStatus, DesksTypeOK, Owing
  <2>2. DesksTypeOK'
    BY <1>t, <1>1, <2>1 DEF ReadStatus, DesksTypeOK
  <2>3. ReadIsSo'
    BY <1>t, <1>1 DEF ReadStatus, DesksTypeOK, DeskInv, ReadIsSo
  <2>4. MovesCoverMessages'
    BY <1>t, <1>1, <2>1 DEF ReadStatus, DesksTypeOK, DeskInv, MovesCoverMessages
  <2> QED BY <2>2, <2>3, <2>4 DEF DeskInv
<1>2. ASSUME NEW d \in Desks, WriteDevice(d) PROVE DeskInv'
  <2>1. CASE status = "gone"
    <3>1. desk[d].pc = "read" /\ desk' = [desk EXCEPT ![d] = Free]
          /\ UNCHANGED <<status, stamps, moved, told, interleaved>>
      BY <1>2, <2>1 DEF WriteDevice, Leaves
    <3>2. \A k \in Kinds : Owing(k)' = Owing(k)
      BY <1>t, <3>1 DEF DesksTypeOK, Owing, Free
    <3>3. DesksTypeOK'
      BY <1>t, <3>1, <3>2 DEF DesksTypeOK, Free, Statuses
    <3>4. ReadIsSo' /\ MovesCoverMessages'
      BY <1>t, <3>1, <3>2 DEF DesksTypeOK, DeskInv, ReadIsSo, MovesCoverMessages, Free
    <3> QED BY <3>3, <3>4 DEF DeskInv
  <2>2. CASE status # "gone"
    <3> DEFINE new == Written(d)
    <3>1. /\ desk[d].pc = "read"
          /\ status' = new
          /\ stamps' = IF HandsOver(d) THEN stamps + 1 ELSE stamps
          /\ moved' = [k \in Kinds |-> IF new = k /\ status # k THEN moved[k] + 1 ELSE moved[k]]
          /\ desk' = [desk EXCEPT ![d].pc = "saved", ![d].to = new]
          /\ UNCHANGED <<told, interleaved>>
      BY <1>2, <2>2 DEF WriteDevice
    <3>2. new \in Statuses /\ (desk[d].to = "same" => new = status)
      BY <1>t, <2>2 DEF DesksTypeOK, Written, Statuses
    <3> HIDE DEF new
    <3>3. ASSUME NEW k \in Kinds
          PROVE  /\ Owing(k)' = IF k \in Notification(desk[d].from, new)
                                THEN Owing(k) \cup {d} ELSE Owing(k)
                 /\ d \notin Owing(k)
      <4>1. \A o \in Desks \ {d} : desk'[o] = desk[o]
        BY <1>t, <3>1 DEF DesksTypeOK
      <4>2. desk'[d].pc = "saved" /\ desk'[d].from = desk[d].from /\ desk'[d].to = new
        BY <1>t, <3>1 DEF DesksTypeOK
      <4> QED BY <4>1, <4>2, <3>1 DEF Owing
    <3>4. ASSUME NEW k \in Kinds
          PROVE  /\ IsFiniteSet(Owing(k)')
                 /\ Cardinality(Owing(k)') = IF k \in Notification(desk[d].from, new)
                                             THEN Cardinality(Owing(k)) + 1 ELSE Cardinality(Owing(k))
      BY <1>t, <3>3, FS_AddElement
    <3>5. DesksTypeOK'
      <4>1. desk' \in [Desks -> [pc : {"free", "read", "saved"}, from : Statuses,
                                 to : Statuses \cup {"same"}, dated : BOOLEAN]]
        BY <1>t, <3>1, <3>2 DEF DesksTypeOK
      <4>2. moved' \in [Kinds -> Nat] /\ stamps' \in Nat
        BY <1>t, <3>1 DEF DesksTypeOK
      <4> QED BY <1>t, <3>1, <3>2, <3>4, <4>1, <4>2 DEF DesksTypeOK
    <3>6. ReadIsSo'
      BY <1>t, <3>1 DEF DesksTypeOK, DeskInv, ReadIsSo
    <3>7. ASSUME ~interleaved
          PROVE  /\ \A k \in Kinds : told'[k] + Cardinality(Owing(k)') <= moved'[k]
                 /\ stamps' <= moved'["delivered"]
      <4>1. status = desk[d].from
        BY <2>2, <3>1, <3>7 DEF DeskInv, ReadIsSo
      <4>2. ASSUME NEW k \in Kinds
            PROVE  told'[k] + Cardinality(Owing(k)') <= moved'[k]
        <5>1. told[k] + Cardinality(Owing(k)) <= moved[k] /\ told[k] \in Nat /\ moved[k] \in Nat
          BY <1>t, <3>7 DEF DesksTypeOK, DeskInv, MovesCoverMessages
        <5>2. k \in Notification(desk[d].from, new) => new = k /\ status # k
          BY <4>1 DEF Notification
        <5> QED BY <1>t, <3>1, <3>4, <5>1, <5>2
      <4>3. stamps' <= moved'["delivered"]
        <5>1. HandsOver(d) => new = "delivered" /\ status # "delivered"
          BY <4>1 DEF HandsOver, Written, new
        <5>2. stamps <= moved["delivered"] /\ stamps \in Nat /\ moved["delivered"] \in Nat
          BY <1>t, <3>7 DEF DesksTypeOK, DeskInv, MovesCoverMessages
        <5> QED BY <1>t, <3>1, <5>1, <5>2
      <4> QED BY <4>2, <4>3
    <3>8. MovesCoverMessages'
      BY <3>1, <3>7 DEF MovesCoverMessages
    <3> QED BY <3>5, <3>6, <3>8 DEF DeskInv
  <2> QED BY <2>1, <2>2
<1>3. ASSUME NEW d \in Desks, NotifyIfAsked(d) PROVE DeskInv'
  <2>1. /\ desk[d].pc = "saved" /\ desk' = [desk EXCEPT ![d] = Free]
        /\ UNCHANGED <<status, stamps, moved, interleaved>>
    BY <1>3 DEF NotifyIfAsked, Leaves
  <2>2. PICK asked \in BOOLEAN :
          told' = [k \in Kinds |->
             IF asked /\ k \in Notification(desk[d].from, desk[d].to) THEN told[k] + 1 ELSE told[k]]
    BY <1>3 DEF NotifyIfAsked
  <2>3. \A k \in Kinds : k \in Notification(desk[d].from, desk[d].to) <=> d \in Owing(k)
    BY <2>1 DEF Owing
  <2>4. DesksTypeOK'
    <3>1. told' \in [Kinds -> Nat]
      BY <1>t, <2>2 DEF DesksTypeOK
    <3>2. Free \in [pc : {"free", "read", "saved"}, from : Statuses,
                   to : Statuses \cup {"same"}, dated : BOOLEAN]
      BY DEF Free, Statuses
    <3>3. \A k \in Kinds : IsFiniteSet(Owing(k)')
      BY <2>1, DebtSettled
    <3> QED BY <1>t, <2>1, <3>1, <3>2, <3>3 DEF DesksTypeOK
  <2>5. ReadIsSo'
    BY <1>t, <2>1 DEF DesksTypeOK, DeskInv, ReadIsSo, Free
  <2>6. MovesCoverMessages'
    <3>1. ASSUME ~interleaved, NEW k \in Kinds
          PROVE  told'[k] + Cardinality(Owing(k)') <= moved'[k]
      <4>1. told[k] + Cardinality(Owing(k)) <= moved[k] /\ told[k] \in Nat /\ moved[k] \in Nat
        BY <1>t, <3>1 DEF DesksTypeOK, DeskInv, MovesCoverMessages
      <4>2. /\ d \in Owing(k) => Cardinality(Owing(k)') = Cardinality(Owing(k)) - 1
            /\ d \notin Owing(k) => Cardinality(Owing(k)') = Cardinality(Owing(k))
        BY <2>1, DebtSettled
      <4>3. told'[k] = told[k] \/ (d \in Owing(k) /\ told'[k] = told[k] + 1)
        BY <2>2, <2>3
      <4> QED BY <1>t, <2>1, <4>1, <4>2, <4>3
    <3> QED BY <2>1, <3>1 DEF DeskInv, MovesCoverMessages
  <2> QED BY <2>4, <2>5, <2>6 DEF DeskInv
<1>4. ASSUME NEW d \in Desks, DeskDies(d) PROVE DeskInv'
  <2>1. desk' = [desk EXCEPT ![d] = Free] /\ UNCHANGED <<status, stamps, told, moved, interleaved>>
    BY <1>4 DEF DeskDies, Leaves
  <2>2. DesksTypeOK'
    BY <1>t, <2>1, DebtSettled DEF DesksTypeOK, Free, Statuses
  <2>3. ReadIsSo'
    BY <1>t, <2>1 DEF DesksTypeOK, DeskInv, ReadIsSo, Free
  <2>4. \A k \in Kinds : Cardinality(Owing(k)') <= Cardinality(Owing(k))
                         /\ Cardinality(Owing(k)') \in Nat
    <3> TAKE k \in Kinds
    <3>1. Cardinality(Owing(k)') =
             IF d \in Owing(k) THEN Cardinality(Owing(k)) - 1 ELSE Cardinality(Owing(k))
      BY <2>1, DebtSettled
    <3>2. Cardinality(Owing(k)') \in Nat
      BY <2>1, DebtSettled, FS_CardinalityType
    <3> QED BY <1>t, <3>1, <3>2
  <2>5. MovesCoverMessages'
    BY <1>t, <2>1, <2>4 DEF DesksTypeOK, DeskInv, MovesCoverMessages
  <2> QED BY <2>2, <2>3, <2>5 DEF DeskInv
<1>5. CASE RemoveRow
  <2>1. \A k \in Kinds : Owing(k)' = Owing(k)
    BY <1>5 DEF RemoveRow, Owing
  <2> QED BY <1>t, <1>5, <2>1
          DEF RemoveRow, DesksTypeOK, DeskInv, ReadIsSo, MovesCoverMessages
<1>6. CASE UNCHANGED deviceVars
  <2>1. \A k \in Kinds : Owing(k)' = Owing(k)
    BY <1>6 DEF deviceVars, Owing
  <2> QED BY <1>t, <1>6, <2>1
          DEF deviceVars, DesksTypeOK, DeskInv, ReadIsSo, MovesCoverMessages
<1> QED BY <1>1, <1>2, <1>3, <1>4, <1>5, <1>6 DEF DevicesNext

(* What each request read and what it still owes, for any number of them.  *)
THEOREM DeskInvariant == DevicesSpec => []DeskInv
BY DevicesInitInv, DevicesNextInv, PTL DEF DevicesSpec

(* A customer hears no more often of a status than the device came to it.  *)
THEOREM DeviceToldOncePerMove == DevicesSpec => []ToldOncePerMove
<1>1. DeskInv => ToldOncePerMove
  <2> SUFFICES ASSUME DeskInv, ~interleaved, NEW k \in Kinds PROVE told[k] <= moved[k]
    BY DEF ToldOncePerMove, DeskInv, MovesCoverMessages
  <2>1. Cardinality(Owing(k)) \in Nat /\ told[k] \in Nat /\ moved[k] \in Nat
    BY FS_CardinalityType DEF DeskInv, DesksTypeOK
  <2>2. told[k] + Cardinality(Owing(k)) <= moved[k]
    BY DEF DeskInv, MovesCoverMessages
  <2> QED BY <2>1, <2>2
<1> QED BY <1>1, DeskInvariant, PTL
-----------------------------------------------------------------------------
ExportsTypeOK ==
    /\ export \in [Exports -> ExportRow]
    /\ build \in [Exports -> {"off", "building", "stored", "caught"}]
    /\ archive \in SUBSET Exports
    /\ ask \in [Askers -> [pc : {"idle", "clear", "removing", "dropped"},
                          of : Exports \cup {NoExport}, filepath : BOOLEAN]]
    /\ halted \in BOOLEAN

(* A build runs once, for a row that was pending when it began, and what   *)
(* it has stored is there until its row names it.                          *)
BuildComesFirst ==
    \A e \in Exports :
        /\ build[e] # "off" => export[e].status # "none" /\ ~export[e].filepath
        /\ build[e] = "stored" => e \in archive
        /\ export[e].status \in {"none", "removed"} => ~export[e].filepath
        /\ export[e].status = "ready" => build[e] = "off"

(* A request that is about to delete a zip has a row in hand whose build   *)
(* is over, and only such a request has a row in hand.                     *)
AskedRows ==
    \A r \in Askers :
        /\ ask[r].pc \in {"idle", "clear"} => ask[r].of = NoExport
        /\ ask[r].pc \in {"removing", "dropped"} =>
              ask[r].of \in Exports /\ export[ask[r].of].status # "none"
        /\ ask[r].filepath => ask[r].of \in Exports /\ build[ask[r].of] = "off"

ExportInv == ExportsTypeOK /\ BuildComesFirst /\ AskedRows /\ ReadyHasArchive

(* At first nothing is exported and no request has an archive in hand. *)
LEMMA ExportsInitInv == ExportsInit => ExportInv
<1> SUFFICES ASSUME ExportsInit PROVE ExportInv
  OBVIOUS
<1>1. ExportsTypeOK
  BY DEF ExportsInit, ExportsTypeOK, ExportRow
<1>2. BuildComesFirst /\ AskedRows /\ ReadyHasArchive
  BY DEF ExportsInit, BuildComesFirst, AskedRows, ReadyHasArchive
<1> QED BY <1>1, <1>2 DEF ExportInv

(* A row that gets old is a row. *)
LEMMA ExportAges == \A x \in ExportRow : [x EXCEPT !.old = TRUE] \in ExportRow
BY DEF ExportRow

(* Each step of the requests and the builds keeps the exports' invariant.  *)
LEMMA ExportsNextInv == ExportInv /\ [ExportsNext]_exportVars => ExportInv'
<1> SUFFICES ASSUME ExportInv, [ExportsNext]_exportVars PROVE ExportInv'
  OBVIOUS
<1> USE ExportsAssumption
    DEF ExportInv, ExportsTypeOK, ExportRow, BuildComesFirst, AskedRows, ReadyHasArchive
<1>1. ASSUME NEW r \in Askers, LookForRunning(r) PROVE ExportInv'
  BY <1>1 DEF LookForRunning, Asking
<1>2. ASSUME NEW r \in Askers, NEW e \in Exports, MakeExport(r, e) PROVE ExportInv'
  <2>1. /\ export[e].status = "none" /\ UNCHANGED <<archive, halted>>
        /\ export' = [export EXCEPT ![e].status = "pending"]
        /\ build' = [build EXCEPT ![e] = "building"]
        /\ ask' = [ask EXCEPT ![r] = [pc |-> "idle", of |-> NoExport, filepath |-> FALSE]]
    BY <1>2 DEF MakeExport, Answers
  <2>2. ExportsTypeOK'
    BY <2>1
  <2>3. BuildComesFirst'
    BY <2>1
  <2>a. /\ export'[e].status = "pending" /\ \A x \in Exports \ {e} : export'[x] = export[x]
        /\ ask[r].of = NoExport /\ \A q \in Askers : ask'[q].of = ask[q].of
    BY <1>2, <2>1 DEF MakeExport, Asking
  <2>4. ReadyHasArchive'
    BY <2>1, <2>a
  <2>5. \A q \in Askers : ask[q].filepath => ask[q].of # e
    BY <2>1
  <2>6. AskedRows'
    BY <2>1, <2>5
  <2> QED BY <2>2, <2>3, <2>4, <2>6
<1>3. ASSUME NEW e \in Exports, StoreArchive(e) PROVE ExportInv'
  BY <1>3 DEF StoreArchive, Builds
<1>4. ASSUME NEW e \in Exports, MarkReady(e) PROVE ExportInv'
  BY <1>4 DEF MarkReady, Builds, InTable
<1>5. ASSUME NEW e \in Exports, MarkFailed(e) PROVE ExportInv'
  <2>1. /\ build[e] = "caught" /\ build' = [build EXCEPT ![e] = "off"]
        /\ UNCHANGED <<archive, ask, halted>>
        /\ \/ export' = [export EXCEPT ![e].status = "failed"] /\ InTable(e)
           \/ export' = export
    BY <1>5 DEF MarkFailed, Builds
  <2>2. ExportsTypeOK' /\ BuildComesFirst'
    BY <2>1 DEF InTable
  <2>3. AskedRows' /\ ReadyHasArchive'
    BY <2>1 DEF InTable
  <2> QED BY <2>2, <2>3
<1>6. ASSUME NEW r \in Askers, NEW e \in Exports, ReadExport(r, e) PROVE ExportInv'
  BY <1>6 DEF ReadExport, Asking, InTable
<1>7. ASSUME NEW r \in Askers, DropArchive(r) PROVE ExportInv'
  BY <1>7 DEF DropArchive, Asking
<1>8. ASSUME NEW r \in Askers, DropExport(r) PROVE ExportInv'
  <2> DEFINE gone == [status |-> "removed", filepath |-> FALSE, old |-> FALSE]
             free == [pc |-> "idle", of |-> NoExport, filepath |-> FALSE]
  <2>1. /\ ask[r].pc = "dropped" /\ ask' = [ask EXCEPT ![r] = free]
        /\ UNCHANGED <<build, archive>>
        /\ \/ export' = [export EXCEPT ![ask[r].of] = gone] /\ halted' = halted
           \/ export' = export /\ halted' = TRUE
    BY <1>8 DEF DropExport, Asking, Answers
  <2>2. ask[r].of \in Exports /\ export[ask[r].of].status # "none"
    BY <2>1
  <2>3. gone \in ExportRow /\ gone.status = "removed" /\ ~gone.filepath
    OBVIOUS
  <2>4. /\ ask' \in [Askers -> [pc : {"idle", "clear", "removing", "dropped"},
                               of : Exports \cup {NoExport}, filepath : BOOLEAN]]
        /\ ask'[r].pc = "idle" /\ ask'[r].of = NoExport /\ ~ask'[r].filepath
        /\ \A q \in Askers \ {r} : ask'[q] = ask[q]
    BY <2>1
  <2> HIDE DEF gone, free
  <2>5. ExportsTypeOK'
    <3> HIDE DEF ExportRow
    <3>1. export' \in [Exports -> ExportRow]
      BY <2>1, <2>2, <2>3
    <3> QED BY <2>1, <2>4, <3>1
  <2>8. BuildComesFirst'
    BY <2>1, <2>2, <2>3
  <2>6. AskedRows'
    BY <2>1, <2>2, <2>3, <2>4
  <2>7. ReadyHasArchive'
    BY <2>1, <2>2, <2>3, <2>4
  <2> QED BY <2>5, <2>6, <2>7, <2>8
<1>9. ASSUME NEW e \in Exports, GetsOld(e) PROVE ExportInv'
  <2>1. /\ export[e].status = "pending" /\ export' = [export EXCEPT ![e].old = TRUE]
        /\ UNCHANGED <<build, archive, ask, halted>>
    BY <1>9 DEF GetsOld
  <2>2. /\ export' \in [Exports -> ExportRow]
        /\ \A x \in Exports : /\ export'[x].status = export[x].status
                            /\ export'[x].filepath = export[x].filepath
    <3>1. [export[e] EXCEPT !.old = TRUE] \in ExportRow
      BY ExportAges
    <3>2. export' = [export EXCEPT ![e] = [export[e] EXCEPT !.old = TRUE]]
      BY <2>1
    <3>3. \A x \in Exports : /\ export'[x].status = export[x].status
                            /\ export'[x].filepath = export[x].filepath
      BY <3>2
    <3> HIDE DEF ExportRow
    <3> QED BY <3>1, <3>2, <3>3
  <2>4. ExportsTypeOK'
    BY <2>1, <2>2
  <2>5. BuildComesFirst'
    BY <2>1, <2>2
  <2>3. AskedRows' /\ ReadyHasArchive'
    BY <2>1
  <2> QED BY <2>3, <2>4, <2>5
<1>10. CASE ProcessDies
  BY <1>10 DEF ProcessDies
<1>11. CASE UNCHANGED exportVars
  BY <1>11 DEF exportVars
<1> QED BY <1>1, <1>2, <1>3, <1>4, <1>5, <1>6, <1>7, <1>8, <1>9, <1>10, <1>11 DEF ExportsNext

(* What each build has stored and each request has in hand. *)
THEOREM ExportInvariant == ExportsSpec => []ExportInv
BY ExportsInitInv, ExportsNextInv, PTL DEF ExportsSpec

(* An export that is offered for download has its zip. *)
THEOREM ExportReadyHasArchive == ExportsSpec => []ReadyHasArchive
<1>1. ExportInv => ReadyHasArchive
  BY DEF ExportInv
<1> QED BY <1>1, ExportInvariant, PTL
-----------------------------------------------------------------------------
(* The pictures. *)

Keys == {Full(f) : f \in Files} \cup {Thumb(f) : f \in Files}

WorkRow == [pc : {"idle", "photo", "thumbnail", "row", "erasing", "erased", "listing", "emptying",
                  "removing", "logo", "pointing", "replaced"},
            file : Files \cup {NoFile}, thumb : BOOLEAN, keys : SUBSET Keys]

PicturesTypeOK ==
    /\ device \in {"here", "invoiced", "gone"}
    /\ image \in [Files -> ImageRow]
    /\ logo \in Files \cup {NoFile}
    /\ work \in [Requests -> WorkRow]
    /\ keyed \in SUBSET Files
    /\ stranded \in SUBSET Keys

(* A picture that has a key and neither a row nor a column yet. *)
InHand(r) == work[r].pc \in {"photo", "thumbnail", "row", "logo", "pointing"}

(* A picture is in one hand, or has a row, or is that of the settings, and *)
(* never two of these.                                                     *)
OnePlace ==
    /\ \A r \in Requests : InHand(r) =>
          work[r].file \in keyed /\ image[work[r].file].row = "none" /\ work[r].file # logo
    /\ \A r, q \in Requests : InHand(r) /\ InHand(q) /\ work[r].file = work[q].file => r = q
    /\ \A f \in Files : image[f].row # "none" => f \in keyed /\ f # logo
    /\ logo # NoFile => logo \in keyed
    /\ \A r \in Requests : work[r].pc \in {"erasing", "erased"} =>
          work[r].file \in Files /\ image[work[r].file].row # "none"

(* The keys a deletion has in hand are those of rows, ... *)
DeletesRows(r) ==
    work[r].pc \in {"erasing", "erased", "emptying", "removing"} =>
        \A key \in work[r].keys : \E g \in Files :
            /\ key \in {Full(g), Thumb(g)}
            /\ image[g].row # "none"
            /\ work[r].pc \in {"erasing", "erased"} => g = work[r].file

(* ... those of a replacement the picture that the settings had, ... *)
ReplacesLogo(r) ==
    work[r].pc \in {"logo", "pointing", "replaced"} =>
        \A key \in work[r].keys : \E g \in keyed :
            /\ key = Full(g)
            /\ image[g].row = "none"
            /\ \A q \in Requests : InHand(q) => work[q].file # g
            /\ work[r].pc = "replaced" => g # logo

(* ... and nobody else has any. *)
OthersDeleteNothing(r) ==
    work[r].pc \in {"idle", "photo", "thumbnail", "row", "listing"} => work[r].keys = {}

(* What a request is about to name in the database is in the bucket. *)
StoredFirst ==
    \A r \in Requests :
        /\ work[r].pc \in {"thumbnail", "row", "pointing"} => Full(work[r].file) \in objects
        /\ work[r].pc = "row" /\ work[r].thumb => Thumb(work[r].file) \in objects

GoneHasNoRows == device = "gone" => Shown = {}

PicturesInv ==
    /\ PicturesTypeOK
    /\ OnePlace
    /\ \A r \in Requests : DeletesRows(r) /\ ReplacesLogo(r) /\ OthersDeleteNothing(r)
    /\ StoredFirst
    /\ GoneHasNoRows
    /\ RowsHaveObjects

(* No two pictures share a key, nor a photo and a thumbnail. *)
LEMMA KeysDiffer ==
    \A f, g : /\ Full(f) = Full(g) => f = g
              /\ Thumb(f) = Thumb(g) => f = g
              /\ Full(f) # Thumb(g)
BY DEF Full, Thumb

(* The keys of a file's row are of that file. *)
LEMMA KeysOfFile ==
    \A f \in Files : \A key \in KeysOf(f) :
        key = Full(f) \/ (key = Thumb(f) /\ image[f].thumb)
BY DEF KeysOf

(* The property, key by key. *)
KeptIsThere ==
    \A f \in Files : image[f].row = "kept" =>
        \A key \in KeysOf(f) :
            \/ key \in objects \/ key \in stranded
            \/ \E q \in Requests : work[q].pc \in {"erased", "removing"} /\ key \in work[q].keys

LogoIsThere == logo # NoFile => Full(logo) \in objects

(* The property said of each key by itself. *)
LEMMA RowsKeyByKey == RowsHaveObjects <=> KeptIsThere /\ LogoIsThere
<1>1. \A key : key \in InDeletion <=>
         \E q \in Requests : work[q].pc \in {"erased", "removing"} /\ key \in work[q].keys
  BY DEF InDeletion
<1>2. RowsHaveObjects <=>
         LogoIsThere /\ \A f \in Shown : KeysOf(f) \subseteq objects \cup InDeletion \cup stranded
  BY DEF RowsHaveObjects, LogoIsThere
<1>3. KeptIsThere <=> \A f \in Shown : KeysOf(f) \subseteq objects \cup InDeletion \cup stranded
  BY <1>1 DEF KeptIsThere, Shown
<1> QED BY <1>2, <1>3

(* The same in the state after a step. *)
LEMMA NextRowsKeyByKey == KeptIsThere' /\ LogoIsThere' => RowsHaveObjects'
BY RowsKeyByKey, PTL

(* At first there are neither rows nor objects. *)
LEMMA PicturesInitInv == PicturesInit => PicturesInv
<1> SUFFICES ASSUME PicturesInit PROVE PicturesInv
  OBVIOUS
<1>1. PicturesTypeOK
  BY DEF PicturesInit, PicturesTypeOK, ImageRow, WorkRow, Unoccupied
<1>2. OnePlace
  BY DEF PicturesInit, OnePlace, InHand, Unoccupied
<1>3. \A r \in Requests : DeletesRows(r) /\ ReplacesLogo(r) /\ OthersDeleteNothing(r)
  BY DEF PicturesInit, DeletesRows, ReplacesLogo, OthersDeleteNothing, Unoccupied
<1>4. StoredFirst /\ GoneHasNoRows /\ RowsHaveObjects
  BY DEF PicturesInit, StoredFirst, GoneHasNoRows, RowsHaveObjects, Unoccupied, Shown, InDeletion
<1> QED BY <1>1, <1>2, <1>3, <1>4 DEF PicturesInv

(* A request that ends, with its rows and objects as they are or with more *)
(* objects, keeps what is not about the rows.                              *)
LEMMA EndingKeeps ==
    ASSUME PicturesInv, NEW r \in Requests, work' = [work EXCEPT ![r] = Unoccupied],
           UNCHANGED <<device, image, logo, keyed>>, objects \subseteq objects',
           stranded' \in SUBSET Keys
    PROVE  /\ PicturesTypeOK' /\ OnePlace' /\ StoredFirst' /\ GoneHasNoRows'
           /\ \A q \in Requests : DeletesRows(q)' /\ ReplacesLogo(q)' /\ OthersDeleteNothing(q)'
<1>1. /\ \A q \in Requests \ {r} : work'[q] = work[q]
      /\ work'[r].pc = "idle" /\ work'[r].keys = {}
      /\ Unoccupied \in WorkRow
  BY DEF PicturesInv, PicturesTypeOK, Unoccupied, WorkRow
<1>2. PicturesTypeOK'
  BY <1>1 DEF PicturesInv, PicturesTypeOK
<1>3. OnePlace'
  BY <1>1 DEF PicturesInv, OnePlace, InHand
<1>4. StoredFirst'
  BY <1>1 DEF PicturesInv, StoredFirst
<1>5. GoneHasNoRows'
  BY DEF PicturesInv, GoneHasNoRows, Shown
<1>6. ASSUME NEW q \in Requests
      PROVE  DeletesRows(q)' /\ ReplacesLogo(q)' /\ OthersDeleteNothing(q)'
  BY <1>1 DEF PicturesInv, DeletesRows, ReplacesLogo, OthersDeleteNothing, InHand
<1> QED BY <1>2, <1>3, <1>4, <1>5, <1>6

(* What a request is as it takes up a picture. *)
LEMMA TakenUp ==
    ASSUME NEW pc, NEW f, NEW keys
    PROVE  LET taken == [Unoccupied EXCEPT !.pc = pc, !.file = f, !.keys = keys]
           IN  /\ taken.pc = pc /\ taken.file = f /\ taken.keys = keys /\ ~taken.thumb
               /\ pc \in {"photo", "logo", "erasing"} /\ f \in Files /\ keys \in SUBSET Keys
                     => taken \in WorkRow
BY DEF Unoccupied, WorkRow

(* A request takes up a picture that nobody has had. *)
LEMMA TakesUpKeeps ==
    ASSUME PicturesInv, NEW r \in Requests, NEW f \in Files, NEW pc \in {"photo", "logo"},
           NEW new \in WorkRow, work[r].pc = "idle", Keyed(f),
           work' = [work EXCEPT ![r] = new],
           new.pc = pc, new.file = f, ~new.thumb,
           new.keys = IF pc = "photo" \/ logo = NoFile THEN {} ELSE {Full(logo)},
           UNCHANGED <<device, image, logo, objects, stranded>>
    PROVE  PicturesInv'
<1> DEFINE keys == new.keys
<1>1. f \notin keyed /\ keyed' = keyed \cup {f}
  BY DEF Keyed, PicturesInv, PicturesTypeOK
<1>4. /\ \A q \in Requests \ {r} : work'[q] = work[q]
      /\ work'[r].pc = pc /\ work'[r].file = f /\ work'[r].keys = keys /\ ~work'[r].thumb
  BY DEF PicturesInv, PicturesTypeOK
<1>5. PicturesTypeOK'
  BY <1>1 DEF PicturesInv, PicturesTypeOK
<1>6. OnePlace'
  <2>a. \A q \in Requests \ {r} : InHand(q)' <=> InHand(q)
    BY <1>4 DEF InHand
  <2>b. \A q \in Requests : InHand(q) => work[q].file # f
    BY <1>1 DEF PicturesInv, OnePlace
  <2>c. image[f].row = "none"
    BY <1>1 DEF PicturesInv, OnePlace
  <2>d. f # logo
    BY <1>1, PicturesAssumption DEF PicturesInv, OnePlace
  <2>1. /\ \A q \in Requests \ {r} : InHand(q)' <=> InHand(q)
        /\ \A q \in Requests : InHand(q) => work[q].file # f
        /\ image[f].row = "none" /\ f # logo
    BY <2>a, <2>b, <2>c, <2>d
  <2>2. \A q \in Requests : InHand(q)' =>
           work'[q].file \in keyed' /\ image'[work'[q].file].row = "none" /\ work'[q].file # logo'
    BY <1>1, <1>4, <2>1 DEF PicturesInv, OnePlace
  <2>3. \A o, q \in Requests : InHand(o)' /\ InHand(q)' /\ work'[o].file = work'[q].file => o = q
    BY <1>1, <1>4, <2>1 DEF PicturesInv, OnePlace
  <2> QED BY <1>1, <1>4, <2>2, <2>3 DEF PicturesInv, OnePlace
<1>7. ASSUME NEW q \in Requests
      PROVE  DeletesRows(q)' /\ ReplacesLogo(q)' /\ OthersDeleteNothing(q)'
  <2>1. CASE q = r
    <3>1. OthersDeleteNothing(q)' /\ DeletesRows(q)'
      BY <1>4, <2>1 DEF DeletesRows, OthersDeleteNothing
    <3>2. logo # NoFile => /\ logo \in keyed /\ image[logo].row = "none" /\ logo # f
                           /\ \A o \in Requests : InHand(o) => work[o].file # logo
      BY <1>1 DEF PicturesInv, OnePlace, PicturesTypeOK
    <3>3. ReplacesLogo(q)'
      BY <1>1, <1>4, <2>1, <3>2 DEF ReplacesLogo, InHand
    <3> QED BY <3>1, <3>3
  <2>2. CASE q # r
    <3>1. DeletesRows(q)' /\ OthersDeleteNothing(q)'
      BY <1>4, <2>2 DEF PicturesInv, DeletesRows, OthersDeleteNothing
    <3>2. ReplacesLogo(q)'
      BY <1>1, <1>4, <2>2 DEF PicturesInv, ReplacesLogo, InHand
    <3> QED BY <3>1, <3>2
  <2> QED BY <2>1, <2>2
<1>8. StoredFirst' /\ GoneHasNoRows'
  BY <1>4 DEF PicturesInv, StoredFirst, GoneHasNoRows, Shown
<1>9. KeptIsThere' /\ LogoIsThere'
  <2>1. KeptIsThere /\ LogoIsThere
    BY RowsKeyByKey DEF PicturesInv
  <2> QED BY <1>4, <2>1 DEF KeptIsThere, LogoIsThere, KeysOf
<1> QED BY <1>5, <1>6, <1>7, <1>8, <1>9, NextRowsKeyByKey DEF PicturesInv

(* A request that goes on keeps its picture and its keys. *)
LEMMA GoesOn ==
    ASSUME PicturesTypeOK, NEW r \in Requests, NEW from, NEW to,
           Goes(r, from, to),
           to \in {"thumbnail", "erased", "listing", "removing", "pointing", "replaced"}
    PROVE  /\ work' \in [Requests -> WorkRow]
           /\ work[r].pc = from /\ work'[r].pc = to
           /\ work'[r].file = work[r].file /\ work'[r].thumb = work[r].thumb
           /\ work'[r].keys = work[r].keys
           /\ \A q \in Requests \ {r} : work'[q] = work[q]
<1> DEFINE next == [work[r] EXCEPT !.pc = to]
<1>1. work[r] \in WorkRow /\ work[r].pc = from /\ work' = [work EXCEPT ![r] = next]
  BY DEF PicturesTypeOK, Goes
<1>2. next \in WorkRow
  BY <1>1 DEF WorkRow
<1>3. /\ next.pc = to /\ next.file = work[r].file /\ next.thumb = work[r].thumb
      /\ next.keys = work[r].keys
  BY <1>1 DEF WorkRow
<1> HIDE DEF next
<1> QED BY <1>1, <1>2, <1>3 DEF PicturesTypeOK

(* What is not about the objects stays true when one request moves, with   *)
(* the picture it had in hand or none, and the database does not change.   *)
LEMMA MovesKeep ==
    ASSUME PicturesInv, NEW r \in Requests, UNCHANGED <<device, image, logo, keyed>>,
           stranded' \in SUBSET Keys, work' \in [Requests -> WorkRow],
           \A q \in Requests \ {r} : work'[q] = work[q],
           InHand(r)' => InHand(r) /\ work'[r].file = work[r].file,
           work'[r].pc \in {"erasing", "erased"} =>
              work'[r].file \in Files /\ image[work'[r].file].row # "none",
           DeletesRows(r)', ReplacesLogo(r)', OthersDeleteNothing(r)'
    PROVE  /\ PicturesTypeOK' /\ OnePlace' /\ GoneHasNoRows'
           /\ \A q \in Requests : DeletesRows(q)' /\ ReplacesLogo(q)' /\ OthersDeleteNothing(q)'
<1>1. \A q \in Requests : InHand(q)' => InHand(q) /\ work'[q].file = work[q].file
  BY DEF InHand
<1>2. PicturesTypeOK'
  BY DEF PicturesInv, PicturesTypeOK
<1>3. OnePlace'
  BY <1>1 DEF PicturesInv, OnePlace
<1>4. GoneHasNoRows'
  BY DEF PicturesInv, GoneHasNoRows, Shown
<1>5. ASSUME NEW q \in Requests
      PROVE  DeletesRows(q)' /\ ReplacesLogo(q)' /\ OthersDeleteNothing(q)'
  <2>1. CASE q = r
    BY <2>1
  <2>2. CASE q # r
    <3>1. DeletesRows(q)' /\ OthersDeleteNothing(q)'
      BY <2>2 DEF PicturesInv, DeletesRows, OthersDeleteNothing
    <3>2. ReplacesLogo(q)'
      BY <1>1, <2>2 DEF PicturesInv, ReplacesLogo
    <3> QED BY <3>1, <3>2
  <2> QED BY <2>1, <2>2
<1> QED BY <1>2, <1>3, <1>4, <1>5

(* An object that stays or arrives keeps the rows served. *)
LEMMA ObjectsGrow ==
    ASSUME PicturesInv, objects \subseteq objects', UNCHANGED <<image, logo>>,
           stranded \subseteq stranded',
           \A q \in Requests : work[q].pc \in {"erased", "removing"} =>
              \/ work[q].keys \subseteq stranded'
              \/ work'[q].pc \in {"erased", "removing"} /\ work'[q].keys = work[q].keys
    PROVE  KeptIsThere' /\ LogoIsThere'
<1>1. KeptIsThere /\ LogoIsThere
  BY RowsKeyByKey DEF PicturesInv
<1>2. \A f \in Files : KeysOf(f)' = KeysOf(f)
  BY DEF KeysOf
<1>3. KeptIsThere'
  BY <1>1, <1>2 DEF KeptIsThere
<1> QED BY <1>1, <1>3 DEF LogoIsThere

(* A key that a request deletes is of no picture in hand, nor that of the  *)
(* settings.                                                               *)
LEMMA DroppedIsFree ==
    ASSUME PicturesInv, NEW r \in Requests,
           work[r].pc \in {"erasing", "emptying", "replaced"}
    PROVE  \A key \in work[r].keys : \E g \in Files :
               /\ key \in {Full(g), Thumb(g)}
               /\ g # logo
               /\ \A q \in Requests : InHand(q) => work[q].file # g
               /\ work[r].pc = "replaced" => image[g].row = "none"
<1> TAKE key \in work[r].keys
<1>1. CASE work[r].pc \in {"erasing", "emptying"}
  <2>1. PICK g \in Files : key \in {Full(g), Thumb(g)} /\ image[g].row # "none"
    BY <1>1 DEF PicturesInv, DeletesRows
  <2>2. g # logo /\ \A q \in Requests : InHand(q) => work[q].file # g
    BY <2>1 DEF PicturesInv, OnePlace
  <2> QED BY <1>1, <2>1, <2>2
<1>2. CASE work[r].pc = "replaced"
  <2>1. PICK g \in keyed : /\ key = Full(g) /\ image[g].row = "none" /\ g # logo
                           /\ \A q \in Requests : InHand(q) => work[q].file # g
    BY <1>2 DEF PicturesInv, ReplacesLogo
  <2>2. g \in Files
    BY DEF PicturesInv, PicturesTypeOK
  <2> QED BY <2>1, <2>2
<1> QED BY <1>1, <1>2

(* What is about the objects stays true when a request deletes some of its *)
(* keys: it goes on to the row of these, or they were of no row.           *)
LEMMA ObjectsShrink ==
    ASSUME PicturesInv, NEW r \in Requests, NEW dropped \in SUBSET work[r].keys,
           objects' = objects \ dropped, UNCHANGED <<image, logo, stranded>>,
           work[r].pc \in {"erasing", "emptying", "replaced"},
           \A q \in Requests \ {r} : work'[q] = work[q],
           \/ work[r].pc = "replaced" /\ work'[r].pc = "idle"
           \/ /\ work[r].pc # "replaced" /\ work'[r].pc \in {"erased", "removing"}
              /\ work'[r].keys = work[r].keys
    PROVE  StoredFirst' /\ KeptIsThere' /\ LogoIsThere'
<1>1. \A key \in dropped : \E g \in Files :
         /\ key \in {Full(g), Thumb(g)}
         /\ g # logo
         /\ \A q \in Requests : InHand(q) => work[q].file # g
         /\ work[r].pc = "replaced" => image[g].row = "none"
  BY DroppedIsFree
<1>2. StoredFirst'
  <2>1. ASSUME NEW q \in Requests, q # r, work[q].pc \in {"thumbnail", "row", "pointing"}
        PROVE  Full(work[q].file) \notin dropped /\ Thumb(work[q].file) \notin dropped
    <3>1. InHand(q)
      BY <2>1 DEF InHand
    <3> QED BY <1>1, <3>1, KeysDiffer
  <2>2. \A q \in Requests : work'[q].pc \in {"thumbnail", "row", "pointing"} =>
           q # r /\ work'[q] = work[q]
    OBVIOUS
  <2> QED BY <2>1, <2>2 DEF PicturesInv, StoredFirst
<1>3. KeptIsThere /\ LogoIsThere
  BY RowsKeyByKey DEF PicturesInv
<1>4. LogoIsThere'
  <2>1. Full(logo) \notin dropped
    BY <1>1, KeysDiffer
  <2> QED BY <1>3, <2>1 DEF LogoIsThere
<1>5. KeptIsThere'
  <2> SUFFICES ASSUME NEW f \in Files, image[f].row = "kept", NEW key \in KeysOf(f)
               PROVE  \/ key \in objects' \/ key \in stranded'
                      \/ \E q \in Requests : /\ work'[q].pc \in {"erased", "removing"}
                                             /\ key \in work'[q].keys
    BY DEF KeptIsThere, KeysOf
  <2>1. CASE key \in objects /\ key \notin dropped
    BY <2>1
  <2>2. CASE key \in dropped
    <3>1. work[r].pc # "replaced"
      <4>1. SUFFICES ASSUME work[r].pc = "replaced" PROVE FALSE
        OBVIOUS
      <4>2. PICK g \in Files : key \in {Full(g), Thumb(g)} /\ image[g].row = "none"
        BY <1>1, <2>2, <4>1
      <4>3. key \in {Full(f), Thumb(f)}
        BY KeysOfFile
      <4> QED BY <4>2, <4>3, KeysDiffer
    <3> QED BY <2>2, <3>1
  <2>s. CASE key \in stranded
    BY <2>s
  <2>3. CASE key \notin objects /\ key \notin stranded
    <3>1. PICK q \in Requests : work[q].pc \in {"erased", "removing"} /\ key \in work[q].keys
      BY <1>3, <2>3 DEF KeptIsThere
    <3>2. q # r
      BY <3>1
    <3> QED BY <3>1, <3>2
  <2> QED BY <2>1, <2>2, <2>s, <2>3
<1> QED BY <1>2, <1>4, <1>5

(* A request that comes to nothing. *)
LEMMA FinishesKeep ==
    ASSUME PicturesInv, NEW r \in Requests, work' = [work EXCEPT ![r] = Unoccupied],
           UNCHANGED <<device, image, logo, keyed>>, objects \subseteq objects',
           stranded' \in SUBSET Keys, stranded \subseteq stranded',
           work[r].pc \in {"erased", "removing"} => work[r].keys \subseteq stranded'
    PROVE  PicturesInv'
<1>1. \A q \in Requests \ {r} : work'[q] = work[q]
  BY DEF PicturesInv, PicturesTypeOK
<1>2. \A q \in Requests : work[q].pc \in {"erased", "removing"} =>
         \/ work[q].keys \subseteq stranded'
         \/ work'[q].pc \in {"erased", "removing"} /\ work'[q].keys = work[q].keys
  BY <1>1
<1>3. KeptIsThere' /\ LogoIsThere'
  BY <1>2, ObjectsGrow
<1> QED BY <1>3, EndingKeeps, NextRowsKeyByKey DEF PicturesInv

(* The uploads: a photo, its thumbnail, its row, and the settings' picture. *)
LEMMA UploadsKeep ==
    ASSUME PicturesInv, NEW r \in Requests, PutFull(r) \/ PutThumb(r) \/ PutLogo(r)
    PROVE  PicturesInv'
<1> USE DEF PicturesInv
<1>1. /\ objects \subseteq objects'
      /\ UNCHANGED <<device, image, logo, stranded, keyed>>
      /\ stranded' \in SUBSET Keys
  BY DEF PutFull, PutThumb, PutLogo, PutOutcome, PicturesTypeOK
<1>2. CASE Finishes(r, "photo") \/ Finishes(r, "logo")
  BY <1>1, <1>2, FinishesKeep DEF Finishes
<1>3. ASSUME work' \in [Requests -> WorkRow],
             \A q \in Requests \ {r} : work'[q] = work[q],
             InHand(r), InHand(r)', work'[r].file = work[r].file, work'[r].keys = work[r].keys,
             work[r].pc \in {"logo", "pointing"} \/ work[r].keys = {},
             work[r].pc \in {"logo", "pointing"} <=> work'[r].pc \in {"logo", "pointing"},
             work'[r].pc \in {"thumbnail", "row", "pointing"} => Full(work[r].file) \in objects',
             work'[r].pc = "row" /\ work'[r].thumb => Thumb(work[r].file) \in objects'
      PROVE  PicturesInv'
  <2>1. DeletesRows(r)' /\ OthersDeleteNothing(r)'
    BY <1>3 DEF DeletesRows, OthersDeleteNothing, InHand
  <2>2. ReplacesLogo(r)'
    <3> SUFFICES ASSUME work'[r].pc \in {"logo", "pointing"}
                 PROVE  ReplacesLogo(r)'
      BY <1>3 DEF ReplacesLogo, InHand
    <3>1. work[r].pc \in {"logo", "pointing"} /\ ReplacesLogo(r)
      BY <1>3
    <3>2. \A q \in Requests : InHand(q)' => InHand(q) /\ work'[q].file = work[q].file
      BY <1>3 DEF InHand
    <3> QED BY <1>1, <1>3, <3>1, <3>2 DEF ReplacesLogo
  <2>3. /\ PicturesTypeOK' /\ OnePlace' /\ GoneHasNoRows'
        /\ \A q \in Requests : DeletesRows(q)' /\ ReplacesLogo(q)' /\ OthersDeleteNothing(q)'
    <3>1. work'[r].pc \notin {"erasing", "erased"}
      BY <1>3 DEF InHand
    <3> QED BY <1>1, <1>3, <2>1, <2>2, <3>1, MovesKeep
  <2>4. StoredFirst'
    BY <1>1, <1>3 DEF StoredFirst
  <2>5. KeptIsThere' /\ LogoIsThere'
    <3>1. work[r].pc \notin {"erased", "removing"}
      BY <1>3 DEF InHand
    <3> QED BY <1>1, <1>3, <3>1, ObjectsGrow
  <2> QED BY <2>3, <2>4, <2>5, NextRowsKeyByKey
<1>4. CASE Goes(r, "photo", "thumbnail") /\ PutOutcome(Full(work[r].file), TRUE)
  <2>1. OthersDeleteNothing(r) /\ Full(work[r].file) \in objects'
    BY <1>4 DEF PutOutcome
  <2>2. /\ work' \in [Requests -> WorkRow]
        /\ work[r].pc = "photo" /\ work'[r].pc = "thumbnail"
        /\ work'[r].file = work[r].file /\ work'[r].keys = work[r].keys
        /\ \A q \in Requests \ {r} : work'[q] = work[q]
    BY <1>4, GoesOn
  <2> QED BY <1>3, <2>1, <2>2 DEF InHand, OthersDeleteNothing
<1>5. CASE Goes(r, "logo", "pointing") /\ PutOutcome(Full(work[r].file), TRUE)
  <2>1. Full(work[r].file) \in objects'
    BY <1>5 DEF PutOutcome
  <2>2. /\ work' \in [Requests -> WorkRow]
        /\ work[r].pc = "logo" /\ work'[r].pc = "pointing"
        /\ work'[r].file = work[r].file /\ work'[r].keys = work[r].keys
        /\ \A q \in Requests \ {r} : work'[q] = work[q]
    BY <1>5, GoesOn
  <2> QED BY <1>3, <2>1, <2>2 DEF InHand
<1>6. CASE PutThumb(r)
  <2>1. PICK stored \in BOOLEAN :
           /\ work[r].pc = "thumbnail"
           /\ PutOutcome(Thumb(work[r].file), stored)
           /\ work' = [work EXCEPT ![r] = [work[r] EXCEPT !.pc = "row", !.thumb = stored]]
    BY <1>6 DEF PutThumb
  <2> DEFINE next == [work[r] EXCEPT !.pc = "row", !.thumb = stored]
  <2>2. next \in WorkRow
    BY DEF PicturesTypeOK, WorkRow
  <2>3. /\ next.pc = "row" /\ next.thumb = stored
        /\ next.file = work[r].file /\ next.keys = work[r].keys
    <3>1. work[r] \in WorkRow
      BY DEF PicturesTypeOK
    <3> QED BY <3>1 DEF WorkRow
  <2>n. work' = [work EXCEPT ![r] = next]
    BY <2>1
  <2> HIDE DEF next
  <2>4. /\ work' \in [Requests -> WorkRow] /\ work'[r] = next
        /\ \A q \in Requests \ {r} : work'[q] = work[q]
    BY <2>n, <2>2 DEF PicturesTypeOK
  <2>5. work[r].keys = {} /\ Full(work[r].file) \in objects
    BY <2>1 DEF OthersDeleteNothing, StoredFirst
  <2>6. stored => Thumb(work[r].file) \in objects'
    BY <2>1 DEF PutOutcome
  <2> QED BY <1>1, <1>3, <2>1, <2>3, <2>4, <2>5, <2>6 DEF InHand
<1> QED BY <1>2, <1>4, <1>5, <1>6 DEF PutFull, PutLogo

(* A photo's row, with the objects stored before it. *)
LEMMA MakeImageRowKeeps ==
    ASSUME PicturesInv, NEW r \in Requests, MakeImageRow(r)
    PROVE  PicturesInv'
<1> DEFINE f == work[r].file
           kept == [row |-> "kept", thumb |-> work[r].thumb]
<1> USE DEF PicturesInv
<1>1. /\ work[r].pc = "row" /\ work' = [work EXCEPT ![r] = Unoccupied]
      /\ UNCHANGED <<device, logo, objects, stranded, keyed>>
      /\ image' = IF device = "gone" THEN image ELSE [image EXCEPT ![f] = kept]
  BY DEF MakeImageRow, Finishes
<1>2. stranded' \in SUBSET Keys
  BY <1>1 DEF PicturesTypeOK
<1>3. CASE device = "gone"
  BY <1>1, <1>2, <1>3, FinishesKeep
<1>4. CASE device # "gone"
  <2>1. /\ \A q \in Requests \ {r} : work'[q] = work[q]
        /\ work'[r].pc = "idle" /\ work'[r].keys = {}
        /\ Unoccupied \in WorkRow
    BY <1>1 DEF PicturesTypeOK, Unoccupied, WorkRow
  <2>2. /\ InHand(r) /\ f \in Files /\ f \in keyed /\ image[f].row = "none" /\ f # logo
        /\ \A q \in Requests \ {r} : InHand(q) => work[q].file # f
    BY <1>1 DEF InHand, OnePlace, PicturesTypeOK
  <2>3. Full(f) \in objects /\ (work[r].thumb => Thumb(f) \in objects)
    BY <1>1 DEF StoredFirst
  <2>4. work[r].thumb \in BOOLEAN
    BY DEF PicturesTypeOK, WorkRow
  <2>5. kept \in ImageRow /\ kept.row = "kept" /\ kept.thumb = work[r].thumb
    BY <2>4 DEF ImageRow
  <2>f. f = work[r].file
    OBVIOUS
  <2> HIDE DEF kept, f
  <2>6. /\ image' \in [Files -> ImageRow] /\ image'[f] = kept
        /\ \A g \in Files \ {f} : image'[g] = image[g]
    BY <1>1, <1>4, <2>2, <2>5 DEF PicturesTypeOK
  <2>7. PicturesTypeOK'
    BY <1>1, <2>1, <2>6 DEF PicturesTypeOK
  <2>8. /\ \A q \in Requests : InHand(q)' => q # r /\ InHand(q) /\ work'[q] = work[q]
        /\ \A g \in Files : image[g].row # "none" => image'[g].row # "none"
    BY <2>1, <2>5, <2>6 DEF InHand
  <2>9. OnePlace'
    <3>1. \A q \in Requests : InHand(q)' =>
             work'[q].file \in keyed' /\ image'[work'[q].file].row = "none" /\ work'[q].file # logo'
      BY <1>1, <2>2, <2>6, <2>8 DEF OnePlace, PicturesTypeOK
    <3>2. \A q, o \in Requests : InHand(q)' /\ InHand(o)' /\ work'[q].file = work'[o].file => q = o
      BY <2>8 DEF OnePlace
    <3>3. \A g \in Files : image'[g].row # "none" => g \in keyed' /\ g # logo'
      BY <1>1, <2>2, <2>6 DEF OnePlace
    <3>4. logo' # NoFile => logo' \in keyed'
      BY <1>1 DEF OnePlace
    <3>5. \A q \in Requests : work'[q].pc \in {"erasing", "erased"} =>
             work'[q].file \in Files /\ image'[work'[q].file].row # "none"
      BY <2>1, <2>8 DEF OnePlace
    <3> QED BY <3>1, <3>2, <3>3, <3>4, <3>5 DEF OnePlace
  <2>10. ASSUME NEW q \in Requests
         PROVE  DeletesRows(q)' /\ ReplacesLogo(q)' /\ OthersDeleteNothing(q)'
    <3>1. CASE q = r
      BY <2>1, <3>1 DEF DeletesRows, ReplacesLogo, OthersDeleteNothing
    <3>2. CASE q # r
      <4>1. DeletesRows(q)' /\ OthersDeleteNothing(q)'
        BY <2>1, <2>8, <3>2 DEF DeletesRows, OthersDeleteNothing
      <4>2. ReplacesLogo(q)'
        <5> SUFFICES ASSUME work'[q].pc \in {"logo", "pointing", "replaced"},
                            NEW key, key \in work'[q].keys
                     PROVE  \E g \in keyed' :
                               /\ key = Full(g)
                               /\ image'[g].row = "none"
                               /\ \A o \in Requests : InHand(o)' => work'[o].file # g
                               /\ work'[q].pc = "replaced" => g # logo'
          BY DEF ReplacesLogo
        <5>1. work'[q] = work[q]
          BY <2>1, <3>2
        <5>2. \E g \in keyed : /\ key = Full(g) /\ image[g].row = "none"
                               /\ \A o \in Requests : InHand(o) => work[o].file # g
                               /\ work[q].pc = "replaced" => g # logo
          BY <5>1 DEF ReplacesLogo
        <5>3. PICK g \in keyed : /\ key = Full(g) /\ image[g].row = "none"
                                 /\ \A o \in Requests : InHand(o) => work[o].file # g
                                 /\ work[q].pc = "replaced" => g # logo
          BY <5>2
        <5>4. g \in Files
          BY <5>3 DEF PicturesTypeOK
        <5>5. g # f
          BY <2>2, <2>f, <5>3
        <5>6. image'[g].row = "none"
          BY <2>6, <5>3, <5>4, <5>5
        <5>7. \A o \in Requests : InHand(o)' => work'[o].file # g
          BY <2>8, <5>3
        <5> QED BY <1>1, <5>1, <5>3, <5>6, <5>7
      <4> QED BY <4>1, <4>2
    <3> QED BY <3>1, <3>2
  <2>11. StoredFirst' /\ GoneHasNoRows'
    BY <1>1, <1>4, <2>1 DEF StoredFirst, GoneHasNoRows
  <2>12. KeptIsThere /\ LogoIsThere
    BY RowsKeyByKey
  <2>13. KeptIsThere'
    <3> SUFFICES ASSUME NEW g \in Files, image'[g].row = "kept", NEW key, key \in KeysOf(g)'
                 PROVE  \/ key \in objects' \/ key \in stranded'
                        \/ \E q \in Requests : /\ work'[q].pc \in {"erased", "removing"}
                                               /\ key \in work'[q].keys
      BY DEF KeptIsThere
    <3>1. CASE g = f
      BY <1>1, <2>3, <2>5, <2>6, <3>1 DEF KeysOf
    <3>2. CASE g # f
      <4>1. image[g].row = "kept" /\ key \in KeysOf(g)
        BY <1>1, <2>6, <3>2 DEF KeysOf
      <4>2. \/ key \in objects \/ key \in stranded
            \/ \E q \in Requests : work[q].pc \in {"erased", "removing"} /\ key \in work[q].keys
        BY <2>12, <4>1 DEF KeptIsThere
      <4> QED BY <1>1, <2>1, <4>2
    <3> QED BY <3>1, <3>2
  <2>14. LogoIsThere'
    BY <1>1, <2>12 DEF LogoIsThere
  <2> QED BY <2>7, <2>9, <2>10, <2>11, <2>13, <2>14, NextRowsKeyByKey
<1> QED BY <1>3, <1>4

(* A deletion reads which keys it is about to drop. *)
LEMMA DeletionsRead ==
    ASSUME PicturesInv, NEW r \in Requests,
           \/ \E f \in Files : StartDelete(r, f)
           \/ StartRemoval(r)
           \/ ListImages(r)
    PROVE  PicturesInv'
<1> USE DEF PicturesInv
<1>1. /\ UNCHANGED <<device, image, logo, objects, stranded, keyed>>
      /\ stranded' \in SUBSET Keys /\ work[r].pc \in {"idle", "listing"}
  BY DEF StartDelete, StartRemoval, ListImages, Goes, PicturesTypeOK
<1>2. ASSUME work' \in [Requests -> WorkRow],
             \A q \in Requests \ {r} : work'[q] = work[q],
             work'[r].pc \in {"erasing", "listing", "emptying"},
             work'[r].pc = "listing" => work'[r].keys = {},
             work'[r].pc = "erasing" =>
                work'[r].file \in Files /\ image[work'[r].file].row # "none",
             DeletesRows(r)'
      PROVE  PicturesInv'
  <2>1. ReplacesLogo(r)' /\ OthersDeleteNothing(r)' /\ ~InHand(r)'
    BY <1>2 DEF ReplacesLogo, OthersDeleteNothing, InHand
  <2>2. work'[r].pc # "erased"
    BY <1>2
  <2>3. /\ PicturesTypeOK' /\ OnePlace' /\ GoneHasNoRows'
        /\ \A q \in Requests : DeletesRows(q)' /\ ReplacesLogo(q)' /\ OthersDeleteNothing(q)'
    BY <1>1, <1>2, <2>1, <2>2, MovesKeep
  <2>4. StoredFirst'
    BY <1>1, <1>2 DEF StoredFirst
  <2>5. KeptIsThere' /\ LogoIsThere'
    <3>1. \A q \in Requests : work[q].pc \in {"erased", "removing"} => work'[q] = work[q]
      BY <1>1, <1>2
    <3> QED BY <1>1, <3>1, ObjectsGrow
  <2> QED BY <2>3, <2>4, <2>5, NextRowsKeyByKey
<1>3. ASSUME NEW f \in Files, StartDelete(r, f) PROVE PicturesInv'
  <2> DEFINE keys == KeysOf(f)
             next == [Unoccupied EXCEPT !.pc = "erasing", !.file = f, !.keys = keys]
  <2>1. work' = [work EXCEPT ![r] = next] /\ image[f].row # "none"
    BY <1>3 DEF StartDelete, Shown
  <2>2. keys \in SUBSET Keys
    BY DEF KeysOf, Keys
  <2>3. next.pc = "erasing" /\ next.file = f /\ next.keys = keys
    BY DEF Unoccupied
  <2>4. next \in WorkRow
    <3> HIDE DEF keys
    <3> QED BY <2>2, TakenUp, Zenon
  <2> HIDE DEF next, keys
  <2>5. /\ work' \in [Requests -> WorkRow] /\ work'[r] = next
        /\ \A q \in Requests \ {r} : work'[q] = work[q]
    BY <2>1, <2>4 DEF PicturesTypeOK
  <2>6. DeletesRows(r)'
    <3>1. \A key \in keys : key \in {Full(f), Thumb(f)}
      BY KeysOfFile DEF keys
    <3> QED BY <1>1, <2>1, <2>3, <2>5, <3>1 DEF DeletesRows
  <2> QED BY <1>2, <2>1, <2>3, <2>5, <2>6
<1>4. CASE StartRemoval(r)
  <2>1. /\ work' \in [Requests -> WorkRow]
        /\ work[r].pc = "idle" /\ work'[r].pc = "listing"
        /\ work'[r].keys = work[r].keys
        /\ \A q \in Requests \ {r} : work'[q] = work[q]
    BY <1>4, GoesOn DEF StartRemoval
  <2>2. work[r].keys = {}
    BY <2>1 DEF OthersDeleteNothing
  <2> QED BY <1>2, <2>1, <2>2 DEF DeletesRows
<1>5. CASE ListImages(r)
  <2> DEFINE keys == UNION {KeysOf(f) : f \in Shown}
             next == [work[r] EXCEPT !.pc = "emptying", !.keys = keys]
  <2>1. work' = [work EXCEPT ![r] = next]
    BY <1>5 DEF ListImages
  <2>2. keys \in SUBSET Keys
    BY DEF KeysOf, Keys, Shown
  <2>3. next \in WorkRow /\ next.pc = "emptying" /\ next.keys = keys
    <3> HIDE DEF keys
    <3>1. work[r] \in WorkRow
      BY DEF PicturesTypeOK
    <3> QED BY <2>2, <3>1 DEF WorkRow
  <2>4. \A key \in keys : \E g \in Files : key \in {Full(g), Thumb(g)} /\ image[g].row # "none"
    BY KeysOfFile DEF Shown
  <2> HIDE DEF next, keys
  <2>5. /\ work' \in [Requests -> WorkRow] /\ work'[r] = next
        /\ \A q \in Requests \ {r} : work'[q] = work[q]
    BY <2>1, <2>3 DEF PicturesTypeOK
  <2>6. DeletesRows(r)'
    BY <1>1, <2>3, <2>4, <2>5 DEF DeletesRows
  <2> QED BY <1>2, <2>3, <2>5, <2>6
<1> QED BY <1>3, <1>4, <1>5

(* The objects go, then what is about them. *)
LEMMA DeletionsDrop ==
    ASSUME PicturesInv, NEW r \in Requests, DropImage(r) \/ EmptyDevice(r) \/ DropLogo(r)
    PROVE  PicturesInv'
<1> USE DEF PicturesInv
<1>1. UNCHANGED <<device, image, logo, stranded, keyed>> /\ stranded' \in SUBSET Keys
  BY DEF DropImage, EmptyDevice, DropLogo, PicturesTypeOK
<1>2. PICK dropped \in SUBSET work[r].keys : objects' = objects \ dropped
  BY DEF DropImage, EmptyDevice, DropLogo, DropOutcome
<1>3. CASE DropImage(r) \/ EmptyDevice(r)
  <2>1. /\ work' \in [Requests -> WorkRow]
        /\ \/ work[r].pc = "erasing" /\ work'[r].pc = "erased"
           \/ work[r].pc = "emptying" /\ work'[r].pc = "removing"
        /\ work'[r].file = work[r].file /\ work'[r].keys = work[r].keys
        /\ \A q \in Requests \ {r} : work'[q] = work[q]
    BY <1>3, GoesOn DEF DropImage, EmptyDevice
  <2>2. DeletesRows(r)'
    BY <1>1, <2>1 DEF DeletesRows
  <2>3. ReplacesLogo(r)' /\ OthersDeleteNothing(r)' /\ ~InHand(r)'
    BY <2>1 DEF ReplacesLogo, OthersDeleteNothing, InHand
  <2>4. work'[r].pc \in {"erasing", "erased"} =>
           work'[r].file \in Files /\ image[work'[r].file].row # "none"
    BY <2>1 DEF OnePlace
  <2>5. /\ PicturesTypeOK' /\ OnePlace' /\ GoneHasNoRows'
        /\ \A q \in Requests : DeletesRows(q)' /\ ReplacesLogo(q)' /\ OthersDeleteNothing(q)'
    BY <1>1, <2>1, <2>2, <2>3, <2>4, MovesKeep
  <2>6. StoredFirst' /\ KeptIsThere' /\ LogoIsThere'
    BY <1>1, <1>2, <2>1, ObjectsShrink
  <2> QED BY <2>5, <2>6, NextRowsKeyByKey
<1>4. CASE DropLogo(r)
  <2>1. work[r].pc = "replaced" /\ work' = [work EXCEPT ![r] = Unoccupied]
    BY <1>4 DEF DropLogo, Finishes
  <2>2. /\ work' \in [Requests -> WorkRow] /\ work'[r].pc = "idle" /\ work'[r].keys = {}
        /\ \A q \in Requests \ {r} : work'[q] = work[q]
    BY <2>1 DEF PicturesTypeOK, Unoccupied, WorkRow
  <2>3. /\ DeletesRows(r)' /\ ReplacesLogo(r)' /\ OthersDeleteNothing(r)' /\ ~InHand(r)'
        /\ work'[r].pc \notin {"erasing", "erased"}
    BY <2>2 DEF DeletesRows, ReplacesLogo, OthersDeleteNothing, InHand
  <2>4. /\ PicturesTypeOK' /\ OnePlace' /\ GoneHasNoRows'
        /\ \A q \in Requests : DeletesRows(q)' /\ ReplacesLogo(q)' /\ OthersDeleteNothing(q)'
    BY <1>1, <2>2, <2>3, MovesKeep
  <2>5. StoredFirst' /\ KeptIsThere' /\ LogoIsThere'
    BY <1>1, <1>2, <2>1, <2>2, ObjectsShrink
  <2> QED BY <2>4, <2>5, NextRowsKeyByKey
<1> QED BY <1>3, <1>4

(* Rows that go leave the rest as it was: the request ends, and what it    *)
(* was about to drop the row of is no row of a shown photo any more.       *)
LEMMA RowsGo ==
    ASSUME PicturesInv, NEW r \in Requests, work' = [work EXCEPT ![r] = Unoccupied],
           UNCHANGED <<logo, objects, stranded, keyed>>, device' \in {"here", "invoiced", "gone"},
           image' \in [Files -> ImageRow],
           \A f \in Files : image'[f] = image[f] \/ (image[f].row # "none" /\ image'[f].row = "deleted"),
           device' = "gone" => device = "gone" \/ \A f \in Files : image'[f].row # "kept",
           \A f \in Files : image'[f].row = "kept" =>
              Full(f) \notin work[r].keys /\ Thumb(f) \notin work[r].keys
    PROVE  PicturesInv'
<1> USE DEF PicturesInv
<1>1. /\ \A q \in Requests \ {r} : work'[q] = work[q]
      /\ work'[r].pc = "idle" /\ work'[r].keys = {}
      /\ Unoccupied \in WorkRow
  BY DEF PicturesTypeOK, Unoccupied, WorkRow
<1>2. PicturesTypeOK'
  BY <1>1 DEF PicturesTypeOK
<1>3. /\ \A f \in Files : image'[f].row = "none" <=> image[f].row = "none"
      /\ \A f \in Files : image'[f].row = "kept" => image'[f] = image[f]
      /\ \A q \in Requests : InHand(q)' => InHand(q) /\ work'[q] = work[q]
  BY <1>1 DEF InHand
<1>4. OnePlace'
  <2>1. keyed \subseteq Files
    BY DEF PicturesTypeOK
  <2>2. \A q \in Requests : InHand(q)' =>
           work'[q].file \in keyed' /\ image'[work'[q].file].row = "none" /\ work'[q].file # logo'
    BY <1>3, <2>1 DEF OnePlace
  <2>3. \A q, o \in Requests : InHand(q)' /\ InHand(o)' /\ work'[q].file = work'[o].file => q = o
    BY <1>3 DEF OnePlace
  <2>4. \A f \in Files : image'[f].row # "none" => f \in keyed' /\ f # logo'
    BY <1>3 DEF OnePlace
  <2>5. \A q \in Requests : work'[q].pc \in {"erasing", "erased"} =>
           work'[q].file \in Files /\ image'[work'[q].file].row # "none"
    BY <1>1, <1>3 DEF OnePlace
  <2> QED BY <2>2, <2>3, <2>4, <2>5 DEF OnePlace
<1>5. ASSUME NEW q \in Requests
      PROVE  DeletesRows(q)' /\ ReplacesLogo(q)' /\ OthersDeleteNothing(q)'
  <2>1. CASE q = r
    BY <1>1, <2>1 DEF DeletesRows, ReplacesLogo, OthersDeleteNothing
  <2>2. CASE q # r
    <3>1. DeletesRows(q)' /\ OthersDeleteNothing(q)'
      BY <1>1, <1>3, <2>2 DEF DeletesRows, OthersDeleteNothing
    <3>2. keyed \subseteq Files
      BY DEF PicturesTypeOK
    <3>3. ReplacesLogo(q)'
      BY <1>1, <1>3, <2>2, <3>2 DEF ReplacesLogo
    <3> QED BY <3>1, <3>3
  <2> QED BY <2>1, <2>2
<1>6. StoredFirst'
  BY <1>1 DEF StoredFirst
<1>7. GoneHasNoRows'
  BY <1>3 DEF GoneHasNoRows, Shown
<1>8. KeptIsThere /\ LogoIsThere
  BY RowsKeyByKey
<1>9. LogoIsThere'
  BY <1>8 DEF LogoIsThere
<1>10. KeptIsThere'
  <2> SUFFICES ASSUME NEW f \in Files, image'[f].row = "kept", NEW key, key \in KeysOf(f)'
               PROVE  \/ key \in objects \/ key \in stranded
                      \/ \E q \in Requests : /\ work'[q].pc \in {"erased", "removing"}
                                             /\ key \in work'[q].keys
    BY DEF KeptIsThere
  <2>1. image'[f] = image[f] /\ key \in KeysOf(f) /\ key \in {Full(f), Thumb(f)}
    BY <1>3 DEF KeysOf
  <2>2. \/ key \in objects \/ key \in stranded
        \/ \E q \in Requests : work[q].pc \in {"erased", "removing"} /\ key \in work[q].keys
    BY <1>8, <2>1 DEF KeptIsThere
  <2>3. key \notin work[r].keys
    BY <2>1
  <2> QED BY <1>1, <2>2, <2>3
<1> QED BY <1>2, <1>4, <1>5, <1>6, <1>7, <1>9, <1>10, NextRowsKeyByKey

(* A photo's row goes after its objects, and only the row of that photo.   *)
LEMMA DropImageRowKeeps ==
    ASSUME PicturesInv, NEW r \in Requests, DropImageRow(r)
    PROVE  PicturesInv'
<1> DEFINE f == work[r].file
<1>1. /\ work[r].pc = "erased" /\ work' = [work EXCEPT ![r] = Unoccupied]
      /\ UNCHANGED <<device, logo, objects, stranded, keyed>>
      /\ image' = [image EXCEPT ![f] = RowDeleted]
  BY DEF DropImageRow, Finishes
<1>2. /\ f \in Files /\ image[f].row # "none" /\ RowDeleted \in ImageRow
      /\ RowDeleted.row = "deleted"
  BY <1>1 DEF PicturesInv, OnePlace, RowDeleted, ImageRow
<1>3. \A key \in work[r].keys : key \in {Full(f), Thumb(f)}
  BY <1>1 DEF PicturesInv, DeletesRows
<1> HIDE DEF f
<1>4. image' \in [Files -> ImageRow] /\ image'[f].row = "deleted"
  BY <1>1, <1>2 DEF PicturesInv, PicturesTypeOK
<1>5. \A g \in Files \ {f} : image'[g] = image[g]
  BY <1>1 DEF PicturesInv, PicturesTypeOK
<1>6. \A g \in Files : image'[g] = image[g] \/ (image[g].row # "none" /\ image'[g].row = "deleted")
  BY <1>2, <1>4, <1>5
<1>7. \A g \in Files : image'[g].row = "kept" =>
         Full(g) \notin work[r].keys /\ Thumb(g) \notin work[r].keys
  BY <1>3, <1>4, KeysDiffer
<1>8. device' \in {"here", "invoiced", "gone"} /\ device' = device
  BY <1>1 DEF PicturesInv, PicturesTypeOK
<1> QED BY <1>1, <1>4, <1>6, <1>7, <1>8, RowsGo

(* A device goes with the rows of its photos, or stays with its invoice.   *)
LEMMA RemoveDeviceKeeps ==
    ASSUME PicturesInv, NEW r \in Requests, RemoveDevice(r)
    PROVE  PicturesInv'
<1>1. /\ work[r].pc = "removing" /\ work' = [work EXCEPT ![r] = Unoccupied]
      /\ UNCHANGED <<logo, objects, keyed>>
  BY DEF RemoveDevice, Finishes
<1>2. CASE device = "here"
  <2>1. /\ device' = "gone" /\ UNCHANGED stranded
        /\ image' = [f \in Files |-> IF f \in Shown THEN RowDeleted ELSE image[f]]
    BY <1>2 DEF RemoveDevice
  <2>2. RowDeleted \in ImageRow /\ RowDeleted.row = "deleted"
    BY DEF RowDeleted, ImageRow
  <2>3. image' \in [Files -> ImageRow]
    BY <2>1, <2>2 DEF PicturesInv, PicturesTypeOK
  <2>4. \A f \in Files : /\ image'[f] = image[f] \/ (image[f].row # "none" /\ image'[f].row = "deleted")
                         /\ image'[f].row # "kept"
    BY <2>1, <2>2 DEF Shown
  <2> QED BY <1>1, <2>1, <2>3, <2>4, RowsGo
<1>3. CASE device # "here"
  <2>1. UNCHANGED <<device, image>> /\ stranded' = stranded \cup work[r].keys
    BY <1>3 DEF RemoveDevice
  <2>2. stranded' \in SUBSET Keys
    BY <2>1 DEF PicturesInv, PicturesTypeOK, WorkRow
  <2> QED BY <1>1, <2>1, <2>2, FinishesKeep
<1> QED BY <1>2, <1>3

(* The settings name a picture that is stored, and nobody else has it.     *)
LEMMA PointLogoKeeps ==
    ASSUME PicturesInv, NEW r \in Requests, PointLogo(r)
    PROVE  PicturesInv'
<1> DEFINE f == work[r].file
<1> USE DEF PicturesInv
<1>1. /\ work' \in [Requests -> WorkRow]
      /\ work[r].pc = "pointing" /\ work'[r].pc = "replaced"
      /\ work'[r].keys = work[r].keys
      /\ \A q \in Requests \ {r} : work'[q] = work[q]
  BY GoesOn DEF PointLogo
<1>2. UNCHANGED <<device, image, objects, stranded, keyed>> /\ logo' = f
  BY DEF PointLogo
<1>3. /\ f \in Files /\ f \in keyed /\ image[f].row = "none" /\ InHand(r)
      /\ \A q \in Requests \ {r} : InHand(q) => work[q].file # f
  BY <1>1 DEF InHand, OnePlace, PicturesTypeOK
<1>4. PicturesTypeOK'
  BY <1>1, <1>2, <1>3 DEF PicturesTypeOK
<1>5. /\ \A q \in Requests : InHand(q)' => q # r /\ InHand(q) /\ work'[q] = work[q]
      /\ f # NoFile
  BY <1>1, <1>3, PicturesAssumption DEF InHand
<1>6. OnePlace'
  BY <1>1, <1>2, <1>3, <1>5 DEF OnePlace
<1>7. ASSUME NEW q \in Requests
      PROVE  DeletesRows(q)' /\ ReplacesLogo(q)' /\ OthersDeleteNothing(q)'
  <2>1. work'[q].pc \notin {"erasing", "erased", "emptying", "removing"} \/ work'[q] = work[q]
    BY <1>1
  <2>2. DeletesRows(q)'
    BY <1>2, <2>1 DEF DeletesRows
  <2>3. OthersDeleteNothing(q)'
    BY <1>1 DEF OthersDeleteNothing
  <2>4. ReplacesLogo(q)'
    <3> SUFFICES ASSUME work'[q].pc \in {"logo", "pointing", "replaced"},
                        NEW key, key \in work'[q].keys
                 PROVE  \E g \in keyed :
                           /\ key = Full(g)
                           /\ image[g].row = "none"
                           /\ \A o \in Requests : InHand(o)' => work'[o].file # g
                           /\ g # logo'
      BY <1>2 DEF ReplacesLogo
    <3>1. work[q].pc \in {"logo", "pointing", "replaced"} /\ key \in work[q].keys
      BY <1>1
    <3>2. PICK g \in keyed : /\ key = Full(g) /\ image[g].row = "none"
                            /\ \A o \in Requests : InHand(o) => work[o].file # g
      BY <3>1 DEF ReplacesLogo
    <3> QED BY <1>2, <1>3, <1>5, <3>2
  <2> QED BY <2>2, <2>3, <2>4
<1>8. StoredFirst' /\ GoneHasNoRows'
  BY <1>1, <1>2 DEF StoredFirst, GoneHasNoRows, Shown
<1>9. LogoIsThere'
  BY <1>1, <1>2 DEF StoredFirst, LogoIsThere
<1>10. KeptIsThere'
  <2>1. KeptIsThere
    BY RowsKeyByKey
  <2> QED BY <1>1, <1>2, <2>1 DEF KeptIsThere, KeysOf
<1> QED BY <1>4, <1>6, <1>7, <1>8, <1>9, <1>10, NextRowsKeyByKey

(* Every step of a request, every lost answer and every death keeps them. *)
LEMMA PicturesNextInv == PicturesInv /\ [PicturesNext]_pictureVars => PicturesInv'
<1> SUFFICES ASSUME PicturesInv, [PicturesNext]_pictureVars PROVE PicturesInv'
  OBVIOUS
<1>1. ASSUME NEW r \in Requests, NEW f \in Files, StartUpload(r, f) PROVE PicturesInv'
  <2> DEFINE new == [Unoccupied EXCEPT !.pc = "photo", !.file = f]
  <2>1. /\ new \in WorkRow /\ new.pc = "photo" /\ new.file = f /\ ~new.thumb /\ new.keys = {}
    BY DEF Unoccupied, WorkRow
  <2>2. work' = [work EXCEPT ![r] = new]
    BY <1>1 DEF StartUpload
  <2> HIDE DEF new
  <2> QED BY <1>1, <2>1, <2>2, TakesUpKeeps DEF StartUpload
<1>2. ASSUME NEW r \in Requests, NEW f \in Files, StartLogo(r, f) PROVE PicturesInv'
  <2> DEFINE keys == IF logo = NoFile THEN {} ELSE {Full(logo)}
             new == [Unoccupied EXCEPT !.pc = "logo", !.file = f, !.keys = keys]
  <2>1. keys \in SUBSET Keys
    BY DEF PicturesInv, PicturesTypeOK, Keys
  <2>2. /\ new \in WorkRow /\ new.pc = "logo" /\ new.file = f /\ ~new.thumb /\ new.keys = keys
    <3> HIDE DEF keys
    <3> QED BY <2>1 DEF Unoccupied, WorkRow
  <2>3. work' = [work EXCEPT ![r] = new]
    BY <1>2 DEF StartLogo
  <2> HIDE DEF new
  <2> QED BY <1>2, <2>2, <2>3, TakesUpKeeps DEF StartLogo
<1>3. ASSUME NEW r \in Requests, NEW f \in Files, StartDelete(r, f) PROVE PicturesInv'
  BY <1>3, DeletionsRead
<1>4. ASSUME NEW r \in Requests, StartRemoval(r) \/ ListImages(r) PROVE PicturesInv'
  BY <1>4, DeletionsRead
<1>5. ASSUME NEW r \in Requests, PutFull(r) \/ PutThumb(r) \/ PutLogo(r) PROVE PicturesInv'
  BY <1>5, UploadsKeep
<1>6. ASSUME NEW r \in Requests, DropImage(r) \/ EmptyDevice(r) \/ DropLogo(r) PROVE PicturesInv'
  BY <1>6, DeletionsDrop
<1>7. ASSUME NEW r \in Requests, CutShort(r) PROVE PicturesInv'
  <2>1. /\ work' = [work EXCEPT ![r] = Unoccupied]
        /\ stranded' = stranded \cup (IF work[r].pc \in {"erased", "removing"} THEN work[r].keys
                                     ELSE {})
        /\ UNCHANGED <<device, image, logo, objects, keyed>>
    BY <1>7 DEF CutShort
  <2>2. stranded' \in SUBSET Keys
    BY <2>1 DEF PicturesInv, PicturesTypeOK, WorkRow
  <2> QED BY <2>1, <2>2, FinishesKeep
<1>8. CASE InvoiceDevice
  <2>1. /\ device' \in {"here", "invoiced", "gone"} /\ device' # "gone"
        /\ UNCHANGED <<image, logo, objects, work, stranded, keyed>>
    BY <1>8 DEF InvoiceDevice
  <2> USE <2>1 DEF PicturesInv
  <2>2. PicturesTypeOK' /\ OnePlace' /\ StoredFirst' /\ GoneHasNoRows' /\ RowsHaveObjects'
    BY DEF PicturesTypeOK, OnePlace, InHand, StoredFirst, GoneHasNoRows, RowsHaveObjects, Shown, KeysOf, InDeletion
  <2>3. \A r \in Requests : DeletesRows(r)' /\ ReplacesLogo(r)' /\ OthersDeleteNothing(r)'
    BY DEF DeletesRows, ReplacesLogo, OthersDeleteNothing, InHand
  <2> QED BY <2>2, <2>3
<1>9. CASE UNCHANGED pictureVars
  <2> USE <1>9 DEF pictureVars, PicturesInv
  <2>2. PicturesTypeOK' /\ OnePlace' /\ StoredFirst' /\ GoneHasNoRows' /\ RowsHaveObjects'
    BY DEF PicturesTypeOK, OnePlace, InHand, StoredFirst, GoneHasNoRows, RowsHaveObjects, Shown, KeysOf, InDeletion
  <2>3. \A r \in Requests : DeletesRows(r)' /\ ReplacesLogo(r)' /\ OthersDeleteNothing(r)'
    BY DEF DeletesRows, ReplacesLogo, OthersDeleteNothing, InHand
  <2> QED BY <2>2, <2>3
<1> QED BY <1>1, <1>2, <1>3, <1>4, <1>5, <1>6, <1>7, <1>8, <1>9, MakeImageRowKeeps,
           DropImageRowKeeps, RemoveDeviceKeeps, PointLogoKeeps DEF PicturesNext

(* Who has each picture in hand, and whose keys each deletion drops.       *)
THEOREM PicturesInvariant == PicturesSpec => []PicturesInv
BY PicturesInitInv, PicturesNextInv, PTL DEF PicturesSpec

(* What a row or a settings column points at is in the bucket.             *)
THEOREM PicturesRowsHaveObjects == PicturesSpec => []RowsHaveObjects
<1>1. PicturesInv => RowsHaveObjects
  BY DEF PicturesInv
<1> QED BY <1>1, PicturesInvariant, PTL

-----------------------------------------------------------------------------
(* The list page. *)

FlightRow == [question : Question, from : Nat, odd : BOOLEAN]

ListTypeOK ==
    /\ input \in Searches /\ debounced \in Searches
    /\ page \in Pages
    /\ flight \in Seq(FlightRow)
    /\ shown \in [question : Question, version : Nat, failed : BOOLEAN, odd : BOOLEAN]
    /\ loading \in BOOLEAN
    /\ saved \in Nat /\ answered \in Nat
    /\ modal \in {"closed", "open"}
    /\ saving \in {"idle", "sent", "done"}
    /\ row \in [pc : {"idle", "sent", "done"}, question : Question]

(* Every change of the question or of the newest answered save sends a     *)
(* request after it: the last request under way asks what the page asks.   *)
LastAsksNow ==
    flight # <<>> =>
        LET last == flight[Len(flight)]
        IN last.odd \/ (last.question = Asked /\ last.from >= answered)

(* With nothing under way, the rows are those of the last request. *)
RestShowsLast ==
    flight = <<>> =>
        /\ ~loading
        /\ shown.failed \/ shown.odd \/ (shown.question = Asked /\ shown.version >= answered)

ListInv ==
    /\ ListTypeOK
    /\ answered <= saved
    /\ LastAsksNow
    /\ RestShowsLast

(* What is sent is a row of the flight, and says what it was sent for. *)
LEMMA SentIsRow ==
    ASSUME ListTypeOK, NEW q \in Question, NEW odd \in BOOLEAN
    PROVE  /\ Sent(q, odd) \in FlightRow
           /\ Sent(q, odd).question = q /\ Sent(q, odd).from = saved /\ Sent(q, odd).odd = odd
BY DEF Sent, FlightRow, ListTypeOK

(* The page's own question is one. *)
LEMMA AskedIsQuestion == ListTypeOK => Asked \in Question
BY DEF ListTypeOK, Asked, Question

(* After a fetch the last of its requests is the last one under way. *)
LEMMA FetchSendsLast ==
    ASSUME ListTypeOK, NEW requests \in Seq(FlightRow), requests # <<>>, Fetch(requests)
    PROVE  /\ flight' \in Seq(FlightRow) /\ flight' # <<>>
           /\ flight'[Len(flight')] = requests[Len(requests)]
           /\ loading' = TRUE
<1>1. flight' = flight \o requests /\ flight \in Seq(FlightRow)
  BY DEF Fetch, ListTypeOK
<1>2. /\ Len(requests) \in Nat \ {0} /\ Len(flight) \in Nat
      /\ Len(flight') = Len(flight) + Len(requests)
      /\ flight' \in Seq(FlightRow)
  BY <1>1
<1>3. flight'[Len(flight) + Len(requests)] = requests[Len(requests)]
  BY <1>1, <1>2
<1> QED BY <1>2, <1>3 DEF Fetch

(* The first rows are on their way and nothing was saved. *)
LEMMA ListInitInv == ListInit => ListInv
<1> SUFFICES ASSUME ListInit PROVE ListInv
  OBVIOUS
<1>1. Asked \in Question /\ saved \in Nat /\ debounced \in Searches /\ page \in Pages
  BY ListAssumption DEF ListInit, Asked, Question
<1>2. Sent(Asked, FALSE) \in FlightRow /\ Sent(Asked, FALSE).question = Asked
      /\ Sent(Asked, FALSE).from = saved
  BY <1>1 DEF Sent, FlightRow
<1>3. /\ flight \in Seq(FlightRow) /\ flight # <<>> /\ Len(flight) = 1
      /\ flight[1] = Sent(Asked, FALSE)
  <2>1. \A x \in FlightRow : /\ <<x>> \in Seq(FlightRow) /\ <<x>> # <<>>
                            /\ Len(<<x>>) = 1 /\ <<x>>[1] = x
    OBVIOUS
  <2> QED BY <1>2, <2>1 DEF ListInit
<1>4. ListTypeOK
  BY <1>1, <1>3, ListAssumption DEF ListInit, ListTypeOK, NoRows
<1>5. LastAsksNow
  <2>1. flight[Len(flight)] = Sent(Asked, FALSE) /\ answered = 0 /\ saved = 0
    BY <1>3 DEF ListInit
  <2>2. flight[Len(flight)].question = Asked
    BY <1>2, <2>1
  <2>3. flight[Len(flight)].from = 0
    BY <1>2, <2>1, Zenon
  <2>4. 0 >= 0
    OBVIOUS
  <2> QED BY <2>1, <2>2, <2>3, <2>4, Zenon DEF LastAsksNow
<1>6. RestShowsLast /\ answered <= saved
  BY <1>3 DEF ListInit, RestShowsLast
<1> QED BY <1>4, <1>5, <1>6 DEF ListInv

(* An answer or a failure takes its request out of the flight; the rows    *)
(* that stay last were last before, or were overtaken.                     *)
LEMMA LandedKeeps ==
    ASSUME ListInv, NEW n \in DOMAIN flight, Arrive(n) \/ FetchFails(n)
    PROVE  ListInv'
<1> DEFINE rest == [k \in 1..(Len(flight) - 1) |->
                       IF k < n THEN [flight[k] EXCEPT !.odd = TRUE] ELSE flight[k + 1]]
<1>1. /\ flight \in Seq(FlightRow) /\ DOMAIN flight = 1..Len(flight) /\ Len(flight) \in Nat
      /\ \A k \in 1..Len(flight) : flight[k] \in FlightRow
      /\ n \in 1..Len(flight)
  BY DEF ListInv, ListTypeOK
<1>2. flight' = rest /\ Landed(n)
  BY DEF Arrive, FetchFails, Landed
<1>3. \A k \in 1..(Len(flight) - 1) : rest[k] \in FlightRow
  <2>1. \A x \in FlightRow : [x EXCEPT !.odd = TRUE] \in FlightRow
    BY DEF FlightRow
  <2>2. \A k \in 1..(Len(flight) - 1) : k \in 1..Len(flight) /\ k + 1 \in 1..Len(flight)
    BY <1>1
  <2> QED BY <1>1, <2>1, <2>2
<1>4. /\ flight' \in Seq(FlightRow) /\ Len(flight') = Len(flight) - 1
      /\ DOMAIN flight' = 1..(Len(flight) - 1)
  BY <1>1, <1>2, <1>3
<1>5. Asked' = Asked /\ answered' = answered /\ saved' = saved
  BY <1>2 DEF Landed, Asked
<1>6. LastAsksNow'
  <2> SUFFICES ASSUME flight' # <<>>
               PROVE  LET last == flight'[Len(flight')]
                      IN last.odd \/ (last.question = Asked /\ last.from >= answered)
    BY <1>5 DEF LastAsksNow
  <2>1. Len(flight) - 1 \in 1..(Len(flight) - 1) /\ Len(flight) \in 1..Len(flight)
    BY <1>1, <1>4
  <2>2. CASE n = Len(flight)
    <3>1. flight'[Len(flight')] = [flight[Len(flight) - 1] EXCEPT !.odd = TRUE]
      BY <1>1, <1>2, <1>4, <2>1, <2>2
    <3>2. flight[Len(flight) - 1] \in FlightRow
      BY <1>1, <2>1
    <3> QED BY <3>1, <3>2 DEF FlightRow
  <2>3. CASE n # Len(flight)
    <3>1. flight'[Len(flight')] = flight[Len(flight)]
      BY <1>1, <1>2, <1>4, <2>1, <2>3
    <3>2. flight # <<>>
      BY <1>1, <2>1
    <3> QED BY <3>1, <3>2 DEF ListInv, LastAsksNow
  <2> QED BY <2>2, <2>3
<1>7. /\ shown' \in [question : Question, version : Nat, failed : BOOLEAN, odd : BOOLEAN]
      /\ shown'.odd = flight[n].odd /\ shown'.question = flight[n].question
      /\ shown'.failed \/ shown'.version >= flight[n].from
  <2>1. flight[n] \in FlightRow /\ saved \in Nat
    BY <1>1 DEF ListInv, ListTypeOK
  <2>2. CASE Arrive(n)
    <3>1. PICK v \in flight[n].from..saved :
             shown' = [question |-> flight[n].question, version |-> v, failed |-> FALSE,
                       odd |-> flight[n].odd]
      BY <2>2 DEF Arrive
    <3> QED BY <2>1, <3>1 DEF FlightRow
  <2>3. CASE FetchFails(n)
    BY <2>1, <2>3 DEF FetchFails, NoRows, FlightRow
  <2> QED BY <2>2, <2>3
<1>8. RestShowsLast'
  <2> SUFFICES ASSUME flight' = <<>>
               PROVE  /\ ~loading'
                      /\ \/ shown'.failed \/ shown'.odd
                         \/ shown'.question = Asked /\ shown'.version >= answered
    BY <1>5 DEF RestShowsLast
  <2>1. Len(flight) = 1 /\ n = Len(flight) /\ flight # <<>>
    BY <1>1, <1>4
  <2>2. flight[n].odd \/ (flight[n].question = Asked /\ flight[n].from >= answered)
    BY <2>1 DEF ListInv, LastAsksNow
  <2>3. flight[n].from \in Nat /\ answered \in Nat /\ shown'.version \in Nat
    BY <1>1, <1>7 DEF ListInv, ListTypeOK, FlightRow
  <2>4. loading' = FALSE
    BY <1>2 DEF Landed
  <2> QED BY <1>7, <2>2, <2>3, <2>4
<1>9. ListTypeOK'
  BY <1>2, <1>4, <1>7 DEF ListInv, ListTypeOK, Landed
<1> QED BY <1>5, <1>6, <1>8, <1>9 DEF ListInv

(* A fetch that ends with what the page asks keeps the invariant: its last *)
(* request is as new as everything the page had an answer for.             *)
LEMMA FetchKeeps ==
    ASSUME ListInv, NEW requests \in Seq(FlightRow), requests # <<>>, Fetch(requests),
           LET last == requests[Len(requests)]
           IN last.odd \/ (last.question = Asked' /\ last.from >= answered')
    PROVE  /\ flight' \in Seq(FlightRow) /\ loading' = TRUE
           /\ LastAsksNow' /\ RestShowsLast'
<1>1. /\ flight' \in Seq(FlightRow) /\ flight' # <<>> /\ loading' = TRUE
      /\ flight'[Len(flight')] = requests[Len(requests)]
  BY FetchSendsLast DEF ListInv
<1> QED BY <1>1 DEF LastAsksNow, RestShowsLast

(* Steps that send nothing and change neither the question nor the rows. *)
LEMMA QuietKeeps ==
    ASSUME ListInv, UNCHANGED <<debounced, page, flight, shown, loading, answered>>,
           input' \in Searches, saved' \in Nat, saved' >= saved,
           modal' \in {"closed", "open"}, saving' \in {"idle", "sent", "done"},
           row' \in [pc : {"idle", "sent", "done"}, question : Question]
    PROVE  ListInv'
BY DEF ListInv, ListTypeOK, LastAsksNow, RestShowsLast, Asked

(* Each step of the page keeps its invariant. *)
LEMMA ListNextInv == ListInv /\ [ListNext]_listVars => ListInv'
<1> SUFFICES ASSUME ListInv, [ListNext]_listVars PROVE ListInv'
  OBVIOUS
<1>t. ListTypeOK /\ answered <= saved /\ Asked \in Question
  BY AskedIsQuestion DEF ListInv
<1>s. \A q \in Question, odd \in BOOLEAN :
         /\ Sent(q, odd) \in FlightRow
         /\ Sent(q, odd).question = q /\ Sent(q, odd).from = saved /\ Sent(q, odd).odd = odd
  BY <1>t, SentIsRow
<1>o. \A x \in FlightRow : /\ <<x>> \in Seq(FlightRow) /\ <<x>> # <<>>
                          /\ <<x>>[Len(<<x>>)] = x
  OBVIOUS
<1>p. \A x, y \in FlightRow : /\ <<x, y>> \in Seq(FlightRow) /\ <<x, y>> # <<>>
                             /\ <<x, y>>[Len(<<x, y>>)] = y
  OBVIOUS
<1>1. ASSUME NEW v \in Searches, Type(v) PROVE ListInv'
  BY <1>t, <1>1, QuietKeeps DEF Type, ListTypeOK
<1>2. CASE Debounce
  <2> DEFINE first == Sent([search |-> input, page |-> page], FALSE)
             then == Sent([search |-> input, page |-> 1], FALSE)
             all == <<first>> \o IF page = 1 THEN <<>> ELSE <<then>>
  <2>1. /\ [search |-> input, page |-> page] \in Question
        /\ [search |-> input, page |-> 1] \in Question
    BY <1>t, ListAssumption DEF Question, ListTypeOK
  <2>2. first \in FlightRow /\ then \in FlightRow
    BY <2>1, <1>s
  <2>a. /\ all \in Seq(FlightRow) /\ all # <<>>
        /\ all[Len(all)] = then
    <3>1. CASE page = 1
      <4>1. all = <<then>>
        BY <3>1
      <4> HIDE DEF all, then
      <4> QED BY <4>1, <2>2, <1>o
    <3>2. CASE page # 1
      <4>1. all = <<first>> \o <<then>>
        BY <3>2
      <4> HIDE DEF all, first, then
      <4>2. /\ <<first>> \in Seq(FlightRow) /\ Len(<<first>>) = 1 /\ <<first>>[1] = first
            /\ <<then>> \in Seq(FlightRow) /\ Len(<<then>>) = 1 /\ <<then>>[1] = then
        BY <2>2
      <4>3. all \in Seq(FlightRow) /\ Len(all) = 2 /\ all[2] = then
        BY <4>1, <4>2
      <4>4. all # <<>>
        BY <4>3, EmptySeq
      <4>5. all[Len(all)] = then
        BY <4>3
      <4> QED BY <4>3, <4>4, <4>5
    <3> QED BY <3>1, <3>2
  <2>3. then.question = Asked' /\ then.from >= answered'
    <3>1. Asked' = [search |-> input, page |-> 1] /\ answered' = answered
      BY <1>2 DEF Debounce, Asked
    <3> QED BY <3>1, <2>1, <1>s, <1>t
  <2>4. Fetch(all)
    BY <1>2 DEF Debounce
  <2> HIDE DEF all, first, then
  <2>5. flight' \in Seq(FlightRow) /\ loading' = TRUE /\ LastAsksNow' /\ RestShowsLast'
    BY <2>a, <2>3, <2>4, FetchKeeps
  <2> QED BY <1>2, <1>t, <2>5, ListAssumption DEF Debounce, ListInv, ListTypeOK
<1>3. ASSUME NEW p \in Pages, GoTo(p) PROVE ListInv'
  <2> DEFINE q == [search |-> debounced, page |-> p]
  <2>1. q \in Question /\ q = Asked' /\ answered' = answered
    BY <1>t, <1>3 DEF GoTo, Question, ListTypeOK, Asked
  <2>2. Fetch(<<Sent(q, FALSE)>>)
    BY <1>3 DEF GoTo
  <2>3. flight' \in Seq(FlightRow) /\ loading' = TRUE /\ LastAsksNow' /\ RestShowsLast'
    BY <1>s, <1>o, <1>t, <2>1, <2>2, FetchKeeps
  <2> QED BY <1>3, <1>t, <2>3 DEF GoTo, ListInv, ListTypeOK
<1>4. ASSUME NEW n \in DOMAIN flight, Arrive(n) \/ FetchFails(n) PROVE ListInv'
  BY <1>4, LandedKeeps
<1>5. CASE PickStatus \/ RowChanges
  BY <1>5, <1>t, QuietKeeps DEF PickStatus, RowChanges, ListTypeOK
<1>6. CASE RowAnswered
  <2> DEFINE q == row.question
  <2>1. /\ q \in Question /\ (q # Asked) \in BOOLEAN
        /\ Asked' = Asked /\ answered' = saved /\ saved' = saved
    BY <1>t, <1>6 DEF RowAnswered, ListTypeOK, Asked
  <2>2. Fetch(<<Sent(q, q # Asked)>>)
    BY <1>6 DEF RowAnswered
  <2>3. flight' \in Seq(FlightRow) /\ loading' = TRUE /\ LastAsksNow' /\ RestShowsLast'
    <3> DEFINE x == Sent(q, q # Asked)
    <3>1. x \in FlightRow /\ x.question = q /\ x.from = saved /\ x.odd = (q # Asked)
      BY <1>s, <2>1
    <3>a. q = Asked => x.question = Asked'
      BY <2>1, <3>1
    <3>b. x.from >= answered'
      BY <1>t, <2>1, <3>1 DEF ListTypeOK
    <3>2. x.odd \/ (x.question = Asked' /\ x.from >= answered')
      BY <3>a, <3>b, <3>1
    <3> HIDE DEF x
    <3>3. <<x>> \in Seq(FlightRow) /\ <<x>> # <<>> /\ <<x>>[Len(<<x>>)] = x
      BY <1>o, <3>1
    <3> QED BY <3>2, <3>3, <2>2, FetchKeeps DEF x
  <2> QED BY <1>6, <1>t, <2>1, <2>3 DEF RowAnswered, ListInv, ListTypeOK
<1>7. CASE OpenModal \/ SubmitModal \/ ModalSaves
  BY <1>7, <1>t, QuietKeeps DEF OpenModal, SubmitModal, ModalSaves, ListTypeOK
<1>8. CASE CloseModal
  <2>1. Asked' = Asked /\ answered' = answered /\ Fetch(<<Sent(Asked, FALSE)>>)
    BY <1>8 DEF CloseModal, Asked
  <2>2. flight' \in Seq(FlightRow) /\ loading' = TRUE /\ LastAsksNow' /\ RestShowsLast'
    BY <1>s, <1>o, <1>t, <2>1, FetchKeeps
  <2> QED BY <1>8, <1>t, <2>2 DEF CloseModal, ListInv, ListTypeOK
<1>9. CASE ModalAnswered
  <2>1. /\ Asked' = Asked /\ answered' = saved /\ saved' = saved
        /\ Fetch(<<Sent(Asked, FALSE), Sent(Asked, FALSE)>>)
    BY <1>9 DEF ModalAnswered, Asked
  <2>2. flight' \in Seq(FlightRow) /\ loading' = TRUE /\ LastAsksNow' /\ RestShowsLast'
    <3> DEFINE x == Sent(Asked, FALSE)
    <3>a. x \in FlightRow /\ x.question = Asked /\ x.from = saved
      BY <1>s, <1>t
    <3>b. saved >= saved
      BY <1>t DEF ListTypeOK
    <3>1. x \in FlightRow /\ x.question = Asked' /\ x.from >= answered'
      BY <2>1, <3>a, <3>b, Zenon
    <3> HIDE DEF x
    <3>2. <<x, x>> \in Seq(FlightRow) /\ <<x, x>> # <<>> /\ <<x, x>>[Len(<<x, x>>)] = x
      BY <1>p, <3>1
    <3> QED BY <3>1, <3>2, <2>1, FetchKeeps DEF x
  <2> QED BY <1>9, <1>t, <2>1, <2>2 DEF ModalAnswered, ListInv, ListTypeOK
<1>10. CASE UNCHANGED listVars
  BY <1>10, <1>t, QuietKeeps DEF listVars, ListTypeOK
<1> QED BY <1>1, <1>2, <1>3, <1>4, <1>5, <1>6, <1>7, <1>8, <1>9, <1>10 DEF ListNext

(* Where each request is keeps the list's invariant, for every order of    *)
(* sending, answering and saving.                                          *)
THEOREM ListInvariant == ListSpec => []ListInv
BY ListInitInv, ListNextInv, PTL DEF ListSpec

(* Once nothing is under way the list shows what the page asks for.        *)
THEOREM ListShowsWhatIsAsked == ListSpec => []ShowsWhatIsAsked
<1>1. ListInv => ShowsWhatIsAsked
  BY DEF ListInv, RestShowsLast, ShowsWhatIsAsked
<1> QED BY <1>1, ListInvariant, PTL

-----------------------------------------------------------------------------
(* The device form. *)

FormTypeOK ==
    /\ front \in Forms \cup {NoForm}
    /\ form \in [Forms -> FormRow]
    /\ made \in [Forms -> Nat]
    /\ undone \in SUBSET Forms /\ left \in SUBSET Forms /\ lost \in SUBSET Forms

(* A form whose save failed in no half-way has made nothing while it can   *)
(* still be submitted, and one device when its save has gone through.      *)
MadeByCall ==
    \A f \in Forms : f \notin undone =>
        /\ made[f] <= 1
        /\ form[f].call \in {"saving", "failed"} => made[f] = 0
        /\ front = f => (form[f].call = "idle" => made[f] = 0)

(* A form that was never opened is not in front and saves nothing. *)
UnopenedRests ==
    \A f \in Forms : form[f].deviceId = "unopened" =>
        front # f /\ form[f].call = "idle" /\ made[f] = 0

(* While no form was left during its save, only the form in front saves. *)
FrontSaves ==
    left = {} => /\ lost = {}
                 /\ \A f \in Forms : form[f].call # "idle" => front = f

FormInv == FormTypeOK /\ MadeByCall /\ UnopenedRests /\ FrontSaves

(* A form just opened has made nothing. *)
LEMMA FormInitInv == FormInit => FormInv
BY FormAssumption DEF FormInit, FormInv, FormTypeOK, FormRow, MadeByCall, UnopenedRests, FrontSaves

(* Steps of the photos and of the forms nobody saves leave all of it be.   *)
LEMMA PhotosKeepForms ==
    ASSUME FormInv, UNCHANGED <<front, form, made, undone, left, lost>>
    PROVE  FormInv'
BY DEF FormInv, FormTypeOK, MadeByCall, UnopenedRests, FrontSaves

(* Each step of the forms keeps their invariant. *)
LEMMA FormNextInv == FormInv /\ [FormNext]_formVars => FormInv'
<1> SUFFICES ASSUME FormInv, [FormNext]_formVars PROVE FormInv'
  OBVIOUS
<1> USE DEF FormInv, FormTypeOK, FormRow, MadeByCall, UnopenedRests, FrontSaves
<1>1. ASSUME NEW f \in Forms, OpenForm(f) PROVE FormInv'
  BY <1>1, FormAssumption DEF OpenForm
<1>2. ASSUME NEW f \in Forms, Submit(f) PROVE FormInv'
  BY <1>2 DEF Submit, Call
<1>3. ASSUME NEW f \in Forms, SaveDevice(f) PROVE FormInv'
  BY <1>3 DEF SaveDevice, Call, Makes
<1>4. ASSUME NEW f \in Forms, SaveFails(f) PROVE FormInv'
  BY <1>4 DEF SaveFails, Call, Makes
<1>5. ASSUME NEW f \in Forms, SetAssignments(f) PROVE FormInv'
  BY <1>5 DEF SetAssignments, Call
<1>6. ASSUME NEW f \in Forms, AssignmentsFail(f) PROVE FormInv'
  BY <1>6 DEF AssignmentsFail, Call
<1>7. ASSUME NEW f \in Forms, TellError(f) PROVE FormInv'
  BY <1>7 DEF TellError, Call
<1>8. ASSUME NEW f \in Forms, TellSaved(f) PROVE FormInv'
  BY <1>8, FormAssumption DEF TellSaved, Call
<1>9. CASE CloseForm
  BY <1>9, FormAssumption DEF CloseForm
<1>10. ASSUME NEW p \in Photos, ChoosePhoto(p) \/ Upload(p) \/ RetryUpload(p) \/ RemovePhoto(p)
       PROVE  FormInv'
  BY <1>10, PhotosKeepForms DEF ChoosePhoto, Upload, RetryUpload, RemovePhoto
<1>11. CASE UNCHANGED formVars
  BY <1>11, PhotosKeepForms DEF formVars
<1> QED BY <1>1, <1>2, <1>3, <1>4, <1>5, <1>6, <1>7, <1>8, <1>9, <1>10, <1>11 DEF FormNext

(* What each form has made and where its save is, for any number of forms. *)
THEOREM FormInvariant == FormSpec => []FormInv
BY FormInitInv, FormNextInv, PTL DEF FormSpec

(* What is typed into a form becomes one device and is not thrown away by  *)
(* another form's answer, but for the two causes the property names.       *)
THEOREM FormWorkArrivesOnce == FormSpec => []WorkArrivesOnce
<1>1. FormInv => WorkArrivesOnce
  BY DEF FormInv, FormTypeOK, MadeByCall, FrontSaves, WorkArrivesOnce
<1> QED BY <1>1, FormInvariant, PTL
=============================================================================

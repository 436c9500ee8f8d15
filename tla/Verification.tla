----------------------------- MODULE Verification -----------------------------
(***************************************************************************)
(* Verification codes of one phone number: send-otp, register and          *)
(* reset-password of authController.ts over the otp_codes rows, several    *)
(* requests at once, statement by statement.                               *)
(*                                                                         *)
(* Only the transactions that spend a code are one step.  What is typed is *)
(* the code that it is compared with, or something else.                   *)
(***************************************************************************)
EXTENDS Integers, Sequences, FiniteSets

CONSTANTS
    Callers,        \* requests that run at once
    OTP_SEND_LIMIT, \* codes per phone and hour
    OTP_MAX_ATTEMPTS,
    MaxCodes        \* bound: codes that are made

ASSUME VerificationAssumption ==
    /\ OTP_SEND_LIMIT \in Nat \ {0} /\ OTP_MAX_ATTEMPTS \in Nat \ {0}
    /\ MaxCodes \in Nat

VARIABLES
    codes,      \* otp_codes in id order, and the messages that carried them
    user,       \* the user that has this number as its username
    caller,     \* the requests under way
    effects,    \* what came of each code: transactions that committed
    overlapped, \* a request read what another was about to write
    broken      \* a statement failed, or the provider's answer was lost

otpVars == <<codes, user, caller, effects, overlapped, broken>>

Purposes == {"register", "reset"}

(* spent says what set consumed_at; age is told from created_at: a code is *)
(* good while fresh and counts until it is old.  missed is of no column:   *)
(* the wrong guesses it was compared with.                                 *)
CodeRow == [purpose : Purposes, attempts : 0..OTP_MAX_ATTEMPTS,
            spent : {"no", "superseded", "used"}, age : {"fresh", "expired", "old"},
            gone : BOOLEAN, delivered : BOOLEAN, missed : Nat]

Resting == [pc |-> "idle", purpose |-> "register", code |-> 0]

OtpInit ==
    /\ codes = <<>>
    /\ user \in {"none", "active", "disabled"}
    /\ caller = [c \in Callers |-> Resting]
    /\ effects = [n \in 1..MaxCodes |-> 0]
    /\ overlapped = FALSE /\ broken = FALSE

At(c, pc) == caller[c].pc = pc

Ends(c) == caller' = [caller EXCEPT ![c] = Resting]

Others(c) == \E o \in Callers \ {c} : caller[o].pc # "idle"

Row(n, f, v) == codes' = [codes EXCEPT ![n] = [@ EXCEPT ![f] = v]]

(* What is left of a deleted row, which nothing reads. *)
Deleted(row) == [row EXCEPT !.gone = TRUE, !.age = "old", !.attempts = 0, !.missed = 0,
                            !.delivered = FALSE]

-----------------------------------------------------------------------------
(* send-otp. *)

(* A wrong form: what counts is what is still good. *)
RecentFresh == {n \in DOMAIN codes : ~codes[n].gone /\ codes[n].age = "fresh"}

(* The rows of both purposes that are younger than the window. *)
Recent == {n \in DOMAIN codes : ~codes[n].gone /\ codes[n].age # "old"}

(* The user, then the count: both end the request before it writes. *)
AskCode(c, purpose) ==
    /\ At(c, "idle")
    /\ Len(codes) + Cardinality({o \in Callers : caller[o].pc \in {"counted", "cleared"}})
          < MaxCodes
    /\ purpose = "register" <=> user = "none"
    /\ Cardinality(Recent) < OTP_SEND_LIMIT
    /\ caller' = [caller EXCEPT ![c] = [Resting EXCEPT !.pc = "counted", !.purpose = purpose]]
    /\ overlapped' = (overlapped \/ Others(c))
    /\ UNCHANGED <<codes, user, effects, broken>>

(* The sweep of old rows and the end of the code before this one. *)
Supersede(c) ==
    /\ At(c, "counted")
    /\ codes' = [n \in DOMAIN codes |->
          IF codes[n].age = "old" THEN Deleted(codes[n])
          ELSE IF codes[n].purpose = caller[c].purpose /\ codes[n].spent = "no"
               THEN [codes[n] EXCEPT !.spent = "superseded"] ELSE codes[n]]
    /\ caller' = [caller EXCEPT ![c].pc = "cleared"]
    /\ UNCHANGED <<user, effects, overlapped, broken>>

MakeCode(c) ==
    /\ At(c, "cleared")
    /\ codes' = Append(codes, [purpose |-> caller[c].purpose, attempts |-> 0, spent |-> "no",
                               age |-> "fresh", gone |-> FALSE, delivered |-> FALSE,
                               missed |-> 0])
    /\ caller' = [caller EXCEPT ![c].pc = "made", ![c].code = Len(codes) + 1]
    /\ UNCHANGED <<user, effects, overlapped, broken>>

(* sendVerificationCode: the message goes out and the request ends, or it  *)
(* throws, whether or not the message went out.  Bound: things break once. *)
SendCode(c) ==
    /\ At(c, "made")
    /\ \/ /\ Row(caller[c].code, "delivered", TRUE)
          /\ Ends(c)
          /\ UNCHANGED broken
       \/ /\ ~broken
          /\ \E out \in BOOLEAN : Row(caller[c].code, "delivered", out)
          /\ caller' = [caller EXCEPT ![c].pc = "unsent"]
          /\ broken' = TRUE
    /\ UNCHANGED <<user, effects, overlapped>>

DropCode(c) ==
    /\ At(c, "unsent")
    /\ codes' = [codes EXCEPT ![caller[c].code] = Deleted(@)]
    /\ Ends(c)
    /\ UNCHANGED <<user, effects, overlapped, broken>>

-----------------------------------------------------------------------------
(* register and reset-password. *)

Newest(purpose) ==
    LET rows == {n \in DOMAIN codes : ~codes[n].gone /\ codes[n].purpose = purpose}
    IN IF rows = {} THEN 0 ELSE CHOOSE n \in rows : \A m \in rows : m <= n

(* checkOtp, in its order: burned, spent, expired, wrong. *)
Burned(n) == codes[n].attempts >= OTP_MAX_ATTEMPTS

Judged(n) == ~Burned(n) /\ codes[n].spent = "no" /\ codes[n].age = "fresh"

(* The user as reset reads it, the newest code of the purpose, and the    *)
(* verdict on what was typed.                                              *)
UseCode(c, purpose, right) ==
    LET n == Newest(purpose)
        ok == n # 0 /\ Judged(n) /\ right
        next(pc) == [pc |-> pc, purpose |-> purpose, code |-> n]
    IN /\ At(c, "idle")
       /\ codes' = IF n # 0 /\ Judged(n) /\ ~ok THEN [codes EXCEPT ![n].missed = @ + 1]
                   ELSE codes
       /\ caller' = [caller EXCEPT ![c] =
             IF n = 0 THEN Resting
             ELSE IF ~ok THEN next("refused")
             ELSE IF purpose = "reset" /\ user # "active" THEN Resting ELSE next("verified")]
       /\ overlapped' = (overlapped \/ Others(c))
       /\ UNCHANGED <<user, effects, broken>>

(* The count of attempts, in a statement of its own; what it is above the  *)
(* ceiling makes no difference.                                            *)
CountAttempt(c) ==
    LET n == caller[c].code IN
    /\ At(c, "refused")
    /\ codes' = IF codes[n].gone \/ Burned(n) THEN codes ELSE [codes EXCEPT ![n].attempts = @ + 1]
    /\ Ends(c)
    /\ UNCHANGED <<user, effects, overlapped, broken>>

(* A wrong form: the update does not ask whether the code is spent. *)
SpendAnyway(c) == ~codes[caller[c].code].gone

(* updateMany where consumed_at is null: one row, or the request is over.  *)
Spend(c) == ~codes[caller[c].code].gone /\ codes[caller[c].code].spent = "no"

(* The transaction of register: the code, the workspace and its owner,     *)
(* whose username is unique; or none of them.                              *)
SignUp(c) ==
    /\ At(c, "verified") /\ caller[c].purpose = "register"
    /\ IF Spend(c) /\ user = "none"
       THEN /\ Row(caller[c].code, "spent", "used")
            /\ user' = "active"
            /\ effects' = [effects EXCEPT ![caller[c].code] = @ + 1]
       ELSE UNCHANGED <<codes, user, effects>>
    /\ Ends(c)
    /\ UNCHANGED <<overlapped, broken>>

(* The transaction of reset-password: the code, the password and the end   *)
(* of the user's sessions, which RefreshTokens has.                        *)
NewPassword(c) ==
    /\ At(c, "verified") /\ caller[c].purpose = "reset"
    /\ IF Spend(c)
       THEN /\ Row(caller[c].code, "spent", "used")
            /\ effects' = [effects EXCEPT ![caller[c].code] = @ + 1]
       ELSE UNCHANGED <<codes, effects>>
    /\ Ends(c)
    /\ UNCHANGED <<user, overlapped, broken>>

-----------------------------------------------------------------------------
(* A statement fails or the process dies: what was not written stays so.   *)
Dies(c) ==
    /\ ~At(c, "idle") /\ ~broken
    /\ Ends(c)
    /\ broken' = TRUE
    /\ UNCHANGED <<codes, user, effects, overlapped>>

(* Three minutes, then the rest of the hour; an older code is ahead. *)
Ages(n) ==
    /\ codes[n].age # "old"
    /\ \A m \in 1..(n - 1) : codes[m].age # codes[n].age
    /\ Row(n, "age", IF codes[n].age = "fresh" THEN "expired" ELSE "old")
    /\ UNCHANGED <<user, caller, effects, overlapped, broken>>

OtpNext ==
    \/ \E c \in Callers, p \in Purposes :
          AskCode(c, p) \/ \E right \in BOOLEAN : UseCode(c, p, right)
    \/ \E c \in Callers : \/ Supersede(c) \/ MakeCode(c) \/ SendCode(c) \/ DropCode(c)
                          \/ CountAttempt(c) \/ SignUp(c) \/ NewPassword(c) \/ Dies(c)
    \/ \E n \in DOMAIN codes : Ages(n)

OtpSpec == OtpInit /\ [][OtpNext]_otpVars

-----------------------------------------------------------------------------
(* A code is spent by its use exactly when something came of it, and only  *)
(* one thing: two requests that race with one code do not both get in, and *)
(* a sign-up that was turned away leaves its code usable.                  *)
CodeOpensOnce ==
    \A n \in DOMAIN codes :
        /\ effects[n] <= 1
        /\ effects[n] = 1 <=> codes[n].spent = "used"

(* No more messages reach the phone in an hour than the ceiling, and no    *)
(* code is compared with more wrong guesses than its own, unless requests  *)
(* overlapped, for each count is read and written in two statements, or    *)
(* one of those statements was lost.                                       *)
CeilingsHaveCause ==
    overlapped \/ broken \/
    /\ Cardinality({n \in DOMAIN codes : codes[n].delivered /\ codes[n].age # "old"})
          <= OTP_SEND_LIMIT
    /\ \A n \in DOMAIN codes : codes[n].missed <= OTP_MAX_ATTEMPTS
=============================================================================

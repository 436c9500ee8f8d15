---------------------------- MODULE RefreshTokens ----------------------------
(***************************************************************************)
(* The server's half of a session: login, refresh and logout of            *)
(* authController.ts over the refresh_tokens rows, statement by statement, *)
(* and the handlers that take an account's standing or its rows away.      *)
(*                                                                         *)
(* refresh runs outside a transaction: the lookup, the UPDATE that spends  *)
(* the token and the INSERT of the next are steps of their own.  The read  *)
(* of the user is one step with the lookup, for what happens between them  *)
(* could as well happen before both or after both.                         *)
(*                                                                         *)
(* A row that no cookie and no call holds can be presented by nobody: the  *)
(* model forgets it and uses its place again, so that sessions may be      *)
(* renewed for ever.                                                       *)
(***************************************************************************)
EXTENDS Integers, FiniteSets

CONSTANTS
    Users,      \* ids of users rows
    NoUser,     \* nobody: the null of a page that shows no user
    Tabs,       \* the pages of this application that are open
    Rows        \* places for the refresh_tokens rows somebody holds

ASSUME TokensAssumption ==
    /\ NoUser \notin Users
    /\ Rows \subseteq Nat \ {0}

VARIABLES
    standing,   \* of each user: active, disabled or deleted
    resets,     \* how often each user's password was reset
    tokens,     \* refresh_tokens rows
    call,       \* the requests under way
    alarmed,    \* a token was presented that ended every session of its user
    twice,      \* a token was rotated that had been rotated before
    raced       \* users whose password was reset while a call of theirs held a proof

serverVars == <<standing, resets, tokens, alarmed, twice, raced>>

(***************************************************************************)
(* The calls to /api/auth that a tab has under way at once: its renewal,   *)
(* the login or logout of its user, and a renewal it reloaded away from.   *)
(***************************************************************************)
Calls == Tabs \X {"renewal", "form", "gone"}

Ids == Rows \cup {0}

(* since is how many resets had been done when the call read the user. *)
TokenRow == [user : Users \cup {NoUser}, state : {"none", "live", "revoked"},
             expired : BOOLEAN, since : Nat]

NoRow == [user |-> NoUser, state |-> "none", expired |-> FALSE, since |-> 0]

(* presented and issued are token ids, 0 for none; left says that the page *)
(* which asked was reloaded in the meantime.                               *)
CallRow == [pc : {"idle", "sent", "checked", "spent", "answered"},
            kind : {"login", "refresh", "logout"}, left : BOOLEAN,
            presented : Ids, issued : Ids, user : Users \cup {NoUser}, since : Nat,
            answer : {"none", "ok", "refused", "noCookie", "denied", "cleared", "failed"}]

NoCall == [pc |-> "idle", kind |-> "login", left |-> FALSE, presented |-> 0,
           issued |-> 0, user |-> NoUser, since |-> 0, answer |-> "none"]

ServerInit ==
    /\ standing = [u \in Users |-> "active"]
    /\ resets = [u \in Users |-> 0]
    /\ tokens = [k \in Rows |-> NoRow]
    /\ call = [c \in Calls |-> NoCall]
    /\ alarmed = FALSE /\ twice = FALSE
    /\ raced = {}

At(c, kind, pc) == call[c].kind = kind /\ call[c].pc = pc

Answers(c, answer) == call' = [call EXCEPT ![c].pc = "answered", ![c].answer = answer]

(* updateMany over the live rows of one user, and deleteMany over all. *)
RevokeAll(u) ==
    [k \in Rows |-> IF tokens[k].user = u /\ tokens[k].state = "live"
                    THEN [tokens[k] EXCEPT !.state = "revoked"] ELSE tokens[k]]

DeleteAll(u) == [k \in Rows |-> IF tokens[k].user = u THEN NoRow ELSE tokens[k]]

-----------------------------------------------------------------------------
(* app_login_lookup and the comparison of the password; the standing is    *)
(* the one that lookup returned.                                           *)
Prove(c) ==
    /\ At(c, "login", "sent")
    /\ IF standing[call[c].user] = "active"
       THEN call' = [call EXCEPT ![c].pc = "checked", ![c].since = resets[call[c].user]]
       ELSE Answers(c, "denied")
    /\ UNCHANGED serverVars

(* A wrong form: the account's standing is not asked again. *)
LookupTrusting(c) ==
    LET k == call[c].presented IN
    /\ At(c, "refresh", "sent")
    /\ IF k = 0
       THEN Answers(c, "noCookie") /\ UNCHANGED <<tokens, alarmed>>
       ELSE LET u == tokens[k].user IN
            IF tokens[k].state = "revoked"
            THEN /\ Answers(c, "refused")
                 /\ tokens' = RevokeAll(u)
                 /\ alarmed' = TRUE
            ELSE /\ UNCHANGED <<tokens, alarmed>>
                 /\ IF tokens[k].state = "live" /\ ~tokens[k].expired
                    THEN call' = [call EXCEPT ![c].pc = "checked", ![c].user = u,
                                              ![c].since = resets[u]]
                    ELSE Answers(c, "refused")
    /\ UNCHANGED <<standing, resets, twice, raced>>

(* app_refresh_lookup, the four refusals in their order, and the user.  A  *)
(* revoked row presented again ends every session of its user.             *)
Lookup(c) ==
    LET k == call[c].presented IN
    /\ At(c, "refresh", "sent")
    /\ IF k = 0
       THEN Answers(c, "noCookie") /\ UNCHANGED <<tokens, alarmed>>
       ELSE LET u == tokens[k].user IN
            IF tokens[k].state = "revoked"
            THEN /\ Answers(c, "refused")
                 /\ tokens' = RevokeAll(u)
                 /\ alarmed' = TRUE
            ELSE /\ UNCHANGED <<tokens, alarmed>>
                 /\ IF /\ tokens[k].state = "live" /\ ~tokens[k].expired
                       /\ standing[u] = "active"
                    THEN call' = [call EXCEPT ![c].pc = "checked", ![c].user = u,
                                              ![c].since = resets[u]]
                    ELSE Answers(c, "refused")
    /\ UNCHANGED <<standing, resets, twice, raced>>

(* The rotation: the UPDATE does not ask whether the row is spent already, *)
(* and fails when it is gone.  The user's expired rows are swept with it.  *)
Spend(c) ==
    LET k == call[c].presented IN
    /\ At(c, "refresh", "checked")
    /\ IF tokens[k].state = "none"
       THEN Answers(c, "failed") /\ UNCHANGED <<tokens, twice>>
       ELSE /\ call' = [call EXCEPT ![c].pc = "spent"]
            /\ tokens' = [j \in Rows |->
                  IF tokens[j].user = call[c].user /\ tokens[j].expired THEN NoRow
                  ELSE IF j = k THEN [tokens[j] EXCEPT !.state = "revoked"] ELSE tokens[j]]
            /\ twice' = (twice \/ tokens[k].state = "revoked")
    /\ UNCHANGED <<standing, resets, alarmed, raced>>

(* issueSession: the INSERT, into place k, needs the user's row. *)
Issue(c, k) ==
    /\ At(c, "login", "checked") \/ At(c, "refresh", "spent")
    /\ IF standing[call[c].user] = "deleted"
       THEN Answers(c, "failed") /\ UNCHANGED tokens
       ELSE /\ tokens' = [tokens EXCEPT ![k] = [user |-> call[c].user, state |-> "live",
                                               expired |-> FALSE, since |-> call[c].since]]
            /\ call' = [call EXCEPT ![c].pc = "answered", ![c].answer = "ok", ![c].issued = k]
    /\ UNCHANGED <<standing, resets, alarmed, twice, raced>>

(* A wrong form: logging out marks the row as a rotation does. *)
EndSessionRevoked(c) ==
    LET k == call[c].presented IN
    /\ At(c, "logout", "sent")
    /\ tokens' = [j \in Rows |-> IF j = k /\ tokens[j].state = "live"
                                 THEN [tokens[j] EXCEPT !.state = "revoked"] ELSE tokens[j]]
    /\ Answers(c, "cleared")
    /\ UNCHANGED <<standing, resets, alarmed, twice, raced>>

(* logout deletes the presented row, whatever its state, and never fails   *)
(* for a row it does not find.                                             *)
EndSession(c) ==
    LET k == call[c].presented IN
    /\ At(c, "logout", "sent")
    /\ tokens' = [j \in Rows |-> IF j = k THEN NoRow ELSE tokens[j]]
    /\ Answers(c, "cleared")
    /\ UNCHANGED <<standing, resets, alarmed, twice, raced>>

-----------------------------------------------------------------------------
(* toggleActive of personnelController.ts; the tokens are left alone. *)
ToggleActive(u) ==
    /\ standing[u] # "deleted"
    /\ standing' = [standing EXCEPT ![u] = IF standing[u] = "active" THEN "disabled" ELSE "active"]
    /\ UNCHANGED <<resets, tokens, call, alarmed, twice, raced>>

(* remove of personnelController.ts; the foreign key takes the tokens. *)
Remove(u) ==
    /\ standing[u] # "deleted"
    /\ standing' = [standing EXCEPT ![u] = "deleted"]
    /\ tokens' = DeleteAll(u)
    /\ UNCHANGED <<resets, call, alarmed, twice, raced>>

HoldsProof(u) == {c \in Calls : call[c].pc \in {"checked", "spent"} /\ call[c].user = u}

(* A wrong form: a reset ends the sessions that were rotated already. *)
ResetPasswordSpent(u) ==
    /\ standing[u] = "active"
    /\ resets' = [resets EXCEPT ![u] = @ + 1]
    /\ tokens' = [k \in Rows |-> IF tokens[k].user = u /\ tokens[k].state = "revoked"
                                 THEN NoRow ELSE tokens[k]]
    /\ raced' = IF HoldsProof(u) = {} THEN raced ELSE raced \cup {u}
    /\ UNCHANGED <<standing, call, alarmed, twice>>

(* The transaction of resetPassword: the password and every session. *)
ResetPassword(u) ==
    /\ standing[u] = "active"
    /\ resets' = [resets EXCEPT ![u] = @ + 1]
    /\ tokens' = DeleteAll(u)
    /\ raced' = IF HoldsProof(u) = {} THEN raced ELSE raced \cup {u}
    /\ UNCHANGED <<standing, call, alarmed, twice>>

(* Thirty days have passed since the row was inserted. *)
TokenExpires(k) ==
    /\ tokens[k].state # "none" /\ ~tokens[k].expired
    /\ tokens' = [tokens EXCEPT ![k].expired = TRUE]
    /\ UNCHANGED <<standing, resets, call, alarmed, twice, raced>>
=============================================================================

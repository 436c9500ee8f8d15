------------------------------ MODULE Sessions ------------------------------
(***************************************************************************)
(* The browser's half of a session, api/index.ts and AuthContext.tsx of    *)
(* the frontend, joined with the server's half.                            *)
(*                                                                         *)
(* Tabs of one browser share the refresh cookie and nothing else: the      *)
(* access token, the single flight of a renewal and the user shown belong  *)
(* to the tab.  A call that its tab reloaded away from goes on at the      *)
(* server, and its answer may still reach the cookie.                      *)
(***************************************************************************)
EXTENDS RefreshTokens, FiniteSetsExt

CONSTANTS
    Browsers,   \* cookie jars
    BrowserOf,  \* [Tabs -> Browsers]
    Requests,   \* requests of the pages that are under way at once
    TabOf,      \* [Requests -> Tabs]
    FormTabs,   \* bound: tabs whose login form is used
    MaxCalls,   \* bound: calls under way once a login starts
    MaxEvents   \* bound: failures, lost answers, reloads, logouts, changes of an
                \* account by others, and refresh tokens that age

ASSUME SessionsAssumption ==
    /\ BrowserOf \in [Tabs -> Browsers]
    /\ TabOf \in [Requests -> Tabs]
    /\ FormTabs \subseteq Tabs
    /\ MaxCalls \in Nat /\ MaxEvents \in Nat
    /\ IsFiniteSet(Browsers) /\ IsFiniteSet(Tabs)
    /\ Cardinality(Rows) >= Cardinality(Browsers) + 5 * Cardinality(Tabs)

VARIABLES
    cookie,     \* the refresh cookie of each browser, 0 for none
    tab,        \* what each tab holds in memory
    request,    \* the requests of the pages
    lost,       \* some rotation was answered to nobody
    crossed,    \* two tabs of one browser were renewing at once
    events      \* how many of the bounded events happened

clientVars == <<cookie, tab, request>>
vars == <<serverVars, call, clientVars, lost, crossed, events>>

(* acts is the user of the access token; it does not follow shows. *)
TabRow == [loading : BOOLEAN, shows : Users \cup {NoUser}, acts : Users \cup {NoUser},
           access : {"none", "good", "expired"}]

RequestRow == [pc : {"idle", "sent", "waiting"}, retried : BOOLEAN,
               bearer : {"none", "good", "expired"}]

NoRequest == [pc |-> "idle", retried |-> FALSE, bearer |-> "none"]

ClientInit ==
    /\ cookie = [b \in Browsers |-> 0]
    /\ tab = [t \in Tabs |-> [loading |-> FALSE, shows |-> NoUser, acts |-> NoUser,
                              access |-> "none"]]
    /\ request = [q \in Requests |-> NoRequest]

Busy(t, slot) == call[<<t, slot>>].pc # "idle"

(* Another tab of the same browser is renewing. *)
SiblingRefreshing(t) == \E o \in Tabs \ {t} : BrowserOf[o] = BrowserOf[t] /\ Busy(o, "renewal")

(* The rows somebody could present, when cookies and calls are the given. *)
Held(jars, calls) ==
    {jars[b] : b \in Browsers} \cup UNION {{calls[c].presented, calls[c].issued} : c \in Calls}

FreeRows == Rows \ Held(cookie, call)

Forget(jars, calls) ==
    tokens' = [k \in Rows |-> IF k \in Held(jars, calls) THEN tokens[k] ELSE NoRow]

(* A call carries the cookie as it is when it leaves. *)
Leaves(t, kind, u) ==
    [NoCall EXCEPT !.pc = "sent", !.kind = kind, !.user = u,
                   !.presented = IF kind = "login" THEN 0 ELSE cookie[BrowserOf[t]]]

Starts(t, slot, kind, u) ==
    /\ ~Busy(t, slot)
    /\ call' = [call EXCEPT ![<<t, slot>>] = Leaves(t, kind, u)]

(* A wrong form: every request that is refused renews for itself. *)
RefreshSessionEach(t) ==
    /\ \/ Starts(t, "renewal", "refresh", NoUser)
       \/ Busy(t, "renewal") /\ Starts(t, "gone", "refresh", NoUser)
    /\ crossed' = (crossed \/ SiblingRefreshing(t))

(* refreshSession: joins the renewal under way in this tab, or starts one. *)
RefreshSession(t) ==
    \/ Busy(t, "renewal") /\ UNCHANGED <<call, crossed>>
    \/ /\ Starts(t, "renewal", "refresh", NoUser)
       /\ crossed' = (crossed \/ SiblingRefreshing(t))

-----------------------------------------------------------------------------
(* The effect in AuthProvider; a renewal the tab had under way is left to  *)
(* itself, its requests are forgotten.                                     *)
Reload(t) ==
    /\ events < MaxEvents
    /\ ~Busy(t, "gone")
    /\ call' = [call EXCEPT ![<<t, "gone">>] = [call[<<t, "renewal">>] EXCEPT !.left = TRUE],
                            ![<<t, "form">>].left = Busy(t, "form"),
                            ![<<t, "renewal">>] = Leaves(t, "refresh", NoUser)]
    /\ lost' = (lost \/ Busy(t, "renewal"))
    /\ crossed' = (crossed \/ SiblingRefreshing(t))
    /\ tab' = [tab EXCEPT ![t] = [loading |-> TRUE, shows |-> NoUser, acts |-> NoUser,
                                  access |-> "none"]]
    /\ request' = [q \in Requests |-> IF TabOf[q] = t THEN NoRequest ELSE request[q]]
    /\ events' = events + 1
    /\ UNCHANGED <<serverVars, cookie>>

(* The login form, while no other call of it is under way. *)
Login(t, u) ==
    /\ t \in FormTabs
    /\ Cardinality({c \in Calls : call[c].pc # "idle"}) < MaxCalls
    /\ tab[t].shows = NoUser
    /\ Starts(t, "form", "login", u)
    /\ UNCHANGED <<serverVars, clientVars, lost, crossed, events>>

Logout(t) ==
    /\ events < MaxEvents
    /\ tab[t].shows # NoUser
    /\ Starts(t, "form", "logout", NoUser)
    /\ events' = events + 1
    /\ UNCHANGED <<serverVars, clientVars, lost, crossed>>

(* The request interceptor puts the tab's token on it. *)
Send(q) ==
    /\ request[q].pc = "idle"
    /\ tab[TabOf[q]].shows # NoUser /\ ~tab[TabOf[q]].loading
    /\ request' = [request EXCEPT ![q] = [pc |-> "sent", retried |-> FALSE,
                                          bearer |-> tab[TabOf[q]].access]]
    /\ UNCHANGED <<serverVars, call, cookie, tab, lost, crossed, events>>

(* authenticate lets the token pass; what the handler answers is no 401. *)
Serve(q) ==
    /\ request[q].pc = "sent" /\ request[q].bearer = "good"
    /\ request' = [request EXCEPT ![q] = NoRequest]
    /\ UNCHANGED <<serverVars, call, cookie, tab, lost, crossed, events>>

(* The response interceptor meets a 401: the first time it waits for a     *)
(* renewal, the second time the caller gets the refusal.                   *)
Renew(q) ==
    /\ request[q].pc = "sent" /\ request[q].bearer # "good"
    /\ IF request[q].retried
       THEN /\ request' = [request EXCEPT ![q] = NoRequest]
            /\ UNCHANGED <<call, crossed>>
       ELSE /\ RefreshSession(TabOf[q])
            /\ request' = [request EXCEPT ![q] = [pc |-> "waiting", retried |-> TRUE,
                                                  bearer |-> "none"]]
    /\ UNCHANGED <<serverVars, cookie, tab, lost, events>>

-----------------------------------------------------------------------------
Waiting(t) == {q \in Requests : TabOf[q] = t /\ request[q].pc = "waiting"}

(* A wrong form: a renewal that failed tells nobody. *)
ResumeSilent(t, access) ==
    request' = [q \in Requests |->
                   IF q \notin Waiting(t) \/ access = "none" THEN request[q]
                   ELSE [request[q] EXCEPT !.pc = "sent", !.bearer = access]]

(* What waited on a renewal is sent again, or fails with it. *)
Resume(t, access) ==
    request' = [q \in Requests |->
                   IF q \notin Waiting(t) THEN request[q]
                   ELSE IF access = "none" THEN NoRequest
                   ELSE [request[q] EXCEPT !.pc = "sent", !.bearer = access]]

(* The refresh is answered: then and catch of refreshSession's callers.    *)
(* Only the effect at loading shows the user; a failure while requests     *)
(* wait drops the token and leaves for the login page.                     *)
Refreshed(t, ok, u) ==
    LET given == Waiting(t) # {} /\ ~ok IN
    /\ tab' = [tab EXCEPT ![t] =
          [loading |-> FALSE,
           shows |-> IF ok THEN (IF tab[t].loading THEN u ELSE tab[t].shows)
                     ELSE IF given \/ tab[t].loading THEN NoUser ELSE tab[t].shows,
           acts |-> IF ok THEN u ELSE IF given THEN NoUser ELSE tab[t].acts,
           access |-> IF ok THEN "good" ELSE IF given THEN "none" ELSE tab[t].access]]
    /\ Resume(t, IF ok THEN "good" ELSE "none")

(* loginUser and the local half of logoutUser. *)
SetTab(t, u, access) ==
    /\ tab' = [tab EXCEPT ![t].shows = u, ![t].acts = u, ![t].access = access]
    /\ UNCHANGED request

Settled(c, answer) ==
    LET t == c[1]
        k == call[c].issued
        ok == answer = "ok" IN
    \/ /\ call[c].left \/ (call[c].kind = "login" /\ ~ok)
       /\ UNCHANGED <<tab, request>>
    \/ /\ ~call[c].left
       /\ \/ call[c].kind = "refresh" /\ Refreshed(t, ok, IF ok THEN tokens[k].user ELSE NoUser)
          \/ call[c].kind = "login" /\ ok /\ SetTab(t, call[c].user, "good")
          \/ call[c].kind = "logout" /\ SetTab(t, NoUser, "none")

(* The answer reaches the browser: its Set-Cookie, then the tab. *)
Deliver(c) ==
    /\ call[c].pc = "answered"
    /\ cookie' = [cookie EXCEPT ![BrowserOf[c[1]]] =
          IF call[c].answer = "ok" THEN call[c].issued
          ELSE IF call[c].answer \in {"refused", "cleared"} THEN 0 ELSE @]
    /\ Settled(c, call[c].answer)
    /\ call' = [call EXCEPT ![c] = NoCall]
    /\ Forget(cookie', call')
    /\ UNCHANGED <<standing, resets, alarmed, twice, raced, lost, crossed, events>>

(* The answer is lost: the tab, if it is still there, sees a network error. *)
Lose(c) ==
    /\ call[c].pc = "answered"
    /\ call[c].left \/ events < MaxEvents
    /\ events' = IF call[c].left THEN events ELSE events + 1
    /\ lost' = (lost \/ (call[c].kind = "refresh" /\ call[c].answer = "ok"))
    /\ Settled(c, "failed")
    /\ call' = [call EXCEPT ![c] = NoCall]
    /\ Forget(cookie, call')
    /\ UNCHANGED <<standing, resets, alarmed, twice, raced, cookie, crossed>>

(* The database fails or the process dies between two statements. *)
Fail(c) ==
    /\ call[c].pc \in {"sent", "checked", "spent"}
    /\ events < MaxEvents
    /\ events' = events + 1
    /\ lost' = (lost \/ call[c].pc = "spent")
    /\ Answers(c, "failed")
    /\ UNCHANGED <<serverVars, clientVars, crossed>>

(* Fifteen minutes have passed since the tab's token was signed. *)
AccessExpires(t) ==
    /\ tab[t].access = "good"
    /\ tab' = [tab EXCEPT ![t].access = "expired"]
    /\ request' = [q \in Requests |->
                      IF TabOf[q] = t /\ request[q].bearer = "good"
                      THEN [request[q] EXCEPT !.bearer = "expired"] ELSE request[q]]
    /\ UNCHANGED <<serverVars, call, cookie, lost, crossed, events>>

Change ==
    /\ events < MaxEvents
    /\ events' = events + 1
    /\ \/ \E u \in Users : ToggleActive(u) \/ Remove(u) \/ ResetPassword(u)
       \/ \E k \in Rows : TokenExpires(k)
    /\ UNCHANGED <<clientVars, lost, crossed>>

-----------------------------------------------------------------------------
Server(c) ==
    /\ Prove(c) \/ Lookup(c) \/ Spend(c) \/ Issue(c, Min(FreeRows)) \/ EndSession(c)
    /\ UNCHANGED <<clientVars, lost, crossed, events>>

Init ==
    /\ ServerInit /\ ClientInit
    /\ lost = FALSE /\ crossed = FALSE
    /\ events = 0

Next ==
    \/ \E t \in Tabs : Reload(t) \/ Logout(t) \/ AccessExpires(t) \/ \E u \in Users : Login(t, u)
    \/ \E q \in Requests : Send(q) \/ Serve(q) \/ Renew(q)
    \/ \E c \in Calls : Server(c) \/ Deliver(c) \/ Lose(c) \/ Fail(c)
    \/ Change

(* Calls end, requests are answered and tokens age; nobody has to click. *)
Fairness ==
    /\ \A c \in Calls : WF_vars(Server(c) \/ Deliver(c))
    /\ \A q \in Requests : WF_vars(Serve(q) \/ Renew(q))
    /\ \A t \in Tabs : WF_vars(AccessExpires(t))

Spec == Init /\ [][Next]_vars /\ Fairness

-----------------------------------------------------------------------------
TypeOK ==
    /\ standing \in [Users -> {"active", "disabled", "deleted"}]
    /\ resets \in [Users -> 0..MaxEvents]
    /\ tokens \in [Rows -> TokenRow]
    /\ \A k \in Rows : tokens[k].state = "none" <=> tokens[k].user = NoUser
    /\ call \in [Calls -> CallRow]
    /\ alarmed \in BOOLEAN /\ twice \in BOOLEAN
    /\ raced \subseteq Users
    /\ cookie \in [Browsers -> Ids]
    /\ tab \in [Tabs -> TabRow]
    /\ request \in [Requests -> RequestRow]
    /\ lost \in BOOLEAN /\ crossed \in BOOLEAN /\ events \in 0..MaxEvents

(* The UPDATE that spends a token does not ask whether it is spent.  Two   *)
(* ways it goes wrong: everybody is thrown out of every session (there is  *)
(* no thief in this model, so each alarm is a false one), or one token has *)
(* two live successors.  Each goes back to a rotation whose answer no page *)
(* received or to two tabs of a browser that renewed at once.  One tab and *)
(* a network that answers never meet it: not with ten requests that expire *)
(* together, not with a login, logout or reset that crosses the renewal.   *)
RenewalFailsForCause == alarmed \/ twice => lost \/ crossed

(* After a password reset no session lives that was opened on a proof from *)
(* before it, unless the call that held the proof was under way.           *)
ResetEndsSessionsAtRest ==
    \A k \in Rows :
        tokens[k].state = "live" /\ tokens[k].since < resets[tokens[k].user]
            => tokens[k].user \in raced

(* Every request of a page is answered in the end: neither a renewal that  *)
(* fails nor a token that expires again leaves it waiting or repeats it    *)
(* for ever.                                                               *)
RequestsSettle == \A q \in Requests : request[q].pc # "idle" ~> request[q].pc = "idle"

(* An account that stays disabled or deleted loses its access although the *)
(* tokens of its tabs are never looked up: what they hold runs out and no  *)
(* renewal replaces it.                                                    *)
DisabledLosesAccess ==
    \A u \in Users :
        <>[](standing[u] # "active")
            => <>[](\A t \in Tabs : ~(tab[t].acts = u /\ tab[t].access = "good"))
=============================================================================

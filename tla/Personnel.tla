------------------------------- MODULE Personnel -------------------------------
(***************************************************************************)
(* Who may act on whom: create, update, toggleActive and remove of         *)
(* personnelController.ts, judged by the role in the caller's access       *)
(* token, which is up to fifteen minutes old (middleware/auth.ts and       *)
(* authorize.ts), over the accounts of one workspace.                      *)
(***************************************************************************)
EXTENDS FiniteSets

CONSTANTS Users, Owner

ASSUME PersonnelAssumption == Owner \in Users

VARIABLES
    account,    \* users: role and is_active, role "none" where there is no row
    token,      \* the role in the access token each user holds, or "none"
    act         \* the request each user has under way

personnelVars == <<account, token, act>>

Roles == {"super_admin", "admin", "technician"}

(* A request names whose account it is of, and records what it was judged  *)
(* by: as is the role in the token, found the role the account had then.   *)
NoAct == [pc |-> "idle"]

(* register and populateWorkspace leave one account. *)
PersonnelInit ==
    /\ account = [u \in Users |-> [role |-> IF u = Owner THEN "super_admin" ELSE "none",
                                   active |-> u = Owner]]
    /\ token = [u \in Users |-> "none"]
    /\ act = [u \in Users |-> NoAct]

Exists(u) == account[u].role # "none"

(* atLeast("admin") of the routes. *)
AtLeastAdmin(u) == token[u] \in {"super_admin", "admin"}

(* Only a login and a refresh look at the account. *)
SignIn(u) ==
    /\ Exists(u) /\ account[u].active
    /\ token' = [token EXCEPT ![u] = account[u].role]
    /\ UNCHANGED <<account, act>>

TokenExpires(u) ==
    /\ token' = [token EXCEPT ![u] = "none"]
    /\ UNCHANGED <<account, act>>

Begins(u, write) ==
    /\ act[u] = NoAct
    /\ act' = [act EXCEPT ![u] = write]
    /\ UNCHANGED <<account, token>>

(* roleRestriction looks at the role that is given. *)
MayGive(u, role) == token[u] = "admin" => role = "technician"

Create(u, v, role) ==
    /\ AtLeastAdmin(u) /\ MayGive(u, role)
    /\ ~Exists(v) /\ token[v] = "none" /\ act[v] = NoAct
    /\ Begins(u, [pc |-> "create", of |-> v, as |-> token[u], found |-> account[v].role,
                  role |-> role])

(* A wrong form: an update does not ask whose account it is. *)
UpdateOwn(u, v, role) ==
    /\ AtLeastAdmin(u) /\ MayGive(u, role) /\ Exists(v)
    /\ Begins(u, [pc |-> "role", of |-> v, as |-> token[u], found |-> account[v].role,
                  role |-> role])

Update(u, v, role) ==
    /\ AtLeastAdmin(u) /\ MayGive(u, role) /\ Exists(v)
    /\ u # v
    /\ Begins(u, [pc |-> "role", of |-> v, as |-> token[u], found |-> account[v].role,
                  role |-> role])

(* A wrong form: an admin may switch off anybody else. *)
ToggleAnyone(u, v) ==
    /\ AtLeastAdmin(u) /\ Exists(v)
    /\ u # v
    /\ Begins(u, [pc |-> "active", of |-> v, as |-> token[u], found |-> account[v].role,
                  active |-> ~account[v].active])

(* The new value is worked out from the one that was read. *)
ToggleActive(u, v) ==
    /\ AtLeastAdmin(u) /\ Exists(v)
    /\ u # v
    /\ token[u] = "admin" => account[v].role # "super_admin"
    /\ Begins(u, [pc |-> "active", of |-> v, as |-> token[u], found |-> account[v].role,
                  active |-> ~account[v].active])

Remove(u, v) ==
    /\ token[u] = "super_admin" /\ Exists(v)
    /\ u # v
    /\ Begins(u, [pc |-> "remove", of |-> v, as |-> token[u], found |-> account[v].role])

(* The write, of the row by its id alone; it fails where there is none, as *)
(* a creation does where a name was taken meanwhile.                       *)
Write(u) ==
    LET w == act[u] IN
    /\ w # NoAct
    /\ account' = [account EXCEPT ![w.of] =
          CASE w.pc = "create" -> IF Exists(w.of) THEN @ ELSE [role |-> w.role, active |-> TRUE]
            [] w.pc = "role"   -> IF Exists(w.of) THEN [@ EXCEPT !.role = w.role] ELSE @
            [] w.pc = "active" -> IF Exists(w.of) THEN [@ EXCEPT !.active = w.active] ELSE @
            [] w.pc = "remove" -> [role |-> "none", active |-> FALSE]]
    /\ act' = [act EXCEPT ![u] = NoAct]
    /\ UNCHANGED token

(* The process dies, or the statement fails. *)
ActFails(u) ==
    /\ act[u] # NoAct
    /\ act' = [act EXCEPT ![u] = NoAct]
    /\ UNCHANGED <<account, token>>

PersonnelNext ==
    \/ \E u \in Users : SignIn(u) \/ TokenExpires(u) \/ Write(u) \/ ActFails(u)
    \/ \E u, v \in Users : ToggleActive(u, v) \/ Remove(u, v)
    \/ \E u, v \in Users, role \in Roles : Create(u, v, role) \/ Update(u, v, role)

PersonnelSpec == PersonnelInit /\ [][PersonnelNext]_personnelVars

-----------------------------------------------------------------------------
Stands(v) == account[v].role = "super_admin" /\ account[v].active

(* An active super admin loses that standing to the request of somebody    *)
(* else alone, and only to one that a super admin's token began, or an     *)
(* admin's that gives another role or switches off whom it found to be no  *)
(* super admin: however old the tokens are and whichever requests cross.   *)
(* So nobody puts an end to a workspace's last super admin while standing  *)
(* as one: that takes a token its account outran, or an admin's.  By the   *)
(* comment above roleRestriction an admin only ever acts on technicians;   *)
(* update asks for the role that is given and not for the one there is.    *)
StandingIsTaken ==
    [][\A v \in Users : Stands(v) /\ ~Stands(v)' =>
          \E u \in Users \ {v} :
             /\ act[u] # NoAct /\ act[u].of = v /\ act'[u] = NoAct
             /\ \/ act[u].as = "super_admin"
                \/ act[u].as = "admin" /\ act[u].pc = "role"
                \/ act[u].as = "admin" /\ act[u].pc = "active" /\ act[u].found # "super_admin"
      ]_personnelVars
=============================================================================

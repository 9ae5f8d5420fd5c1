------------------------------- MODULE Accounts -------------------------------
(***************************************************************************)
(* Accounts and login sessions: login and logout (routes/auth.py), the     *)
(* change of one's own password (routes/users.py), the user management of  *)
(* the two elevated tiers (routes/admin.py), require_login, require_admin  *)
(* and the rank rules of deps.py.                                          *)
(*                                                                         *)
(* A request o reads the caller, then the account it is about, and commits *)
(* later: three statements of a READ COMMITTED transaction, and one action *)
(* each.  What it has read it does not read again.  A request without an   *)
(* effect (401, 403, 404, 450) only ends.                                  *)
(***************************************************************************)
EXTENDS Integers

CONSTANTS
  Users,      \* users.id; an id is never reused
  Requests,   \* bound: the requests of a behaviour
  None        \* an unset field

ASSUME NamesAssumption ==
  /\ Users \cap Requests = {}
  /\ None \notin Users \cup Requests \cup {"user", "admin", "superuser", "none", "gone"}

VARIABLES
  role,       \* users.role, or "none" before and "gone" after the row exists
  password,   \* users.password_hash: the request that set it, or None, and a ghost
              \* keeper: the token of the call when the owner chose it
  session,    \* sessions: token, owner and, a ghost, the password it was opened with
  request,    \* the requests at work
  racing      \* ghost: logins at work that checked a password since changed by its owner

vars == <<role, password, session, request, racing>>

-----------------------------------------------------------------------------
Roles == {"user", "admin", "superuser"}
Rank == [r \in Roles |-> CASE r = "user" -> 0 [] r = "admin" -> 1 [] r = "superuser" -> 2]

\* A token is the login that made it; the first session of an account has its name.
Tokens == Users \cup Requests
Passwords == Requests \cup {None}
Session == [token : Tokens, user : Users, pw : Passwords]
Password == [id : Passwords, keeper : Tokens \cup {None}]

AdminKinds == {"reset", "edit", "delete", "create"}
Request == [kind : AdminKinds \cup {"login", "change", None},
            step : {"idle", "entered", "checked", "ended"},
            token : Tokens \cup {None},          \* the session of the call
            as : Roles \cup {None},              \* the role of the caller, as read
            target : Users \cup {None},
            seen : Roles \cup {None},            \* the role of the target, as read
            to : Roles \cup {None},              \* the role that is asked for
            pw : Passwords]                      \* the password a login has checked

NoRequest == [kind |-> None, step |-> "idle", token |-> None, as |-> None,
              target |-> None, seen |-> None, to |-> None, pw |-> None]

Exists(u) == role[u] \in Roles
SessionsOf(u) == {s \in session : s.user = u}

\* Logins of u between the check of the password and the session.
LoginsUnderWay(u) ==
  {l \in Requests : request[l].kind = "login" /\ request[l].step = "checked"
                                              /\ request[l].target = u}

\* Any accounts with the sessions they may have; createsuperuser.py made one.
Init ==
  /\ role \in [Users -> Roles \cup {"none"}]
  /\ \E u \in Users : role[u] = "superuser"
  /\ password = [u \in Users |-> [id |-> None, keeper |-> None]]
  /\ session = {[token |-> u, user |-> u, pw |-> None] : u \in {v \in Users : Exists(v)}}
  /\ request = [o \in Requests |-> NoRequest]
  /\ racing = {}

Begins(o, r) ==
  /\ request[o].step = "idle"
  /\ request' = [request EXCEPT ![o] = r]

At(o, k, s) == request[o].kind = k /\ request[o].step = s

Ends(o) == request' = [request EXCEPT ![o] = [NoRequest EXCEPT !.step = "ended"]]

-----------------------------------------------------------------------------
(* login, logout, expiry *)

LoginVerify(o) ==
  /\ \E u \in Users :
       /\ Exists(u)
       /\ Begins(o, [NoRequest EXCEPT !.kind = "login", !.step = "checked",
                                      !.target = u, !.pw = password[u].id])
  /\ UNCHANGED <<role, password, session, racing>>

\* Mutant: no foreign key from sessions to users.
MutantLoginOpenNoKey(o) ==
  /\ At(o, "login", "checked")
  /\ Ends(o)
  /\ session' = session \cup {[token |-> o, user |-> request[o].target, pw |-> request[o].pw]}
  /\ UNCHANGED <<role, password, racing>>

\* The foreign key refuses the session of an account that went in the meantime.
LoginOpen(o) ==
  /\ At(o, "login", "checked")
  /\ Ends(o)
  /\ session' = session \cup
       {s \in {[token |-> o, user |-> request[o].target, pw |-> request[o].pw]} : Exists(s.user)}
  /\ UNCHANGED <<role, password, racing>>

\* logout; or the session is over, and require_login or the scheduled cleanup
\* deletes it: until then nobody can use it.
SessionEnds ==
  /\ \E s \in session : session' = session \ {s}
  /\ UNCHANGED <<role, password, request, racing>>

-----------------------------------------------------------------------------
(* users_set_password *)

ChangeVerify(o) ==
  /\ \E s \in session :
       Begins(o, [NoRequest EXCEPT !.kind = "change", !.step = "checked",
                                   !.token = s.token, !.target = s.user])
  /\ UNCHANGED <<role, password, session, racing>>

\* Mutant: the other sessions stay.
MutantChangeCommitKeepsSessions(o) ==
  LET u == request[o].target
  IN  /\ At(o, "change", "checked")
      /\ Ends(o)
      /\ Exists(u)
      /\ password' = [password EXCEPT ![u] = [id |-> o, keeper |-> request[o].token]]
      /\ racing' = racing \cup LoginsUnderWay(u)
      /\ UNCHANGED <<role, session>>

ChangeCommit(o) ==
  LET u == request[o].target
  IN  /\ At(o, "change", "checked")
      /\ Ends(o)
      /\ Exists(u)
      /\ password' = [password EXCEPT ![u] = [id |-> o, keeper |-> request[o].token]]
      /\ session' = {s \in session : s.user = u => s.token = request[o].token}
      /\ racing' = racing \cup LoginsUnderWay(u)
      /\ UNCHANGED role

\* The UPDATE of an account that went in the meantime raises.
ChangeFails(o) ==
  /\ At(o, "change", "checked") /\ ~Exists(request[o].target)
  /\ Ends(o)
  /\ UNCHANGED <<role, password, session, racing>>

-----------------------------------------------------------------------------
(* /admin/users *)

\* Mutant: peers may manage each other.
MutantOutranksPeers(a, b) == Rank[a] >= Rank[b]

\* ensure_outranks
Outranks(a, b) == Rank[a] > Rank[b]

\* require_login, require_admin
AdminEnter(o) ==
  /\ \E s \in session, k \in AdminKinds :
       /\ role[s.user] # "user"
       /\ Begins(o, [NoRequest EXCEPT !.kind = k, !.step = "entered",
                                      !.token = s.token, !.as = role[s.user]])
  /\ UNCHANGED <<role, password, session, racing>>

\* Mutant: the body may ask for no role at all ("role": null).
MutantAdminReadNullRole(o) ==
  /\ request[o].step = "entered" /\ request[o].kind # "create"
  /\ \E u \in Users, r \in Roles \cup {None} :
       /\ Exists(u) /\ Outranks(request[o].as, role[u])
       /\ request[o].kind = "edit" \/ r = role[u]
       /\ request[o].as = "superuser" \/ r = role[u]
       /\ request' = [request EXCEPT ![o].step = "checked", ![o].target = u,
                                     ![o].seen = role[u], ![o].to = r]
  /\ UNCHANGED <<role, password, session, racing>>

\* The account is read and judged.  A role is asked for by superusers only; the
\* one it has stands for none at all.
AdminRead(o) ==
  /\ request[o].step = "entered" /\ request[o].kind # "create"
  /\ \E u \in Users, r \in Roles :
       /\ Exists(u) /\ Outranks(request[o].as, role[u])
       /\ request[o].kind \in {"reset", "delete"} => role[u] # "superuser"
       /\ request[o].kind = "edit" \/ r = role[u]
       /\ request[o].as = "superuser" \/ r = role[u]
       /\ request' = [request EXCEPT ![o].step = "checked", ![o].target = u,
                                     ![o].seen = role[u], ![o].to = r]
  /\ UNCHANGED <<role, password, session, racing>>

\* 403, 404, and 409 for a name that is taken.
AdminRefuses(o) ==
  /\ request[o].step = "entered" \/ At(o, "edit", "checked")
  /\ Ends(o)
  /\ UNCHANGED <<role, password, session, racing>>

\* The sessions of the account stay.
ResetCommit(o) ==
  LET u == request[o].target
  IN  /\ At(o, "reset", "checked")
      /\ Ends(o)
      /\ password' = IF Exists(u) THEN [password EXCEPT ![u] = [id |-> o, keeper |-> None]]
                                  ELSE password
      /\ UNCHANGED <<role, session, racing>>

\* The ORM writes a column only if it differs from what was read.
EditCommit(o) ==
  LET u == request[o].target
  IN  /\ At(o, "edit", "checked")
      /\ Ends(o)
      /\ role' = IF Exists(u) /\ request[o].to # request[o].seen
                 THEN [role EXCEPT ![u] = request[o].to] ELSE role
      /\ UNCHANGED <<password, session, racing>>

\* The account, and its sessions by the cascade; nothing if it went before.
DeleteCommit(o) ==
  LET u == request[o].target
  IN  /\ At(o, "delete", "checked")
      /\ Ends(o)
      /\ role' = [role EXCEPT ![u] = "gone"]
      /\ session' = session \ SessionsOf(u)
      /\ UNCHANGED <<password, racing>>

CreateCommit(o) ==
  /\ At(o, "create", "entered")
  /\ Ends(o)
  /\ \E u \in Users, r \in Roles :
       /\ role[u] = "none"
       /\ r = "user" \/ request[o].as = "superuser"
       /\ role' = [role EXCEPT ![u] = r]
       /\ password' = [password EXCEPT ![u] = [id |-> o, keeper |-> None]]
  /\ UNCHANGED <<session, racing>>

-----------------------------------------------------------------------------
Login(o) == LoginVerify(o) \/ LoginOpen(o)
Change(o) == ChangeVerify(o) \/ ChangeCommit(o) \/ ChangeFails(o)
Manage(o) ==
  \/ AdminEnter(o) \/ AdminRead(o) \/ AdminRefuses(o)
  \/ ResetCommit(o) \/ EditCommit(o) \/ CreateCommit(o)

\* All but the deletion of accounts, to which other tables are attached.
StepButDelete ==
  \/ \E o \in Requests : Login(o) \/ Change(o) \/ Manage(o)
  \/ SessionEnds

Next == StepButDelete \/ \E o \in Requests : DeleteCommit(o)

Spec == Init /\ [][Next]_vars

-----------------------------------------------------------------------------
(* Properties *)

\* Every variable stays in its type, no two sessions share a token, and a session
\* that a login opened is of a login that has ended.
TypeOK ==
  /\ role \in [Users -> Roles \cup {"none", "gone"}]
  /\ password \in [Users -> Password]
  /\ session \subseteq Session
  /\ request \in [Requests -> Request]
  /\ racing \subseteq Requests
  /\ \A s, t \in session : s.token = t.token => s = t
  /\ \A s \in session : s.token \in Requests => request[s.token].step = "ended"

\* A session is of an account that is there: none is left by a deletion, and none
\* is opened by a login that was under way (models/auth.py:67, 75).
SessionsHaveUsers == \A s \in session : Exists(s.user)

\* Once the owner has chosen a password, the sessions of the account are the one
\* of that call, those opened with the new password, and those of logins that
\* had checked the old one and were still to be committed (users.py:74-78).
OthersAreSignedOut ==
  \A u \in Users : \A s \in SessionsOf(u) :
    password[u].keeper # None =>
      s.token = password[u].keeper \/ s.pw = password[u].id \/ s.token \in racing

\* A superuser whom no request has read as something less.
Settled(u) ==
  /\ role[u] = "superuser"
  /\ \A o \in Requests : ~(request[o].step = "checked" /\ request[o].kind \in {"edit", "delete"}
                                                       /\ request[o].target = u)

\* Such a superuser stays one for good, whoever else manages accounts at the same
\* time: an instance never loses the last of them (ensure_outranks is strict).
SuperusersStay == [][\A u \in Users : Settled(u) => Settled(u)']_vars

=============================================================================

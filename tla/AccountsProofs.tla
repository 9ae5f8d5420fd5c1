---------------------------- MODULE AccountsProofs ----------------------------
(***************************************************************************)
(* Theorems about Accounts, for every set of accounts and of requests.     *)
(***************************************************************************)
EXTENDS Accounts, TLAPS

-----------------------------------------------------------------------------
(* Types *)

\* What a request has taken down by the step it is at.
Taken ==
  \A o \in Requests :
    /\ request[o].step = "entered" => request[o].kind \in AdminKinds /\ request[o].as \in Roles
    /\ request[o].step = "checked" =>
         /\ request[o].target \in Users
         /\ request[o].kind = "change" => request[o].token \in Tokens
         /\ request[o].kind = "edit" => request[o].to \in Roles

Types == TypeOK /\ Taken

\* The records that the actions build are requests.
LEMMA BuiltRequests ==
  /\ NoRequest \in Request
  /\ [NoRequest EXCEPT !.step = "ended"] \in Request
  /\ \A u \in Users, p \in Passwords :
       [NoRequest EXCEPT !.kind = "login", !.step = "checked", !.target = u, !.pw = p] \in Request
  /\ \A t \in Tokens, u \in Users :
       [NoRequest EXCEPT !.kind = "change", !.step = "checked", !.token = t, !.target = u] \in Request
  /\ \A t \in Tokens, r \in Roles, k \in AdminKinds :
       [NoRequest EXCEPT !.kind = k, !.step = "entered", !.token = t, !.as = r] \in Request
BY DEF NoRequest, Request, Passwords, AdminKinds

\* A request that ends leaves everything else that is known of requests.
LEMMA EndsTypes ==
  ASSUME Types, NEW o \in Requests, Ends(o)
  PROVE  /\ request' \in [Requests -> Request]
         /\ Taken'
         /\ \A s \in session : s.token \in Requests => request'[s.token].step = "ended"
         /\ request'[o].step = "ended"
<1>1. request' = [request EXCEPT ![o] = [NoRequest EXCEPT !.step = "ended"]]
  BY DEF Ends
<1>2. request' \in [Requests -> Request] /\ request'[o].step = "ended"
  BY <1>1, BuiltRequests DEF Types, TypeOK, NoRequest
<1>3. \A q \in Requests : q # o => request'[q] = request[q]
  BY <1>1 DEF Types, TypeOK
<1>4. Taken'
  BY <1>2, <1>3 DEF Types, Taken
<1>5. \A s \in session : s.token \in Requests => request'[s.token].step = "ended"
  BY <1>2, <1>3 DEF Types, TypeOK
<1> QED
  BY <1>2, <1>4, <1>5

\* So does one that begins, or goes on, with a request of its type.
LEMMA MovesTypes ==
  ASSUME Types, NEW o \in Requests, NEW r \in Request,
         request' = [request EXCEPT ![o] = r],
         request[o].step # "ended",
         r.step = "entered" => r.kind \in AdminKinds /\ r.as \in Roles,
         r.step = "checked" =>
           /\ r.target \in Users
           /\ r.kind = "change" => r.token \in Tokens
           /\ r.kind = "edit" => r.to \in Roles
  PROVE  /\ request' \in [Requests -> Request]
         /\ Taken'
         /\ \A s \in session : s.token \in Requests => request'[s.token].step = "ended"
<1>1. request' \in [Requests -> Request] /\ request'[o] = r
  BY DEF Types, TypeOK
<1>2. \A q \in Requests : q # o => request'[q] = request[q]
  BY DEF Types, TypeOK
<1>3. Taken'
  BY <1>1, <1>2 DEF Types, Taken
<1>4. \A s \in session : s.token \in Requests => request'[s.token].step = "ended"
  BY <1>2 DEF Types, TypeOK
<1> QED
  BY <1>1, <1>3, <1>4

\* Every step keeps every variable in its type.
LEMMA TypeStep == Types /\ SessionsHaveUsers /\ [Next]_vars => Types'
<1> SUFFICES ASSUME Types, SessionsHaveUsers, [Next]_vars PROVE Types'
  OBVIOUS
<1> DEFINE Kept == /\ request' \in [Requests -> Request]
                   /\ Taken'
                   /\ \A s \in session : s.token \in Requests => request'[s.token].step = "ended"
<1>1. ASSUME NEW o \in Requests, LoginVerify(o) PROVE Types'
  <2>1. PICK u \in Users :
          Begins(o, [NoRequest EXCEPT !.kind = "login", !.step = "checked",
                                      !.target = u, !.pw = password[u].id])
    BY <1>1 DEF LoginVerify
  <2> DEFINE r == [NoRequest EXCEPT !.kind = "login", !.step = "checked",
                                    !.target = u, !.pw = password[u].id]
  <2>2. password[u].id \in Passwords
    BY DEF Types, TypeOK, Password
  <2>3. r \in Request
    BY <2>2, BuiltRequests
  <2>4. r.target = u /\ r.kind = "login" /\ r.step = "checked"
    BY DEF NoRequest
  <2>5. request' = [request EXCEPT ![o] = r] /\ request[o].step # "ended"
    BY <2>1 DEF Begins
  <2>6. Kept
    <3> HIDE DEF r
    <3> QED
      BY <2>3, <2>4, <2>5, MovesTypes
  <2> QED
    BY <1>1, <2>6 DEF LoginVerify, Types, TypeOK
<1>2. ASSUME NEW o \in Requests, LoginOpen(o) PROVE Types'
  <2>1. /\ request[o].step = "checked" /\ Ends(o)
        /\ session' \subseteq session \cup
             {[token |-> o, user |-> request[o].target, pw |-> request[o].pw]}
        /\ UNCHANGED <<role, password, racing>>
    BY <1>2 DEF LoginOpen, At
  <2>2. [token |-> o, user |-> request[o].target, pw |-> request[o].pw] \in Session
    <3>1. request[o].target \in Users /\ request[o].pw \in Passwords
      BY <2>1 DEF Types, TypeOK, Taken, Request
    <3> QED
      BY <3>1 DEF Session, Tokens
  <2>3. session' \subseteq Session
    BY <2>1, <2>2 DEF Types, TypeOK
  <2>4. \A s \in session : s.token # o
    BY <2>1 DEF Types, TypeOK
  <2>5. \A s, t \in session' : s.token = t.token => s = t
    BY <2>1, <2>4 DEF Types, TypeOK
  <2>6. Kept /\ request'[o].step = "ended"
    BY <2>1, EndsTypes
  <2>7. \A s \in session' : s.token \in Requests => request'[s.token].step = "ended"
    BY <2>1, <2>6
  <2> QED
    BY <2>1, <2>3, <2>5, <2>6, <2>7 DEF Types, TypeOK
<1>3. ASSUME SessionEnds PROVE Types'
  <2>1. session' \subseteq session /\ UNCHANGED <<role, password, request, racing>>
    BY <1>3 DEF SessionEnds
  <2> QED
    BY <2>1 DEF Types, TypeOK, Taken
<1>4. ASSUME NEW o \in Requests, ChangeVerify(o) PROVE Types'
  <2>1. PICK s \in session :
          Begins(o, [NoRequest EXCEPT !.kind = "change", !.step = "checked",
                                      !.token = s.token, !.target = s.user])
    BY <1>4 DEF ChangeVerify
  <2> DEFINE r == [NoRequest EXCEPT !.kind = "change", !.step = "checked",
                                    !.token = s.token, !.target = s.user]
  <2>2. s.token \in Tokens /\ s.user \in Users
    BY DEF Types, TypeOK, Session
  <2>3. r \in Request
    BY <2>2, BuiltRequests
  <2>4. r.target = s.user /\ r.kind = "change" /\ r.token = s.token /\ r.step = "checked"
    BY DEF NoRequest
  <2>5. request' = [request EXCEPT ![o] = r] /\ request[o].step # "ended"
    BY <2>1 DEF Begins
  <2>6. Kept
    <3> HIDE DEF r
    <3> QED
      BY <2>2, <2>3, <2>4, <2>5, MovesTypes
  <2> QED
    BY <1>4, <2>6 DEF ChangeVerify, Types, TypeOK
<1>5. ASSUME NEW o \in Requests, ChangeCommit(o) PROVE Types'
  <2>1. /\ Ends(o) /\ request[o].target \in Users /\ request[o].token \in Tokens
        /\ password' = [password EXCEPT ![request[o].target] =
                          [id |-> o, keeper |-> request[o].token]]
        /\ session' \subseteq session /\ UNCHANGED role /\ racing' \subseteq Requests
    BY <1>5 DEF ChangeCommit, At, Types, TypeOK, Taken, LoginsUnderWay
  <2>2. [id |-> o, keeper |-> request[o].token] \in Password
    BY <2>1 DEF Password, Passwords
  <2>3. password' \in [Users -> Password]
    BY <2>1, <2>2 DEF Types, TypeOK
  <2>4. Kept
    BY <2>1, EndsTypes
  <2> QED
    BY <2>1, <2>3, <2>4 DEF Types, TypeOK
<1>6. ASSUME NEW o \in Requests, ChangeFails(o) PROVE Types'
  <2>1. Kept
    BY <1>6, EndsTypes DEF ChangeFails
  <2> QED
    BY <1>6, <2>1 DEF ChangeFails, Types, TypeOK
<1>7. ASSUME NEW o \in Requests, AdminEnter(o) PROVE Types'
  <2>1. PICK s \in session, k \in AdminKinds :
          Begins(o, [NoRequest EXCEPT !.kind = k, !.step = "entered",
                                      !.token = s.token, !.as = role[s.user]])
    BY <1>7 DEF AdminEnter
  <2> DEFINE r == [NoRequest EXCEPT !.kind = k, !.step = "entered",
                                    !.token = s.token, !.as = role[s.user]]
  <2>2. s.token \in Tokens /\ role[s.user] \in Roles
    BY DEF Types, TypeOK, Session, SessionsHaveUsers, Exists
  <2>3. r \in Request
    BY <2>2, BuiltRequests
  <2>4. r.step = "entered" /\ r.kind = k /\ r.as \in Roles
    BY <2>2 DEF NoRequest
  <2>5. request' = [request EXCEPT ![o] = r] /\ request[o].step # "ended"
    BY <2>1 DEF Begins
  <2>6. Kept
    <3> HIDE DEF r
    <3> QED
      BY <2>3, <2>4, <2>5, MovesTypes
  <2> QED
    BY <1>7, <2>6 DEF AdminEnter, Types, TypeOK
<1>8. ASSUME NEW o \in Requests, AdminRead(o) PROVE Types'
  <2>1. PICK u \in Users, n \in Roles :
          /\ request[o].step = "entered"
          /\ Exists(u)
          /\ request' = [request EXCEPT ![o].step = "checked", ![o].target = u,
                                        ![o].seen = role[u], ![o].to = n]
    BY <1>8 DEF AdminRead
  <2> DEFINE r == [request[o] EXCEPT !.step = "checked", !.target = u, !.seen = role[u], !.to = n]
  <2>2. request[o] \in Request /\ request[o].kind \in AdminKinds /\ role[u] \in Roles
    BY <2>1 DEF Types, TypeOK, Taken, Exists
  <2>3. r \in Request /\ r.step = "checked" /\ r.target = u /\ r.to = n
                      /\ r.kind = request[o].kind
    BY <2>2 DEF Request
  <2>4. request' = [request EXCEPT ![o] = r] /\ request[o].step # "ended"
    BY <2>1 DEF Types, TypeOK
  <2>5. Kept
    <3>1. r.kind # "change"
      BY <2>2, <2>3 DEF AdminKinds
    <3> HIDE DEF r
    <3> QED
      BY <2>3, <2>4, <3>1, MovesTypes
  <2> QED
    BY <1>8, <2>5 DEF AdminRead, Types, TypeOK
<1>9. ASSUME NEW o \in Requests, AdminRefuses(o) PROVE Types'
  <2>1. Kept
    BY <1>9, EndsTypes DEF AdminRefuses
  <2> QED
    BY <1>9, <2>1 DEF AdminRefuses, Types, TypeOK
<1>10. ASSUME NEW o \in Requests, ResetCommit(o) PROVE Types'
  <2>1. Kept
    BY <1>10, EndsTypes DEF ResetCommit
  <2>2. [id |-> o, keeper |-> None] \in Password
    BY DEF Password, Passwords
  <2>3. password' \in [Users -> Password]
    BY <1>10, <2>2 DEF ResetCommit, Types, TypeOK
  <2> QED
    BY <1>10, <2>1, <2>3 DEF ResetCommit, Types, TypeOK
<1>11. ASSUME NEW o \in Requests, EditCommit(o) PROVE Types'
  <2>1. Kept
    BY <1>11, EndsTypes DEF EditCommit
  <2>2. request[o].to \in Roles
    BY <1>11 DEF EditCommit, At, Types, Taken
  <2>3. role' \in [Users -> Roles \cup {"none", "gone"}]
    BY <1>11, <2>2 DEF EditCommit, Types, TypeOK
  <2> QED
    BY <1>11, <2>1, <2>3 DEF EditCommit, Types, TypeOK
<1>12. ASSUME NEW o \in Requests, CreateCommit(o) PROVE Types'
  <2>1. Kept
    BY <1>12, EndsTypes DEF CreateCommit
  <2>2. PICK u \in Users, r \in Roles :
          /\ role' = [role EXCEPT ![u] = r]
          /\ password' = [password EXCEPT ![u] = [id |-> o, keeper |-> None]]
    BY <1>12 DEF CreateCommit
  <2>3. [id |-> o, keeper |-> None] \in Password
    BY DEF Password, Passwords
  <2>4. role' \in [Users -> Roles \cup {"none", "gone"}] /\ password' \in [Users -> Password]
    BY <2>2, <2>3 DEF Types, TypeOK
  <2> QED
    BY <1>12, <2>1, <2>4 DEF CreateCommit, Types, TypeOK
<1>13. ASSUME NEW o \in Requests, DeleteCommit(o) PROVE Types'
  <2>1. Kept
    BY <1>13, EndsTypes DEF DeleteCommit
  <2>2. role' \in [Users -> Roles \cup {"none", "gone"}] /\ session' \subseteq session
    BY <1>13 DEF DeleteCommit, Types, TypeOK
  <2> QED
    BY <1>13, <2>1, <2>2 DEF DeleteCommit, Types, TypeOK
<1>14. CASE UNCHANGED vars
  BY <1>14 DEF vars, Types, TypeOK, Taken
<1> QED
  BY <1>1, <1>2, <1>3, <1>4, <1>5, <1>6, <1>7, <1>8, <1>9, <1>10, <1>11, <1>12, <1>13, <1>14
     DEF Next, StepButDelete, Login, Change, Manage

-----------------------------------------------------------------------------
(* Sessions and their accounts *)

\* Every step keeps every session with its account.
LEMMA SessionStep == Types /\ SessionsHaveUsers /\ [Next]_vars => SessionsHaveUsers'
<1> SUFFICES ASSUME Types, SessionsHaveUsers, [Next]_vars PROVE SessionsHaveUsers'
  OBVIOUS
<1> USE DEF SessionsHaveUsers, Exists
<1>1. ASSUME session' \subseteq session, role' = role PROVE SessionsHaveUsers'
  BY <1>1
<1>2. ASSUME NEW o \in Requests, LoginOpen(o) PROVE SessionsHaveUsers'
  BY <1>2 DEF LoginOpen
<1>3. ASSUME NEW o \in Requests, ChangeCommit(o) PROVE SessionsHaveUsers'
  BY <1>1, <1>3 DEF ChangeCommit
<1>4. ASSUME NEW o \in Requests, EditCommit(o) PROVE SessionsHaveUsers'
  <2>1. request[o].target \in Users /\ request[o].to \in Roles
    BY <1>4 DEF EditCommit, At, Types, Taken
  <2>2. \A v \in Users : role[v] \in Roles => role'[v] \in Roles
    BY <1>4, <2>1 DEF EditCommit, Types, TypeOK
  <2>3. session' = session /\ \A s \in session : s.user \in Users
    BY <1>4 DEF EditCommit, Types, TypeOK, Session
  <2> QED
    BY <2>2, <2>3
<1>5. ASSUME NEW o \in Requests, CreateCommit(o) PROVE SessionsHaveUsers'
  <2>1. \A v \in Users : role[v] \in Roles => role'[v] \in Roles
    BY <1>5 DEF CreateCommit, Types, TypeOK
  <2>2. session' = session /\ \A s \in session : s.user \in Users
    BY <1>5 DEF CreateCommit, Types, TypeOK, Session
  <2> QED
    BY <2>1, <2>2
<1>6. ASSUME NEW o \in Requests, DeleteCommit(o) PROVE SessionsHaveUsers'
  <2>1. \A s \in session' : s \in session /\ s.user # request[o].target /\ s.user \in Users
    BY <1>6 DEF DeleteCommit, SessionsOf, Types, TypeOK, Session
  <2>2. \A v \in Users : v # request[o].target => role'[v] = role[v]
    BY <1>6 DEF DeleteCommit, Types, TypeOK
  <2> QED
    BY <2>1, <2>2
<1>7. ASSUME NEW o \in Requests,
             LoginVerify(o) \/ ChangeVerify(o) \/ ChangeFails(o) \/ AdminEnter(o)
               \/ AdminRead(o) \/ AdminRefuses(o) \/ ResetCommit(o)
      PROVE  SessionsHaveUsers'
  BY <1>1, <1>7 DEF LoginVerify, ChangeVerify, ChangeFails, AdminEnter, AdminRead, AdminRefuses,
     ResetCommit
<1>8. ASSUME SessionEnds PROVE SessionsHaveUsers'
  BY <1>1, <1>8 DEF SessionEnds
<1>9. CASE UNCHANGED vars
  BY <1>1, <1>9 DEF vars
<1> QED
  BY <1>2, <1>3, <1>4, <1>5, <1>6, <1>7, <1>8, <1>9 DEF Next, StepButDelete, Login, Change, Manage

\* The initial states are typed, and their sessions are of accounts.
LEMMA InitCore == Init => Types /\ SessionsHaveUsers
<1> SUFFICES ASSUME Init PROVE Types /\ SessionsHaveUsers
  OBVIOUS
<1>1. request \in [Requests -> Request] /\ Taken
  BY BuiltRequests DEF Init, Taken, NoRequest
<1>2. password \in [Users -> Password]
  BY DEF Init, Password, Passwords
<1>3. session \subseteq Session
  BY DEF Init, Session, Tokens, Passwords
<1>4. \A s \in session : s.token \in Users
  BY DEF Init
<1>5. \A s, t \in session : s.token = t.token => s = t
  BY DEF Init
<1>6. \A s \in session : s.token \in Requests => request[s.token].step = "ended"
  BY <1>4, NamesAssumption
<1> QED
  BY <1>1, <1>2, <1>3, <1>5, <1>6 DEF Init, Types, TypeOK, SessionsHaveUsers, Exists

\* In every reachable state every variable is in its type, no two sessions share a
\* token, and the token of a session is of a login that has ended.
THEOREM TypeCorrect == Spec => []TypeOK
<1>1. (Types /\ SessionsHaveUsers) /\ [Next]_vars => (Types /\ SessionsHaveUsers)'
  BY TypeStep, SessionStep
<1> QED
  BY InitCore, <1>1, PTL DEF Spec, Types

\* No interleaving of logins, password changes and deletions leaves a session
\* without its account.
THEOREM SessionsCorrect == Spec => []SessionsHaveUsers
<1>1. (Types /\ SessionsHaveUsers) /\ [Next]_vars => (Types /\ SessionsHaveUsers)'
  BY TypeStep, SessionStep
<1> QED
  BY InitCore, <1>1, PTL DEF Spec

-----------------------------------------------------------------------------
(* The last superuser *)

\* Nobody outranks a superuser, so no request can come to be about one.
LEMMA NothingAboveSuperusers == \A r \in Roles : ~Outranks(r, "superuser")
BY DEF Outranks, Rank, Roles

\* A request about a superuser that would change or delete the account.
Threatens(o, u) ==
  /\ request[o].step = "checked" /\ request[o].kind \in {"edit", "delete"}
  /\ request[o].target = u

\* No step makes a request a threat to a superuser, or takes the role of one
\* that none threatens.
LEMMA SettledStep ==
  ASSUME Types, SessionsHaveUsers, [Next]_vars, NEW u \in Users, Settled(u)
  PROVE  Settled(u)'
<1>1. role[u] = "superuser" /\ \A o \in Requests : ~Threatens(o, u)
  BY DEF Settled, Threatens
<1>2. ASSUME role'[u] = "superuser", \A o \in Requests : ~Threatens(o, u)'
      PROVE  Settled(u)'
  BY <1>2 DEF Settled, Threatens
<1>3. ASSUME NEW o \in Requests, NEW r, request' = [request EXCEPT ![o] = r],
             ~(r.step = "checked" /\ r.kind \in {"edit", "delete"} /\ r.target = u)
      PROVE  \A q \in Requests : ~Threatens(q, u)'
  BY <1>1, <1>3 DEF Threatens, Types, TypeOK
<1>4. ASSUME NEW o \in Requests, Ends(o) PROVE \A q \in Requests : ~Threatens(q, u)'
  BY <1>3, <1>4 DEF Ends, NoRequest
<1>5. ASSUME NEW o \in Requests, LoginVerify(o) \/ ChangeVerify(o) \/ AdminEnter(o)
      PROVE  Settled(u)'
  <2>1. role' = role
    BY <1>5 DEF LoginVerify, ChangeVerify, AdminEnter
  <2>2. PICK r : /\ request' = [request EXCEPT ![o] = r]
                 /\ r.step # "checked" \/ r.kind \in {"login", "change"}
    <3>1. CASE LoginVerify(o)
      <4>1. PICK v \in Users :
              Begins(o, [NoRequest EXCEPT !.kind = "login", !.step = "checked",
                                          !.target = v, !.pw = password[v].id])
        BY <3>1 DEF LoginVerify
      <4> DEFINE n == [NoRequest EXCEPT !.kind = "login", !.step = "checked",
                                        !.target = v, !.pw = password[v].id]
      <4>2. n.kind = "login" /\ request' = [request EXCEPT ![o] = n]
        BY <4>1 DEF NoRequest, Begins
      <4> QED
        BY <4>2
    <3>2. CASE ChangeVerify(o)
      <4>1. PICK s \in session :
              Begins(o, [NoRequest EXCEPT !.kind = "change", !.step = "checked",
                                          !.token = s.token, !.target = s.user])
        BY <3>2 DEF ChangeVerify
      <4> DEFINE n == [NoRequest EXCEPT !.kind = "change", !.step = "checked",
                                        !.token = s.token, !.target = s.user]
      <4>2. n.kind = "change" /\ request' = [request EXCEPT ![o] = n]
        BY <4>1 DEF NoRequest, Begins
      <4> QED
        BY <4>2
    <3>3. CASE AdminEnter(o)
      <4>1. PICK s \in session, k \in AdminKinds :
              Begins(o, [NoRequest EXCEPT !.kind = k, !.step = "entered",
                                          !.token = s.token, !.as = role[s.user]])
        BY <3>3 DEF AdminEnter
      <4> DEFINE n == [NoRequest EXCEPT !.kind = k, !.step = "entered",
                                        !.token = s.token, !.as = role[s.user]]
      <4>2. n.step = "entered" /\ request' = [request EXCEPT ![o] = n]
        BY <4>1 DEF NoRequest, Begins
      <4> QED
        BY <4>2
    <3> QED
      BY <1>5, <3>1, <3>2, <3>3
  <2> QED
    BY <1>1, <1>2, <1>3, <2>1, <2>2
<1>6. ASSUME NEW o \in Requests, AdminRead(o) PROVE Settled(u)'
  <2>1. PICK v \in Users, n \in Roles :
          /\ request[o].step = "entered" /\ Outranks(request[o].as, role[v])
          /\ request' = [request EXCEPT ![o].step = "checked", ![o].target = v,
                                        ![o].seen = role[v], ![o].to = n]
          /\ role' = role
    BY <1>6 DEF AdminRead
  <2>2. v # u
    BY <1>1, <2>1, NothingAboveSuperusers DEF Types, Taken
  <2> DEFINE r == [request[o] EXCEPT !.step = "checked", !.target = v, !.seen = role[v], !.to = n]
  <2>3. request' = [request EXCEPT ![o] = r] /\ r.target = v
    BY <2>1 DEF Types, TypeOK, Request
  <2>4. \A q \in Requests : ~Threatens(q, u)'
    BY <1>3, <2>2, <2>3
  <2> QED
    BY <1>1, <1>2, <2>1, <2>4
<1>7. ASSUME NEW o \in Requests,
             LoginOpen(o) \/ ChangeCommit(o) \/ ChangeFails(o) \/ AdminRefuses(o) \/ ResetCommit(o)
      PROVE  Settled(u)'
  BY <1>1, <1>2, <1>4, <1>7
     DEF LoginOpen, ChangeCommit, ChangeFails, AdminRefuses, ResetCommit
<1>8. ASSUME NEW o \in Requests, EditCommit(o) \/ DeleteCommit(o) PROVE Settled(u)'
  <2>1. request[o].target # u
    BY <1>1, <1>8 DEF EditCommit, DeleteCommit, At, Threatens
  <2>2. role'[u] = role[u] /\ Ends(o)
    BY <1>8, <2>1 DEF EditCommit, DeleteCommit, Types, TypeOK
  <2> QED
    BY <1>1, <1>2, <1>4, <2>2
<1>9. ASSUME NEW o \in Requests, CreateCommit(o) PROVE Settled(u)'
  <2>1. PICK v \in Users, r \in Roles :
          role[v] = "none" /\ role' = [role EXCEPT ![v] = r]
    BY <1>9 DEF CreateCommit
  <2>2. role'[u] = role[u] /\ Ends(o)
    BY <1>1, <1>9, <2>1 DEF CreateCommit
  <2> QED
    BY <1>1, <1>2, <1>4, <2>2
<1>10. CASE SessionEnds \/ UNCHANGED vars
  BY <1>1, <1>2, <1>10 DEF SessionEnds, vars, Threatens
<1> QED
  BY <1>5, <1>6, <1>7, <1>8, <1>9, <1>10 DEF Next, StepButDelete, Login, Change, Manage

\* Once no request at work has read a superuser as something less, that account is a
\* superuser for good: an instance keeps the ones it has.
THEOREM SuperusersCorrect == Spec => SuperusersStay
<1>1. (Types /\ SessionsHaveUsers) /\ [Next]_vars => (Types /\ SessionsHaveUsers)'
  BY TypeStep, SessionStep
<1>2. (Types /\ SessionsHaveUsers) /\ [Next]_vars
        => [\A u \in Users : Settled(u) => Settled(u)']_vars
  BY SettledStep
<1> QED
  BY InitCore, <1>1, <1>2, PTL DEF Spec, SuperusersStay

-----------------------------------------------------------------------------
(* The sessions after a change of the password *)

\* What the property says of an open session, said of one still to be opened: a login
\* past its check has the password of today, or its owner has changed it since.
LoginsAccounted ==
  \A l \in Requests :
    LET u == request[l].target
    IN  (At(l, "login", "checked") /\ password[u].keeper # None) =>
          request[l].pw = password[u].id \/ l \in racing

\* Every step keeps both.
LEMMA SignedOutStep ==
  ASSUME Types, OthersAreSignedOut, LoginsAccounted, [Next]_vars
  PROVE  OthersAreSignedOut' /\ LoginsAccounted'
<1> USE DEF OthersAreSignedOut, LoginsAccounted, SessionsOf
<1>0. /\ session \subseteq Session /\ \A s \in session : s.user \in Users
      /\ request \in [Requests -> Request]
  BY DEF Types, TypeOK, Session
<1>1. ASSUME session' \subseteq session, UNCHANGED <<password, racing>>
      PROVE  OthersAreSignedOut'
  BY <1>1
<1>2. ASSUME NEW o \in Requests, Ends(o), UNCHANGED <<password, racing>>
      PROVE  LoginsAccounted'
  <2>1. \A q \in Requests : q # o => request'[q] = request[q]
    BY <1>0, <1>2 DEF Ends
  <2>2. request'[o].step = "ended"
    BY <1>0, <1>2 DEF Ends, NoRequest
  <2> QED
    BY <1>2, <2>1, <2>2 DEF At
<1>3. ASSUME NEW o \in Requests, NEW r, request' = [request EXCEPT ![o] = r],
             r.kind # "login" \/ r.step # "checked" \/ r.pw = password[r.target].id,
             UNCHANGED <<password, racing>>
      PROVE  LoginsAccounted'
  <2>1. \A q \in Requests : request'[q] = IF q = o THEN r ELSE request[q]
    BY <1>0, <1>3
  <2> QED
    BY <1>3, <2>1 DEF At
<1>4. ASSUME NEW o \in Requests, LoginVerify(o) PROVE OthersAreSignedOut' /\ LoginsAccounted'
  <2>1. PICK v \in Users :
          Begins(o, [NoRequest EXCEPT !.kind = "login", !.step = "checked",
                                      !.target = v, !.pw = password[v].id])
    BY <1>4 DEF LoginVerify
  <2> DEFINE r == [NoRequest EXCEPT !.kind = "login", !.step = "checked",
                                    !.target = v, !.pw = password[v].id]
  <2>2. r.pw = password[r.target].id /\ request' = [request EXCEPT ![o] = r]
    BY <2>1 DEF NoRequest, Begins
  <2>3. UNCHANGED <<password, session, racing>>
    BY <1>4 DEF LoginVerify
  <2> HIDE DEF r
  <2> QED
    BY <1>1, <1>3, <2>2, <2>3
<1>5. ASSUME NEW o \in Requests, LoginOpen(o) PROVE OthersAreSignedOut' /\ LoginsAccounted'
  <2>1. /\ At(o, "login", "checked") /\ Ends(o) /\ UNCHANGED <<password, racing>>
        /\ \A s \in session' : s \in session \/
             s = [token |-> o, user |-> request[o].target, pw |-> request[o].pw]
    BY <1>5 DEF LoginOpen
  <2> QED
    BY <1>2, <2>1
<1>6. ASSUME NEW o \in Requests, ChangeVerify(o) PROVE OthersAreSignedOut' /\ LoginsAccounted'
  <2>1. PICK s \in session :
          Begins(o, [NoRequest EXCEPT !.kind = "change", !.step = "checked",
                                      !.token = s.token, !.target = s.user])
    BY <1>6 DEF ChangeVerify
  <2> DEFINE r == [NoRequest EXCEPT !.kind = "change", !.step = "checked",
                                    !.token = s.token, !.target = s.user]
  <2>2. r.kind # "login" /\ request' = [request EXCEPT ![o] = r]
    BY <2>1 DEF NoRequest, Begins
  <2>3. UNCHANGED <<password, session, racing>>
    BY <1>6 DEF ChangeVerify
  <2> HIDE DEF r
  <2> QED
    BY <1>1, <1>3, <2>2, <2>3
<1>7. ASSUME NEW o \in Requests, ChangeCommit(o) PROVE OthersAreSignedOut' /\ LoginsAccounted'
  <2> DEFINE u == request[o].target
  <2>1. /\ u \in Users /\ request[o].step = "checked" /\ Ends(o)
        /\ password' = [password EXCEPT ![u] = [id |-> o, keeper |-> request[o].token]]
        /\ session' = {s \in session : s.user = u => s.token = request[o].token}
        /\ racing' = racing \cup LoginsUnderWay(u)
    BY <1>7 DEF ChangeCommit, At, Types, Taken
  <2>2. \A v \in Users : password'[v] = IF v = u THEN [id |-> o, keeper |-> request[o].token]
                                                 ELSE password[v]
    BY <2>1 DEF Types, TypeOK
  <2>3. OthersAreSignedOut'
    <3> SUFFICES ASSUME NEW v \in Users, NEW s \in session', s.user = v, password'[v].keeper # None
                 PROVE  \/ s.token = password'[v].keeper \/ s.pw = password'[v].id
                        \/ s.token \in racing'
      OBVIOUS
    <3>1. CASE v = u
      BY <2>1, <2>2, <3>1
    <3>2. CASE v # u
      BY <2>1, <2>2, <3>2
    <3> QED
      BY <3>1, <3>2
  <2>4. \A q \in Requests : q # o => request'[q] = request[q]
    BY <1>0, <2>1 DEF Ends
  <2>5. request'[o].step = "ended"
    BY <1>0, <2>1 DEF Ends, NoRequest
  <2>6. LoginsAccounted'
    <3> SUFFICES ASSUME NEW l \in Requests, At(l, "login", "checked")',
                        password'[request'[l].target].keeper # None
                 PROVE  request'[l].pw = password'[request'[l].target].id \/ l \in racing'
      OBVIOUS
    <3>1. request'[l] = request[l] /\ At(l, "login", "checked") /\ request[l].target \in Users
      BY <2>4, <2>5 DEF At, Types, Taken
    <3>2. CASE request[l].target = u
      BY <2>1, <3>1, <3>2 DEF LoginsUnderWay, At
    <3>3. CASE request[l].target # u
      BY <2>1, <2>2, <3>1, <3>3
    <3> QED
      BY <3>2, <3>3
  <2> QED
    BY <2>3, <2>6
<1>8. ASSUME NEW o \in Requests, ChangeFails(o) \/ AdminRefuses(o) \/ EditCommit(o) \/ DeleteCommit(o)
      PROVE  OthersAreSignedOut' /\ LoginsAccounted'
  BY <1>1, <1>2, <1>8 DEF ChangeFails, AdminRefuses, EditCommit, DeleteCommit
<1>9. ASSUME NEW o \in Requests, AdminEnter(o) PROVE OthersAreSignedOut' /\ LoginsAccounted'
  <2>1. PICK s \in session, k \in AdminKinds :
          Begins(o, [NoRequest EXCEPT !.kind = k, !.step = "entered",
                                      !.token = s.token, !.as = role[s.user]])
    BY <1>9 DEF AdminEnter
  <2> DEFINE r == [NoRequest EXCEPT !.kind = k, !.step = "entered",
                                    !.token = s.token, !.as = role[s.user]]
  <2>2. r.step # "checked" /\ request' = [request EXCEPT ![o] = r]
    BY <2>1 DEF NoRequest, Begins
  <2>3. UNCHANGED <<password, session, racing>>
    BY <1>9 DEF AdminEnter
  <2> HIDE DEF r
  <2> QED
    BY <1>1, <1>3, <2>2, <2>3
<1>10. ASSUME NEW o \in Requests, AdminRead(o) PROVE OthersAreSignedOut' /\ LoginsAccounted'
  <2>1. PICK v \in Users, n \in Roles :
          /\ request[o].step = "entered"
          /\ request' = [request EXCEPT ![o].step = "checked", ![o].target = v,
                                        ![o].seen = role[v], ![o].to = n]
    BY <1>10 DEF AdminRead
  <2> DEFINE r == [request[o] EXCEPT !.step = "checked", !.target = v, !.seen = role[v], !.to = n]
  <2>2. request' = [request EXCEPT ![o] = r]
    BY <1>0, <2>1
  <2>3. r.kind # "login"
    BY <1>0, <2>1 DEF Types, Taken, Request, AdminKinds
  <2>4. UNCHANGED <<password, session, racing>>
    BY <1>10 DEF AdminRead
  <2> HIDE DEF r
  <2> QED
    BY <1>1, <1>3, <2>2, <2>3, <2>4
<1>11. ASSUME NEW o \in Requests, NEW u \in Users, Ends(o), UNCHANGED <<session, racing>>,
              password' = [password EXCEPT ![u] = [id |-> o, keeper |-> None]]
       PROVE  OthersAreSignedOut' /\ LoginsAccounted'
  <2>1. \A v \in Users : password'[v].keeper # None => password'[v] = password[v]
    BY <1>11 DEF Types, TypeOK
  <2>2. OthersAreSignedOut'
    BY <1>11, <2>1
  <2>3. \A q \in Requests : q # o => request'[q] = request[q]
    BY <1>0, <1>11 DEF Ends
  <2>4. request'[o].step = "ended"
    BY <1>0, <1>11 DEF Ends, NoRequest
  <2>5. \A q \in Requests : At(q, "login", "checked") => request[q].target \in Users
    BY DEF At, Types, Taken
  <2>6. LoginsAccounted'
    BY <1>11, <2>1, <2>3, <2>4, <2>5 DEF At
  <2> QED
    BY <2>2, <2>6
<1>12. ASSUME NEW o \in Requests, ResetCommit(o) PROVE OthersAreSignedOut' /\ LoginsAccounted'
  <2>1. request[o].target \in Users
    BY <1>12 DEF ResetCommit, At, Types, Taken
  <2> QED
    BY <1>1, <1>2, <1>11, <1>12, <2>1 DEF ResetCommit
<1>13. ASSUME NEW o \in Requests, CreateCommit(o) PROVE OthersAreSignedOut' /\ LoginsAccounted'
  BY <1>11, <1>13 DEF CreateCommit
<1>14. CASE SessionEnds \/ UNCHANGED vars
  BY <1>1, <1>14 DEF SessionEnds, vars, At
<1> QED
  BY <1>4, <1>5, <1>6, <1>7, <1>8, <1>9, <1>10, <1>12, <1>13, <1>14
     DEF Next, StepButDelete, Login, Change, Manage

\* After an owner has changed the password, and however logins, resets and other
\* changes interleave with it, the only older sessions left are that of the call and
\* those of logins that had checked the old password and were not committed yet.
THEOREM SignedOutCorrect == Spec => []OthersAreSignedOut
<1> DEFINE Inv == Types /\ SessionsHaveUsers /\ OthersAreSignedOut /\ LoginsAccounted
<1>1. Init => OthersAreSignedOut /\ LoginsAccounted
  BY DEF Init, OthersAreSignedOut, LoginsAccounted, SessionsOf, At, NoRequest
<1>2. Inv /\ [Next]_vars => Inv'
  BY TypeStep, SessionStep, SignedOutStep
<1> QED
  BY InitCore, <1>1, <1>2, PTL DEF Spec

=============================================================================

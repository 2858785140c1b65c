----------------------------- MODULE AuthProofs -----------------------------
(***************************************************************************)
(* Sessions, for every number of clients, requests, accounts and tokens:   *)
(* AuthApi has its types, a revoked token stays revoked, a token is        *)
(* exchanged once, and a logout ends the session.                          *)
(*                                                                         *)
(* The invariant has five parts: what a request has in hand at each        *)
(* statement (InHand), which tokens have a row (Rows), exchanges           *)
(* (Exchanges), requests that came too late (Late) and the chains of       *)
(* tokens clients hold (Chains).                                           *)
(***************************************************************************)
EXTENDS AuthApi, TLAPS

InHand ==
    \A r \in Request :
        /\ pc[r] = "insert" => op[r] = "register" /\ user[r] \in User
        /\ pc[r] = "find"   => op[r] = "login"
        /\ pc[r] = "check"  => op[r] \in {"refresh", "logout"}
        /\ pc[r] = "revoke" => op[r] \in {"refresh", "logout"} /\ tok[r] \in Token
        /\ pc[r] = "create" => op[r] # "logout"
        /\ pc[r] = "create" \/ (pc[r] = "revoke" /\ op[r] = "refresh") => user[r] \in users
        /\ pc[r] \in {"create", "done"} /\ op[r] = "refresh" => tok[r] \in Token
        /\ pc[r] = "done" /\ op[r] # "logout" <=> new[r] \in Token
        /\ pc[r] = "idle" => tok[r] = NoToken

\* Tokens that somebody has or that stand for a session have a row; a client only presents
\* what it was given.
Rows ==
    /\ \A t \in Token : HasRow(t) => HasRow(session[t])
    /\ \A c \in Client : \A t \in known[c] : HasRow(t)
    /\ \A r \in Request : new[r] \in Token => HasRow(new[r])
    /\ \A r \in Request : tok[r] \in Token => tok[r] \in known[caller[r]]
    /\ \A c \in Client : stored[c] \in Token => stored[c] \in known[c]
    /\ \A s \in ended : HasRow(s)

\* Only a revoked token has a successor, and a token that is being exchanged by one request
\* alone has none yet.
Exchanges ==
    /\ SingleUse
    /\ \A t \in Token : parent[t] \in Token => parent[t] \in revoked
    /\ \A r \in Request : op[r] = "refresh" /\ pc[r] \in {"create", "done"} => tok[r] \in revoked
    /\ \A t \in Token \ raced : \A r \in Exchanging(t) :
        /\ \A q \in Exchanging(t) : q = r
        /\ \A u \in Token : parent[u] # t

Late ==
    \A r \in late :
        /\ pc[r] # "idle" /\ tok[r] \in revoked
        /\ op[r] = "refresh" => pc[r] \in {"check", "refused"}

\* Of the tokens of request r's chain its client holds no other that is valid.
Freshest(r) ==
    \A u \in known[caller[r]] : session[u] = session[tok[r]] => u = tok[r] \/ u \in revoked

PastCheck(r) == op[r] = "refresh" /\ pc[r] \in {"revoke", "create", "done"}

\* A chain belongs to one client, which holds at most one valid token of it; and once the
\* chain was ended, none.  The one it would log out with is that one.
Chains ==
    /\ \A c, d \in Client : \A t \in known[c], u \in known[d] :
        session[t] = session[u] => c = d /\ (t = u \/ t \in revoked \/ u \in revoked)
    /\ \A c \in Client : \A t \in known[c] :
        /\ session[t] \in ended => t \in revoked
        /\ stored[c] \in Token /\ session[t] = session[stored[c]] => t = stored[c] \/ t \in revoked
    /\ \A r, q \in Request : new[r] \in Token /\ new[r] = new[q] => r = q
    /\ \A r \in Request : new[r] \in Token =>
        IF op[r] = "refresh" THEN session[new[r]] = session[tok[r]]
        ELSE /\ session[new[r]] = new[r] /\ new[r] \notin ended
             /\ \A c \in Client : \A u \in known[c] : session[u] # new[r]
    /\ \A r \in Request : Awaited(r) /\ tok[r] \in Token =>
        /\ op[r] = "logout" \/ PastCheck(r) => Freshest(r)
        /\ PastCheck(r) => session[tok[r]] \notin ended

AuthInv == TypeOK /\ InHand /\ Rows /\ Exchanges /\ Late /\ Chains

LEMMA SendKeeps ==
    ASSUME AuthInv, NEW c \in Client, NEW o \in Op, NEW t \in Carried, NEW u \in User \cup {NoUser}, Send(c, o, t, u),
           o \in {"register", "login"} => t = NoToken /\ u \in User,
           t \in Token => t \in known[c], o = "logout" => t = stored[c]
    PROVE  AuthInv'
<1> USE NoValueAssumption, ClientAssumption
        DEF AuthInv, authVars, tableVars, requestVars, chainVars, clientVars, callVars
<1>1. TypeOK'
  BY DEF Send, Behind, Entry, Step, TypeOK, AuthTypeOK, Pc, ServicePc, Op, Carried
<1>2. InHand'
  BY DEF Send, Behind, Entry, Step, TypeOK, AuthTypeOK, Pc, ServicePc, Op, Carried, InHand
<1>3. Rows'
  BY DEF Send, Behind, Entry, Step, TypeOK, AuthTypeOK, InHand, Rows, HasRow, Carried
<1>4. Exchanges'
  BY DEF Send, Behind, Entry, Step, TypeOK, AuthTypeOK, InHand, Rows, HasRow, Exchanges,
         SingleUse, Exchanging
<1>5. Late'
  BY DEF Send, Behind, Entry, Step, TypeOK, AuthTypeOK, InHand, Late
<1>6. Chains'
  BY DEF Send, Behind, Entry, Step, TypeOK, AuthTypeOK, InHand, Rows, HasRow, Chains,
         Exchanges, Late, Awaited, PastCheck, Freshest
<1>7. QED
  BY <1>1, <1>2, <1>3, <1>4, <1>5, <1>6

LEMMA ForgetKeeps ==
    ASSUME AuthInv, NEW c \in Client, Forget(c)
    PROVE  AuthInv'
<1> USE NoValueAssumption, ClientAssumption
        DEF AuthInv, authVars, tableVars, requestVars, chainVars, clientVars, callVars
<1>1. TypeOK'
  BY DEF Forget, Resume, TypeOK, AuthTypeOK, Pc, ServicePc, Op, Carried
<1>2. InHand'
  BY DEF Forget, Resume, TypeOK, AuthTypeOK, Pc, ServicePc, Op, Carried, InHand
<1>3. Rows'
  BY DEF Forget, Resume, TypeOK, AuthTypeOK, InHand, Rows, HasRow, Carried
<1>4. Exchanges'
  BY DEF Forget, Resume, TypeOK, AuthTypeOK, InHand, Rows, HasRow, Exchanges, SingleUse,
         Exchanging
<1>5. Late'
  BY DEF Forget, Resume, TypeOK, AuthTypeOK, InHand, Late
<1>6. Chains'
  BY DEF Forget, Resume, TypeOK, AuthTypeOK, InHand, Rows, HasRow, Chains, Exchanges, Late,
         Awaited, PastCheck, Freshest
<1>7. QED
  BY <1>1, <1>2, <1>3, <1>4, <1>5, <1>6

LEMMA GiveUpKeeps ==
    ASSUME AuthInv, NEW c \in Client, GiveUp(c)
    PROVE  AuthInv'
<1> USE NoValueAssumption, ClientAssumption
        DEF AuthInv, authVars, tableVars, requestVars, chainVars, clientVars, callVars
<1>1. TypeOK'
  BY DEF GiveUp, TypeOK, AuthTypeOK, Pc, ServicePc, Op, Carried
<1>2. InHand'
  BY DEF GiveUp, TypeOK, AuthTypeOK, Pc, ServicePc, Op, Carried, InHand
<1>3. Rows'
  BY DEF GiveUp, TypeOK, AuthTypeOK, InHand, Rows, HasRow, Carried
<1>4. Exchanges'
  BY DEF GiveUp, TypeOK, AuthTypeOK, InHand, Rows, HasRow, Exchanges, SingleUse, Exchanging
<1>5. Late'
  BY DEF GiveUp, TypeOK, AuthTypeOK, InHand, Late
<1>6. Chains'
  BY DEF GiveUp, TypeOK, AuthTypeOK, InHand, Rows, HasRow, Chains, Exchanges, Late, Awaited,
         PastCheck, Freshest
<1>7. QED
  BY <1>1, <1>2, <1>3, <1>4, <1>5, <1>6

LEMMA AccessLapsesKeeps ==
    ASSUME AuthInv, NEW c \in Client, AccessLapses(c)
    PROVE  AuthInv'
<1> USE NoValueAssumption, ClientAssumption
        DEF AuthInv, authVars, tableVars, requestVars, chainVars, clientVars, callVars
<1>1. TypeOK'
  BY DEF AccessLapses, TypeOK, AuthTypeOK, Pc, ServicePc, Op, Carried
<1>2. InHand'
  BY DEF AccessLapses, TypeOK, AuthTypeOK, Pc, ServicePc, Op, Carried, InHand
<1>3. Rows'
  BY DEF AccessLapses, TypeOK, AuthTypeOK, InHand, Rows, HasRow, Carried
<1>4. Exchanges'
  BY DEF AccessLapses, TypeOK, AuthTypeOK, InHand, Rows, HasRow, Exchanges, SingleUse,
         Exchanging
<1>5. Late'
  BY DEF AccessLapses, TypeOK, AuthTypeOK, InHand, Late
<1>6. Chains'
  BY DEF AccessLapses, TypeOK, AuthTypeOK, InHand, Rows, HasRow, Chains, Exchanges, Late,
         Awaited, PastCheck, Freshest
<1>7. QED
  BY <1>1, <1>2, <1>3, <1>4, <1>5, <1>6

LEMMA CreateUserKeeps ==
    ASSUME AuthInv, NEW r \in Request, CreateUser(r), UNCHANGED <<clientVars, callVars>>
    PROVE  AuthInv'
<1> USE NoValueAssumption, ClientAssumption
        DEF AuthInv, authVars, tableVars, requestVars, chainVars, clientVars, callVars
<1>1. TypeOK'
  BY DEF CreateUser, Step, TypeOK, AuthTypeOK, Pc, ServicePc, Op, Carried, InHand, Rows,
         HasRow
<1>2. InHand'
  BY DEF CreateUser, Step, TypeOK, AuthTypeOK, Pc, ServicePc, Op, Carried, InHand
<1>3. Rows'
  BY DEF CreateUser, Step, TypeOK, AuthTypeOK, InHand, Rows, HasRow, Carried
<1>4. Exchanges'
  BY DEF CreateUser, Step, TypeOK, AuthTypeOK, InHand, Rows, HasRow, Exchanges, SingleUse,
         Exchanging
<1>5. Late'
  BY DEF CreateUser, Step, TypeOK, AuthTypeOK, InHand, Late
<1>6. Chains'
  BY DEF CreateUser, Step, TypeOK, AuthTypeOK, InHand, Rows, HasRow, Chains, Exchanges,
         Late, Awaited, PastCheck, Freshest
<1>7. QED
  BY <1>1, <1>2, <1>3, <1>4, <1>5, <1>6

LEMMA FindByEmailKeeps ==
    ASSUME AuthInv, NEW r \in Request, FindByEmail(r), UNCHANGED <<clientVars, callVars>>
    PROVE  AuthInv'
<1> USE NoValueAssumption, ClientAssumption
        DEF AuthInv, authVars, tableVars, requestVars, chainVars, clientVars, callVars
<1>1. TypeOK'
  BY DEF FindByEmail, Step, TypeOK, AuthTypeOK, Pc, ServicePc, Op, Carried
<1>2. InHand'
  BY DEF FindByEmail, Step, TypeOK, AuthTypeOK, Pc, ServicePc, Op, Carried, InHand
<1>3. Rows'
  BY DEF FindByEmail, Step, TypeOK, AuthTypeOK, InHand, Rows, HasRow, Carried
<1>4. Exchanges'
  BY DEF FindByEmail, Step, TypeOK, AuthTypeOK, InHand, Rows, HasRow, Exchanges, SingleUse,
         Exchanging
<1>5. Late'
  BY DEF FindByEmail, Step, TypeOK, AuthTypeOK, InHand, Late
<1>6. Chains'
  BY DEF FindByEmail, Step, TypeOK, AuthTypeOK, InHand, Rows, HasRow, Chains, Exchanges,
         Late, Awaited, PastCheck, Freshest
<1>7. QED
  BY <1>1, <1>2, <1>3, <1>4, <1>5, <1>6

LEMMA CheckRefreshKeeps ==
    ASSUME AuthInv, NEW r \in Request, CheckRefresh(r), UNCHANGED <<clientVars, callVars>>
    PROVE  AuthInv'
<1> USE NoValueAssumption, ClientAssumption
        DEF AuthInv, authVars, tableVars, requestVars, chainVars, clientVars, callVars
<1>1. TypeOK'
  BY DEF CheckRefresh, Step, HasRow, TypeOK, AuthTypeOK, Pc, ServicePc, Op, Carried
<1>2. InHand'
  BY DEF CheckRefresh, Step, HasRow, TypeOK, AuthTypeOK, Pc, ServicePc, Op, Carried, InHand
<1>3. Rows'
  BY DEF CheckRefresh, Step, HasRow, TypeOK, AuthTypeOK, InHand, Rows, HasRow, Carried
<1>4. Exchanges'
  BY DEF CheckRefresh, Step, HasRow, TypeOK, AuthTypeOK, InHand, Rows, HasRow, Exchanges,
         SingleUse, Exchanging
<1>5. Late'
  BY DEF CheckRefresh, Step, HasRow, TypeOK, AuthTypeOK, InHand, Late
<1>6. Chains'
  BY DEF CheckRefresh, Step, HasRow, TypeOK, AuthTypeOK, InHand, Rows, HasRow, Chains,
         Exchanges, Late, Awaited, PastCheck, Freshest
<1>7. QED
  BY <1>1, <1>2, <1>3, <1>4, <1>5, <1>6

LEMMA CheckLogoutKeeps ==
    ASSUME AuthInv, NEW r \in Request, CheckLogout(r), UNCHANGED <<clientVars, callVars>>
    PROVE  AuthInv'
<1> USE NoValueAssumption, ClientAssumption
        DEF AuthInv, authVars, tableVars, requestVars, chainVars, clientVars, callVars
<1>1. TypeOK'
  BY DEF CheckLogout, Step, HasRow, TypeOK, AuthTypeOK, Pc, ServicePc, Op, Carried
<1>2. InHand'
  BY DEF CheckLogout, Step, HasRow, TypeOK, AuthTypeOK, Pc, ServicePc, Op, Carried, InHand
<1>3. Rows'
  BY DEF CheckLogout, Step, HasRow, TypeOK, AuthTypeOK, InHand, Rows, HasRow, Carried
<1>4. Exchanges'
  BY DEF CheckLogout, Step, HasRow, TypeOK, AuthTypeOK, InHand, Rows, HasRow, Exchanges,
         SingleUse, Exchanging
<1>5. Late'
  BY DEF CheckLogout, Step, HasRow, TypeOK, AuthTypeOK, InHand, Late
<1>6. Chains'
  BY DEF CheckLogout, Step, HasRow, TypeOK, AuthTypeOK, InHand, Rows, HasRow, Chains,
         Exchanges, Late, Awaited, PastCheck, Freshest
<1>7. QED
  BY <1>1, <1>2, <1>3, <1>4, <1>5, <1>6

LEMMA RevokeKeeps ==
    ASSUME AuthInv, NEW r \in Request, Revoke(r), UNCHANGED <<clientVars, callVars>>
    PROVE  AuthInv'
<1> USE NoValueAssumption, ClientAssumption
        DEF AuthInv, authVars, tableVars, requestVars, chainVars, clientVars, callVars
<1>1. TypeOK'
  BY DEF Revoke, Step, TypeOK, AuthTypeOK, Pc, ServicePc, Op, Carried, InHand, Rows, HasRow
<1>2. InHand'
  BY DEF Revoke, Step, TypeOK, AuthTypeOK, Pc, ServicePc, Op, Carried, InHand
<1>3. Rows'
  BY DEF Revoke, Step, TypeOK, AuthTypeOK, InHand, Rows, HasRow, Carried
<1>4. Exchanges'
  BY DEF Revoke, Step, TypeOK, AuthTypeOK, InHand, Rows, HasRow, Exchanges, SingleUse,
         Exchanging
<1>5. Late'
  BY DEF Revoke, Step, TypeOK, AuthTypeOK, InHand, Late
<1>6. Chains'
  BY DEF Revoke, Step, TypeOK, AuthTypeOK, InHand, Rows, HasRow, Chains, Exchanges, Late,
         Awaited, PastCheck, Freshest
<1>7. QED
  BY <1>1, <1>2, <1>3, <1>4, <1>5, <1>6

LEMMA RevokeIgnoredKeeps ==
    ASSUME AuthInv, NEW r \in Request, RevokeIgnored(r), UNCHANGED <<clientVars, callVars>>
    PROVE  AuthInv'
<1> USE NoValueAssumption, ClientAssumption
        DEF AuthInv, authVars, tableVars, requestVars, chainVars, clientVars, callVars
<1>1. TypeOK'
  BY DEF RevokeIgnored, Step, TypeOK, AuthTypeOK, Pc, ServicePc, Op, Carried
<1>2. InHand'
  BY DEF RevokeIgnored, Step, TypeOK, AuthTypeOK, Pc, ServicePc, Op, Carried, InHand
<1>3. Rows'
  BY DEF RevokeIgnored, Step, TypeOK, AuthTypeOK, InHand, Rows, HasRow, Carried
<1>4. Exchanges'
  BY DEF RevokeIgnored, Step, TypeOK, AuthTypeOK, InHand, Rows, HasRow, Exchanges,
         SingleUse, Exchanging
<1>5. Late'
  BY DEF RevokeIgnored, Step, TypeOK, AuthTypeOK, InHand, Late
<1>6. Chains'
  BY DEF RevokeIgnored, Step, TypeOK, AuthTypeOK, InHand, Rows, HasRow, Chains, Exchanges,
         Late, Awaited, PastCheck, Freshest
<1>7. QED
  BY <1>1, <1>2, <1>3, <1>4, <1>5, <1>6

\* What CreateToken does: token t has a row now and is nobody's but r's.
LEMMA CreateTokenEffect ==
    ASSUME AuthInv, NEW r \in Request, CreateToken(r)
    PROVE  /\ pc[r] = "create" /\ pc' = [pc EXCEPT ![r] = "done"] /\ op[r] # "logout"
           /\ user[r] \in users /\ user[r] # NoUser
           /\ op[r] = "refresh" => tok[r] \in Token /\ HasRow(tok[r]) /\ tok[r] \in known[caller[r]]
           /\ \E t \in Token :
                /\ ~HasRow(t)
                /\ holder' = [holder EXCEPT ![t] = user[r]]
                /\ new' = [new EXCEPT ![r] = t]
                /\ Links(r, t)
                /\ \A x \in Token : HasRow(x)' <=> HasRow(x) \/ x = t
           /\ UNCHANGED <<users, revoked, op, tok, user, raced>>
<1>1. pc[r] = "create" /\ pc' = [pc EXCEPT ![r] = "done"] /\ op[r] # "logout"
  BY DEF CreateToken, Step, AuthInv, InHand
<1>2. user[r] \in users /\ user[r] # NoUser
  <2>1. user[r] \in users
    BY <1>1 DEF AuthInv, InHand
  <2>2. users \subseteq User
    BY DEF AuthInv, TypeOK, AuthTypeOK
  <2>3. QED
    BY <2>1, <2>2, NoValueAssumption
<1>3. op[r] = "refresh" => tok[r] \in Token /\ HasRow(tok[r]) /\ tok[r] \in known[caller[r]]
  <2>1. caller[r] \in Client
    BY <1>1 DEF AuthInv, TypeOK
  <2>2. QED
    BY <1>1, <2>1 DEF AuthInv, InHand, Rows
<1>4. PICK t \in Token : /\ holder[t] = NoUser
                         /\ holder' = [holder EXCEPT ![t] = user[r]]
                         /\ new' = [new EXCEPT ![r] = t]
                         /\ Links(r, t)
  BY DEF CreateToken
<1>5. ~HasRow(t) /\ \A x \in Token : HasRow(x)' <=> HasRow(x) \/ x = t
  BY <1>2, <1>4 DEF HasRow, AuthInv, TypeOK, AuthTypeOK
<1>6. QED
  BY <1>1, <1>2, <1>3, <1>4, <1>5 DEF CreateToken

LEMMA CreateTokenKeeps ==
    ASSUME AuthInv, NEW r \in Request, CreateToken(r), UNCHANGED <<clientVars, callVars>>
    PROVE  AuthInv'
<1> USE CreateTokenEffect, NoValueAssumption DEF clientVars, callVars
<1>1. PICK t \in Token :
        /\ ~HasRow(t)
        /\ holder' = [holder EXCEPT ![t] = user[r]]
        /\ new' = [new EXCEPT ![r] = t]
        /\ Links(r, t)
        /\ \A x \in Token : HasRow(x)' <=> HasRow(x) \/ x = t
  OBVIOUS
<1>2. /\ parent' = [parent EXCEPT ![t] = tok[r]] \/ parent' = parent
      /\ \A x \in Token \ {t} : parent'[x] = parent[x] /\ session'[x] = session[x]
      /\ IF op[r] = "refresh" THEN parent'[t] = tok[r] /\ session'[t] = session[tok[r]]
                              ELSE parent' = parent /\ session'[t] = t
  BY <1>1 DEF Links, AuthInv, TypeOK, AuthTypeOK
<1>3. TypeOK'
  <2>1. holder' \in [Token -> users' \cup {NoUser}] /\ new' \in [Request -> Token \cup {NoToken}]
    BY <1>1 DEF AuthInv, TypeOK, AuthTypeOK
  <2>2. /\ parent' \in [Token -> Token \cup {NoToken}]
        /\ session' \in [Token -> Token \cup {NoToken}]
    <3>1. /\ parent \in [Token -> Token \cup {NoToken}]
          /\ session \in [Token -> Token \cup {NoToken}]
      BY DEF AuthInv, TypeOK, AuthTypeOK
    <3>2. CASE op[r] = "refresh"
      <4>1. tok[r] \in Token
        BY <3>2, CreateTokenEffect
      <4>2. QED
        BY <1>1, <3>1, <3>2, <4>1 DEF Links
    <3>3. CASE op[r] # "refresh"
      BY <1>1, <3>1, <3>3 DEF Links
    <3>4. QED
      BY <3>2, <3>3
  <2>3. pc' \in [Request -> Pc]
    BY DEF AuthInv, TypeOK, AuthTypeOK, Pc, ServicePc
  <2>4. QED
    BY <2>1, <2>2, <2>3 DEF AuthInv, TypeOK, AuthTypeOK
<1>4. InHand'
  BY <1>1 DEF AuthInv, TypeOK, AuthTypeOK, InHand
<1>5. Rows'
  <2>1. \A x : HasRow(x) => HasRow(x)'
    BY <1>1 DEF HasRow
  <2>2. HasRow(t)'
    BY <1>1
  <2>3. \A x \in Token : HasRow(x)' => HasRow(session[x])'
    <3>1. ASSUME NEW x \in Token, HasRow(x), x # t PROVE HasRow(session[x])'
      <4>1. HasRow(session[x]) /\ session'[x] = session[x]
        BY <1>2, <3>1 DEF AuthInv, Rows
      <4>2. QED
        BY <2>1, <4>1 DEF HasRow
    <3>2. HasRow(session[t])'
      <4>1. CASE op[r] = "refresh"
        <5>1. HasRow(session[tok[r]]) /\ session'[t] = session[tok[r]]
          BY <1>2, <4>1 DEF AuthInv, Rows
        <5>2. QED
          BY <2>1, <5>1 DEF HasRow
      <4>2. CASE op[r] # "refresh"
        BY <1>2, <2>2, <4>2 DEF HasRow
      <4>3. QED
        BY <4>1, <4>2
    <3>3. QED
      BY <1>1, <3>1, <3>2
  <2>4. \A q \in Request : new'[q] \in Token => HasRow(new[q])'
    <3>1. ASSUME NEW q \in Request, new'[q] \in Token PROVE HasRow(new[q])'
      <4>1. new'[q] = t \/ (HasRow(new[q]) /\ new'[q] = new[q])
        BY <1>1, <3>1 DEF AuthInv, TypeOK, AuthTypeOK, Rows
      <4>2. QED
        BY <2>1, <2>2, <4>1 DEF HasRow
    <3>2. QED
      BY <3>1
  <2>5. QED
    BY <2>1, <2>3, <2>4 DEF AuthInv, Rows
<1>6. Exchanges'
  <2>1. \A x \in Token : Exchanging(x)' = Exchanging(x) \ {r}
    BY DEF Exchanging, AuthInv, TypeOK, AuthTypeOK
  <2>2. op[r] = "refresh" => tok[r] \in revoked /\ r \in Exchanging(tok[r])
    BY DEF Exchanging, AuthInv, Exchanges
  <2>3. \A x \in Token : parent'[x] = parent[x] \/ (x = t /\ parent'[x] = tok[r] /\ op[r] = "refresh")
    BY <1>2
  <2>4. \A x, u \in Token :
          parent'[x] = parent'[u] /\ parent'[x] \in Token \ raced' => x = u
    BY <2>2, <2>3 DEF AuthInv, Exchanges, SingleUse
  <2>5. \A x \in Token : parent'[x] \in Token => parent'[x] \in revoked'
    BY <2>2, <2>3 DEF AuthInv, Exchanges
  <2>6. \A x \in Token \ raced' : \A p \in Exchanging(x)' :
          (\A q \in Exchanging(x)' : q = p) /\ \A u \in Token : parent'[u] # x
    BY <2>1, <2>2, <2>3 DEF AuthInv, Exchanges
  <2>7. \A q \in Request : op'[q] = "refresh" /\ pc'[q] \in {"create", "done"} => tok'[q] \in revoked'
    BY <2>2 DEF AuthInv, TypeOK, AuthTypeOK, Exchanges
  <2>8. QED
    BY <2>4, <2>5, <2>6, <2>7 DEF Exchanges, SingleUse
<1>7. Late'
  BY DEF AuthInv, TypeOK, AuthTypeOK, Late
<1>8. Chains'
  <2>1. \A c \in Client : \A u \in known[c] : u \in Token /\ u # t /\ session'[u] = session[u]
    BY <1>1, <1>2 DEF AuthInv, TypeOK, Rows
  <2>2. \A q \in Request \ {r} : new'[q] = new[q] /\ pc'[q] = pc[q] /\ new[q] # t
    BY <1>1 DEF AuthInv, TypeOK, AuthTypeOK, Rows
  <2>3. \A q \in Request : Awaited(q)' => Awaited(q)
    BY DEF Awaited, AuthInv, TypeOK, AuthTypeOK
  <2>4. \A q \in Request : pc[q] # "idle" => caller[q] \in Client
    BY DEF AuthInv, TypeOK
  <2>5. \A q \in Request : tok[q] \in Token => tok[q] # t /\ session'[tok[q]] = session[tok[q]]
    BY <2>1, <2>4 DEF AuthInv, InHand, Rows
  <2>6. \A c, d \in Client : \A x \in known'[c], u \in known'[d] :
          session'[x] = session'[u] => c = d /\ (x = u \/ x \in revoked' \/ u \in revoked')
    BY <2>1 DEF AuthInv, Chains
  <2>7. \A c \in Client : \A x \in known'[c] :
          /\ session'[x] \in ended' => x \in revoked'
          /\ stored'[c] \in Token /\ session'[x] = session'[stored'[c]]
               => x = stored'[c] \/ x \in revoked'
    BY <2>1 DEF AuthInv, Rows, Chains
  <2>8. \A p, q \in Request : new'[p] \in Token /\ new'[p] = new'[q] => p = q
    BY <1>1, <2>2 DEF AuthInv, TypeOK, AuthTypeOK, Chains
  <2>9. ASSUME NEW q \in Request, new'[q] \in Token
        PROVE  IF op[q] = "refresh" THEN session'[new'[q]] = session'[tok[q]]
               ELSE /\ session'[new'[q]] = new'[q] /\ new'[q] \notin ended
                    /\ \A c \in Client : \A u \in known[c] : session'[u] # new'[q]
    <3>1. CASE q = r
      <4>1. new'[r] = t /\ t \notin ended
        BY <1>1 DEF AuthInv, TypeOK, AuthTypeOK, Rows
      <4>2. \A c \in Client : \A u \in known[c] : session[u] # t
        BY <1>1 DEF AuthInv, TypeOK, Rows
      <4>3. QED
        BY <1>2, <2>1, <2>5, <3>1, <4>1, <4>2
    <3>2. CASE q # r
      BY <1>2, <2>1, <2>2, <2>5, <2>9, <3>2 DEF AuthInv, TypeOK, AuthTypeOK, InHand, Chains
    <3>3. QED
      BY <3>1, <3>2
  <2>10. ASSUME NEW q \in Request, Awaited(q)', tok'[q] \in Token
         PROVE  /\ op'[q] = "logout" \/ PastCheck(q)' => Freshest(q)'
                /\ PastCheck(q)' => session'[tok'[q]] \notin ended'
    <3>1. PastCheck(q)' => PastCheck(q)
      BY DEF PastCheck, AuthInv, TypeOK, AuthTypeOK
    <3>2. caller[q] \in Client
      BY <2>3, <2>4, <2>10 DEF Awaited
    <3>3. QED
      BY <2>1, <2>3, <2>5, <2>10, <3>1, <3>2 DEF AuthInv, Chains, Freshest
  <2>11. QED
    BY <2>6, <2>7, <2>8, <2>9, <2>10 DEF Chains
<1>9. QED
  BY <1>3, <1>4, <1>5, <1>6, <1>7, <1>8 DEF AuthInv

LEMMA GetSessionKeeps ==
    ASSUME AuthInv, NEW r \in Request, pc[r] = "done", Awaited(r), GetSession(r, caller[r]),
           Release(r)
    PROVE  AuthInv'
<1> USE NoValueAssumption, ClientAssumption
    DEF AuthInv, authVars, tableVars, requestVars, chainVars, clientVars, callVars
<1> DEFINE c == caller[r]
           t == new[r]
<1>1. c \in Client /\ waiting[c] = r /\ op[r] # "logout" /\ t \in Token /\ HasRow(t)
  BY DEF Awaited, GetSession, InHand, Rows, TypeOK
<1>2. /\ \/ stored' = [stored EXCEPT ![c] = Undefined] /\ known' = known
         \/ stored' = [stored EXCEPT ![c] = t] /\ known' = [known EXCEPT ![c] = @ \cup {t}]
      /\ waiting' = [waiting EXCEPT ![c] = NoCall] /\ ended' = ended
      /\ access' = [access EXCEPT ![c] = user[r]] /\ lapsed' = lapsed \ {c}
  <2>1. CASE c \in web
    BY <2>1 DEF GetSession, Resume
  <2>2. CASE c \notin web
    BY <2>2 DEF GetSession, Resume
  <2>3. QED
    BY <2>1, <2>2
<1>3. TypeOK'
  <2>1. known' \in [Client -> SUBSET Token] /\ stored' \in [Client -> Carried]
    BY <1>1, <1>2 DEF TypeOK, Carried
  <2>2. waiting' \in [Client -> Request \cup {NoCall}] /\ access' \in [Client -> User \cup {NoUser}]
    BY <1>1, <1>2 DEF TypeOK, AuthTypeOK
  <2>3. pc' \in [Request -> Pc] /\ op' \in [Request -> Op] /\ tok' \in [Request -> Carried]
    BY DEF Release, TypeOK, AuthTypeOK, Pc, Op, Carried
  <2>4. QED
    BY <1>2, <2>1, <2>2, <2>3 DEF Release, TypeOK, AuthTypeOK
<1>4. InHand'
  BY DEF GetSession, Resume, Release, Awaited, TypeOK, AuthTypeOK, Pc, ServicePc, Op,
         Carried, InHand
<1>5. Rows'
  BY DEF GetSession, Resume, Release, Awaited, TypeOK, AuthTypeOK, InHand, Rows, HasRow,
         Carried
<1>6. Exchanges'
  BY DEF GetSession, Resume, Release, Awaited, TypeOK, AuthTypeOK, InHand, Rows, HasRow,
         Exchanges, SingleUse, Exchanging
<1>7. Late'
  BY DEF GetSession, Resume, Release, Awaited, TypeOK, AuthTypeOK, InHand, Late
<1>8. Chains'
  <2>1. /\ \A d \in Client \ {c} : known'[d] = known[d] /\ stored'[d] = stored[d]
        /\ \A d \in Client : \A x : x \in known'[d] => x \in known[d] \/ (d = c /\ x = t)
        /\ stored'[c] = Undefined \/ stored'[c] = t
    BY <1>1, <1>2 DEF TypeOK
  <2>2. UNCHANGED <<revoked, session, ended>> /\ new'[r] = NoToken /\ tok'[r] = NoToken
    BY <1>2 DEF Release, TypeOK, AuthTypeOK
  <2>3. \A q \in Request \ {r} : /\ new'[q] = new[q] /\ tok'[q] = tok[q] /\ op'[q] = op[q]
                                 /\ pc'[q] = pc[q] /\ caller'[q] = caller[q]
    BY DEF Release, TypeOK, AuthTypeOK
  <2>4. tok[r] \in known[c] \/ op[r] # "refresh"
    BY DEF InHand, Rows
  \* The rest of the chain is revoked and not ended; a new chain has no rest.
  <2>5. /\ session[t] \notin ended
        /\ \A d \in Client : \A u \in known[d] : session[u] = session[t] => d = c /\ u \in revoked
    <3>1. CASE op[r] = "refresh"
      <4>1. tok[r] \in Token /\ tok[r] \in revoked /\ PastCheck(r)
        BY <3>1 DEF InHand, Exchanges, PastCheck
      <4>2. session[t] = session[tok[r]] /\ session[tok[r]] \notin ended /\ Freshest(r)
        BY <1>1, <3>1, <4>1 DEF Chains
      <4>3. QED
        BY <1>1, <2>4, <3>1, <4>1, <4>2 DEF Chains, Freshest
    <3>2. CASE op[r] # "refresh"
      BY <1>1, <3>2 DEF Chains
    <3>3. QED
      BY <3>1, <3>2
  <2>6. \A q \in Request \ {r} : Awaited(q)' => Awaited(q) /\ caller[q] \in Client \ {c}
    BY <1>1, <1>2, <2>3 DEF Awaited, TypeOK
  <2>7. ASSUME NEW d \in Client, NEW e \in Client, NEW x \in known'[d], NEW u \in known'[e],
               session[x] = session[u]
        PROVE  d = e /\ (x = u \/ x \in revoked \/ u \in revoked)
    <3>1. /\ x \in known[d] \/ (d = c /\ x = t)
          /\ u \in known[e] \/ (e = c /\ u = t)
      BY <2>1
    <3>2. CASE x \in known[d] /\ u \in known[e]
      BY <2>7, <3>2 DEF Chains
    <3>3. CASE d = c /\ x = t
      BY <2>5, <2>7, <3>1, <3>3
    <3>4. CASE e = c /\ u = t
      BY <2>5, <2>7, <3>1, <3>4
    <3>5. QED
      BY <3>1, <3>2, <3>3, <3>4
  <2>8. ASSUME NEW d \in Client, NEW x \in known'[d]
        PROVE  /\ session[x] \in ended => x \in revoked
               /\ stored'[d] \in Token /\ session[x] = session[stored'[d]]
                    => x = stored'[d] \/ x \in revoked
    <3>1. x \in known[d] \/ (d = c /\ x = t)
      BY <2>1
    <3>2. QED
      BY <2>1, <2>5, <3>1 DEF Chains
  <2>9. \A p, q \in Request : new'[p] \in Token /\ new'[p] = new'[q] => p = q
    BY <2>2, <2>3 DEF Chains
  <2>10. ASSUME NEW q \in Request, new'[q] \in Token
         PROVE  IF op'[q] = "refresh" THEN session[new'[q]] = session[tok'[q]]
                ELSE /\ session[new'[q]] = new'[q] /\ new'[q] \notin ended
                     /\ \A d \in Client : \A u \in known'[d] : session[u] # new'[q]
    <3>1. q # r /\ new'[q] = new[q] /\ op'[q] = op[q] /\ tok'[q] = tok[q] /\ new[q] \in Token
      BY <2>2, <2>3, <2>10
    <3>2. op[q] # "refresh" => session[t] # new[q]
      <4>1. t # new[q]
        BY <1>1, <3>1 DEF Chains
      <4>2. op[r] # "refresh" => session[t] = t
        BY <1>1 DEF Chains
      <4>3. op[r] = "refresh" => session[t] = session[tok[r]]
        BY <1>1 DEF Chains
      <4>4. QED
        BY <1>1, <2>4, <3>1, <4>1, <4>2, <4>3 DEF Chains
    <3>3. QED
      BY <2>1, <3>1, <3>2 DEF Chains
  <2>11. ASSUME NEW q \in Request, Awaited(q)', tok'[q] \in Token
         PROVE  /\ op'[q] = "logout" \/ PastCheck(q)' => Freshest(q)'
                /\ PastCheck(q)' => session'[tok'[q]] \notin ended'
    <3>1. q # r /\ Awaited(q) /\ caller[q] \in Client \ {c}
      BY <2>2, <2>6, <2>11
    <3>2. known'[caller'[q]] = known[caller[q]] /\ tok'[q] = tok[q] /\ (PastCheck(q)' <=> PastCheck(q))
      BY <2>1, <2>3, <3>1 DEF PastCheck
    <3>3. QED
      BY <2>2, <2>3, <2>11, <3>1, <3>2 DEF Chains, Freshest
  <2>12. QED
    BY <2>2, <2>7, <2>8, <2>9, <2>10, <2>11 DEF Chains
<1>9. QED
  BY <1>3, <1>4, <1>5, <1>6, <1>7, <1>8

LEMMA GetLoggedOutKeeps ==
    ASSUME AuthInv, NEW r \in Request, pc[r] = "done", Awaited(r), GetLoggedOut(r, caller[r]), Release(r)
    PROVE  AuthInv'
<1> USE NoValueAssumption, ClientAssumption
        DEF AuthInv, authVars, tableVars, requestVars, chainVars, clientVars, callVars
<1>1. TypeOK'
  BY DEF GetLoggedOut, Resume, Release, Awaited, TypeOK, AuthTypeOK, Pc, ServicePc, Op,
         Carried, InHand, Rows, HasRow
<1>2. InHand'
  BY DEF GetLoggedOut, Resume, Release, Awaited, TypeOK, AuthTypeOK, Pc, ServicePc, Op,
         Carried, InHand
<1>3. Rows'
  BY DEF GetLoggedOut, Resume, Release, Awaited, TypeOK, AuthTypeOK, InHand, Rows, HasRow,
         Carried
<1>4. Exchanges'
  BY DEF GetLoggedOut, Resume, Release, Awaited, TypeOK, AuthTypeOK, InHand, Rows, HasRow,
         Exchanges, SingleUse, Exchanging
<1>5. Late'
  BY DEF GetLoggedOut, Resume, Release, Awaited, TypeOK, AuthTypeOK, InHand, Late
<1>6. Chains'
  BY DEF GetLoggedOut, Resume, Release, Awaited, TypeOK, AuthTypeOK, InHand, Rows, HasRow,
         Chains, Exchanges, Late, Awaited, PastCheck, Freshest
<1>7. QED
  BY <1>1, <1>2, <1>3, <1>4, <1>5, <1>6

LEMMA RefuseKeeps ==
    ASSUME AuthInv, NEW r \in Request, Refuse(r)
    PROVE  AuthInv'
<1> USE NoValueAssumption, ClientAssumption
        DEF AuthInv, authVars, tableVars, requestVars, chainVars, clientVars, callVars
<1>1. TypeOK'
  BY DEF Refuse, Resume, Release, Awaited, TypeOK, AuthTypeOK, Pc, ServicePc, Op, Carried
<1>2. InHand'
  BY DEF Refuse, Resume, Release, Awaited, TypeOK, AuthTypeOK, Pc, ServicePc, Op, Carried,
         InHand
<1>3. Rows'
  BY DEF Refuse, Resume, Release, Awaited, TypeOK, AuthTypeOK, InHand, Rows, HasRow, Carried
<1>4. Exchanges'
  BY DEF Refuse, Resume, Release, Awaited, TypeOK, AuthTypeOK, InHand, Rows, HasRow,
         Exchanges, SingleUse, Exchanging
<1>5. Late'
  BY DEF Refuse, Resume, Release, Awaited, TypeOK, AuthTypeOK, InHand, Late
<1>6. Chains'
  BY DEF Refuse, Resume, Release, Awaited, TypeOK, AuthTypeOK, InHand, Rows, HasRow, Chains,
         Exchanges, Late, Awaited, PastCheck, Freshest
<1>7. QED
  BY <1>1, <1>2, <1>3, <1>4, <1>5, <1>6

LEMMA DropKeeps ==
    ASSUME AuthInv, NEW r \in Request, Drop(r)
    PROVE  AuthInv'
<1> USE NoValueAssumption, ClientAssumption
        DEF AuthInv, authVars, tableVars, requestVars, chainVars, clientVars, callVars
<1>1. TypeOK'
  BY DEF Drop, Release, Awaited, TypeOK, AuthTypeOK, Pc, ServicePc, Op, Carried
<1>2. InHand'
  BY DEF Drop, Release, Awaited, TypeOK, AuthTypeOK, Pc, ServicePc, Op, Carried, InHand
<1>3. Rows'
  BY DEF Drop, Release, Awaited, TypeOK, AuthTypeOK, InHand, Rows, HasRow, Carried
<1>4. Exchanges'
  BY DEF Drop, Release, Awaited, TypeOK, AuthTypeOK, InHand, Rows, HasRow, Exchanges,
         SingleUse, Exchanging
<1>5. Late'
  BY DEF Drop, Release, Awaited, TypeOK, AuthTypeOK, InHand, Late
<1>6. Chains'
  BY DEF Drop, Release, Awaited, TypeOK, AuthTypeOK, InHand, Rows, HasRow, Chains,
         Exchanges, Late, Awaited, PastCheck, Freshest
<1>7. QED
  BY <1>1, <1>2, <1>3, <1>4, <1>5, <1>6

-----------------------------------------------------------------------------
LEMMA AuthStart == Init => AuthInv
<1> USE NoValueAssumption, ClientAssumption DEF Init, AuthInit
<1> SUFFICES ASSUME Init PROVE AuthInv
  OBVIOUS
<1>1. TypeOK
  BY DEF TypeOK, AuthTypeOK, Pc, ServicePc, Op, Carried
<1>2. InHand /\ Rows /\ Late
  BY DEF InHand, Rows, HasRow, Late
<1>3. Exchanges
  BY DEF Exchanges, SingleUse, Exchanging
<1>4. Chains
  BY DEF Chains, Awaited
<1>5. QED
  BY <1>1, <1>2, <1>3, <1>4 DEF AuthInv

LEMMA ClientStep ==
    ASSUME AuthInv, NEW c \in Client,
           \/ SignUp(c) \/ SignIn(c) \/ SendRefresh(c) \/ SendLogout(c)
           \/ Forget(c) \/ GiveUp(c) \/ AccessLapses(c)
    PROVE  AuthInv' /\ known' = known
<1>1. CASE SignUp(c) \/ SignIn(c)
  <2>1. PICK o \in {"register", "login"}, u \in User : Send(c, o, NoToken, u)
    BY <1>1 DEF SignUp, SignIn
  <2>2. o \in Op /\ NoToken \in Carried /\ NoToken \notin Token
    BY NoValueAssumption DEF Op, Carried
  <2>3. AuthInv'
    BY <2>1, <2>2, SendKeeps
  <2>4. QED
    BY <2>1, <2>3 DEF Send
<1>2. CASE SendRefresh(c)
  <2>1. PICK t : Send(c, "refresh", t, NoUser) /\ (t \in known[c] \/ t = stored[c])
    BY <1>2 DEF SendRefresh
  <2>2. t \in Carried /\ (t \in Token => t \in known[c])
    BY <2>1 DEF AuthInv, TypeOK, AuthTypeOK, Rows, Carried
  <2>3. AuthInv'
    BY <2>1, <2>2, SendKeeps DEF Op
  <2>4. QED
    BY <2>1, <2>3 DEF Send
<1>3. CASE SendLogout(c)
  <2>1. Send(c, "logout", stored[c], access[c])
    BY <1>3 DEF SendLogout
  <2>2. /\ stored[c] \in Carried /\ (stored[c] \in Token => stored[c] \in known[c])
        /\ access[c] \in User \cup {NoUser}
    BY DEF AuthInv, TypeOK, AuthTypeOK, Rows
  <2>3. AuthInv'
    BY <2>1, <2>2, SendKeeps DEF Op
  <2>4. QED
    BY <2>1, <2>3 DEF Send
<1>4. CASE Forget(c) \/ GiveUp(c) \/ AccessLapses(c)
  BY <1>4, ForgetKeeps, GiveUpKeeps, AccessLapsesKeeps DEF Forget, GiveUp, AccessLapses
<1>5. QED
  BY <1>1, <1>2, <1>3, <1>4

\* No token of an ended chain reaches a client.
Sealed == \A c \in Client : \A t \in known'[c] \ known[c] : session[t] \notin ended

LEMMA RequestStep ==
    ASSUME AuthInv, NEW r \in Request, Handle(r) \/ Answer(r) \/ Refuse(r) \/ Drop(r)
    PROVE  AuthInv' /\ Sealed
<1>1. CASE Handle(r)
  BY <1>1, CreateUserKeeps, FindByEmailKeeps, CheckRefreshKeeps, CheckLogoutKeeps,
         RevokeKeeps,
     RevokeIgnoredKeeps, CreateTokenKeeps DEF Handle, Serve, clientVars, Sealed
<1>2. CASE Refuse(r) \/ Drop(r)
  BY <1>2, RefuseKeeps, DropKeeps DEF Refuse, Drop, clientVars, Sealed
<1>3. CASE Answer(r)
  <2>1. pc[r] = "done" /\ Awaited(r) /\ Release(r)
    BY <1>3 DEF Answer
  <2>2. CASE GetLoggedOut(r, caller[r])
    BY <2>1, <2>2, GetLoggedOutKeeps DEF GetLoggedOut, Sealed
  <2>3. CASE GetSession(r, caller[r])
    <3>1. AuthInv'
      BY <2>1, <2>3, GetSessionKeeps
    <3>2. op[r] # "logout" /\ new[r] \in Token
      BY <2>1, <2>3 DEF GetSession, AuthInv, InHand
    <3>3. session[new[r]] \notin ended
      <4>1. CASE op[r] = "refresh"
        <5>1. tok[r] \in Token /\ PastCheck(r)
          BY <2>1, <4>1 DEF AuthInv, InHand, PastCheck
        <5>2. QED
          BY <2>1, <3>2, <4>1, <5>1 DEF AuthInv, Chains
      <4>2. CASE op[r] # "refresh"
        BY <3>2, <4>2 DEF AuthInv, Chains
      <4>3. QED
        BY <4>1, <4>2
    <3>4. \A c \in Client : \A t \in known'[c] \ known[c] : t = new[r]
      BY <2>3 DEF GetSession, AuthInv, TypeOK
    <3>5. QED
      BY <3>1, <3>3, <3>4 DEF Sealed
  <2>4. QED
    BY <1>3, <2>2, <2>3 DEF Answer
<1>4. QED
  BY <1>1, <1>2, <1>3

LEMMA AuthStep == AuthInv /\ [Next]_vars => AuthInv' /\ (Sealed \/ UNCHANGED vars)
<1>1. ASSUME AuthInv, Next PROVE AuthInv' /\ Sealed
  BY <1>1, ClientStep, RequestStep DEF Next, Sealed
<1>2. ASSUME AuthInv, UNCHANGED vars PROVE AuthInv'
  <2> USE <1>2 DEF vars, authVars, tableVars, requestVars, chainVars, clientVars, callVars, AuthInv
  <2>1. TypeOK' /\ InHand'
    BY DEF TypeOK, AuthTypeOK, InHand
  <2>2. Rows' /\ Late'
    BY DEF Rows, HasRow, Late
  <2>3. Exchanges'
    BY DEF Exchanges, SingleUse, Exchanging
  <2>4. Chains'
    BY DEF Chains, Awaited, PastCheck, Freshest
  <2>5. QED
    BY <2>1, <2>2, <2>3, <2>4
<1>3. QED
  BY <1>1, <1>2

LEMMA Invariance == Spec => []AuthInv
<1>1. AuthInv /\ [Next]_vars => AuthInv'
  BY AuthStep
<1>2. QED
  BY <1>1, AuthStart, PTL DEF Spec

\* Every variable of the sessions has its type: tokens are held by accounts that exist, a
\* request that is underway has a client (services.go, AuthService).
THEOREM AuthTypes == Spec => []TypeOK
<1>1. AuthInv => TypeOK
  BY DEF AuthInv
<1>2. QED
  BY <1>1, Invariance, PTL

\* A refresh token has one successor, unless two requests had found it valid before either
\* revoked it (services.go:117 and :127).
THEOREM ExchangedOnce == Spec => []SingleUse
<1>1. AuthInv => SingleUse
  BY DEF AuthInv, Exchanges
<1>2. QED
  BY <1>1, Invariance, PTL

\* A token that was revoked before a request was sent gets that request nowhere
\* (services.go:117).
THEOREM RevokedIsFinal == Spec => []RevocationIsFinal
<1>1. AuthInv => RevocationIsFinal
  BY DEF AuthInv, Late, RevocationIsFinal
<1>2. QED
  BY <1>1, Invariance, PTL

\* A client that was told it is logged out gets no token of that chain any more, from any of
\* the requests it abandoned or sends (services.go:144-161).
THEOREM LogoutIsFinal == Spec => LogoutEndsSession
<1>1. AuthInv /\ [Next]_vars => Sealed \/ UNCHANGED vars
  BY AuthStep
<1>2. QED
  BY <1>1, Invariance, PTL DEF Spec, LogoutEndsSession, Sealed
=============================================================================

---------------------------- MODULE AuthService -----------------------------
(***************************************************************************)
(* AuthService of service/services.go with the users and refresh_tokens    *)
(* tables: Register, Login, Refresh and Logout as the SQL statements they  *)
(* issue, one step each.  A step is the statement succeeding; an early     *)
(* return or an error ends the request where it is (Refuse of AuthApi),    *)
(* and a statement that was executed and reports an error ends it just     *)
(* after its step.  An expired token ends like a failed read.              *)
(***************************************************************************)

CONSTANTS
    Request,    \* requests the API serves at one time; a slot is reused
    User,       \* accounts, by their e-mail address
    Token,      \* refresh tokens that can be drawn (32 random bytes: all different)
    NoToken,
    Undefined,  \* the string "undefined", which is no token's value
    NoUser

ASSUME NoValueAssumption ==
    /\ NoToken \notin Token /\ Undefined \notin Token /\ NoToken # Undefined
    /\ NoUser \notin User

VARIABLES
    users,    \* rows of users
    holder,   \* user_id of each row of refresh_tokens, NoUser: no row
    revoked,  \* rows whose revoked_at is set
    pc,       \* the statement a request is at
    op,       \* its operation
    tok,      \* the refresh token it carries
    user,     \* its account: of the credentials, the row or the bearer token
    new,      \* the refresh token it has issued
    parent,   \* history: the token each token was exchanged for
    session,  \* history: the first token of its chain
    raced     \* history: tokens two exchanges had found valid at one time

tableVars   == <<users, holder, revoked>>
requestVars == <<op, tok, user, new>>
chainVars   == <<parent, session, raced>>
authVars    == <<tableVars, pc, requestVars, chainVars>>

Op == {"register", "login", "refresh", "logout"}
ServicePc == {"insert", "find", "check", "revoke", "create", "done"}
Pc == ServicePc \cup {"idle", "refused"}
Carried == Token \cup {NoToken, Undefined}

AuthInit ==
    /\ users = {} /\ revoked = {} /\ raced = {}
    /\ holder  = [t \in Token |-> NoUser]
    /\ parent  = [t \in Token |-> NoToken]
    /\ session = [t \in Token |-> NoToken]
    /\ pc   = [r \in Request |-> "idle"]
    /\ op   = [r \in Request |-> "login"]
    /\ tok  = [r \in Request |-> NoToken]
    /\ user = [r \in Request |-> NoUser]
    /\ new  = [r \in Request |-> NoToken]

AuthTypeOK ==
    /\ users \subseteq User
    /\ holder \in [Token -> users \cup {NoUser}]
    /\ revoked \subseteq Token /\ raced \subseteq Token
    /\ parent \in [Token -> Token \cup {NoToken}]
    /\ session \in [Token -> Token \cup {NoToken}]
    /\ pc \in [Request -> Pc] /\ op \in [Request -> Op]
    /\ tok \in [Request -> Carried] /\ new \in [Request -> Token \cup {NoToken}]
    /\ user \in [Request -> User \cup {NoUser}]

Step(r, from, to) == pc[r] = from /\ pc' = [pc EXCEPT ![r] = to]

\* The first statement of each operation.
Entry(o) ==
    CASE o = "register" -> "insert" [] o = "login" -> "find" [] OTHER -> "check"

-----------------------------------------------------------------------------
\* Mutation: an address nobody registered is let in.
FindByEmailUnchecked(r) ==
    /\ Step(r, "find", "create")
    /\ UNCHANGED <<tableVars, requestVars, chainVars>>

\* Register: users.email is UNIQUE.
CreateUser(r) ==
    /\ Step(r, "insert", "create")
    /\ user[r] \notin users
    /\ users' = users \cup {user[r]}
    /\ UNCHANGED <<holder, revoked, requestVars, chainVars>>

\* Login, with the right password.
FindByEmail(r) ==
    /\ Step(r, "find", "create")
    /\ user[r] \in users
    /\ UNCHANGED <<tableVars, requestVars, chainVars>>

\* Refresh and Logout read the row of the token by its hash.
HasRow(t) == t \in Token /\ holder[t] # NoUser

\* The exchanges of token t that have found it valid.
Exchanging(t) ==
    {r \in Request : op[r] = "refresh" /\ tok[r] = t /\ pc[r] \in {"revoke", "create"}}

\* Mutation: RevokedAt is not looked at.
CheckRefreshUnrevoked(r) ==
    /\ op[r] = "refresh"
    /\ Step(r, "check", "revoke")
    /\ HasRow(tok[r])
    /\ user'  = [user EXCEPT ![r] = holder[tok[r]]]
    /\ raced' = IF Exchanging(tok[r]) = {} THEN raced ELSE raced \cup {tok[r]}
    /\ UNCHANGED <<tableVars, op, tok, new, parent, session>>

\* FindByHash, the two checks and FindByID only read.
CheckRefresh(r) ==
    /\ op[r] = "refresh"
    /\ Step(r, "check", "revoke")
    /\ HasRow(tok[r]) /\ tok[r] \notin revoked
    /\ user'  = [user EXCEPT ![r] = holder[tok[r]]]
    /\ raced' = IF Exchanging(tok[r]) = {} THEN raced ELSE raced \cup {tok[r]}
    /\ UNCHANGED <<tableVars, op, tok, new, parent, session>>

\* Logout: an unknown token is a success, somebody else's is refused.
CheckLogout(r) ==
    /\ op[r] = "logout"
    /\ \/ Step(r, "check", "done") /\ ~HasRow(tok[r])
       \/ Step(r, "check", "revoke") /\ HasRow(tok[r]) /\ holder[tok[r]] = user[r]
    /\ UNCHANGED <<tableVars, requestVars, chainVars>>

\* Mutation: Refresh issues the next token and leaves the old one valid.
RevokeOnLogoutOnly(r) ==
    /\ Step(r, "revoke", IF op[r] = "refresh" THEN "create" ELSE "done")
    /\ revoked' = IF op[r] = "refresh" THEN revoked ELSE revoked \cup {tok[r]}
    /\ UNCHANGED <<users, holder, requestVars, chainVars>>

\* UPDATE ... SET revoked_at WHERE id AND revoked_at IS NULL: changing no row is
\* no error.  Refresh goes on to issue the next token, Logout is over.
Revoke(r) ==
    /\ Step(r, "revoke", IF op[r] = "refresh" THEN "create" ELSE "done")
    /\ revoked' = revoked \cup {tok[r]}
    /\ UNCHANGED <<users, holder, requestVars, chainVars>>

\* Logout ignores the error of Revoke.
RevokeIgnored(r) ==
    /\ op[r] = "logout"
    /\ Step(r, "revoke", "done")
    /\ UNCHANGED <<tableVars, requestVars, chainVars>>

\* The first token of the chain a new token t belongs to, and the one before it.
Links(r, t) ==
    IF op[r] = "refresh"
      THEN /\ parent'  = [parent EXCEPT ![t] = tok[r]]
           /\ session' = [session EXCEPT ![t] = session[tok[r]]]
      ELSE parent' = parent /\ session' = [session EXCEPT ![t] = t]

CreateToken(r) ==
    /\ Step(r, "create", "done")
    /\ \E t \in Token :
        /\ holder[t] = NoUser
        /\ holder' = [holder EXCEPT ![t] = user[r]]
        /\ new'    = [new EXCEPT ![r] = t]
        /\ Links(r, t)
    /\ UNCHANGED <<users, revoked, op, tok, user, raced>>

Serve(r) ==
    \/ CreateUser(r) \/ FindByEmail(r)
    \/ CheckRefresh(r) \/ CheckLogout(r)
    \/ Revoke(r) \/ RevokeIgnored(r)
    \/ CreateToken(r)

-----------------------------------------------------------------------------
\* A refresh token is exchanged once: only exchanges that both found it valid
\* before either revoked it (services.go:117 and :127 are two statements) can
\* both issue a successor.
SingleUse ==
    \A t, u \in Token :
        parent[t] = parent[u] /\ parent[t] \in Token \ raced => t = u
=============================================================================

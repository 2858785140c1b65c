------------------------------ MODULE AuthApi -------------------------------
(***************************************************************************)
(* The /auth routes: clients, the bearer check (middleware.go), the        *)
(* handlers (handler/auth.go) and AuthService behind them.  The limiters   *)
(* in front of the routes are RateLimiter: here a 429 is an error answer.  *)
(*                                                                         *)
(* A script keeps the refresh token it finds in Set-Cookie and may present *)
(* any token it ever got, as scripts/e2e_smoke.py does.  The web client    *)
(* (apps/web/src/lib/auth.ts, api.ts) reads refresh_token from the body of *)
(* the answer, which has no such member, and stores "undefined".           *)
(***************************************************************************)
EXTENDS AuthService

CONSTANTS Client, NoClient, NoCall

ASSUME ClientAssumption == NoCall \notin Request /\ NoClient \notin Client

VARIABLES
    web,      \* the clients that are browsers running the web client
    caller,   \* the client of each request
    late,     \* history: requests whose token was revoked when they were sent
    waiting,  \* the request a client awaits the answer of
    access,   \* the account of the access token a client holds
    lapsed,   \* clients whose access token is past its 15 minutes
    stored,   \* the refresh token a client uses
    known,    \* every refresh token a client was given
    ended     \* history: chains a client has logged out of

clientVars == <<web, waiting, access, lapsed, stored, known, ended>>
callVars   == <<caller, late>>
vars       == <<authVars, clientVars, callVars>>

Init ==
    /\ AuthInit
    /\ web \in SUBSET Client
    /\ caller = [r \in Request |-> NoClient]
    /\ late = {} /\ lapsed = {} /\ ended = {}
    /\ waiting = [c \in Client |-> NoCall]
    /\ access  = [c \in Client |-> NoUser]
    /\ stored  = [c \in Client |-> NoToken]
    /\ known   = [c \in Client |-> {}]

TypeOK ==
    /\ AuthTypeOK
    /\ web \subseteq Client /\ lapsed \subseteq Client /\ ended \subseteq Token
    /\ caller \in [Request -> Client \cup {NoClient}]
    /\ late \subseteq Request
    /\ waiting \in [Client -> Request \cup {NoCall}]
    /\ access \in [Client -> User \cup {NoUser}]
    /\ stored \in [Client -> Carried]
    /\ known \in [Client -> SUBSET Token]
    /\ \A r \in Request : pc[r] # "idle" => caller[r] \in Client

-----------------------------------------------------------------------------
(* Clients. *)

\* The bearer check, which only logout has, and the handler.
Behind(c, o) == IF o = "logout" /\ c \in lapsed THEN "refused" ELSE Entry(o)

\* Client c sends operation o with token t, as account u.
Send(c, o, t, u) ==
    /\ waiting[c] = NoCall
    /\ \E r \in Request :
        /\ Step(r, "idle", Behind(c, o))
        /\ op'      = [op EXCEPT ![r] = o]
        /\ tok'     = [tok EXCEPT ![r] = t]
        /\ user'    = [user EXCEPT ![r] = u]
        /\ caller'  = [caller EXCEPT ![r] = c]
        /\ late'    = IF t \in revoked THEN late \cup {r} ELSE late
        /\ waiting' = [waiting EXCEPT ![c] = r]
    /\ UNCHANGED <<tableVars, new, chainVars, web, access, lapsed, stored, known, ended>>

SignUp(c) == \E u \in User : Send(c, "register", NoToken, u)
SignIn(c) == \E u \in User : Send(c, "login", NoToken, u)

\* The interceptor of api.ts refreshes after a 401; a script when it likes.
SendRefresh(c) ==
    \/ c \notin web /\ \E t \in known[c] : Send(c, "refresh", t, NoUser)
    \/ c \in web /\ c \in lapsed /\ stored[c] # NoToken /\ Send(c, "refresh", stored[c], NoUser)

SendLogout(c) ==
    /\ access[c] # NoUser /\ stored[c] # NoToken
    /\ Send(c, "logout", stored[c], access[c])

\* The client goes on with account a and refresh token s.
Resume(c, a, s) ==
    /\ waiting' = [waiting EXCEPT ![c] = NoCall]
    /\ access'  = [access EXCEPT ![c] = a]
    /\ stored'  = [stored EXCEPT ![c] = s]
    /\ lapsed'  = lapsed \ {c}

\* Until a page load reads "undefined" back from localStorage, the web client's
\* refreshToken is undefined and its logout only forgets the session.
Forget(c) ==
    /\ c \in web /\ stored[c] = Undefined /\ waiting[c] = NoCall
    /\ Resume(c, NoUser, NoToken)
    /\ UNCHANGED <<authVars, web, known, ended, callVars>>

\* A client gives up waiting (timeout, closed tab); the request goes on.
GiveUp(c) ==
    /\ waiting[c] # NoCall
    /\ waiting' = [waiting EXCEPT ![c] = NoCall]
    /\ UNCHANGED <<authVars, web, access, lapsed, stored, known, ended, callVars>>

\* The access token's 15 minutes are over.
AccessLapses(c) ==
    /\ access[c] # NoUser /\ c \notin lapsed
    /\ lapsed' = lapsed \cup {c}
    /\ UNCHANGED <<authVars, web, waiting, access, stored, known, ended, callVars>>

-----------------------------------------------------------------------------
Handle(r) == Serve(r) /\ UNCHANGED <<clientVars, callVars>>

-----------------------------------------------------------------------------
(* Answers. *)

\* The slot is free for the next request.
Release(r) ==
    /\ pc'      = [pc EXCEPT ![r] = "idle"]
    /\ op'      = [op EXCEPT ![r] = "login"]
    /\ tok'     = [tok EXCEPT ![r] = NoToken]
    /\ user'    = [user EXCEPT ![r] = NoUser]
    /\ new'     = [new EXCEPT ![r] = NoToken]
    /\ caller'  = [caller EXCEPT ![r] = NoClient]
    /\ late'    = late \ {r}
    /\ UNCHANGED <<tableVars, chainVars, web>>

Awaited(r) == pc[r] # "idle" /\ waiting[caller[r]] = r

\* The cookie carries the new token, the body only the access token.
GetSession(r, c) ==
    /\ op[r] # "logout"
    /\ IF c \in web
         THEN Resume(c, user[r], Undefined) /\ known' = known
         ELSE /\ Resume(c, user[r], new[r])
              /\ known' = [known EXCEPT ![c] = @ \cup {new[r]}]
    /\ ended' = ended

GetLoggedOut(r, c) ==
    /\ op[r] = "logout"
    /\ Resume(c, NoUser, NoToken)
    /\ ended' = IF tok[r] \in revoked THEN ended \cup {session[tok[r]]} ELSE ended
    /\ known' = known

Answer(r) ==
    /\ pc[r] = "done" /\ Awaited(r)
    /\ GetSession(r, caller[r]) \/ GetLoggedOut(r, caller[r])
    /\ Release(r)

\* An error answer, a dead API process or a lost answer, at any statement.  A web
\* client whose refresh or logout fails, for whatever reason, forgets its session.
Refuse(r) ==
    /\ Awaited(r)
    /\ LET c == caller[r] IN
       IF c \in web /\ op[r] \in {"refresh", "logout"}
         THEN Resume(c, NoUser, NoToken)
         ELSE waiting' = [waiting EXCEPT ![c] = NoCall] /\ UNCHANGED <<access, lapsed, stored>>
    /\ UNCHANGED <<known, ended>>
    /\ Release(r)

\* Nobody waits any more; the disconnect cancels what the request still has to do.
Drop(r) ==
    /\ pc[r] # "idle" /\ ~Awaited(r)
    /\ Release(r)
    /\ UNCHANGED clientVars

Next ==
    \/ \E c \in Client :
        \/ SignUp(c) \/ SignIn(c) \/ SendRefresh(c) \/ SendLogout(c)
        \/ Forget(c) \/ GiveUp(c) \/ AccessLapses(c)
    \/ \E r \in Request :
        \/ Handle(r) \/ Answer(r) \/ Refuse(r) \/ Drop(r)

Spec == Init /\ [][Next]_vars

-----------------------------------------------------------------------------
\* A token that was revoked, by an exchange or a logout, before a request was sent
\* gets that request nowhere, however many others are underway (README.md:108
\* "reuse-rejection, revocation").
RevocationIsFinal ==
    \A r \in late : op[r] = "refresh" => pc[r] \notin {"revoke", "create", "done"}

\* Once a client was told that it is logged out, no token of that chain reaches it
\* any more, whatever it abandoned before and whatever it sends after.  The chain
\* is open only if the database failed: Logout ignores that error.
LogoutEndsSession ==
    [][\A c \in Client : \A t \in known'[c] \ known[c] : session[t] \notin ended]_vars
=============================================================================

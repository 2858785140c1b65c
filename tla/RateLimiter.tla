---------------------------- MODULE RateLimiter -----------------------------
(***************************************************************************)
(* middleware/ratelimit.go and the limiters that handler/router.go puts in *)
(* front of the routes: one for every route and a tighter one for the      *)
(* routes of a group (/auth, uploads).  Both build the same Redis key, from *)
(* the caller's address and the route: both count a call under one key, and *)
(* every route of a group has counts of its own.                           *)
(***************************************************************************)
EXTENDS Naturals, FiniteSets

CONSTANTS
    Client,       \* the addresses calls come from
    Route,        \* the routes of one group: c.FullPath()
    NoKey,
    Call,         \* calls in flight at one time
    GlobalLimit,  \* 120 per minute in the code
    GroupLimit,   \* 10 for /auth, 30 for uploads
    Window        \* the minute, in ticks

ASSUME LimitAssumption ==
    /\ GlobalLimit \in Nat /\ GroupLimit \in Nat /\ GroupLimit <= GlobalLimit
    /\ Window \in Nat \ {0}
    /\ NoKey \notin Client \X Route

\* "rl:ip:<address>:<route>"
Key == Client \X Route

VARIABLES
    hits,    \* the counter of each key, 0: no such key
    ttl,     \* what is left of its expiry
    at,      \* the limiter a call is at
    key,     \* the key of each call
    count,   \* history: what the global limiter counted for a call, 0: nothing
    recent   \* history: the calls counted twice and let pass, with their two
             \* counts and how many ticks ago; no two calls get the same count

vars == <<hits, ttl, at, key, count, recent>>

Ticks == 0..(Window - 1)

\* A counter above both limits answers every question alike.
Ceiling == GlobalLimit + 1

Admission == [first : 1..GlobalLimit, second : 1..GroupLimit, age : Ticks]

Init ==
    /\ hits = [k \in Key |-> 0] /\ ttl = [k \in Key |-> 0]
    /\ at = [c \in Call |-> "idle"] /\ key = [c \in Call |-> NoKey]
    /\ count = [c \in Call |-> 0]
    /\ recent = [k \in Key |-> {}]

TypeOK ==
    /\ hits \in [Key -> 0..Ceiling] /\ ttl \in [Key -> 0..Window]
    /\ \A k \in Key : hits[k] = 0 <=> ttl[k] = 0
    /\ at \in [Call -> {"idle", "global", "group"}]
    /\ key \in [Call -> Key \cup {NoKey}]
    /\ \A c \in Call : at[c] = "idle" <=> key[c] = NoKey
    /\ count \in [Call -> 0..GlobalLimit]
    /\ recent \in [Key -> SUBSET Admission]

-----------------------------------------------------------------------------
Arrive(c) ==
    /\ at[c] = "idle"
    /\ at' = [at EXCEPT ![c] = "global"]
    /\ \E k \in Key : key' = [key EXCEPT ![c] = k]
    /\ UNCHANGED <<hits, ttl, count, recent>>

Incremented(k) == IF hits[k] < Ceiling THEN hits[k] + 1 ELSE Ceiling

\* Mutations: EXPIRE is sent with the first call of a window only; never.
CountFirstExpires(k) ==
    /\ hits' = [hits EXCEPT ![k] = Incremented(k)]
    /\ ttl'  = [ttl EXCEPT ![k] = IF hits[k] = 0 THEN Window ELSE @]
CountForever(k) ==
    /\ hits' = [hits EXCEPT ![k] = Incremented(k)]
    /\ ttl'  = ttl

\* INCR and EXPIRE in one MULTI: every count starts the minute of the key again.
Count(k) ==
    /\ hits' = [hits EXCEPT ![k] = Incremented(k)]
    /\ ttl'  = [ttl EXCEPT ![k] = Window]

Allows(k, limit) == Incremented(k) <= limit

\* The call leaves the limiters: to its handler, or with a 429.
Leave(c) ==
    /\ at'  = [at EXCEPT ![c] = "idle"]
    /\ key' = [key EXCEPT ![c] = NoKey]
    /\ count' = [count EXCEPT ![c] = 0]

Refuse(c, limit) ==
    /\ ~Allows(key[c], limit)
    /\ Count(key[c])
    /\ Leave(c)
    /\ UNCHANGED recent

GlobalAllows(c) ==
    /\ Allows(key[c], GlobalLimit)
    /\ Count(key[c])
    /\ at' = [at EXCEPT ![c] = "group"]
    /\ count' = [count EXCEPT ![c] = Incremented(key[c])]
    /\ UNCHANGED <<key, recent>>

Admit(c) == [first |-> count[c], second |-> Incremented(key[c]), age |-> 0]

GroupAllows(c) ==
    /\ Allows(key[c], GroupLimit)
    /\ Count(key[c])
    /\ recent' = IF count[c] = 0 THEN recent
                 ELSE [recent EXCEPT ![key[c]] = @ \cup {Admit(c)}]
    /\ Leave(c)

\* A method of the route that the group's limiter is not on (GET beside POST on
\* /projects/:id/assets), or a call without a valid token: it leaves after the
\* global limiter, which counted it under the route's key.
Ungrouped(c) ==
    /\ Allows(key[c], GlobalLimit)
    /\ Count(key[c])
    /\ Leave(c)
    /\ UNCHANGED recent

\* The transaction reports an error, executed or not: the call passes.
Fails(c) ==
    /\ Count(key[c]) \/ UNCHANGED <<hits, ttl>>
    /\ UNCHANGED recent

GlobalFails(c) ==
    /\ Fails(c)
    /\ \/ at' = [at EXCEPT ![c] = "group"] /\ UNCHANGED <<key, count>>
       \/ Leave(c)

GroupFails(c) == Fails(c) /\ Leave(c)

GlobalLimiter(c) ==
    /\ at[c] = "global"
    /\ \/ GlobalAllows(c) \/ Ungrouped(c)
       \/ Refuse(c, GlobalLimit) \/ GlobalFails(c)

GroupLimiter(c) ==
    /\ at[c] = "group"
    /\ GroupAllows(c) \/ Refuse(c, GroupLimit) \/ GroupFails(c)

\* A key whose minute is over is gone.
Expires(k) == ttl[k] <= 1

Aged(x) == [first |-> x.first, second |-> x.second, age |-> x.age + 1]

\* Time passes.  The client's read timeout keeps the two counts of a call, which
\* follow one another, far closer together than a minute.
Tick ==
    /\ \A c \in Call : at[c] = "group" => ~Expires(key[c])
    /\ hits' = [k \in Key |-> IF Expires(k) THEN 0 ELSE hits[k]]
    /\ ttl'  = [k \in Key |-> IF Expires(k) THEN 0 ELSE ttl[k] - 1]
    /\ recent' = [k \in Key |-> {Aged(x) : x \in {y \in recent[k] : y.age + 1 < Window}}]
    /\ UNCHANGED <<at, key, count>>

Next ==
    \/ \E c \in Call : Arrive(c) \/ GlobalLimiter(c) \/ GroupLimiter(c)
    \/ Tick

Spec == Init /\ [][Next]_vars

-----------------------------------------------------------------------------
Admitted(k) == Cardinality(recent[k])

\* In any minute, wherever it starts, a client gets at most half of the group's
\* limit through to ONE route of the group, not counting calls that pass because
\* Redis failed on them: the global limiter and the group's count each call under
\* one key, and a key lives on until its client leaves the route alone for a
\* minute, so no two windows meet.  (10 a minute in the code: 5 to each of the five
\* routes of /auth.  Of the routes together, to which API.md:90 gives a client 10, there is
\* no counter.)
RouteAdmitsHalf == \A k \in Key : 2 * Admitted(k) <= GroupLimit
=============================================================================

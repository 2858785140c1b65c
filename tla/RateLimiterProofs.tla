------------------------- MODULE RateLimiterProofs --------------------------
(***************************************************************************)
(* What RateLimiter promises, for every limit and window.  No count of a   *)
(* key is given twice while a call that got it is remembered: a call let   *)
(* through the group's limiter was counted twice, below the group's limit. *)
(* A key stands for one client on one route, and so do these bounds.       *)
(***************************************************************************)
EXTENDS RateLimiter, FiniteSetTheorems, TLAPS

\* A counter is as high as every count it gave out, and lives for a minute after.
Remembered ==
    \A k \in Key : \A x \in recent[k] :
        /\ x.first < x.second /\ x.second <= hits[k]
        /\ ttl[k] + x.age >= Window

\* Only a call between the two limiters carries a count.
Underway ==
    \A c \in Call : count[c] # 0 => at[c] = "group" /\ count[c] <= hits[key[c]]

Distinct ==
    /\ \A k \in Key : \A x, y \in recent[k] : x # y =>
        x.first # y.first /\ x.first # y.second /\ x.second # y.second
    /\ \A c \in Call : count[c] # 0 => \A x \in recent[key[c]] :
        count[c] # x.first /\ count[c] # x.second
    /\ \A c, d \in Call : c # d /\ count[c] # 0 /\ key[c] = key[d] => count[c] # count[d]

CountInv == TypeOK /\ Remembered /\ Underway /\ Distinct

-----------------------------------------------------------------------------
\* What INCR and EXPIRE do to the key of a call, and that they touch no other.
LEMMA CountsUp ==
    ASSUME CountInv, NEW k \in Key, Count(k)
    PROVE  /\ hits' \in [Key -> 0..Ceiling] /\ ttl' \in [Key -> 0..Window]
           /\ \A j \in Key : hits'[j] = 0 <=> ttl'[j] = 0
           /\ \A j \in Key : hits'[j] >= hits[j] /\ ttl'[j] >= ttl[j]
           /\ hits'[k] = Incremented(k) /\ ttl'[k] = Window
           /\ Incremented(k) \in 1..Ceiling
<1>1. hits \in [Key -> 0..Ceiling] /\ ttl \in [Key -> 0..Window] /\ Window \in Nat \ {0}
      /\ GlobalLimit \in Nat /\ Ceiling \in Nat \ {0}
    BY LimitAssumption DEF CountInv, TypeOK, Ceiling
<1>2. Incremented(k) \in 1..Ceiling /\ Incremented(k) >= hits[k]
    BY <1>1 DEF Incremented
<1>3. hits' = [hits EXCEPT ![k] = Incremented(k)] /\ ttl' = [ttl EXCEPT ![k] = Window]
    BY DEF Count
<1>4. \A j \in Key : hits[j] = 0 <=> ttl[j] = 0
    BY DEF CountInv, TypeOK
<1> HIDE DEF Incremented, Ceiling
<1> QED
    BY <1>1, <1>2, <1>3, <1>4

\* A limiter lets a call pass on a count it gives to nobody else.
LEMMA AllowedIsNext ==
    ASSUME CountInv, NEW k \in Key, NEW limit \in Nat, limit <= GlobalLimit, Allows(k, limit)
    PROVE  Incremented(k) = hits[k] + 1 /\ Incremented(k) \in 1..limit
<1>1. hits[k] \in 0..Ceiling /\ GlobalLimit \in Nat
    BY LimitAssumption DEF CountInv, TypeOK
<1> QED
    BY <1>1 DEF Allows, Incremented, Ceiling

\* A step that lets no call through and gives no call a count keeps the invariant.
LEMMA NothingCounted ==
    ASSUME CountInv, TypeOK', UNCHANGED recent,
           \A k \in Key : hits'[k] >= hits[k] /\ ttl'[k] >= ttl[k],
           \A c \in Call : \/ count'[c] = 0
                           \/ count'[c] = count[c] /\ key'[c] = key[c] /\ at'[c] = at[c]
    PROVE  CountInv'
<1>1. /\ \A k \in Key : hits[k] \in Nat /\ hits'[k] \in Nat /\ ttl[k] \in Nat /\ ttl'[k] \in Nat
      /\ \A c \in Call : count[c] \in Nat
      /\ \A k \in Key : \A x \in recent[k] : x.first \in Nat /\ x.second \in Nat /\ x.age \in Nat
      /\ Window \in Nat
    BY LimitAssumption DEF CountInv, TypeOK, Admission, Ticks, Ceiling
<1>2. \A c \in Call : count[c] # 0 => key[c] \in Key
    BY DEF CountInv, TypeOK, Underway
<1>3. Remembered'
    BY <1>1 DEF CountInv, Remembered
<1>4. Underway'
    BY <1>1, <1>2 DEF CountInv, Underway
<1>5. Distinct'
    BY DEF CountInv, Distinct
<1> QED
    BY <1>3, <1>4, <1>5 DEF CountInv

-----------------------------------------------------------------------------
LEMMA ArriveKeeps ==
    ASSUME CountInv, NEW c \in Call, Arrive(c)
    PROVE  CountInv'
<1>1. count[c] = 0
    BY DEF CountInv, Underway, Arrive
<1>2. TypeOK'
    BY LimitAssumption DEF CountInv, TypeOK, Arrive, Key
<1>3. \A k \in Key : hits[k] \in Nat /\ ttl[k] \in Nat
    BY LimitAssumption DEF CountInv, TypeOK, Ceiling
<1>4. \A d \in Call : \/ count'[d] = 0
                      \/ count'[d] = count[d] /\ key'[d] = key[d] /\ at'[d] = at[d]
    BY <1>1 DEF Arrive, CountInv, TypeOK
<1>5. UNCHANGED recent /\ \A k \in Key : hits'[k] >= hits[k] /\ ttl'[k] >= ttl[k]
    BY <1>3 DEF Arrive
<1> QED
    BY <1>2, <1>4, <1>5, NothingCounted

\* Who leaves takes its count along.
LEMMA LeaveKeeps ==
    ASSUME CountInv, NEW c \in Call, at[c] # "idle", Leave(c), UNCHANGED recent,
           Count(key[c]) \/ UNCHANGED <<hits, ttl>>
    PROVE  CountInv'
<1>1. key[c] \in Key
    BY DEF CountInv, TypeOK
<1>2. /\ hits' \in [Key -> 0..Ceiling] /\ ttl' \in [Key -> 0..Window]
      /\ \A j \in Key : hits'[j] = 0 <=> ttl'[j] = 0
      /\ \A j \in Key : hits'[j] >= hits[j] /\ ttl'[j] >= ttl[j]
  <2>1. CASE Count(key[c])
    BY <1>1, <2>1, CountsUp
  <2>2. CASE UNCHANGED <<hits, ttl>>
    BY <2>2, LimitAssumption DEF CountInv, TypeOK, Ceiling
  <2> QED
    BY <2>1, <2>2
<1>3. TypeOK'
  <2>1. at' \in [Call -> {"idle", "global", "group"}] /\ key' \in [Call -> Key \cup {NoKey}]
        /\ count' \in [Call -> 0..GlobalLimit]
    BY LimitAssumption DEF CountInv, TypeOK, Leave
  <2>2. \A d \in Call : at'[d] = "idle" <=> key'[d] = NoKey
    BY DEF CountInv, TypeOK, Leave
  <2> QED
    BY <1>2, <2>1, <2>2 DEF CountInv, TypeOK
<1>4. \A d \in Call : \/ count'[d] = 0
                      \/ count'[d] = count[d] /\ key'[d] = key[d] /\ at'[d] = at[d]
    BY DEF Leave, CountInv, TypeOK
<1> QED
    BY <1>2, <1>3, <1>4, NothingCounted

LEMMA GlobalFailsKeeps ==
    ASSUME CountInv, NEW c \in Call, at[c] = "global", Fails(c),
           at' = [at EXCEPT ![c] = "group"] /\ UNCHANGED <<key, count>>
    PROVE  CountInv'
<1>1. key[c] \in Key /\ count[c] = 0
    BY DEF CountInv, TypeOK, Underway
<1>2. /\ hits' \in [Key -> 0..Ceiling] /\ ttl' \in [Key -> 0..Window]
      /\ \A j \in Key : hits'[j] = 0 <=> ttl'[j] = 0
      /\ \A j \in Key : hits'[j] >= hits[j] /\ ttl'[j] >= ttl[j]
  <2>1. CASE Count(key[c])
    BY <1>1, <2>1, CountsUp
  <2>2. CASE UNCHANGED <<hits, ttl>>
    BY <2>2, LimitAssumption DEF CountInv, TypeOK, Ceiling
  <2> QED
    BY <2>1, <2>2 DEF Fails
<1>3. at' = [at EXCEPT ![c] = "group"] /\ UNCHANGED <<key, count, recent>>
    BY DEF Fails
<1>4. TypeOK'
    BY <1>1, <1>2, <1>3 DEF CountInv, TypeOK
<1>5. \A d \in Call : \/ count'[d] = 0
                      \/ count'[d] = count[d] /\ key'[d] = key[d] /\ at'[d] = at[d]
    BY <1>1, <1>3 DEF CountInv, TypeOK
<1> QED
    BY <1>2, <1>3, <1>4, <1>5, NothingCounted

\* The count the global limiter gives a call is above all that are remembered.
LEMMA GlobalAllowsKeeps ==
    ASSUME CountInv, NEW c \in Call, at[c] = "global", GlobalAllows(c)
    PROVE  CountInv'
<1> DEFINE k == key[c]
           n == Incremented(k)
<1>1. k \in Key /\ GlobalLimit \in Nat
    BY LimitAssumption DEF CountInv, TypeOK
<1>2. n = hits[k] + 1 /\ n \in 1..GlobalLimit
    BY <1>1, AllowedIsNext DEF GlobalAllows
<1>3. /\ hits' \in [Key -> 0..Ceiling] /\ ttl' \in [Key -> 0..Window]
      /\ \A j \in Key : hits'[j] = 0 <=> ttl'[j] = 0
      /\ \A j \in Key : hits'[j] >= hits[j] /\ ttl'[j] >= ttl[j]
      /\ hits'[k] = n
    BY <1>1, CountsUp DEF GlobalAllows
<1>4. /\ at' = [at EXCEPT ![c] = "group"] /\ count' = [count EXCEPT ![c] = n]
      /\ UNCHANGED <<key, recent>>
    BY DEF GlobalAllows
<1>5. /\ \A j \in Key : hits[j] \in Nat /\ hits'[j] \in Nat /\ ttl[j] \in Nat /\ ttl'[j] \in Nat
      /\ \A d \in Call : count[d] \in Nat
      /\ \A j \in Key : \A x \in recent[j] : x.first \in Nat /\ x.second \in Nat /\ x.age \in Nat
      /\ Window \in Nat
    BY <1>3, LimitAssumption DEF CountInv, TypeOK, Admission, Ticks, Ceiling
<1>6. \A d \in Call : count'[d] = IF d = c THEN n ELSE count[d]
    BY <1>4 DEF CountInv, TypeOK
<1>7. \A d \in Call : at'[d] = IF d = c THEN "group" ELSE at[d]
    BY <1>4 DEF CountInv, TypeOK
<1> HIDE DEF n, k
<1>8. TypeOK'
  <2>1. count' \in [Call -> 0..GlobalLimit]
    BY <1>1, <1>2, <1>4 DEF CountInv, TypeOK
  <2>2. at' \in [Call -> {"idle", "global", "group"}]
        /\ \A d \in Call : at'[d] = "idle" <=> key'[d] = NoKey
    BY <1>4, <1>7 DEF CountInv, TypeOK
  <2> QED
    BY <1>3, <1>4, <2>1, <2>2 DEF CountInv, TypeOK
<1>9. Remembered'
    BY <1>3, <1>4, <1>5 DEF CountInv, Remembered
<1>10. Underway'
  <2> SUFFICES ASSUME NEW d \in Call, count'[d] # 0
               PROVE  at'[d] = "group" /\ count'[d] <= hits'[key[d]]
    BY <1>4 DEF Underway
  <2>1. CASE d = c
    BY <2>1, <1>1, <1>3, <1>5, <1>6, <1>7 DEF k
  <2>2. CASE d # c
    <3>1. at[d] = "group" /\ count[d] <= hits[key[d]] /\ key[d] \in Key
      BY <2>2, <1>6 DEF CountInv, Underway, TypeOK
    <3> QED
      BY <2>2, <3>1, <1>3, <1>5, <1>6, <1>7
  <2> QED
    BY <2>1, <2>2
<1>11. Distinct'
  <2>1. \A d \in Call : count'[d] # 0 => \A x \in recent'[key'[d]] :
            count'[d] # x.first /\ count'[d] # x.second
    <3> SUFFICES ASSUME NEW d \in Call, count'[d] # 0, NEW x \in recent[key[d]]
                 PROVE  count'[d] # x.first /\ count'[d] # x.second
      BY <1>4
    <3>1. CASE d = c
      <4>1. x.first < x.second /\ x.second <= hits[k] /\ x.first \in Nat /\ x.second \in Nat
        BY <3>1, <1>1, <1>5 DEF CountInv, Remembered, k
      <4> QED
        BY <3>1, <4>1, <1>1, <1>2, <1>5, <1>6
    <3>2. CASE d # c
      BY <3>2, <1>6 DEF CountInv, Distinct
    <3> QED
      BY <3>1, <3>2
  <2>2. \A d, e \in Call : d # e /\ count'[d] # 0 /\ key'[d] = key'[e] => count'[d] # count'[e]
    <3> SUFFICES ASSUME NEW d \in Call, NEW e \in Call, d # e, count'[d] # 0, key[d] = key[e]
                 PROVE  count'[d] # count'[e]
      BY <1>4
    <3>1. \A b \in Call : b # c /\ key[b] = k => count[b] <= hits[k]
      BY <1>1, <1>5 DEF CountInv, Underway
    <3>2. CASE d = c
      BY <3>1, <3>2, <1>1, <1>2, <1>5, <1>6 DEF k
    <3>3. CASE e = c
      BY <3>1, <3>3, <1>1, <1>2, <1>5, <1>6 DEF k
    <3>4. CASE d # c /\ e # c
      BY <3>4, <1>6 DEF CountInv, Distinct
    <3> QED
      BY <3>2, <3>3, <3>4
  <2> QED
    BY <2>1, <2>2, <1>4 DEF CountInv, Distinct
<1> QED
    BY <1>8, <1>9, <1>10, <1>11 DEF CountInv

-----------------------------------------------------------------------------
\* The group's limiter lets a call through that was counted before: its two counts
\* become an entry of the minute.
LEMMA AdmitKeeps ==
    ASSUME CountInv, NEW c \in Call, at[c] = "group", GroupAllows(c), count[c] # 0
    PROVE  CountInv'
<1> DEFINE k == key[c]
           n == Incremented(k)
           new == Admit(c)
<1>1. k \in Key /\ GlobalLimit \in Nat /\ GroupLimit \in Nat /\ GroupLimit <= GlobalLimit
      /\ Window \in Nat \ {0}
    BY LimitAssumption DEF CountInv, TypeOK
<1>2. n = hits[k] + 1 /\ n \in 1..GroupLimit
    BY <1>1, AllowedIsNext DEF GroupAllows
<1>3. /\ hits' \in [Key -> 0..Ceiling] /\ ttl' \in [Key -> 0..Window]
      /\ \A j \in Key : hits'[j] = 0 <=> ttl'[j] = 0
      /\ \A j \in Key : hits'[j] >= hits[j] /\ ttl'[j] >= ttl[j]
      /\ hits'[k] = n /\ ttl'[k] = Window
    BY <1>1, CountsUp DEF GroupAllows
<1>4. /\ at' = [at EXCEPT ![c] = "idle"] /\ count' = [count EXCEPT ![c] = 0]
      /\ key' = [key EXCEPT ![c] = NoKey]
      /\ recent' = [recent EXCEPT ![k] = @ \cup {new}]
    BY DEF GroupAllows, Leave
<1>5. new.first = count[c] /\ new.second = n /\ new.age = 0
    BY DEF Admit
<1>6. count[c] \in 1..GlobalLimit /\ count[c] <= hits[k]
    BY <1>1 DEF CountInv, TypeOK, Underway
<1>7. /\ \A j \in Key : hits[j] \in Nat /\ hits'[j] \in Nat /\ ttl[j] \in Nat /\ ttl'[j] \in Nat
      /\ \A d \in Call : count[d] \in Nat
      /\ \A j \in Key : \A x \in recent[j] : x.first \in Nat /\ x.second \in Nat /\ x.age \in Nat
    BY <1>3, LimitAssumption DEF CountInv, TypeOK, Admission, Ticks, Ceiling
<1>8. new \in Admission
  <2>1. count[c] \in 1..GlobalLimit /\ n \in 1..GroupLimit /\ 0 \in 0..(Window - 1)
    BY <1>1, <1>2, <1>6
  <2> QED
    BY <2>1 DEF Admit, Admission, Ticks
<1>9. \A d \in Call : /\ d # c => count'[d] = count[d] /\ key'[d] = key[d] /\ at'[d] = at[d]
                      /\ d = c => count'[d] = 0 /\ key'[d] = NoKey /\ at'[d] = "idle"
    BY <1>4 DEF CountInv, TypeOK
<1>10. \A j \in Key : recent'[j] = IF j = k THEN recent[j] \cup {new} ELSE recent[j]
    BY <1>4 DEF CountInv, TypeOK
<1>11. \A d \in Call : count'[d] # 0 => d # c /\ count[d] # 0 /\ key[d] \in Key
    BY <1>9 DEF CountInv, TypeOK, Underway
<1> HIDE DEF n, k, new
<1>12. TypeOK'
  <2>1. count' \in [Call -> 0..GlobalLimit]
    BY <1>1, <1>4 DEF CountInv, TypeOK
  <2>2. /\ at' \in [Call -> {"idle", "global", "group"}] /\ key' \in [Call -> Key \cup {NoKey}]
        /\ \A d \in Call : at'[d] = "idle" <=> key'[d] = NoKey
    BY <1>4, <1>9 DEF CountInv, TypeOK
  <2>3. recent' \in [Key -> SUBSET Admission]
    BY <1>4, <1>8 DEF CountInv, TypeOK
  <2> QED
    BY <1>3, <2>1, <2>2, <2>3 DEF TypeOK
<1>13. Remembered'
  <2> SUFFICES ASSUME NEW j \in Key, NEW x \in recent'[j]
               PROVE  /\ x.first < x.second /\ x.second <= hits'[j]
                      /\ ttl'[j] + x.age >= Window
    BY DEF Remembered
  <2>1. CASE x \in recent[j]
    BY <2>1, <1>1, <1>3, <1>7 DEF CountInv, Remembered
  <2>2. CASE j = k /\ x = new
    BY <2>2, <1>1, <1>2, <1>3, <1>5, <1>6, <1>7
  <2> QED
    BY <2>1, <2>2, <1>10
<1>14. Underway'
  <2> SUFFICES ASSUME NEW d \in Call, count'[d] # 0
               PROVE  at'[d] = "group" /\ count'[d] <= hits'[key'[d]]
    BY DEF Underway
  <2>1. at[d] = "group" /\ count[d] <= hits[key[d]] /\ key[d] \in Key /\ d # c
    BY <1>11 DEF CountInv, Underway
  <2> QED
    BY <2>1, <1>3, <1>7, <1>9
<1>15. \A x \in recent[k] : new.first # x.first /\ new.first # x.second
                            /\ new.second # x.first /\ new.second # x.second
  <2> TAKE x \in recent[k]
  <2>1. count[c] # x.first /\ count[c] # x.second
    BY DEF CountInv, Distinct, k
  <2>2. x.first < x.second /\ x.second <= hits[k] /\ x.first \in Nat /\ x.second \in Nat
    BY <1>1, <1>7 DEF CountInv, Remembered
  <2> QED
    BY <2>1, <2>2, <1>1, <1>2, <1>5, <1>7
<1>16. Distinct'
  <2>1. ASSUME NEW j \in Key, NEW x \in recent'[j], NEW y \in recent'[j], x # y
        PROVE  x.first # y.first /\ x.first # y.second /\ x.second # y.second
    <3>1. CASE x \in recent[j] /\ y \in recent[j]
      BY <2>1, <3>1 DEF CountInv, Distinct
    <3>2. CASE j = k /\ x = new /\ y \in recent[k]
      BY <3>2, <1>15
    <3>3. CASE j = k /\ y = new /\ x \in recent[k]
      BY <3>3, <1>15
    <3>4. /\ x \in recent[j] \/ (j = k /\ x = new)
          /\ y \in recent[j] \/ (j = k /\ y = new)
      BY <1>10
    <3> QED
      BY <2>1, <3>1, <3>2, <3>3, <3>4
  <2>2. ASSUME NEW d \in Call, count'[d] # 0, NEW x \in recent'[key'[d]]
        PROVE  count'[d] # x.first /\ count'[d] # x.second
    <3>1. d # c /\ count[d] # 0 /\ key[d] \in Key /\ count'[d] = count[d] /\ key'[d] = key[d]
      BY <2>2, <1>9, <1>11
    <3>2. CASE x \in recent[key[d]]
      BY <3>1, <3>2 DEF CountInv, Distinct
    <3>3. CASE key[d] = k /\ x = new
      <4>1. count[d] # count[c]
        BY <3>1, <3>3 DEF CountInv, Distinct, k
      <4>2. count[d] <= hits[k]
        BY <3>1, <3>3 DEF CountInv, Underway
      <4> QED
        BY <4>1, <4>2, <3>1, <3>3, <1>1, <1>2, <1>5, <1>7
    <3> QED
      BY <2>2, <3>1, <3>2, <3>3, <1>10
  <2>3. ASSUME NEW d \in Call, NEW e \in Call, d # e, count'[d] # 0, key'[d] = key'[e]
        PROVE  count'[d] # count'[e]
    <3>1. d # c /\ count[d] # 0 /\ count'[d] = count[d] /\ key'[d] = key[d]
      BY <2>3, <1>9, <1>11
    <3>2. CASE e = c
      BY <2>3, <3>1, <3>2, <1>9
    <3>3. CASE e # c
      <4>1. count'[e] = count[e] /\ key[d] = key[e]
        BY <2>3, <3>1, <3>3, <1>9
      <4>2. count[d] # count[e]
        BY <2>3, <3>1, <4>1 DEF CountInv, Distinct
      <4> QED
        BY <3>1, <4>1, <4>2
    <3> QED
      BY <3>2, <3>3
  <2> QED
    BY <2>1, <2>2, <2>3 DEF Distinct
<1> QED
    BY <1>12, <1>13, <1>14, <1>16 DEF CountInv

\* A call that the global limiter did not count leaves no entry.
LEMMA GroupAllowsKeeps ==
    ASSUME CountInv, NEW c \in Call, at[c] = "group", GroupAllows(c)
    PROVE  CountInv'
<1>1. CASE count[c] = 0
  <2>1. UNCHANGED recent /\ Leave(c) /\ Count(key[c])
    BY <1>1 DEF GroupAllows
  <2> QED
    BY <2>1, LeaveKeeps
<1>2. CASE count[c] # 0
    BY <1>2, AdmitKeeps
<1> QED
    BY <1>1, <1>2

-----------------------------------------------------------------------------
\* A key expires only when everything it counted is more than a minute old.
LEMMA TickKeeps ==
    ASSUME CountInv, Tick
    PROVE  CountInv'
<1>1. /\ hits' = [k \in Key |-> IF Expires(k) THEN 0 ELSE hits[k]]
      /\ ttl'  = [k \in Key |-> IF Expires(k) THEN 0 ELSE ttl[k] - 1]
      /\ \A c \in Call : at[c] = "group" => ~Expires(key[c])
      /\ UNCHANGED <<at, key, count>>
    BY DEF Tick
<1>2. /\ \A k \in Key : hits[k] \in 0..Ceiling /\ ttl[k] \in 0..Window
      /\ \A k \in Key : hits[k] = 0 <=> ttl[k] = 0
      /\ Window \in Nat \ {0} /\ Ceiling \in Nat
      /\ \A k \in Key : \A x \in recent[k] : x \in Admission
    BY LimitAssumption DEF CountInv, TypeOK, Ceiling
<1>3. \A x \in Admission : /\ x.first \in Nat /\ x.second \in Nat /\ x.age \in Ticks
                           /\ x.first \in 1..GlobalLimit /\ x.second \in 1..GroupLimit
    BY LimitAssumption DEF Admission
<1>4. \A k \in Key : \A x \in recent'[k] : \E y \in recent[k] :
          y.age + 1 < Window /\ x = Aged(y)
    BY DEF Tick
<1>5. \A y : (Aged(y)).first = y.first /\ (Aged(y)).second = y.second
             /\ (Aged(y)).age = y.age + 1
    BY DEF Aged
<1>6. TypeOK'
  <2>1. hits' \in [Key -> 0..Ceiling] /\ ttl' \in [Key -> 0..Window]
        /\ \A k \in Key : hits'[k] = 0 <=> ttl'[k] = 0
    BY <1>1, <1>2 DEF Expires
  <2>2. ASSUME NEW k \in Key, NEW x \in recent'[k]
        PROVE  x \in Admission
    <3>1. PICK y \in recent[k] : y.age + 1 < Window /\ x = Aged(y)
      BY <1>4
    <3>2. y \in Admission /\ y.age + 1 \in 0..(Window - 1)
      BY <3>1, <1>2, <1>3 DEF Ticks
    <3> QED
      BY <3>1, <3>2, <1>3 DEF Admission, Aged, Ticks
  <2>3. recent' \in [Key -> SUBSET Admission]
    <3>1. recent' = [k \in Key |-> recent'[k]]
      BY DEF Tick
    <3> QED
      BY <3>1, <2>2
  <2> QED
    BY <1>1, <2>1, <2>3 DEF CountInv, TypeOK
<1>7. Remembered'
  <2> SUFFICES ASSUME NEW k \in Key, NEW x \in recent'[k]
               PROVE  /\ x.first < x.second /\ x.second <= hits'[k]
                      /\ ttl'[k] + x.age >= Window
    BY DEF Remembered
  <2>1. PICK y \in recent[k] : y.age + 1 < Window /\ x = Aged(y)
    BY <1>4
  <2>2. /\ y.first < y.second /\ y.second <= hits[k] /\ ttl[k] + y.age >= Window
        /\ y.age \in Nat
    BY <1>2, <1>3 DEF CountInv, Remembered, Ticks
  <2>3. ~Expires(k)
    BY <2>1, <2>2, <1>2 DEF Expires
  <2>4. hits'[k] = hits[k] /\ ttl'[k] = ttl[k] - 1
    BY <2>3, <1>1
  <2> QED
    BY <2>1, <2>2, <2>4, <1>2, <1>5
<1>8. Underway'
  <2> SUFFICES ASSUME NEW c \in Call, count[c] # 0
               PROVE  at[c] = "group" /\ count[c] <= hits'[key[c]]
    BY <1>1 DEF Underway
  <2>1. at[c] = "group" /\ count[c] <= hits[key[c]] /\ key[c] \in Key
    BY DEF CountInv, Underway, TypeOK
  <2> QED
    BY <2>1, <1>1
<1>9. Distinct'
  <2>1. ASSUME NEW k \in Key, NEW x \in recent'[k], NEW y \in recent'[k], x # y
        PROVE  x.first # y.first /\ x.first # y.second /\ x.second # y.second
    <3>1. PICK v \in recent[k] : x = Aged(v)
      BY <1>4
    <3>2. PICK w \in recent[k] : y = Aged(w)
      BY <1>4
    <3>3. v # w
      BY <2>1, <3>1, <3>2
    <3> QED
      BY <3>1, <3>2, <3>3, <1>5 DEF CountInv, Distinct
  <2>2. ASSUME NEW c \in Call, count[c] # 0, NEW x \in recent'[key[c]]
        PROVE  count[c] # x.first /\ count[c] # x.second
    <3>1. key[c] \in Key
      BY <2>2 DEF CountInv, Underway, TypeOK
    <3>2. PICK y \in recent[key[c]] : x = Aged(y)
      BY <3>1, <1>4
    <3> QED
      BY <2>2, <3>2, <1>5 DEF CountInv, Distinct
  <2> QED
    BY <2>1, <2>2, <1>1 DEF CountInv, Distinct
<1> QED
    BY <1>6, <1>7, <1>8, <1>9 DEF CountInv

-----------------------------------------------------------------------------
LEMMA InitCounts == Init => CountInv
<1> SUFFICES ASSUME Init PROVE CountInv
    OBVIOUS
<1>1. TypeOK
    BY LimitAssumption DEF Init, TypeOK, Ceiling
<1>2. Remembered /\ Underway /\ Distinct
    BY DEF Init, Remembered, Underway, Distinct
<1> QED
    BY <1>1, <1>2 DEF CountInv

LEMMA StepCounts == CountInv /\ [Next]_vars => CountInv'
<1> SUFFICES ASSUME CountInv, [Next]_vars PROVE CountInv'
    OBVIOUS
<1>1. ASSUME NEW c \in Call, Arrive(c) PROVE CountInv'
    BY <1>1, ArriveKeeps
<1>2. ASSUME NEW c \in Call, GlobalLimiter(c) PROVE CountInv'
  <2>1. at[c] = "global" /\ at[c] # "idle"
    BY <1>2 DEF GlobalLimiter
  <2>2. CASE GlobalAllows(c)
    BY <2>1, <2>2, GlobalAllowsKeeps
  <2>3. CASE Refuse(c, GlobalLimit)
    BY <2>1, <2>3, LeaveKeeps DEF Refuse
  <2>4. CASE GlobalFails(c)
    <3>1. Fails(c) /\ (Count(key[c]) \/ UNCHANGED <<hits, ttl>>) /\ UNCHANGED recent
      BY <2>4 DEF GlobalFails, Fails
    <3>2. CASE at' = [at EXCEPT ![c] = "group"] /\ UNCHANGED <<key, count>>
      BY <2>1, <3>1, <3>2, GlobalFailsKeeps
    <3>3. CASE Leave(c)
      BY <2>1, <3>1, <3>3, LeaveKeeps
    <3> QED
      BY <2>4, <3>2, <3>3 DEF GlobalFails
  <2>5. CASE Ungrouped(c)
    BY <2>1, <2>5, LeaveKeeps DEF Ungrouped
  <2> QED
    BY <1>2, <2>2, <2>3, <2>4, <2>5 DEF GlobalLimiter
<1>3. ASSUME NEW c \in Call, GroupLimiter(c) PROVE CountInv'
  <2>1. at[c] = "group" /\ at[c] # "idle"
    BY <1>3 DEF GroupLimiter
  <2>2. CASE GroupAllows(c)
    BY <2>1, <2>2, GroupAllowsKeeps
  <2>3. CASE Refuse(c, GroupLimit)
    BY <2>1, <2>3, LeaveKeeps DEF Refuse
  <2>4. CASE GroupFails(c)
    BY <2>1, <2>4, LeaveKeeps DEF GroupFails, Fails
  <2> QED
    BY <1>3, <2>2, <2>3, <2>4 DEF GroupLimiter
<1>4. CASE Tick
    BY <1>4, TickKeeps
<1>5. CASE UNCHANGED vars
    BY <1>5 DEF vars, CountInv, TypeOK, Remembered, Underway, Distinct
<1> QED
    BY <1>1, <1>2, <1>3, <1>4, <1>5 DEF Next

\* The counters, their expiry and what calls carry, for every limit and window: no
\* counter outlives its expiry (TypeOK).
THEOREM LimiterTypes == Spec => []TypeOK
<1>1. CountInv => TypeOK
    BY DEF CountInv
<1> QED
    BY <1>1, InitCounts, StepCounts, PTL DEF Spec

-----------------------------------------------------------------------------
\* Two different counts of at most GroupLimit for each: at most half as many calls.
LEMMA TwoCountsEach ==
    ASSUME CountInv, NEW k \in Key
    PROVE  2 * Admitted(k) <= GroupLimit
<1> DEFINE R == recent[k]
           Pairs == R \X (1..2)
           f == [z \in Pairs |-> IF z[2] = 1 THEN z[1].first ELSE z[1].second]
<1>1. GroupLimit \in Nat /\ GlobalLimit \in Nat
    BY LimitAssumption
<1>2. \A x \in R : /\ x.first \in 1..GroupLimit /\ x.second \in 1..GroupLimit
                   /\ x.first # x.second
  <2> TAKE x \in R
  <2>1. x \in Admission /\ x.first < x.second
    BY DEF CountInv, TypeOK, Remembered
  <2>2. x.first \in 1..GlobalLimit /\ x.second \in 1..GroupLimit
    BY <2>1 DEF Admission
  <2> QED
    BY <2>1, <2>2, <1>1
<1>3. f \in Injection(Pairs, 1..GroupLimit)
  <2>1. f \in [Pairs -> 1..GroupLimit]
    BY <1>2
  <2>2. ASSUME NEW y \in Pairs, NEW z \in Pairs, f[y] = f[z]
        PROVE  y = z
    <3>1. PICK a \in R, i \in 1..2 : y = <<a, i>>
      OBVIOUS
    <3>2. PICK b \in R, j \in 1..2 : z = <<b, j>>
      OBVIOUS
    <3>3. f[y] = (IF i = 1 THEN a.first ELSE a.second)
          /\ f[z] = (IF j = 1 THEN b.first ELSE b.second)
      BY <3>1, <3>2
    <3>4. a = b
      BY <2>2, <3>3 DEF CountInv, Distinct
    <3>5. i = j
      BY <2>2, <3>3, <3>4, <1>2
    <3> QED
      BY <3>1, <3>2, <3>4, <3>5
  <2> QED
    BY <2>1, <2>2 DEF Injection, IsInjective
<1>4. IsFiniteSet(1..GroupLimit) /\ Cardinality(1..GroupLimit) = GroupLimit
    BY <1>1, FS_Interval
<1>5. IsFiniteSet(Pairs) /\ Cardinality(Pairs) <= GroupLimit
    BY <1>3, <1>4, FS_Injection
<1>6. IsFiniteSet(R)
  <2> DEFINE g == [x \in R |-> <<x, 1>>]
  <2>1. g \in Injection(R, Pairs)
    BY DEF Injection, IsInjective
  <2> QED
    BY <2>1, <1>5, FS_Injection
<1>7. IsFiniteSet(1..2) /\ Cardinality(1..2) = 2
  <2>1. ASSUME NEW n \in Nat PROVE IsFiniteSet(1..n) /\ Cardinality(1..n) = n
    BY FS_Interval
  <2> QED
    BY <2>1
<1>8. Cardinality(Pairs) = Cardinality(R) * 2 /\ Cardinality(R) \in Nat
    BY <1>6, <1>7, FS_Product, FS_CardinalityType
<1> QED
    BY <1>5, <1>8 DEF Admitted

\* However calls of any number of clients interleave with the minutes of their keys
\* and with a Redis that fails before or after it counted, and whatever other methods
\* of a route add to its count, of the calls to one route that both limiters counted
\* and allowed a client has at most half of the group's limit in any minute: for every
\* limit and window, and every number of clients and routes (the keys of router.go:95).
THEOREM RouteHalfIsAdmitted == Spec => []RouteAdmitsHalf
<1>1. CountInv => RouteAdmitsHalf
    BY TwoCountsEach DEF RouteAdmitsHalf
<1> QED
    BY <1>1, InitCounts, StepCounts, PTL DEF Spec
=============================================================================

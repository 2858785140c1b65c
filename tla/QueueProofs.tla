---------------------------- MODULE QueueProofs -----------------------------
(***************************************************************************)
(* The queue by itself, for every set of ids and workers: where an id can  *)
(* be, who can have it, and that it does what AtLeastOnce promises as long *)
(* as nobody dies between BRPOP and the ZADD after it.                     *)
(***************************************************************************)
EXTENDS QueueProtocol, RedisQueueProofs, FiniteSetTheorems

-----------------------------------------------------------------------------
(* The list.                                                               *)

In(q, j) == \E i \in DOMAIN q : q[i] = j

NoRepeats(q) == \A i, k \in DOMAIN q : q[i] = q[k] => i = k

LEMMA AppendedIsLast ==
    ASSUME NEW q \in Seq(Job), NEW e \in Job, NoRepeats(q), ~In(q, e)
    PROVE  /\ NoRepeats(Append(q, e))
           /\ \A j : In(Append(q, e), j) <=> In(q, j) \/ j = e
<1>1. /\ Len(q) \in Nat /\ DOMAIN q = 1..Len(q) /\ DOMAIN Append(q, e) = 1..(Len(q) + 1)
      /\ \A i \in 1..Len(q) : Append(q, e)[i] = q[i]
      /\ Append(q, e)[Len(q) + 1] = e
  OBVIOUS
<1>2. NoRepeats(Append(q, e))
  BY <1>1 DEF NoRepeats, In
<1>3. ASSUME NEW j PROVE In(Append(q, e), j) <=> In(q, j) \/ j = e
  BY <1>1 DEF In
<1>4. QED
  BY <1>2, <1>3

LEMMA HeadIsTaken ==
    ASSUME NEW q \in Seq(Job), q # <<>>, NoRepeats(q)
    PROVE  /\ Head(q) \in Job /\ In(q, Head(q)) /\ NoRepeats(Tail(q))
           /\ \A j : In(Tail(q), j) <=> In(q, j) /\ j # Head(q)
<1>1. /\ Len(q) \in Nat /\ Len(q) >= 1 /\ DOMAIN q = 1..Len(q) /\ DOMAIN Tail(q) = 1..(Len(q) - 1)
      /\ \A i \in 1..(Len(q) - 1) : Tail(q)[i] = q[i + 1]
      /\ Head(q) = q[1]
  OBVIOUS
<1>2. Head(q) \in Job /\ In(q, Head(q))
  BY <1>1 DEF In
<1>3. NoRepeats(Tail(q))
  BY <1>1 DEF NoRepeats
<1>4. ASSUME NEW j PROVE In(Tail(q), j) <=> In(q, j) /\ j # Head(q)
  <2>1. ASSUME In(Tail(q), j) PROVE In(q, j) /\ j # Head(q)
    BY <1>1, <2>1 DEF In, NoRepeats
  <2>2. ASSUME In(q, j), j # Head(q) PROVE In(Tail(q), j)
    <3>1. PICK i \in 1..Len(q) : q[i] = j /\ i # 1
      BY <1>1, <2>2 DEF In
    <3>2. i - 1 \in 1..(Len(q) - 1) /\ Tail(q)[i - 1] = j
      BY <1>1, <3>1
    <3>3. QED
      BY <1>1, <3>2 DEF In
  <2>3. QED
    BY <2>1, <2>2
<1>5. QED
  BY <1>2, <1>3, <1>4
-----------------------------------------------------------------------------
(* The invariant.  An id is in at most one place; one that was not put is  *)
(* nowhere; a lease nobody saw run out still stands, unless the id was     *)
(* settled in the meantime.                                                *)

Moving(w, j) == dq[w] = "move" /\ held[w] = j
Has(w)       == dq[w] \in {"fetch", "have"}

Nowhere(j) ==
    /\ ~In(queued, j) /\ processing[j] = "none"
    /\ \A w \in Worker : ~Moving(w, j)

OnePlace(j) ==
    /\ processing[j] # "none" => ~In(queued, j)
    /\ \A w \in Worker : Moving(w, j) => ~In(queued, j) /\ processing[j] = "none"
    /\ \A v, w \in Worker : Moving(v, j) /\ Moving(w, j) => v = w

Placed == NoRepeats(queued) /\ \A j \in Job : OnePlace(j)

OnlyPut ==
    \A j \in Job \ put : Nowhere(j) /\ \A w \in Worker : ~Holds(w, j)

DeadlineSet == \A w \in Worker : dq[w] \in {"pop", "brpop", "move"} => deadline[w] # "none"

Leased ==
    /\ \A w \in lapsed : Has(w)
    /\ \A w \in Worker : Has(w) /\ w \notin lapsed =>
          processing[held[w]] = "live" \/ Nowhere(held[w])

QueueInv == TypeOK /\ Placed /\ OnlyPut /\ DeadlineSet /\ Leased /\ ExclusiveLease

-----------------------------------------------------------------------------
(* Who has what.                                                           *)

\* Nobody but u (a worker, or nobody at all) changes hands.
OnlyHandOf(u) == \A v \in Worker \ {u} : dq'[v] = dq[v] /\ held'[v] = held[v]

\* What u has now it had, or took from the list; a lease comes with it.
Takes(u) ==
    u \in Worker =>
        /\ dq'[u] \in {"move", "fetch", "have"} => Holds(u, held'[u]) \/ In(queued, held'[u])
        /\ dq'[u] = "move" => ~Has(u)
        /\ Has(u)' => \/ Has(u) /\ held'[u] = held[u]
                      \/ processing'[held'[u]] \in {"live", "past"}

\* A lease ends by running out, or for good.
LeasesEnd ==
    \A j \in put : /\ processing[j] = "live" => processing'[j] # "none" \/ Nowhere(j)'
                   /\ Nowhere(j) => Nowhere(j)'

LEMMA HandsKeep ==
    ASSUME QueueInv, TypeOK', TrackLapses, NEW u, OnlyHandOf(u), Takes(u), LeasesEnd
    PROVE  Leased' /\ ExclusiveLease'
<1> USE DEF QueueInv
<1>1. \A w \in Worker : Has(w)' => held'[w] \in Job /\ processing'[held'[w]] \in {"none", "live", "past"}
  BY DEF TypeOK, QueueTypeOK, Has
<1>2. lapsed' = {w \in Worker : Has(w)' /\ (w \in lapsed \/ processing'[held'[w]] = "past")}
  BY DEF TrackLapses, Has
<1>3. \A w \in Worker, j \in Job : Holds(w, j) => j \in put
  BY DEF OnlyPut
<1>4. ASSUME NEW w \in Worker, Has(w)', w \notin lapsed'
      PROVE  processing'[held'[w]] = "live" \/ Nowhere(held[w])'
  <2>1. CASE processing'[held'[w]] \in {"live", "past"}
    BY <1>2, <1>4, <2>1
  <2>2. CASE Has(w) /\ held'[w] = held[w]
    <3>1. held[w] \in put
      BY <1>1, <1>3, <1>4, <2>2 DEF Has, Holds
    <3>2. processing[held[w]] = "live" \/ Nowhere(held[w])
      BY <1>2, <1>4, <2>2 DEF Leased
    <3>3. PICK j : j = held[w] /\ j = held'[w]
      BY <2>2
    <3>4. processing'[j] # "none" \/ Nowhere(j)'
      BY <3>1, <3>2, <3>3 DEF LeasesEnd
    <3>5. QED
      BY <1>1, <1>2, <1>4, <3>3, <3>4
  <2>3. QED
    BY <1>4, <2>1, <2>2 DEF OnlyHandOf, Takes, Has
<1>5. Leased'
  BY <1>2, <1>4 DEF Leased
<1>6. ASSUME NEW v \in Worker, NEW w \in Worker, NEW j \in Job, Holds(v, j)', Holds(w, j)', v # w, v # u
      PROVE  v \in lapsed' \/ w \in lapsed'
  <2>1. Holds(v, j) /\ dq'[v] = dq[v]
    BY <1>6 DEF OnlyHandOf, Holds
  <2>2. \A x \in lapsed : dq'[x] = dq[x] => x \in lapsed'
    <3>1. \A x \in lapsed : x \in Worker /\ Has(x)
      BY DEF TypeOK, Leased
    <3>2. QED
      BY <1>2, <3>1 DEF Has
  <2>3. CASE Holds(w, j)
    <3>1. v \in lapsed \/ w \in lapsed
      BY <1>6, <2>1, <2>3 DEF ExclusiveLease
    <3>2. w \in lapsed => Has(w)'
      <4>1. w \in lapsed => Has(w)
        BY DEF Leased
      <4>2. CASE w # u
        BY <4>1, <4>2 DEF OnlyHandOf, Has
      <4>3. CASE dq'[w] = "move" /\ w = u
        BY <4>1, <4>3 DEF Takes
      <4>4. QED
        BY <1>6, <4>2, <4>3 DEF Holds, Has
    <3>3. QED
      BY <1>2, <2>1, <2>2, <3>1, <3>2
  <2>4. CASE In(queued, j)
    <3>1. dq[v] # "move"
      BY <2>1, <2>4 DEF Placed, OnePlace, Moving, Holds
    <3>2. ~Nowhere(j) /\ processing[j] # "live"
      BY <2>4 DEF Nowhere, Placed, OnePlace
    <3>3. v \in lapsed
      BY <2>1, <3>1, <3>2 DEF Leased, Has, Holds
    <3>4. QED
      BY <2>1, <2>2, <3>3
  <2>5. QED
    BY <1>6, <2>3, <2>4 DEF Takes, OnlyHandOf, Holds
<1>7. ExclusiveLease'
  BY <1>6 DEF ExclusiveLease
<1>8. QED
  BY <1>5, <1>7
-----------------------------------------------------------------------------
(* Where the ids are.  Stays(u) and the lemmas below are about steps that  *)
(* move no id between the clients and the queue.                           *)

\* No id is lost or added.
SameIds == \A j \in Job : Nowhere(j)' <=> Nowhere(j)

Keeps(u) == Placed' /\ OnlyPut' /\ OnlyHandOf(u) /\ Takes(u) /\ LeasesEnd

LEMMA LeasesEndIf ==
    ASSUME TypeOK, SameIds, \A j \in Job : processing[j] = "live" => processing'[j] # "none" \/ Nowhere(j)'
    PROVE  LeasesEnd
BY DEF LeasesEnd, SameIds, TypeOK

\* Steps that leave the list and the sorted set alone.
LEMMA QuietStep ==
    ASSUME QueueInv, NEW u, UNCHANGED <<queued, processing, put>>, OnlyHandOf(u),
           u \in Worker => /\ dq[u] # "move" /\ dq'[u] # "move"
                           /\ Has(u)' => Has(u) /\ held'[u] = held[u]
    PROVE  Keeps(u) /\ SameIds
<1> USE DEF QueueInv
<1>1. \A w \in Worker, j \in Job : /\ Moving(w, j)' <=> Moving(w, j)
                                   /\ Holds(w, j)' => Holds(w, j)
  BY DEF OnlyHandOf, Moving, Holds, Has
<1>2. SameIds
  BY <1>1 DEF SameIds, Nowhere
<1>3. Placed'
  BY <1>1 DEF Placed, OnePlace
<1>4. OnlyPut'
  BY <1>1, <1>2 DEF OnlyPut, SameIds
<1>5. LeasesEnd
  BY <1>2, LeasesEndIf
<1>6. Takes(u)
  BY DEF Takes, Has, Holds
<1>7. QED
  BY <1>2, <1>3, <1>4, <1>5, <1>6 DEF Keeps

\* A lease runs out.
LEMMA LapseStep ==
    ASSUME QueueInv, NEW i \in Job, LeaseLapses(i), UNCHANGED put
    PROVE  Keeps(Housekeeper) /\ SameIds
<1> USE HousekeeperAssumption DEF QueueInv, dequeueVars
<1>1. /\ processing[i] = "live" /\ processing' = [processing EXCEPT ![i] = "past"]
      /\ UNCHANGED <<queued, dequeueVars>>
  BY DEF LeaseLapses
<1>2. \A j \in Job : processing'[j] = "none" <=> processing[j] = "none"
  BY <1>1 DEF TypeOK, QueueTypeOK
<1>3. SameIds
  BY <1>1, <1>2 DEF SameIds, Nowhere, Moving
<1>4. Placed'
  BY <1>1, <1>2 DEF Placed, OnePlace, Moving
<1>5. OnlyPut'
  BY <1>1, <1>3 DEF OnlyPut, SameIds, Holds
<1>6. LeasesEnd
  BY <1>2, <1>3, LeasesEndIf
<1>7. QED
  BY <1>1, <1>3, <1>4, <1>5, <1>6 DEF Keeps, OnlyHandOf, Takes

\* A sweep moves an id from the sorted set to the list.
LEMMA RequeueStep ==
    ASSUME QueueInv, NEW i \in Job, RequeueIfExpired(i), UNCHANGED <<dq, held, put>>
    PROVE  Keeps(Housekeeper) /\ SameIds
<1> USE HousekeeperAssumption DEF QueueInv
<1>1. CASE processing[i] # "past"
  <2>1. UNCHANGED <<queued, processing>>
    BY <1>1 DEF RequeueIfExpired
  <2>2. QED
    BY <2>1, QuietStep DEF OnlyHandOf
<1>2. CASE processing[i] = "past"
  <2>1. processing' = [processing EXCEPT ![i] = "none"] /\ queued' = Append(queued, i)
    BY <1>2 DEF RequeueIfExpired
  <2>2. queued \in Seq(Job) /\ NoRepeats(queued) /\ ~In(queued, i)
    BY <1>2 DEF TypeOK, QueueTypeOK, Placed, OnePlace
  <2>3. NoRepeats(queued)' /\ \A j : In(queued, j)' <=> In(queued, j) \/ j = i
    BY <2>1, <2>2, AppendedIsLast
  <2>4. processing'[i] = "none" /\ \A j \in Job \ {i} : processing'[j] = processing[j]
    BY <2>1 DEF TypeOK, QueueTypeOK
  <2>5. \A w \in Worker, j \in Job : Moving(w, j)' <=> Moving(w, j)
    BY DEF Moving
  <2>6. SameIds
    BY <1>2, <2>3, <2>4, <2>5 DEF SameIds, Nowhere
  <2>7. Placed'
    BY <1>2, <2>3, <2>4, <2>5 DEF Placed, OnePlace
  <2>8. OnlyPut'
    BY <2>6 DEF OnlyPut, SameIds, Holds
  <2>9. LeasesEnd
    BY <1>2, <2>4, <2>6, LeasesEndIf DEF Nowhere
  <2>10. QED
    BY <2>6, <2>7, <2>8, <2>9 DEF Keeps, OnlyHandOf, Takes
<1>3. QED
  BY <1>1, <1>2

\* The pop script moves the first id to the sorted set, BRPOP to the worker's hands.
LEMMA PopStep ==
    ASSUME QueueInv, NEW w \in Worker, queued # <<>>, UNCHANGED put,
           queued' = Tail(queued), held' = [held EXCEPT ![w] = Head(queued)],
           \/ /\ dq[w] = "pop" /\ dq' = [dq EXCEPT ![w] = "fetch"]
              /\ processing' = [processing EXCEPT ![Head(queued)] = deadline[w]]
           \/ /\ dq[w] = "brpop" /\ dq' = [dq EXCEPT ![w] = "move"]
              /\ processing' = processing
    PROVE  Keeps(w) /\ SameIds
<1> USE DEF QueueInv
<1>0. PICK i : i = Head(queued)
  OBVIOUS
<1>1. queued \in Seq(Job) /\ NoRepeats(queued)
  BY DEF TypeOK, QueueTypeOK, Placed
<1>2. /\ i \in Job /\ In(queued, i) /\ NoRepeats(queued)'
      /\ \A j : In(queued, j)' <=> In(queued, j) /\ j # i
  BY <1>0, <1>1, HeadIsTaken
<1>3. processing[i] = "none" /\ \A v \in Worker : ~Moving(v, i)
  BY <1>2 DEF Placed, OnePlace
<1>4. i \in put
  BY <1>2 DEF OnlyPut, Nowhere
<1>5. /\ \A v \in Worker \ {w} : dq'[v] = dq[v] /\ held'[v] = held[v]
      /\ held'[w] = i /\ dq'[w] \in {"fetch", "move"}
      /\ dq'[w] = "fetch" => processing'[i] = deadline[w] /\ deadline[w] \in {"live", "past"}
      /\ dq'[w] = "move" => processing'[i] = "none"
      /\ \A j \in Job \ {i} : processing'[j] = processing[j]
      /\ dq[w] \in {"pop", "brpop"}
  BY <1>0, <1>2, <1>3 DEF TypeOK, QueueTypeOK, DeadlineSet
<1>6. \A j \in Job \ {i}, v \in Worker : Moving(v, j)' <=> Moving(v, j)
  BY <1>5 DEF Moving
<1>7. \A v \in Worker : Moving(v, i)' <=> v = w /\ dq'[w] = "move"
  BY <1>3, <1>5 DEF Moving
<1>8. SameIds
  <2>1. ~Nowhere(i) /\ ~Nowhere(i)'
    BY <1>2, <1>5, <1>7 DEF Nowhere
  <2>2. \A j \in Job \ {i} : Nowhere(j)' <=> Nowhere(j)
    BY <1>2, <1>5, <1>6 DEF Nowhere
  <2>3. QED
    BY <2>1, <2>2 DEF SameIds
<1>9. Placed'
  <2>1. OnePlace(i)'
    BY <1>2, <1>5, <1>7 DEF OnePlace
  <2>2. \A j \in Job \ {i} : OnePlace(j)'
    BY <1>2, <1>5, <1>6 DEF Placed, OnePlace
  <2>3. QED
    BY <1>2, <2>1, <2>2 DEF Placed
<1>10. OnlyPut'
  BY <1>4, <1>5, <1>8 DEF OnlyPut, SameIds, Holds
<1>11. LeasesEnd
  BY <1>3, <1>5, <1>8, LeasesEndIf
<1>12. OnlyHandOf(w) /\ Takes(w)
  BY <1>2, <1>5 DEF OnlyHandOf, Takes, Has
<1>13. QED
  BY <1>8, <1>9, <1>10, <1>11, <1>12 DEF Keeps

\* The ZADD after BRPOP puts it down.
LEMMA MoveStep ==
    ASSUME QueueInv, NEW w \in Worker, DequeueMove(w), UNCHANGED put
    PROVE  Keeps(w) /\ SameIds
<1> USE DEF QueueInv
<1>0. PICK i : i = held[w]
  OBVIOUS
<1>1. /\ dq[w] = "move" /\ dq' = [dq EXCEPT ![w] = "fetch"]
      /\ processing' = [processing EXCEPT ![i] = deadline[w]]
      /\ UNCHANGED <<queued, held>>
  BY <1>0 DEF DequeueMove, DequeueAt
<1>2. i \in Job /\ deadline[w] \in {"live", "past"} /\ Moving(w, i)
  BY <1>0, <1>1 DEF TypeOK, QueueTypeOK, DeadlineSet, Moving
<1>3. ~In(queued, i) /\ processing[i] = "none" /\ \A v \in Worker : Moving(v, i) => v = w
  BY <1>2 DEF Placed, OnePlace
<1>4. i \in put
  BY <1>2 DEF OnlyPut, Nowhere
<1>5. /\ \A v \in Worker \ {w} : dq'[v] = dq[v]
      /\ dq'[w] = "fetch" /\ processing'[i] = deadline[w]
      /\ \A j \in Job \ {i} : processing'[j] = processing[j]
  BY <1>1, <1>2 DEF TypeOK, QueueTypeOK
<1>6. \A v \in Worker : /\ ~Moving(v, i)'
                        /\ \A j \in Job \ {i} : Moving(v, j)' <=> Moving(v, j)
  BY <1>0, <1>1, <1>3, <1>5 DEF Moving
<1>7. \A v \in Worker, j \in Job : Holds(v, j)' => Holds(v, j)
  BY <1>1, <1>5 DEF Holds
<1>8. SameIds
  <2>1. ~Nowhere(i) /\ ~Nowhere(i)'
    BY <1>2, <1>5 DEF Nowhere
  <2>2. \A j \in Job \ {i} : Nowhere(j)' <=> Nowhere(j)
    BY <1>1, <1>5, <1>6 DEF Nowhere
  <2>3. QED
    BY <2>1, <2>2 DEF SameIds
<1>9. Placed'
  BY <1>1, <1>3, <1>5, <1>6 DEF Placed, OnePlace
<1>10. OnlyPut'
  BY <1>7, <1>8 DEF OnlyPut, SameIds
<1>11. LeasesEnd
  BY <1>3, <1>5, <1>8, LeasesEndIf
<1>12. OnlyHandOf(w) /\ Takes(w)
  BY <1>0, <1>1, <1>2, <1>5 DEF OnlyHandOf, Takes, Has, Holds
<1>13. QED
  BY <1>8, <1>9, <1>10, <1>11, <1>12 DEF Keeps

-----------------------------------------------------------------------------
(* Where ids come in and go out.                                           *)

LEMMA PutStep ==
    ASSUME QueueInv, NEW i \in Job, Put(i)
    PROVE  Keeps(Housekeeper) /\ \A j \in Job : Nowhere(j)' <=> Nowhere(j) /\ j # i
<1> USE HousekeeperAssumption DEF QueueInv, dequeueVars
<1>1. /\ i \notin put /\ queued' = Append(queued, i) /\ put' = put \cup {i}
      /\ UNCHANGED <<processing, dequeueVars>>
  BY DEF Put, Enqueue
<1>2. Nowhere(i) /\ \A w \in Worker : ~Holds(w, i)
  BY <1>1 DEF OnlyPut
<1>3. queued \in Seq(Job) /\ NoRepeats(queued) /\ ~In(queued, i)
  BY <1>2 DEF TypeOK, QueueTypeOK, Placed, Nowhere
<1>4. NoRepeats(queued)' /\ \A j : In(queued, j)' <=> In(queued, j) \/ j = i
  BY <1>1, <1>3, AppendedIsLast
<1>5. \A j \in Job : Nowhere(j)' <=> Nowhere(j) /\ j # i
  BY <1>1, <1>4 DEF Nowhere, Moving
<1>6. Placed'
  BY <1>1, <1>2, <1>4 DEF Placed, OnePlace, Nowhere, Moving
<1>7. OnlyPut'
  BY <1>1, <1>5 DEF OnlyPut, Holds
<1>8. LeasesEnd
  <2>1. \A j \in put : j \in Job /\ j # i /\ processing'[j] = processing[j]
    BY <1>1 DEF TypeOK
  <2>2. QED
    BY <1>5, <2>1 DEF LeasesEnd
<1>9. QED
  BY <1>1, <1>5, <1>6, <1>7, <1>8 DEF Keeps, OnlyHandOf, Takes

\* Ack and a permanent Fail take the id out of the sorted set.
LEMMA SettleStep ==
    ASSUME QueueInv, NEW w \in Worker, Settle(w)
    PROVE  /\ Keeps(w) /\ dq[w] = "have" /\ dq'[w] = "idle" /\ held[w] \in Job
           /\ \A j \in Job : j # held[w] => (Nowhere(j)' <=> Nowhere(j))
<1> USE DEF QueueInv
<1>0. PICK i : i = held[w]
  OBVIOUS
<1>1. /\ dq[w] = "have" /\ i \in Job
      /\ processing' = [processing EXCEPT ![i] = "none"]
      /\ UNCHANGED <<queued, put>>
      /\ dq' = [dq EXCEPT ![w] = "idle"] /\ held' = [held EXCEPT ![w] = NoJob]
  BY <1>0 DEF Settle, Ack, Fail, Release, TypeOK, QueueTypeOK
<1>2. /\ \A v \in Worker \ {w} : dq'[v] = dq[v] /\ held'[v] = held[v]
      /\ dq'[w] = "idle" /\ processing'[i] = "none"
      /\ \A j \in Job \ {i} : processing'[j] = processing[j]
  BY <1>1 DEF TypeOK, QueueTypeOK
<1>3. \A v \in Worker, j \in Job : /\ Moving(v, j)' <=> Moving(v, j)
                                   /\ Holds(v, j)' => Holds(v, j)
  BY <1>1, <1>2 DEF Moving, Holds
<1>4. \A j \in Job : /\ j # i => (Nowhere(j)' <=> Nowhere(j))
                     /\ Nowhere(j) => Nowhere(j)'
  BY <1>1, <1>2, <1>3 DEF Nowhere
<1>5. Placed'
  BY <1>1, <1>2, <1>3 DEF Placed, OnePlace
<1>6. OnlyPut'
  BY <1>1, <1>3, <1>4 DEF OnlyPut
<1>7. LeasesEnd
  <2>1. processing[i] = "live" => Nowhere(i)'
    BY <1>1, <1>2, <1>3 DEF Placed, OnePlace, Nowhere
  <2>2. \A j \in put : j \in Job
    BY DEF TypeOK
  <2>3. QED
    BY <1>2, <1>4, <2>1, <2>2 DEF LeasesEnd
<1>8. QED
  BY <1>0, <1>1, <1>2, <1>4, <1>5, <1>6, <1>7 DEF Keeps, OnlyHandOf, Takes, Has

\* A worker that dies lets go of what it has; between BRPOP and the ZADD the queue
\* loses the id with it.
LEMMA CrashStep ==
    ASSUME QueueInv, NEW w \in Worker, WorkerCrash(w), UNCHANGED put
    PROVE  /\ Keeps(w)
           /\ dq[w] # "move" => SameIds
<1> USE DEF QueueInv
<1>1. /\ UNCHANGED <<queued, processing>>
      /\ dq' = [dq EXCEPT ![w] = "idle"] /\ held' = [held EXCEPT ![w] = NoJob]
  BY DEF WorkerCrash, Release, redisVars
<1>2. OnlyHandOf(w) /\ dq'[w] = "idle" /\ ~Has(w)'
  BY <1>1 DEF OnlyHandOf, TypeOK, QueueTypeOK, Has
<1>3. CASE dq[w] # "move"
  BY <1>1, <1>2, <1>3, QuietStep
<1>4. CASE dq[w] = "move"
  <2>1. \A v \in Worker, j \in Job : /\ Moving(v, j)' <=> Moving(v, j) /\ v # w
                                     /\ Holds(v, j)' => Holds(v, j)
    BY <1>2 DEF OnlyHandOf, Moving, Holds
  <2>2. Placed'
    BY <1>1, <2>1 DEF Placed, OnePlace
  <2>3. \A j \in Job : Nowhere(j) => Nowhere(j)'
    BY <1>1, <2>1 DEF Nowhere
  <2>4. OnlyPut'
    BY <2>1, <2>3 DEF OnlyPut
  <2>5. LeasesEnd
    BY <1>1, <2>3 DEF LeasesEnd, TypeOK
  <2>6. QED
    BY <1>2, <1>4, <2>2, <2>4, <2>5 DEF Keeps, Takes
<1>5. QED
  BY <1>3, <1>4

-----------------------------------------------------------------------------
(* The steps of Dequeue.                                                   *)

LEMMA DequeueStepsPlace ==
    ASSUME QueueInv, NEW w \in Worker, DequeueSteps(w), UNCHANGED put
    PROVE  (Keeps(w) \/ Keeps(Housekeeper)) /\ SameIds
<1> USE DEF QueueInv, DequeueAt, redisVars
<1>1. CASE DequeueStart(w) \/ DequeueSetDeadline(w) \/ DequeueEmpty(w) \/ DequeueBRPopTimeout(w)
  <2>1. /\ UNCHANGED <<queued, processing, held>> /\ OnlyHandOf(w)
        /\ dq[w] # "move" /\ dq'[w] \in {"sweep", "pop", "brpop"}
    BY <1>1 DEF DequeueStart, DequeueSetDeadline, DequeueEmpty, DequeueBRPopTimeout, OnlyHandOf,
                TypeOK, QueueTypeOK
  <2>2. QED
    BY <2>1, QuietStep DEF Has
<1>2. CASE DequeueSweep(w)
  <2>1. PICK i \in scan[w] : RequeueIfExpired(i)
    BY <1>2 DEF DequeueSweep, Sweep
  <2>2. i \in Job
    BY <2>1 DEF TypeOK, QueueTypeOK, Sweeper
  <2>3. QED
    BY <1>2, <2>1, <2>2, RequeueStep DEF DequeueSweep
<1>3. CASE DequeuePop(w)
  BY <1>3, PopStep DEF DequeuePop
<1>4. CASE DequeueBRPop(w)
  BY <1>4, PopStep DEF DequeueBRPop
<1>5. CASE DequeueMove(w)
  BY <1>5, MoveStep
<1>6. CASE DequeueFetch(w)
  <2>1. /\ UNCHANGED <<queued, processing, held>> /\ OnlyHandOf(w)
        /\ dq[w] = "fetch" /\ dq'[w] = "have"
    BY <1>6 DEF DequeueFetch, OnlyHandOf, TypeOK, QueueTypeOK
  <2>2. QED
    BY <2>1, QuietStep DEF Has
<1>7. CASE DequeueFetchMissing(w) \/ DequeueTimeout(w)
  <2>1. /\ UNCHANGED <<queued, processing>> /\ OnlyHandOf(w)
        /\ dq[w] # "move" /\ dq'[w] = "idle"
    BY <1>7 DEF DequeueFetchMissing, DequeueTimeout, Release, OnlyHandOf, TypeOK, QueueTypeOK
  <2>2. QED
    BY <2>1, QuietStep DEF Has
<1>8. QED
  BY <1>1, <1>2, <1>3, <1>4, <1>5, <1>6, <1>7 DEF DequeueSteps

\* Dequeue sets the deadline before it waits and keeps it until the lease has it.
LEMMA DeadlineSteps ==
    ASSUME QueueInv, NEW w \in Worker, DequeueSteps(w)
    PROVE  DeadlineSet'
<1> USE DEF QueueInv, TypeOK, QueueTypeOK, DeadlineSet, DequeueAt
<1>1. CASE DequeueStart(w) \/ DequeueSetDeadline(w) \/ DequeueEmpty(w) \/ DequeueBRPopTimeout(w)
  BY <1>1 DEF DequeueStart, DequeueSetDeadline, DequeueEmpty, DequeueBRPopTimeout
<1>2. CASE DequeueSweep(w)
  BY <1>2 DEF DequeueSweep
<1>3. CASE DequeuePop(w) \/ DequeueBRPop(w) \/ DequeueMove(w) \/ DequeueFetch(w)
  BY <1>3 DEF DequeuePop, DequeueBRPop, DequeueMove, DequeueFetch
<1>4. CASE DequeueFetchMissing(w) \/ DequeueTimeout(w)
  BY <1>4 DEF DequeueFetchMissing, DequeueTimeout, Release
<1>5. QED
  BY <1>1, <1>2, <1>3, <1>4 DEF DequeueSteps
-----------------------------------------------------------------------------
(* The system.                                                             *)

LEMMA InitHolds == Init => QueueInv
<1> SUFFICES ASSUME Init PROVE QueueInv
  OBVIOUS
<1> USE DEF Init, QueueInit
<1>1. TypeOK
  <2>1. QueueTypeOK
    BY DEF QueueTypeOK
  <2>2. QED
    BY <2>1 DEF TypeOK
<1>2. /\ \A j \in Job : Nowhere(j)
      /\ \A w \in Worker : ~Has(w) /\ dq[w] = "idle"
  BY DEF Nowhere, In, Moving, Has
<1>3. Placed
  BY <1>2 DEF Placed, OnePlace, NoRepeats, Nowhere
<1>4. OnlyPut /\ DeadlineSet /\ Leased /\ ExclusiveLease
  BY <1>2 DEF OnlyPut, DeadlineSet, Leased, ExclusiveLease, Holds
<1>5. QED
  BY <1>1, <1>3, <1>4 DEF QueueInv

LEMMA TypeStep ==
    ASSUME QueueInv, Next
    PROVE  TypeOK'
<1> USE DEF QueueInv
<1>1. lapsed' \subseteq Worker
  BY DEF Next, Put, Settle, Dequeue, Housekeep, TimePasses, WaitTooLong, Crash, Unseen, TrackLapses
<1>2. ASSUME NEW j \in Job, Put(j) PROVE TypeOK'
  <2>1. Enqueue(j, 1, FALSE) /\ put' = put \cup {j} /\ UNCHANGED <<settled, calm, dequeueVars>>
    BY <1>2 DEF Put
  <2>2. RedisTypeOK' /\ DequeueTypeOK'
    BY <2>1, EnqueueType, DequeueUnchangedType, QueueTypeParts DEF TypeOK
  <2>3. QED
    BY <1>1, <2>1, <2>2 DEF TypeOK, QueueTypeOK, RedisTypeOK, DequeueTypeOK
<1>3. ASSUME NEW w \in Worker, Settle(w) PROVE TypeOK'
  <2>1. dq[w] = "have" /\ Release(w) /\ settled' = settled \cup {held[w]} /\ UNCHANGED <<put, calm>>
    BY <1>3 DEF Settle
  <2>2. held[w] \in Job
    BY <2>1 DEF TypeOK, QueueTypeOK
  <2>3. held[w] \in put
    BY <2>1, <2>2 DEF OnlyPut, Holds
  <2>4. RedisTypeOK' /\ DequeueTypeOK'
    BY <1>3, <2>1, <2>2, AckType, FailType, ReleaseType, QueueTypeParts DEF Settle, TypeOK
  <2>5. QED
    BY <1>1, <2>1, <2>3, <2>4 DEF TypeOK, QueueTypeOK, RedisTypeOK, DequeueTypeOK
<1>4. ASSUME NEW w \in Worker, Dequeue(w) \/ WaitTooLong(w) \/ Crash(w) PROVE TypeOK'
  <2>1. QueueTypeOK' /\ UNCHANGED <<put, settled, calm>>
    BY <1>4, DequeueStepsType, TimeType, WorkerCrashType
    DEF Dequeue, WaitTooLong, Crash, Unseen, TypeOK
  <2>2. QED
    BY <1>1, <2>1 DEF TypeOK
<1>5. ASSUME Housekeep \/ \E j \in Job : TimePasses(j) PROVE TypeOK'
  <2>1. QueueTypeOK' /\ UNCHANGED <<put, settled, calm>>
    BY <1>5, HousekeepType, TimeType DEF Housekeep, TimePasses, Unseen, TypeOK
  <2>2. QED
    BY <1>1, <2>1 DEF TypeOK
<1>6. QED
  BY <1>2, <1>3, <1>4, <1>5 DEF Next

LEMMA HousekeepPlace ==
    ASSUME QueueInv, HousekeepingScan \/ HousekeepingSweep, UNCHANGED put
    PROVE  Keeps(Housekeeper) /\ SameIds
<1>1. CASE HousekeepingScan
  BY <1>1, QuietStep, HousekeeperAssumption DEF HousekeepingScan, OnlyHandOf, redisVars
<1>2. CASE HousekeepingSweep
  <2>1. PICK i \in scan[Housekeeper] : RequeueIfExpired(i)
    BY <1>2 DEF HousekeepingSweep, Sweep
  <2>2. i \in Job
    BY <2>1 DEF QueueInv, TypeOK, QueueTypeOK, Sweeper
  <2>3. QED
    BY <1>2, <2>1, <2>2, RequeueStep DEF HousekeepingSweep
<1>3. QED
  BY <1>1, <1>2

LEMMA WaitPlace ==
    ASSUME QueueInv, NEW w \in Worker, DeadlineLapses(w), UNCHANGED put
    PROVE  Keeps(Housekeeper) /\ SameIds /\ DeadlineSet'
<1>1. Keeps(Housekeeper) /\ SameIds
  BY QuietStep, HousekeeperAssumption DEF DeadlineLapses, OnlyHandOf, redisVars
<1>2. DeadlineSet'
  BY DEF DeadlineLapses, QueueInv, TypeOK, QueueTypeOK, DeadlineSet
<1>3. QED
  BY <1>1, <1>2

LEMMA NextPlaces ==
    ASSUME QueueInv, Next
    PROVE  /\ TrackLapses /\ DeadlineSet'
           /\ \E u \in Worker \cup {Housekeeper} : Keeps(u)
<1> USE DEF Unseen
<1>1. ASSUME NEW j \in Job, Put(j) \/ TimePasses(j)
      PROVE  TrackLapses /\ DeadlineSet' /\ Keeps(Housekeeper)
  <2>1. TrackLapses /\ UNCHANGED <<dq, deadline>>
    BY <1>1 DEF Put, TimePasses, LeaseLapses, dequeueVars
  <2>2. DeadlineSet'
    BY <2>1 DEF DeadlineSet, QueueInv
  <2>3. QED
    BY <1>1, <2>1, <2>2, PutStep, LapseStep DEF TimePasses
<1>2. ASSUME NEW w \in Worker, Settle(w) \/ Crash(w)
      PROVE  TrackLapses /\ DeadlineSet' /\ Keeps(w)
  <2>1. TrackLapses /\ Release(w)
    BY <1>2 DEF Settle, Crash, WorkerCrash
  <2>2. DeadlineSet'
    BY <2>1 DEF Release, DeadlineSet, QueueInv, TypeOK, QueueTypeOK
  <2>3. QED
    BY <1>2, <2>1, <2>2, SettleStep, CrashStep DEF Crash
<1>3. ASSUME NEW w \in Worker, Dequeue(w)
      PROVE  TrackLapses /\ DeadlineSet' /\ (Keeps(w) \/ Keeps(Housekeeper))
  BY <1>3, DequeueStepsPlace, DeadlineSteps DEF Dequeue
<1>4. ASSUME NEW w \in Worker, WaitTooLong(w)
      PROVE  TrackLapses /\ DeadlineSet' /\ Keeps(Housekeeper)
  BY <1>4, WaitPlace DEF WaitTooLong
<1>5. ASSUME Housekeep
      PROVE  TrackLapses /\ DeadlineSet' /\ Keeps(Housekeeper)
  <2>1. UNCHANGED <<dq, deadline>>
    BY <1>5 DEF Housekeep, HousekeepingScan, HousekeepingSweep
  <2>2. QED
    BY <1>5, <2>1, HousekeepPlace DEF Housekeep, DeadlineSet, QueueInv
<1>6. QED
  BY <1>1, <1>2, <1>3, <1>4, <1>5 DEF Next

LEMMA Stutters == QueueInv /\ UNCHANGED vars => QueueInv'
BY DEF QueueInv, TypeOK, QueueTypeOK, Placed, OnePlace, NoRepeats, OnlyPut, DeadlineSet, Leased,
       ExclusiveLease, Nowhere, In, Moving, Has, Holds, vars, queueVars, redisVars, dequeueVars

LEMMA QueueInvariant == Spec => []QueueInv
<1>1. ASSUME QueueInv, Next PROVE QueueInv'
  <2>1. PICK u : Keeps(u)
    BY <1>1, NextPlaces
  <2>2. QED
    BY <1>1, <2>1, NextPlaces, TypeStep, HandsKeep DEF Keeps, QueueInv
<1>2. QED
  BY InitHolds, <1>1, Stutters, PTL DEF Spec

\* Every variable of the queue keeps its type, and only ids that were put are settled
\* (queue.go).
THEOREM QueueTypes == Spec => []TypeOK
<1>1. QueueInv => TypeOK
  BY DEF QueueInv
<1>2. QED
  BY QueueInvariant, <1>1, PTL

\* An id is in the list, in the sorted set or between BRPOP and ZADD, and only once,
\* however many workers sweep, pop and die (queue.go:199-234 and :95-150).
THEOREM OneCopyAtMost == Spec => []AtMostOneCopy
<1>1. ASSUME QueueInv, NEW j \in Job PROVE Cardinality(Places(j)) <= 1
  <2>1. ASSUME NEW x \in Places(j), NEW y \in Places(j) PROVE x = y
    BY <1>1, <2>1 DEF Places, QueueInv, Placed, OnePlace, NoRepeats, In, Moving
  <2>2. CASE Places(j) = {}
    BY <2>2, FS_EmptySet
  <2>3. CASE Places(j) # {}
    <3>1. PICK x : Places(j) = {x}
      BY <2>1, <2>3
    <3>2. QED
      BY <3>1, FS_Singleton
  <2>4. QED
    BY <2>2, <2>3
<1>2. QueueInv => AtMostOneCopy
  BY <1>1 DEF AtMostOneCopy
<1>3. QED
  BY QueueInvariant, <1>2, PTL

\* Two workers have one id only after the lease of one of them ran out (queue.go:108
\* and :138, the score of the sorted set).
THEOREM LeaseExcludes == Spec => []ExclusiveLease
<1>1. QueueInv => ExclusiveLease
  BY DEF QueueInv
<1>2. QED
  BY QueueInvariant, <1>1, PTL

-----------------------------------------------------------------------------
(* The promise.                                                            *)

Owed == {j \in Job : Places(j) # {}}
Have == [w \in Worker |-> IF dq[w] = "have" THEN held[w] ELSE NoJob]

LEMMA OwedIsSomewhere ==
    ASSUME NEW j \in Job
    PROVE  Places(j) = {} <=> Nowhere(j)
BY DEF Places, Nowhere, In, Moving

LEMMA OwedAfter == \A j \in Job : (j \in Owed <=> ~Nowhere(j)) /\ (j \in Owed' <=> ~Nowhere(j)')
<1>1. \A j \in Job : Places(j) = {} <=> Nowhere(j)
  BY OwedIsSomewhere
<1>2. (\A j \in Job : Places(j) = {} <=> Nowhere(j))'
  BY DEF Places, Nowhere, In, Moving
<1>3. QED
  BY <1>1, <1>2 DEF Owed

LEMMA SameIdsOwed == SameIds => Owed' = Owed
BY OwedAfter DEF SameIds, Owed

\* A step that moves no id, of a worker or of nobody.
LEMMA HaveStays ==
    ASSUME NEW u, \A v \in Worker \ {u} : dq'[v] = dq[v] /\ held'[v] = held[v],
           u \in Worker => dq[u] # "have" /\ dq'[u] # "have"
    PROVE  Have' = Have
BY DEF Have

\* What the steps of Dequeue do to the hands: a fetch delivers, nothing else does.
LEMMA DequeueDelivers ==
    ASSUME QueueInv, NEW w \in Worker, DequeueSteps(w)
    PROVE  \/ Have' = Have
           \/ \E j \in Job : /\ Holds(w, j) /\ Have[w] = NoJob
                             /\ Have' = [Have EXCEPT ![w] = j]
<1> USE DEF QueueInv, TypeOK, QueueTypeOK, DequeueAt
<1>1. CASE DequeueFetch(w)
  <2>1. /\ dq[w] = "fetch" /\ dq' = [dq EXCEPT ![w] = "have"] /\ held' = held /\ held[w] \in Job
    BY <1>1 DEF DequeueFetch
  <2>2. Have[w] = NoJob /\ Have' = [Have EXCEPT ![w] = held[w]] /\ Holds(w, held[w])
    BY <2>1 DEF Have, Holds
  <2>3. QED
    BY <2>1, <2>2
<1>2. CASE DequeueSweep(w)
  BY <1>2 DEF DequeueSweep, Have
<1> DEFINE Elsewhere == /\ \A v \in Worker \ {w} : dq'[v] = dq[v] /\ held'[v] = held[v]
                        /\ dq[w] # "have" /\ dq'[w] # "have"
<1>3. CASE DequeueStart(w) \/ DequeueSetDeadline(w)
  <2>1. Elsewhere
    BY <1>3 DEF DequeueStart, DequeueSetDeadline
  <2>2. QED
    BY <2>1, HaveStays
<1>4. CASE DequeueEmpty(w) \/ DequeueBRPopTimeout(w)
  <2>1. Elsewhere
    BY <1>4 DEF DequeueEmpty, DequeueBRPopTimeout
  <2>2. QED
    BY <2>1, HaveStays
<1>5. CASE DequeuePop(w) \/ DequeueBRPop(w)
  <2>1. Elsewhere
    BY <1>5 DEF DequeuePop, DequeueBRPop
  <2>2. QED
    BY <2>1, HaveStays
<1>6. CASE DequeueMove(w)
  <2>1. Elsewhere
    BY <1>6 DEF DequeueMove
  <2>2. QED
    BY <2>1, HaveStays
<1>7. CASE DequeueFetchMissing(w) \/ DequeueTimeout(w)
  <2>1. Elsewhere
    BY <1>7 DEF DequeueFetchMissing, DequeueTimeout, Release
  <2>2. QED
    BY <2>1, HaveStays
<1>8. QED
  BY <1>1, <1>2, <1>3, <1>4, <1>5, <1>6, <1>7 DEF DequeueSteps

\* Settling and dying both empty the worker's hands.
LEMMA ReleaseSettles ==
    ASSUME QueueInv, NEW w \in Worker, Release(w)
    PROVE  IF dq[w] = "have" THEN /\ Have[w] = held[w] /\ held[w] # NoJob
                                  /\ Have' = [Have EXCEPT ![w] = NoJob]
           ELSE Have' = Have
<1> USE NoJobAssumption DEF QueueInv, TypeOK, QueueTypeOK, Release
<1>1. CASE dq[w] = "have"
  BY <1>1 DEF Have
<1>2. CASE dq[w] # "have"
  BY <1>2, HaveStays
<1>3. QED
  BY <1>1, <1>2

\* Only the worker that settles an id takes it out of the queue.
LEMMA LosesNothing ==
    ASSUME "pop_crash" \notin Faults, QueueInv, NoJobLost, Next
    PROVE  NoJobLost'
<1>1. put \subseteq Job /\ put' \subseteq Job
  BY TypeStep DEF QueueInv, TypeOK
<1>2. \A j \in Job : j \in put \ settled => ~Nowhere(j)
  BY OwedIsSomewhere DEF NoJobLost
<1>3. ASSUME \A j \in Job : j \in put' \ settled' => ~Nowhere(j)'
      PROVE  NoJobLost'
  BY <1>1, <1>3, OwedAfter DEF NoJobLost, Owed
<1>4. ASSUME NEW i \in Job, Put(i) PROVE NoJobLost'
  <2>1. put' = put \cup {i} /\ settled' = settled
    BY <1>4 DEF Put
  <2>2. \A j \in Job : Nowhere(j)' => Nowhere(j) /\ j # i
    BY <1>4, PutStep
  <2>3. QED
    BY <1>2, <1>3, <2>1, <2>2
<1>5. ASSUME NEW w \in Worker, Settle(w) PROVE NoJobLost'
  <2>1. put' = put /\ settled' = settled \cup {held[w]}
    BY <1>5 DEF Settle
  <2>2. \A j \in Job : j # held[w] => (Nowhere(j)' <=> Nowhere(j))
    BY <1>5, SettleStep
  <2>3. QED
    BY <1>2, <1>3, <2>1, <2>2
<1>6. ASSUME SameIds, UNCHANGED <<put, settled>> PROVE NoJobLost'
  BY <1>2, <1>3, <1>6 DEF SameIds
<1>7. ASSUME NEW w \in Worker, Dequeue(w) \/ Crash(w) \/ WaitTooLong(w) PROVE NoJobLost'
  <2>1. Crash(w) => dq[w] # "move"
    BY DEF Crash, Unseen, WorkerCrash, CrashPoint
  <2>2. SameIds
    BY <1>7, <2>1, DequeueStepsPlace, CrashStep, WaitPlace DEF Dequeue, Crash, WaitTooLong, Unseen
  <2>3. QED
    BY <1>6, <1>7, <2>2 DEF Dequeue, Crash, WaitTooLong, Unseen
<1>8. ASSUME Housekeep \/ \E j \in Job : TimePasses(j) PROVE NoJobLost'
  <2>1. SameIds
    BY <1>8, HousekeepPlace, LapseStep DEF Housekeep, TimePasses, Unseen
  <2>2. QED
    BY <1>6, <1>8, <2>1 DEF Housekeep, TimePasses, Unseen
<1>9. QED
  BY <1>4, <1>5, <1>7, <1>8 DEF Next

LEMMA StepKeepsPromise ==
    ASSUME "pop_crash" \notin Faults, QueueInv, NoJobLost, Next
    PROVE  Contract!Next \/ UNCHANGED Contract!vars
<1>1. UNCHANGED <<Owed, Have, settled>> => UNCHANGED Contract!vars
  BY DEF Contract!vars, Owed, Have
<1>2. ASSUME NEW j \in Job, Put(j) PROVE Contract!Put(j)
  <2>1. Owed' = Owed \cup {j}
    BY <1>2, PutStep, OwedAfter DEF Owed
  <2>2. Have' = Have /\ settled' = settled
    BY <1>2 DEF Put, dequeueVars, Have
  <2>3. QED
    BY <2>1, <2>2 DEF Contract!Put, Owed, Have
<1>3. ASSUME NEW w \in Worker, Settle(w) PROVE Contract!Settle(w)
  <2>1. dq[w] = "have" /\ \A j \in Job : j # held[w] => (Nowhere(j)' <=> Nowhere(j))
    BY <1>3, SettleStep
  <2>2. Nowhere(held[w]) => held[w] \notin Owed
    BY OwedAfter DEF Owed
  <2>3. \A j \in Job : j # held[w] => (j \in Owed' <=> j \in Owed)
    BY <2>1, OwedAfter
  <2>4. held[w] \in Owed' => held[w] \in Owed
    <3>1. PICK i : i = held[w]
      OBVIOUS
    <3>2. Nowhere(i) => Nowhere(i)'
      <4>1. i \in Job /\ i \in put /\ Keeps(w)
        BY <1>3, <2>1, <3>1, SettleStep DEF QueueInv, OnlyPut, Holds
      <4>2. QED
        BY <4>1 DEF Keeps, LeasesEnd
    <3>3. i \in Job
      BY <1>3, <3>1, SettleStep
    <3>4. QED
      BY <3>1, <3>2, <3>3, OwedAfter
  <2>5. Owed' \in {Owed, Owed \ {held[w]}}
    BY <2>3, <2>4 DEF Owed
  <2>6. /\ Have[w] = held[w] /\ held[w] # NoJob /\ Have' = [Have EXCEPT ![w] = NoJob]
        /\ settled' = settled \cup {held[w]}
    BY <1>3, <2>1, ReleaseSettles DEF Settle
  <2>7. QED
    BY <2>5, <2>6 DEF Contract!Settle, Owed, Have
<1>4. ASSUME NEW w \in Worker, Dequeue(w)
      PROVE  (\E j \in Job : Contract!Deliver(w, j)) \/ UNCHANGED <<Owed, Have, settled>>
  <2>1. Owed' = Owed /\ settled' = settled
    BY <1>4, DequeueStepsPlace, SameIdsOwed DEF Dequeue, Unseen
  <2>2. \A j \in Job : Holds(w, j) => j \in Owed \cup settled
    BY DEF QueueInv, OnlyPut, NoJobLost, Owed
  <2>3. CASE Have' = Have
    BY <2>1, <2>3
  <2>4. CASE \E j \in Job : Holds(w, j) /\ Have[w] = NoJob /\ Have' = [Have EXCEPT ![w] = j]
    <3>1. PICK j \in Job : Holds(w, j) /\ Have[w] = NoJob /\ Have' = [Have EXCEPT ![w] = j]
      BY <2>4
    <3>2. Contract!Deliver(w, j)
      BY <2>1, <2>2, <3>1 DEF Contract!Deliver, Owed, Have
    <3>3. QED
      BY <3>2
  <2>5. QED
    BY <1>4, <2>3, <2>4, DequeueDelivers DEF Dequeue, Unseen
<1>5. ASSUME NEW w \in Worker, Crash(w)
      PROVE  Contract!Die(w) \/ UNCHANGED <<Owed, Have, settled>>
  <2>1. dq[w] # "move" /\ Release(w) /\ settled' = settled
    BY <1>5 DEF Crash, Unseen, WorkerCrash, CrashPoint
  <2>2. Owed' = Owed
    BY <1>5, <2>1, CrashStep, SameIdsOwed DEF Crash, Unseen
  <2>3. QED
    BY <2>1, <2>2, ReleaseSettles DEF Contract!Die, Owed, Have
<1>6. ASSUME Housekeep \/ (\E j \in Job : TimePasses(j)) \/ (\E w \in Worker : WaitTooLong(w))
      PROVE  UNCHANGED <<Owed, Have, settled>>
  <2>1. SameIds
    BY <1>6, HousekeepPlace, LapseStep, WaitPlace DEF Housekeep, TimePasses, WaitTooLong, Unseen
  <2>2. UNCHANGED <<dq, held, settled>>
    BY <1>6 DEF Housekeep, HousekeepingScan, HousekeepingSweep, TimePasses, LeaseLapses,
                WaitTooLong, DeadlineLapses, Unseen, dequeueVars
  <2>3. QED
    BY <2>1, <2>2, SameIdsOwed DEF Have
<1>7. \/ \E j \in Job : Contract!Put(j)
      \/ \E w \in Worker, j \in Job : Contract!Deliver(w, j)
      \/ \E w \in Worker : Contract!Settle(w) \/ Contract!Die(w)
      \/ UNCHANGED <<Owed, Have, settled>>
  BY <1>2, <1>3, <1>4, <1>5, <1>6, Zenon DEF Next
<1>8. QED
  BY <1>1, <1>7 DEF Contract!Next

LEMMA NothingLostNext ==
    ASSUME "pop_crash" \notin Faults
    PROVE  Spec => [](QueueInv /\ NoJobLost)
<1>1. Init => NoJobLost
  BY DEF Init, NoJobLost
<1>2. QueueInv /\ NoJobLost /\ [Next]_vars => NoJobLost'
  <2>1. ASSUME NoJobLost, UNCHANGED vars PROVE NoJobLost'
    BY <2>1 DEF vars, queueVars, redisVars, dequeueVars, NoJobLost, Places
  <2>2. QED
    BY <2>1, LosesNothing
<1>3. QED
  BY QueueInvariant, <1>1, <1>2, PTL DEF Spec

\* The window between BRPOP and ZADD is the only one in which an id is lost: where no worker
\* dies there (queue.go:116-128), an id that was put and that nobody has settled is in the
\* list, in the sorted set or in a worker's hands on the way from one to the other.
THEOREM NothingIsLost ==
    ASSUME "pop_crash" \notin Faults
    PROVE  Spec => []NoJobLost
BY NothingLostNext, PTL

\* The queue keeps the promise of AtLeastOnce, provided that no worker dies between
\* BRPOP and the ZADD that follows it (queue.go:133-142): an id that was put is owed
\* until a worker it was delivered to settles it,
\* and what is delivered is owed or was settled before.
THEOREM QueueKeepsPromise ==
    ASSUME "pop_crash" \notin Faults
    PROVE  Spec => DeliversAtLeastOnce
<1>1. Init => Contract!Init
  <2>1. ASSUME Init PROVE Owed = {} /\ settled = {} /\ Have = [w \in Worker |-> NoJob]
    BY <2>1, InitHolds, OwedIsSomewhere DEF Init, QueueInit, Owed, Have, Nowhere, In, Moving
  <2>2. QED
    BY <2>1 DEF Contract!Init, Owed, Have
<1>2. QueueInv /\ NoJobLost /\ [Next]_vars => [Contract!Next]_(Contract!vars)
  <2>1. ASSUME UNCHANGED vars PROVE UNCHANGED Contract!vars
    BY <2>1 DEF vars, queueVars, redisVars, dequeueVars, Contract!vars, Places
  <2>2. QED
    BY <2>1, StepKeepsPromise
<1>3. QED
  BY NothingLostNext, <1>1, <1>2, PTL DEF Spec, DeliversAtLeastOnce, Contract!Spec
=============================================================================

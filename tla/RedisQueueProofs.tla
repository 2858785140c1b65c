-------------------------- MODULE RedisQueueProofs --------------------------
(***************************************************************************)
(* The commands of the queue, the steps of Dequeue and of the sweeps, and  *)
(* their error paths keep the types of RedisQueue, for all sets of jobs    *)
(* and workers.                                                            *)
(***************************************************************************)
EXTENDS RedisQueue, TLAPS

-----------------------------------------------------------------------------
(* The commands.                                                           *)

RedisTypeOK ==
    /\ queued     \in Seq(Job)
    /\ processing \in [Job -> {"none", "live", "past"}]
    /\ dead       \in SUBSET Job
    /\ payload    \in [Job -> Nat]

DequeueTypeOK ==
    /\ dq         \in [Worker -> {"idle", "sweep", "pop", "brpop", "move", "fetch", "have"}]
    /\ held       \in [Worker -> Job \cup {NoJob}]
    /\ attempt    \in [Worker -> Nat]
    /\ deadline   \in [Worker -> {"none", "live", "past"}]
    /\ scan       \in [Sweeper -> SUBSET Job]
    /\ \A w \in Worker : dq[w] \in {"move", "fetch", "have"} => held[w] \in Job

LEMMA QueueTypeParts == QueueTypeOK <=> RedisTypeOK /\ DequeueTypeOK
BY DEF QueueTypeOK, RedisTypeOK, DequeueTypeOK

LEMMA AppendType ==
    ASSUME NEW S, NEW q \in Seq(S), NEW e \in S
    PROVE  Append(q, e) \in Seq(S)
OBVIOUS

LEMMA EnqueueType ==
    ASSUME RedisTypeOK, NEW j \in Job, NEW att \in Nat, NEW delayed \in BOOLEAN,
           Enqueue(j, att, delayed)
    PROVE  RedisTypeOK'
<1>1. queued' \in Seq(Job)
  <2>1. queued' = queued \/ queued' = Append(queued, j)
    BY DEF Enqueue
  <2>2. queued \in Seq(Job)
    BY DEF RedisTypeOK
  <2>3. QED
    BY ONLY <2>1, <2>2, AppendType, j \in Job
<1>2. processing' \in [Job -> {"none", "live", "past"}]
  BY DEF RedisTypeOK, Enqueue
<1>3. dead' \in SUBSET Job /\ payload' \in [Job -> Nat]
  BY DEF RedisTypeOK, Enqueue
<1>4. QED
  BY <1>1, <1>2, <1>3 DEF RedisTypeOK

LEMMA AckType ==
    ASSUME RedisTypeOK, NEW j \in Job, Ack(j)
    PROVE  RedisTypeOK'
BY DEF RedisTypeOK, Ack

LEMMA FailType ==
    ASSUME RedisTypeOK, NEW j \in Job, NEW permanent \in BOOLEAN, Fail(j, permanent)
    PROVE  RedisTypeOK'
<1>1. queued' \in Seq(Job)
  <2>1. queued' = queued \/ queued' = Append(queued, j)
    BY DEF Fail
  <2>2. queued \in Seq(Job)
    BY DEF RedisTypeOK
  <2>3. QED
    BY ONLY <2>1, <2>2, AppendType, j \in Job
<1>2. processing' \in [Job -> {"none", "live", "past"}]
  BY DEF RedisTypeOK, Fail
<1>3. dead' \in SUBSET Job /\ payload' \in [Job -> Nat]
  BY DEF RedisTypeOK, Fail
<1>4. QED
  BY <1>1, <1>2, <1>3 DEF RedisTypeOK

LEMMA RedisUnchangedType == RedisTypeOK /\ UNCHANGED redisVars => RedisTypeOK'
BY DEF RedisTypeOK, redisVars

LEMMA ReleaseType ==
    ASSUME DequeueTypeOK, NEW w \in Worker, Release(w)
    PROVE  DequeueTypeOK'
BY DEF DequeueTypeOK, Release, Sweeper

LEMMA DequeueUnchangedType == DequeueTypeOK /\ UNCHANGED dequeueVars => DequeueTypeOK'
BY DEF DequeueTypeOK, dequeueVars

LEMMA RequeueType ==
    ASSUME RedisTypeOK, NEW j \in Job, RequeueIfExpired(j), UNCHANGED <<dead, payload>>
    PROVE  RedisTypeOK'
<1>1. CASE processing[j] = "past"
  <2>1. processing' = [processing EXCEPT ![j] = "none"] /\ queued' = Append(queued, j)
    BY <1>1 DEF RequeueIfExpired
  <2>2. QED
    BY <2>1, AppendType DEF RedisTypeOK
<1>2. CASE processing[j] # "past"
  BY <1>2 DEF RedisTypeOK, RequeueIfExpired
<1>3. QED
  BY <1>1, <1>2

LEMMA SweepType ==
    ASSUME QueueTypeOK, NEW s \in Sweeper, Sweep(s), UNCHANGED <<dq, held, attempt, deadline>>
    PROVE  QueueTypeOK'
<1>1. PICK j \in scan[s] : /\ scan' = [scan EXCEPT ![s] = @ \ {j}]
                           /\ RequeueIfExpired(j)
                           /\ UNCHANGED <<dead, payload>>
  BY DEF Sweep
<1>2. j \in Job
  BY DEF QueueTypeOK
<1>3. RedisTypeOK'
  BY <1>1, <1>2, RequeueType, QueueTypeParts
<1>4. DequeueTypeOK'
  BY <1>1, QueueTypeParts DEF DequeueTypeOK
<1>5. QED
  BY <1>3, <1>4 DEF QueueTypeOK, RedisTypeOK, DequeueTypeOK

LEMMA ScanType ==
    ASSUME QueueTypeOK, NEW s \in Sweeper, Scan(s)
    PROVE  scan' \in [Sweeper -> SUBSET Job]
BY DEF QueueTypeOK, Scan, Expired

\* The head that RPOP and BRPOP take is an id, and the rest is a list of ids.
LEMMA PopType ==
    ASSUME QueueTypeOK, queued # <<>>
    PROVE  Head(queued) \in Job /\ Tail(queued) \in Seq(Job)
BY DEF QueueTypeOK

\* Every step of a Dequeue keeps the types.
LEMMA DequeueStepsType ==
    ASSUME QueueTypeOK, NEW w \in Worker, DequeueSteps(w)
    PROVE  QueueTypeOK'
<1> USE DEF QueueTypeOK, DequeueAt, redisVars
<1>0. w \in Sweeper
  BY DEF Sweeper
<1>1. CASE DequeueStart(w)
  BY <1>0, <1>1, ScanType DEF DequeueStart
<1>2. CASE DequeueSweep(w)
  BY <1>0, <1>2, SweepType DEF DequeueSweep
<1>3. CASE DequeueSetDeadline(w)
  BY <1>3 DEF DequeueSetDeadline
<1>4. CASE DequeuePop(w)
  <2>1. Head(queued) \in Job /\ Tail(queued) \in Seq(Job)
    BY <1>4, PopType DEF DequeuePop
  <2>2. QED
    BY <1>4, <2>1 DEF DequeuePop
<1>5. CASE DequeueEmpty(w)
  BY <1>5 DEF DequeueEmpty
<1>6. CASE DequeueBRPop(w)
  <2>1. Head(queued) \in Job /\ Tail(queued) \in Seq(Job)
    BY <1>6, PopType DEF DequeueBRPop
  <2>2. QED
    BY <1>6, <2>1 DEF DequeueBRPop
<1>7. CASE DequeueBRPopTimeout(w)
  BY <1>7 DEF DequeueBRPopTimeout
<1>8. CASE DequeueMove(w)
  BY <1>8 DEF DequeueMove
<1>9. CASE DequeueFetch(w)
  BY <1>9 DEF DequeueFetch
<1>10. CASE DequeueFetchMissing(w)
  BY <1>0, <1>10 DEF DequeueFetchMissing, Release
<1>11. CASE DequeueTimeout(w)
  BY <1>0, <1>11 DEF DequeueTimeout, Release
<1>12. QED
  BY <1>1, <1>2, <1>3, <1>4, <1>5, <1>6, <1>7, <1>8, <1>9, <1>10, <1>11 DEF DequeueSteps

\* So do its error paths and the steps of the environment.
LEMMA DequeueErrorType ==
    ASSUME QueueTypeOK, NEW w \in Worker, DequeueError(w)
    PROVE  QueueTypeOK'
<1>1. DequeueTypeOK'
  BY ReleaseType, QueueTypeParts DEF DequeueError
<1>2. CASE UNCHANGED redisVars
  BY <1>1, <1>2, RedisUnchangedType, QueueTypeParts
  DEF QueueTypeOK, RedisTypeOK, DequeueTypeOK
<1>3. CASE /\ queued # <<>>
           /\ queued' = Tail(queued)
           /\ IF dq[w] = "pop"
              THEN processing' = [processing EXCEPT ![Head(queued)] = deadline[w]]
              ELSE processing' = processing
           /\ UNCHANGED <<dead, payload>>
  <2>1. Head(queued) \in Job /\ Tail(queued) \in Seq(Job)
    BY <1>3, PopType
  <2>2. RedisTypeOK'
    BY <1>3, <2>1 DEF QueueTypeOK, RedisTypeOK
  <2>3. QED
    BY <1>1, <2>2 DEF QueueTypeOK, RedisTypeOK, DequeueTypeOK
<1>4. QED
  BY <1>2, <1>3 DEF DequeueError

LEMMA DequeueMoveErrorType ==
    ASSUME QueueTypeOK, NEW w \in Worker, DequeueMoveError(w)
    PROVE  QueueTypeOK'
<1>1. DequeueTypeOK'
  BY ReleaseType, QueueTypeParts DEF DequeueMoveError
<1>2. held[w] \in Job
  BY DEF DequeueMoveError, QueueTypeOK
<1>3. Append(queued, held[w]) \in Seq(Job)
  BY <1>2, AppendType DEF QueueTypeOK
<1>4. RedisTypeOK'
  BY <1>2, <1>3 DEF DequeueMoveError, QueueTypeOK, RedisTypeOK
<1>5. QED
  BY <1>1, <1>4 DEF QueueTypeOK, RedisTypeOK, DequeueTypeOK

LEMMA SweepErrorType ==
    ASSUME QueueTypeOK, NEW s \in Sweeper, SweepError(s)
    PROVE  QueueTypeOK'
BY DEF SweepError, QueueTypeOK, redisVars

LEMMA HousekeepType ==
    ASSUME QueueTypeOK, HousekeepingScan \/ HousekeepingSweep
    PROVE  QueueTypeOK'
<1>1. Housekeeper \in Sweeper
  BY DEF Sweeper
<1>2. CASE HousekeepingScan
  BY <1>1, <1>2, ScanType DEF HousekeepingScan, QueueTypeOK, redisVars
<1>3. CASE HousekeepingSweep
  BY <1>1, <1>3, SweepType DEF HousekeepingSweep
<1>4. QED
  BY <1>2, <1>3

LEMMA TimeType ==
    ASSUME QueueTypeOK,
           \/ \E j \in Job : LeaseLapses(j)
           \/ \E w \in Worker : DeadlineLapses(w)
    PROVE  QueueTypeOK'
BY DEF LeaseLapses, DeadlineLapses, QueueTypeOK, redisVars, dequeueVars

LEMMA WorkerCrashType ==
    ASSUME QueueTypeOK, NEW w \in Worker, WorkerCrash(w)
    PROVE  QueueTypeOK'
BY ReleaseType, RedisUnchangedType, QueueTypeParts
DEF WorkerCrash, QueueTypeOK, RedisTypeOK, DequeueTypeOK

LEMMA QueueUnchangedType == QueueTypeOK /\ UNCHANGED queueVars => QueueTypeOK'
BY RedisUnchangedType, DequeueUnchangedType, QueueTypeParts
DEF queueVars, QueueTypeOK, RedisTypeOK, DequeueTypeOK
=============================================================================

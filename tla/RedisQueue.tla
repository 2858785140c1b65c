----------------------------- MODULE RedisQueue -----------------------------
(***************************************************************************)
(* internal/queue/queue.go: the Redis keys, the MULTI/EXEC commands of the *)
(* producers and of Ack and Fail, and Dequeue and RequeueExpired as the    *)
(* steps between which other clients run.                                  *)
(*                                                                         *)
(* Time is abstract: the score of a processing member, and the deadline a  *)
(* Dequeue computed, is "live" (in the future) or "past"; LeaseLapses and  *)
(* DeadlineLapses turn one into the other at any moment.  That covers      *)
(* every relation between the visibility timeout (2 min), the retry        *)
(* backoff and the time a job takes.  The 24h TTL of payload keys is not   *)
(* modelled.  A sequence's head is the RIGHT end of the Redis list: LPUSH  *)
(* is Append, RPOP takes the head.                                         *)
(***************************************************************************)
EXTENDS JobTypes, Sequences

CONSTANTS
    Worker,       \* goroutines that run Worker.loop
    Housekeeper   \* the goroutine of Worker.Run with the 5 s ticker

ASSUME HousekeeperAssumption == Housekeeper \notin Worker

VARIABLES
    queued,      \* <name>:queued      LIST
    processing,  \* <name>:processing  ZSET: "none" if no member, else its score
    dead,        \* <name>:dead        ZSET, as a set
    payload,     \* <name>:payload:<id> JobPayload.Attempt, 0 if there is no key
    dq,          \* where each worker is in Dequeue; "have" once it returned
    held,        \* the id the Dequeue of each worker has popped
    attempt,     \* Attempt of the payload it returned
    deadline,    \* its deadline variable, while it is still needed
    scan         \* the ids RequeueExpired has read and not yet checked

redisVars   == <<queued, processing, dead, payload>>
dequeueVars == <<dq, held, attempt, deadline, scan>>
queueVars   == <<redisVars, dequeueVars>>

Sweeper == Worker \cup {Housekeeper}

QueueInit ==
    /\ queued     = <<>>
    /\ processing = [j \in Job |-> "none"]
    /\ dead       = {}
    /\ payload    = [j \in Job |-> 0]
    /\ dq         = [w \in Worker |-> "idle"]
    /\ held       = [w \in Worker |-> NoJob]
    /\ attempt    = [w \in Worker |-> 0]
    /\ deadline   = [w \in Worker |-> "none"]
    /\ scan       = [s \in Sweeper |-> {}]

QueueTypeOK ==
    /\ queued     \in Seq(Job)
    /\ processing \in [Job -> {"none", "live", "past"}]
    /\ dead       \in SUBSET Job
    /\ payload    \in [Job -> Nat]
    /\ dq         \in [Worker -> {"idle", "sweep", "pop", "brpop", "move", "fetch", "have"}]
    /\ held       \in [Worker -> Job \cup {NoJob}]
    /\ attempt    \in [Worker -> Nat]
    /\ deadline   \in [Worker -> {"none", "live", "past"}]
    /\ scan       \in [Sweeper -> SUBSET Job]
    /\ \A w \in Worker : dq[w] \in {"move", "fetch", "have"} => held[w] \in Job

-----------------------------------------------------------------------------
(* Commands of the clients: each is one MULTI/EXEC transaction.            *)

Enqueue(j, att, delayed) ==
    /\ payload' = [payload EXCEPT ![j] = att]
    /\ IF delayed
       THEN processing' = [processing EXCEPT ![j] = "live"] /\ queued' = queued
       ELSE queued' = Append(queued, j) /\ processing' = processing
    /\ dead' = dead

Ack(j) ==
    /\ processing' = [processing EXCEPT ![j] = "none"]
    /\ payload'    = [payload EXCEPT ![j] = 0]
    /\ dead'       = dead \ {j}
    /\ queued'     = queued

Fail(j, permanent) ==
    /\ processing' = [processing EXCEPT ![j] = "none"]
    /\ IF permanent
       THEN dead' = dead \cup {j} /\ queued' = queued
       ELSE queued' = Append(queued, j) /\ dead' = dead
    /\ payload' = payload

-----------------------------------------------------------------------------
(* RequeueExpired: ZRANGEBYSCORE, then one Lua script per id.  A `now` a   *)
(* second older than the scan, and the batches of 100, only leave ids for  *)
(* the next sweep.                                                         *)

Expired == {j \in Job : processing[j] = "past"}

Scan(s) == scan' = [scan EXCEPT ![s] = Expired]

\* Mutations of RequeueIfExpired: the score is not compared; membership is not
\* checked at all; ZREM without LPUSH.
RequeueIgnoringScore(j) ==
    IF processing[j] # "none"
    THEN /\ processing' = [processing EXCEPT ![j] = "none"]
         /\ queued' = Append(queued, j)
    ELSE UNCHANGED <<processing, queued>>
RequeueUnchecked(j) ==
    /\ processing' = [processing EXCEPT ![j] = "none"]
    /\ queued' = Append(queued, j)
RequeueDropping(j) ==
    /\ processing' = [processing EXCEPT ![j] = "none"]
    /\ queued' = queued

RequeueIfExpired(j) ==
    IF processing[j] = "past"
    THEN /\ processing' = [processing EXCEPT ![j] = "none"]
         /\ queued' = Append(queued, j)
    ELSE UNCHANGED <<processing, queued>>

Sweep(s) ==
    \E j \in scan[s] :
        /\ scan' = [scan EXCEPT ![s] = @ \ {j}]
        /\ RequeueIfExpired(j)
        /\ UNCHANGED <<dead, payload>>

HousekeepingScan ==
    /\ scan[Housekeeper] = {}
    /\ Expired # {}
    /\ Scan(Housekeeper)
    /\ UNCHANGED <<redisVars, dq, held, attempt, deadline>>

HousekeepingSweep ==
    /\ Sweep(Housekeeper)
    /\ UNCHANGED <<dq, held, attempt, deadline>>

-----------------------------------------------------------------------------
(* Dequeue.                                                                *)

DequeueAt(w, from, to) ==
    /\ dq[w] = from
    /\ dq' = [dq EXCEPT ![w] = to]

\* Leaving Dequeue (or the worker's body) without a job in hand.
Release(w) ==
    /\ dq'       = [dq EXCEPT ![w] = "idle"]
    /\ held'     = [held EXCEPT ![w] = NoJob]
    /\ attempt'  = [attempt EXCEPT ![w] = 0]
    /\ deadline' = [deadline EXCEPT ![w] = "none"]
    /\ scan'     = [scan EXCEPT ![w] = {}]

DequeueStart(w) ==
    /\ DequeueAt(w, "idle", "sweep")
    /\ Scan(w)
    /\ UNCHANGED <<redisVars, held, attempt, deadline>>

DequeueSweep(w) ==
    /\ dq[w] = "sweep"
    /\ Sweep(w)
    /\ UNCHANGED <<dq, held, attempt, deadline>>

\* deadline := now + visibilityTimeout, once, before the wait loop.
DequeueSetDeadline(w) ==
    /\ scan[w] = {}
    /\ DequeueAt(w, "sweep", "pop")
    /\ deadline' = [deadline EXCEPT ![w] = "live"]
    /\ UNCHANGED <<redisVars, held, attempt, scan>>

\* The Lua script: RPOP and ZADD in one step.
DequeuePop(w) ==
    /\ queued # <<>>
    /\ DequeueAt(w, "pop", "fetch")
    /\ held' = [held EXCEPT ![w] = Head(queued)]
    /\ queued' = Tail(queued)
    /\ processing' = [processing EXCEPT ![Head(queued)] = deadline[w]]
    /\ deadline' = [deadline EXCEPT ![w] = "none"]
    /\ UNCHANGED <<dead, payload, attempt, scan>>

DequeueEmpty(w) ==
    /\ queued = <<>>
    /\ DequeueAt(w, "pop", "brpop")
    /\ UNCHANGED <<redisVars, held, attempt, deadline, scan>>

\* Mutation: the loop continues after BRPOP as it does after a timeout.
DequeueBRPopDropping(w) ==
    /\ queued # <<>>
    /\ DequeueAt(w, "brpop", "pop")
    /\ queued' = Tail(queued)
    /\ UNCHANGED <<processing, dead, payload, held, attempt, deadline, scan>>

\* Mutation: the result of BRPOP is assigned to a shadowing variable.
DequeueBRPopForgetting(w) ==
    /\ queued # <<>>
    /\ DequeueAt(w, "brpop", "move")
    /\ queued' = Tail(queued)
    /\ UNCHANGED <<processing, dead, payload, held, attempt, deadline, scan>>

\* BRPOP removes the id; the ZADD is a separate command.
DequeueBRPop(w) ==
    /\ queued # <<>>
    /\ DequeueAt(w, "brpop", "move")
    /\ held' = [held EXCEPT ![w] = Head(queued)]
    /\ queued' = Tail(queued)
    /\ UNCHANGED <<processing, dead, payload, attempt, deadline, scan>>

DequeueBRPopTimeout(w) ==
    /\ queued = <<>>
    /\ DequeueAt(w, "brpop", "pop")
    /\ UNCHANGED <<redisVars, held, attempt, deadline, scan>>

\* Mutation: no ZADD after BRPOP.
DequeueMoveWithoutLease(w) ==
    /\ DequeueAt(w, "move", "fetch")
    /\ deadline' = [deadline EXCEPT ![w] = "none"]
    /\ UNCHANGED <<redisVars, held, attempt, scan>>

DequeueMove(w) ==
    /\ DequeueAt(w, "move", "fetch")
    /\ processing' = [processing EXCEPT ![held[w]] = deadline[w]]
    /\ deadline' = [deadline EXCEPT ![w] = "none"]
    /\ UNCHANGED <<queued, dead, payload, held, attempt, scan>>

\* Mutation: the lease is given up on delivery (auto-acknowledge).
DequeueFetchAcking(w) ==
    /\ DequeueAt(w, "fetch", "have")
    /\ payload[held[w]] # 0
    /\ attempt' = [attempt EXCEPT ![w] = payload[held[w]]]
    /\ Ack(held[w])
    /\ UNCHANGED <<held, deadline, scan>>

DequeueFetch(w) ==
    /\ DequeueAt(w, "fetch", "have")
    /\ payload[held[w]] # 0
    /\ attempt' = [attempt EXCEPT ![w] = payload[held[w]]]
    /\ UNCHANGED <<redisVars, held, deadline, scan>>

\* GET returns redis.Nil: Dequeue fails and the id stays in processing.
DequeueFetchMissing(w) ==
    /\ dq[w] = "fetch"
    /\ payload[held[w]] = 0
    /\ Release(w)
    /\ UNCHANGED redisVars

\* The loop sees jobCtx (5 min) done: the 2 min deadline has passed by then.
DequeueTimeout(w) ==
    /\ dq[w] = "pop"
    /\ deadline[w] = "past"
    /\ Release(w)
    /\ UNCHANGED redisVars

DequeueSteps(w) ==
    \/ DequeueStart(w)        \/ DequeueSweep(w)  \/ DequeueSetDeadline(w)
    \/ DequeuePop(w)          \/ DequeueEmpty(w)  \/ DequeueBRPop(w)
    \/ DequeueBRPopTimeout(w) \/ DequeueMove(w)   \/ DequeueFetch(w)
    \/ DequeueFetchMissing(w) \/ DequeueTimeout(w)

-----------------------------------------------------------------------------
(* Redis errors inside Dequeue: the command may have been executed.        *)

\* The pop script, BRPOP or GET fails: Dequeue returns.  (A failing
\* ZRANGEBYSCORE returns from "idle" to "idle": no step.)
DequeueError(w) ==
    /\ "redis" \in Faults
    /\ \/ dq[w] \in {"pop", "brpop", "fetch"} /\ UNCHANGED redisVars
       \/ /\ dq[w] \in {"pop", "brpop"}                 \* popped, reply lost
          /\ queued # <<>>
          /\ queued' = Tail(queued)
          /\ IF dq[w] = "pop"
             THEN processing' = [processing EXCEPT ![Head(queued)] = deadline[w]]
             ELSE processing' = processing
          /\ UNCHANGED <<dead, payload>>
    /\ Release(w)

\* An error of the per-id script of a sweep is ignored.
SweepError(s) ==
    /\ "redis" \in Faults
    /\ \E j \in scan[s] : scan' = [scan EXCEPT ![s] = @ \ {j}]
    /\ UNCHANGED <<redisVars, dq, held, attempt, deadline>>

\* The ZADD after BRPOP fails: the id is LPUSHed back, if Redis answers.
DequeueMoveError(w) ==
    /\ "redis" \in Faults
    /\ dq[w] = "move"
    /\ processing' \in {processing, [processing EXCEPT ![held[w]] = deadline[w]]}
    /\ queued' \in {queued, Append(queued, held[w])}
    /\ UNCHANGED <<dead, payload>>
    /\ Release(w)

\* A transaction of a client that reports an error: executed or not.
RedisError(Cmd) ==
    /\ "redis" \in Faults
    /\ Cmd \/ UNCHANGED redisVars

-----------------------------------------------------------------------------
(* Time, and the death of a worker inside Dequeue.                         *)

LeaseLapses(j) ==
    /\ processing[j] = "live"
    /\ processing' = [processing EXCEPT ![j] = "past"]
    /\ UNCHANGED <<queued, dead, payload, dequeueVars>>

\* Minutes pass while the loop waits for an id, not between its other steps.
DeadlineLapses(w) ==
    /\ dq[w] \in {"brpop", "move"}
    /\ deadline[w] = "live"
    /\ deadline' = [deadline EXCEPT ![w] = "past"]
    /\ UNCHANGED <<redisVars, dq, held, attempt, scan>>

CrashPoint(w) == IF dq[w] = "move" THEN "pop_crash" ELSE "worker_crash"

WorkerCrash(w) ==
    /\ CrashPoint(w) \in Faults
    /\ dq[w] # "idle"
    /\ Release(w)
    /\ UNCHANGED redisVars
=============================================================================

--------------------------- MODULE QueueProtocol ----------------------------
(***************************************************************************)
(* The queue by itself, used the way the program uses it: every id is put  *)
(* once, a worker that has dequeued it acknowledges it or declares it      *)
(* dead, or dies.  What the worker does to the database in between is left *)
(* to JobPipeline.                                                         *)
(***************************************************************************)
EXTENDS RedisQueue, FiniteSets

VARIABLES
    put,      \* history: ids that were enqueued
    settled,  \* history: ids a worker acknowledged or declared dead
    lapsed,   \* history: workers whose lease ran out while they had the id
    calm      \* no worker dies any more (only FairSpec sets it)

vars == <<queueVars, put, settled, lapsed, calm>>

Init ==
    /\ QueueInit
    /\ put = {}
    /\ settled = {}
    /\ lapsed = {}
    /\ calm = FALSE

Holds(w, j) == held[w] = j /\ dq[w] \in {"move", "fetch", "have"}

\* Conjoined to every step: who holds an id whose lease is, or was, past.
TrackLapses ==
    lapsed' = {w \in Worker : /\ dq'[w] \in {"fetch", "have"}
                              /\ w \in lapsed \/ processing'[held'[w]] = "past"}

-----------------------------------------------------------------------------
Put(j) ==
    /\ j \notin put
    /\ Enqueue(j, 1, FALSE)
    /\ put' = put \cup {j}
    /\ UNCHANGED <<settled, calm, dequeueVars>>
    /\ TrackLapses

Settle(w) ==
    /\ dq[w] = "have"
    /\ Ack(held[w]) \/ Fail(held[w], TRUE)
    /\ settled' = settled \cup {held[w]}
    /\ Release(w)
    /\ UNCHANGED <<put, calm>>
    /\ TrackLapses

\* A step of the queue's own code or of its environment.
Unseen(Step) == Step /\ UNCHANGED <<put, settled, calm>> /\ TrackLapses

Dequeue(w)    == Unseen(DequeueSteps(w))
Housekeep     == Unseen(HousekeepingScan \/ HousekeepingSweep)
TimePasses(j) == Unseen(LeaseLapses(j))
WaitTooLong(w) == Unseen(DeadlineLapses(w))
Crash(w)      == ~calm /\ Unseen(WorkerCrash(w))

Next ==
    \/ \E j \in Job : Put(j) \/ TimePasses(j)
    \/ \E w \in Worker : Settle(w) \/ Dequeue(w) \/ WaitTooLong(w) \/ Crash(w)
    \/ Housekeep

Spec == Init /\ [][Next]_vars

\* Every goroutine keeps running, a lease in the future ends up in the past,
\* and any number of crashes is followed by a time without any.
CalmDown == ~calm /\ calm' = TRUE /\ UNCHANGED <<queueVars, put, settled, lapsed>>

FairSpec ==
    /\ Init /\ [][Next \/ CalmDown]_vars
    /\ \A w \in Worker : WF_vars(Dequeue(w)) /\ WF_vars(Settle(w))
    /\ \A j \in Job : WF_vars(TimePasses(j))
    /\ WF_vars(Housekeep)
    /\ WF_vars(CalmDown)

-----------------------------------------------------------------------------
TypeOK ==
    /\ QueueTypeOK
    /\ put \in SUBSET Job
    /\ settled \in SUBSET put
    /\ lapsed \in SUBSET Worker
    /\ calm \in BOOLEAN

\* The places an id can be in: the list, the sorted set, or the hands of a
\* worker between BRPOP and ZADD.
Places(j) ==
    {<<"queued", i>> : i \in {k \in DOMAIN queued : queued[k] = j}}
    \cup {<<"processing", 0>> : x \in {processing[j]} \ {"none"}}
    \cup {<<"moving", w>> : w \in {v \in Worker : dq[v] = "move" /\ held[v] = j}}

\* Sweepers and workers that see the same expired id never multiply it: an id
\* is in the list, in the sorted set or on its way between them, never in two
\* of these (RequeueExpired's check-and-move, the pop script).
AtMostOneCopy == \A j \in Job : Cardinality(Places(j)) <= 1

\* Two workers have the same id only if the lease of one of them has run out:
\* the lease keeps an id from everybody else while it lasts.
ExclusiveLease ==
    \A w1, w2 \in Worker, j \in Job :
        Holds(w1, j) /\ Holds(w2, j) /\ w1 # w2 => w1 \in lapsed \/ w2 \in lapsed

\* The detailed queue keeps the promise of AtLeastOnce.
Contract ==
    INSTANCE AtLeastOnce
    WITH owed <- {j \in Job : Places(j) # {}},
         have <- [w \in Worker |-> IF dq[w] = "have" THEN held[w] ELSE NoJob]

DeliversAtLeastOnce == Contract!Spec

\* Every id that is put is eventually settled by some worker, however many
\* workers die with it, leases lapse and acknowledged ids come back.
EventuallySettled == \A j \in Job : j \in put ~> j \in settled

-----------------------------------------------------------------------------
(* What a comment of queue.go says and the code does not do.               *)

\* queue.go:2, at-least-once delivery: an id nobody has settled is somewhere.
NoJobLost == \A j \in put \ settled : Places(j) # {}
=============================================================================

---------------------------- MODULE JobPipeline -----------------------------
(***************************************************************************)
(* API requests and worker goroutines over one Postgres and one Redis.     *)
(***************************************************************************)
EXTENDS InferenceApi, JobWorker, FiniteSets

VARIABLE calm   \* no worker dies any more (only FairSpec sets it)

vars == <<storeVars, queueVars, apiVars, wpc, calm>>

Init == StoreInit /\ QueueInit /\ ApiInit /\ WorkerInit /\ calm = FALSE

-----------------------------------------------------------------------------
Serve(r)   == ApiSteps(r) /\ UNCHANGED <<wpc, calm>>
Abandon(r) == RequestDies(r) /\ UNCHANGED <<wpc, calm>>

Process(w) == ProcessSteps(w) /\ UNCHANGED <<apiVars, calm>>

\* A step of the queue that touches neither the database nor the callers.
InQueue(Step) == Step /\ UNCHANGED <<storeVars, apiVars, wpc, calm>>

Dequeue(w)     == InQueue(DequeueSteps(w))
Housekeep      == InQueue(HousekeepingScan \/ HousekeepingSweep)
TimePasses(j)  == InQueue(LeaseLapses(j))
WaitTooLong(w) == InQueue(DeadlineLapses(w))

RedisFails ==
    \/ \E w \in Worker : InQueue(DequeueError(w) \/ DequeueMoveError(w))
    \/ \E s \in Sweeper : InQueue(SweepError(s))

\* Process crash, shutdown (the context of Run is the one every call uses) or
\* the 5 min jobCtx: nothing the goroutine still had to do happens.
Crash(w) ==
    /\ ~calm
    /\ WorkerCrash(w)
    /\ Proceed(w, "mark")
    /\ UNCHANGED <<storeVars, apiVars, calm>>

Next ==
    \/ \E r \in Request : Serve(r) \/ Abandon(r)
    \/ \E w \in Worker : Dequeue(w) \/ Process(w) \/ WaitTooLong(w) \/ Crash(w)
    \/ \E j \in Job : TimePasses(j)
    \/ Housekeep
    \/ RedisFails

Spec == Init /\ [][Next]_vars

\* A request being served and a worker goroutine keep running; time passes; any
\* number of crashes is followed by a time without any.  Whether a client sends
\* a request at all is its own choice.
CalmDown ==
    /\ ~calm
    /\ calm' = TRUE
    /\ UNCHANGED <<storeVars, queueVars, apiVars, wpc>>

FairSpec ==
    /\ Init /\ [][Next \/ CalmDown]_vars
    /\ \A r \in Request : WF_vars(rpc[r] # StartPc(r) /\ Serve(r))
    /\ \A w \in Worker : WF_vars(Dequeue(w)) /\ WF_vars(Process(w))
    /\ \A j \in Job : WF_vars(TimePasses(j))
    /\ WF_vars(Housekeep)
    /\ WF_vars(CalmDown)

-----------------------------------------------------------------------------
TypeOK ==
    /\ StoreTypeOK /\ QueueTypeOK /\ ApiTypeOK /\ WorkerTypeOK
    /\ calm \in BOOLEAN

\* A job is SUCCESS only if the client that sees it can fetch a SUCCESS result,
\* whatever fails, crashes, is redelivered or retried (Results.Create before
\* MarkSucceeded; job_id UNIQUE; MarkSucceeded only from RUNNING).
SuccessHasResult == \A j \in Job : status[j] = "SUCCESS" => result[j] = "SUCCESS"

\* Who is computing job j: a worker past MarkRunning, a synchronous request.
Executors(j) ==
    {w \in Worker : dq[w] = "have" /\ held[w] = j /\ wpc[w] \in {"infer", "result", "succeed"}}
    \cup {r \in SyncReq : rjob[r] = j /\ rpc[r] \in {"infer", "result", "succeed"}}

\* ARCHITECTURE.md "CAS-style status transitions to prevent double-processing":
\* redelivery after a lapsed lease never makes two workers compute one job.
SingleExecutor == \A j \in Job : Cardinality(Executors(j)) <= 1

\* attempts counts the runs: no job runs more often than its row admits.
RunsWithinAttempts == \A j \in Job : runs[j] <= attempts[j]

\* Somebody will still bring a QUEUED job to MarkRunning: a request about to
\* enqueue it, the list, the sorted set, or a worker with the delivery.
WillBeDelivered(j) ==
    \/ \E r \in Request : rjob[r] = j /\ rpc[r] = "enqueue"
    \/ payload[j] # 0 /\ (processing[j] # "none" \/ \E i \in DOMAIN queued : queued[i] = j)
    \/ \E w \in Worker : held[w] = j /\ dq[w] \in {"move", "fetch"} /\ payload[j] # 0
    \/ \E w \in Worker : held[w] = j /\ dq[w] = "have" /\ wpc[w] = "mark"

\* A job the database calls QUEUED is never forgotten by Redis, although
\* leases lapse, stale deliveries are acknowledged and workers die.
QueuedIsDeliverable == \A j \in Job : status[j] = "QUEUED" => WillBeDelivered(j)

\* Two requests with one idempotency key that both return name the same job.
OneJobPerKey ==
    \A r1, r2 \in Keyed :
        rpc[r1] = "returned" /\ rpc[r2] = "returned" => rjob[r1] = rjob[r2]

Lifecycle == INSTANCE JobLifecycle

\* The pipeline follows the documented state machine.
ImplementsLifecycle == Lifecycle!Spec

\* Workers may die at any point between the pop and MarkRunning: once they stop
\* dying, every job the database calls QUEUED is picked up.
QueuedIsPickedUp == \A j \in Job : status[j] = "QUEUED" ~> status[j] # "QUEUED"

\* Once workers stop dying, a queued job comes to an end, as far as there is one: success,
\* a retry, or the dead set; leases still lapse and acknowledged ids still come back.
AcceptedEnds ==
    \A j \in Job :
        calm /\ status[j] = "QUEUED" ~> status[j] \in {"SUCCESS", "RETRYING"} \/ j \in dead

-----------------------------------------------------------------------------
(* What the documents of the repository say and the code does not do: each *)
(* is checked in a run that exhibits the difference.                       *)

\* portfolio-case-study.md:107-108, "Worker killed mid-job -> visibility timeout requeues; second
\* worker succeeds", "ML service 500s -> jobs retry with backoff then go DEAD": a job that a worker
\* has started gets an outcome.
StartedJobsEnd ==
    \A j \in Job :
        status[j] \in {"RUNNING", "RETRYING"} ~> status[j] \in {"SUCCESS", "FAILED"} \/ j \in dead
=============================================================================

------------------------- MODULE JobPipelineProofs --------------------------
(***************************************************************************)
(* For every set of jobs, workers and requests, every attempt limit and    *)
(* every choice of faults: the type invariant of JobPipeline; a job is     *)
(* SUCCESS only with a stored SUCCESS result; requests with one            *)
(* idempotency key that are answered name one job.                         *)
(***************************************************************************)
EXTENDS JobPipeline, RedisQueueProofs, TLAPS

-----------------------------------------------------------------------------
(* The statements of JobStore keep its types.                              *)

LEMMA TransitionType ==
    ASSUME StoreTypeOK, NEW j \in Job, NEW from, NEW to \in JobStatus,
           Transition(j, from, to)
    PROVE  StoreTypeOK'
BY DEF StoreTypeOK, Transition, Matches

LEMMA TransitionToQueuedType ==
    ASSUME StoreTypeOK, NEW j \in Job, NEW from, NEW att \in Nat,
           TransitionToQueued(j, from, att)
    PROVE  StoreTypeOK'
BY DEF StoreTypeOK, TransitionToQueued, Matches, JobStatus

LEMMA TransitionToRunningType ==
    ASSUME StoreTypeOK, NEW j \in Job, TransitionToRunning(j)
    PROVE  StoreTypeOK'
BY DEF StoreTypeOK, TransitionToRunning, Matches, JobStatus

LEMMA InsertJobType ==
    ASSUME StoreTypeOK, NEW j \in Job, NEW st \in JobStatus, NEW att \in Nat,
           NEW k \in BOOLEAN, InsertJob(j, st, att, k)
    PROVE  StoreTypeOK'
BY DEF StoreTypeOK, InsertJob

LEMMA InsertResultType ==
    ASSUME StoreTypeOK, NEW j \in Job, NEW o \in {"SUCCESS", "DEAD"}, InsertResult(j, o)
    PROVE  StoreTypeOK'
BY DEF StoreTypeOK, InsertResult, HasResult

LEMMA StoreUnchangedType == StoreTypeOK /\ UNCHANGED storeVars => StoreTypeOK'
BY DEF StoreTypeOK, storeVars

-----------------------------------------------------------------------------
(* The steps of the API.                                                   *)

\* Where a request has no job yet, or needs none any more.
Jobless == FinalPc \cup {"find", "insert", "read"}

LEMMA DbErrorTransitionType ==
    ASSUME StoreTypeOK, NEW j \in Job, NEW from, NEW to \in JobStatus,
           DbError(Transition(j, from, to))
    PROVE  StoreTypeOK'
BY TransitionType, StoreUnchangedType DEF DbError

LEMMA ApiMoveType ==
    ASSUME ApiTypeOK, NEW r \in Request, NEW pc \in ApiPc, Goto(r, pc),
           UNCHANGED <<rjob, ratt>>, rpc[r] \notin Jobless \/ pc \in Jobless
    PROVE  ApiTypeOK'
BY DEF ApiTypeOK, Goto, Jobless

LEMMA ApiCasType ==
    ASSUME StoreTypeOK, QueueTypeOK, ApiTypeOK, NEW r \in Request,
           NEW at \in ApiPc \ Jobless, NEW from, NEW to \in JobStatus,
           NEW hit \in ApiPc, NEW miss \in ApiPc, NEW err \in ApiPc,
           ApiCas(r, at, from, to, hit, miss, err)
    PROVE  StoreTypeOK' /\ QueueTypeOK' /\ ApiTypeOK'
<1>1. rjob[r] \in Job
  BY DEF ApiCas, ApiTypeOK, Jobless
<1>2. PICK pc \in {hit, miss, err} : Goto(r, pc)
  BY DEF ApiCas
<1>3. StoreTypeOK'
  BY <1>1, TransitionType, DbErrorTransitionType DEF ApiCas
<1>4. ApiTypeOK'
  BY <1>2, ApiMoveType DEF ApiCas
<1>5. QED
  BY <1>3, <1>4, QueueUnchangedType DEF ApiCas

LEMMA ApiCasToQueuedType ==
    ASSUME StoreTypeOK, QueueTypeOK, ApiTypeOK, NEW r \in Request,
           NEW at \in ApiPc \ Jobless, NEW from, NEW miss \in ApiPc,
           ApiCasToQueued(r, at, from, miss)
    PROVE  StoreTypeOK' /\ QueueTypeOK' /\ ApiTypeOK'
<1>1. rjob[r] \in Job /\ ratt[r] \in Nat
  BY DEF ApiCasToQueued, ApiTypeOK, Jobless
<1>2. PICK pc \in {"enqueue", miss, "failed"} : Goto(r, pc)
  BY DEF ApiCasToQueued
<1>3. StoreTypeOK'
  BY <1>1, TransitionToQueuedType, StoreUnchangedType DEF ApiCasToQueued, DbError
<1>4. pc \in ApiPc
  BY <1>2 DEF ApiPc, FinalPc
<1>5. ApiTypeOK'
  BY <1>2, <1>4, ApiMoveType DEF ApiCasToQueued
<1>6. QED
  BY <1>3, <1>5, QueueUnchangedType DEF ApiCasToQueued

LEMMA NewRowType ==
    ASSUME StoreTypeOK, NEW r \in Request, NEW j \in Job, NewRow(r, j)
    PROVE  StoreTypeOK'
<1>1. CASE r \in SyncReq
  BY <1>1, InsertJobType DEF NewRow, JobStatus
<1>2. CASE r \notin SyncReq
  <2>1. InsertJob(j, "CREATED", 0, r \in Keyed)
    BY <1>2 DEF NewRow
  <2>2. QED
    BY <2>1 DEF InsertJob, StoreTypeOK, JobStatus
<1>3. QED
  BY <1>1, <1>2

LEMMA CreateJobType ==
    ASSUME StoreTypeOK, QueueTypeOK, ApiTypeOK, NEW r \in Request, CreateJob(r)
    PROVE  StoreTypeOK' /\ QueueTypeOK' /\ ApiTypeOK'
<1>1. QueueTypeOK'
  BY QueueUnchangedType DEF CreateJob
<1>2. CASE /\ \E j \in Job : NewRow(r, j) /\ rjob' = [rjob EXCEPT ![r] = j]
           /\ ratt' = [ratt EXCEPT ![r] = 1]
           /\ Goto(r, IF r \in SyncReq THEN "infer" ELSE "queue1")
  <2>1. StoreTypeOK'
    BY <1>2, NewRowType
  <2>2. ApiTypeOK'
    BY <1>2 DEF ApiTypeOK, Goto, ApiPc, FinalPc
  <2>3. QED
    BY <1>1, <2>1, <2>2
<1>3. CASE Goto(r, "conflict") /\ UNCHANGED <<storeVars, rjob, ratt>>
  BY <1>1, <1>3, StoreUnchangedType DEF ApiTypeOK, Goto, ApiPc, FinalPc
<1>4. CASE /\ DbError(~InsertConflicts(r \in Keyed) /\ \E j \in Job : NewRow(r, j))
           /\ Goto(r, "failed")
           /\ UNCHANGED <<rjob, ratt>>
  <2>1. StoreTypeOK'
    BY <1>4, NewRowType, StoreUnchangedType DEF DbError
  <2>2. ApiTypeOK'
    BY <1>4 DEF ApiTypeOK, Goto, ApiPc, FinalPc
  <2>3. QED
    BY <1>1, <2>1, <2>2
<1>5. QED
  BY <1>2, <1>3, <1>4 DEF CreateJob

LEMMA EnqueueJobType ==
    ASSUME StoreTypeOK, QueueTypeOK, ApiTypeOK, NEW r \in Request, EnqueueJob(r)
    PROVE  StoreTypeOK' /\ QueueTypeOK' /\ ApiTypeOK'
<1>1. rpc[r] = "enqueue" /\ rjob[r] \in Job /\ ratt[r] \in Nat
  BY DEF EnqueueJob, ApiTypeOK, FinalPc
<1>2. RedisTypeOK'
  BY <1>1, EnqueueType, RedisUnchangedType, QueueTypeParts DEF EnqueueJob, RedisError
<1>3. DequeueTypeOK'
  BY DequeueUnchangedType, QueueTypeParts DEF EnqueueJob
<1>4. PICK pc \in {"returned", "fail1", "failed"} : Goto(r, pc)
  BY DEF EnqueueJob
<1>5. ApiTypeOK'
  BY <1>1, <1>4 DEF EnqueueJob, ApiTypeOK, Goto, ApiPc, FinalPc
<1>6. QED
  BY <1>2, <1>3, <1>5, StoreUnchangedType
  DEF EnqueueJob, QueueTypeOK, RedisTypeOK, DequeueTypeOK

LEMMA SyncCreateResultType ==
    ASSUME StoreTypeOK, QueueTypeOK, ApiTypeOK, NEW r \in Request, SyncCreateResult(r)
    PROVE  StoreTypeOK' /\ QueueTypeOK' /\ ApiTypeOK'
<1>1. rpc[r] = "result" /\ rjob[r] \in Job
  BY DEF SyncCreateResult, ApiTypeOK, FinalPc
<1>2. StoreTypeOK'
  BY <1>1, InsertResultType, StoreUnchangedType DEF SyncCreateResult, DbError
<1>3. PICK pc \in {"fail1", "succeed"} : Goto(r, pc)
  BY DEF SyncCreateResult
<1>4. ApiTypeOK'
  BY <1>1, <1>3 DEF SyncCreateResult, ApiTypeOK, Goto, ApiPc, FinalPc
<1>5. QED
  BY <1>2, <1>4, QueueUnchangedType DEF SyncCreateResult

LEMMA ApiStepsType ==
    ASSUME StoreTypeOK, QueueTypeOK, ApiTypeOK, NEW r \in Request, ApiSteps(r)
    PROVE  StoreTypeOK' /\ QueueTypeOK' /\ ApiTypeOK'
<1> USE DEF ApiPc, FinalPc, Jobless, JobStatus
<1>1. CASE FindByIdempotencyKey(r)
  <2>1. StoreTypeOK' /\ QueueTypeOK'
    BY <1>1, StoreUnchangedType, QueueUnchangedType DEF FindByIdempotencyKey
  <2>2. ApiTypeOK'
    BY <1>1 DEF FindByIdempotencyKey, Goto, ApiTypeOK, StoreTypeOK
  <2>3. QED
    BY <2>1, <2>2
<1>2. CASE CreateJob(r)
  BY <1>2, CreateJobType
<1>3. CASE MarkQueued(r)
  BY <1>3, ApiCasToQueuedType DEF MarkQueued
<1>4. CASE EnqueueJob(r)
  BY <1>4, EnqueueJobType
<1>5. CASE MarkFailed(r)
  BY <1>5, ApiCasType DEF MarkFailed
<1>6. CASE ReadJob(r)
  <2>1. StoreTypeOK' /\ QueueTypeOK'
    BY <1>6, StoreUnchangedType, QueueUnchangedType DEF ReadJob
  <2>2. ApiTypeOK'
    BY <1>6 DEF ReadJob, Goto, ApiTypeOK, StoreTypeOK
  <2>3. QED
    BY <2>1, <2>2
<1>7. CASE MarkRetrying(r)
  BY <1>7, ApiCasType DEF MarkRetrying
<1>8. CASE SyncInfer(r)
  <2>1. StoreTypeOK' /\ QueueTypeOK'
    BY <1>8, StoreUnchangedType, QueueUnchangedType DEF SyncInfer
  <2>2. ApiTypeOK'
    BY <1>8 DEF SyncInfer, Goto, ApiTypeOK
  <2>3. QED
    BY <2>1, <2>2
<1>9. CASE SyncCreateResult(r)
  BY <1>9, SyncCreateResultType
<1>10. CASE SyncMarkSucceeded(r)
  BY <1>10, ApiCasType DEF SyncMarkSucceeded
<1>11. QED
  BY <1>1, <1>2, <1>3, <1>4, <1>5, <1>6, <1>7, <1>8, <1>9, <1>10 DEF ApiSteps

LEMMA RequestDiesType ==
    ASSUME StoreTypeOK, QueueTypeOK, ApiTypeOK, NEW r \in Request, RequestDies(r)
    PROVE  StoreTypeOK' /\ QueueTypeOK' /\ ApiTypeOK'
<1>1. "failed" \in ApiPc /\ "failed" \in Jobless
  BY DEF ApiPc, FinalPc, Jobless
<1>2. QED
  BY <1>1, ApiMoveType, StoreUnchangedType, QueueUnchangedType DEF RequestDies

-----------------------------------------------------------------------------
(* The steps of a worker in process and handleFailure.                     *)

LEMMA ProceedType ==
    ASSUME WorkerTypeOK, NEW w \in Worker, dq[w] = "have", NEW pc \in WorkerPc,
           Proceed(w, pc), dq' = dq
    PROVE  WorkerTypeOK'
BY DEF WorkerTypeOK, Proceed

LEMMA ReturnToLoopType ==
    ASSUME DequeueTypeOK, WorkerTypeOK, NEW w \in Worker, ReturnToLoop(w)
    PROVE  DequeueTypeOK' /\ WorkerTypeOK'
<1>1. DequeueTypeOK'
  BY ReleaseType DEF ReturnToLoop
<1>2. WorkerTypeOK'
  BY DEF ReturnToLoop, Release, Proceed, DequeueTypeOK, WorkerTypeOK, WorkerPc
<1>3. QED
  BY <1>1, <1>2

LEMMA AfterFailureType ==
    ASSUME NEW w, NEW kind
    PROVE  AfterFailure(w, kind) \in {"retry1", "markdead"}
BY DEF AfterFailure

LEMMA WorkerCasType ==
    ASSUME StoreTypeOK, QueueTypeOK, WorkerTypeOK, NEW w \in Worker, NEW at,
           NEW from, NEW to \in JobStatus,
           NEW hit \in WorkerPc, NEW miss \in WorkerPc, NEW err \in WorkerPc,
           WorkerCas(w, at, from, to, hit, miss, err)
    PROVE  StoreTypeOK' /\ QueueTypeOK' /\ WorkerTypeOK'
<1>1. dq[w] = "have" /\ held[w] \in Job
  BY DEF WorkerCas, Processing, QueueTypeOK
<1>2. PICK pc \in {hit, miss, err} : Proceed(w, pc)
  BY DEF WorkerCas
<1>3. StoreTypeOK'
  BY <1>1, TransitionType, DbErrorTransitionType DEF WorkerCas
<1>4. WorkerTypeOK'
  BY <1>1, <1>2, ProceedType DEF WorkerCas, queueVars, dequeueVars
<1>5. QED
  BY <1>3, <1>4, QueueUnchangedType DEF WorkerCas

\* The steps in process that do not leave it and do not touch Redis.
LEMMA StoreStepType ==
    ASSUME StoreTypeOK, QueueTypeOK, WorkerTypeOK, NEW w \in Worker,
           MarkRunning(w) \/ RunInference(w) \/ CreateResult(w)
    PROVE  StoreTypeOK' /\ QueueTypeOK' /\ WorkerTypeOK'
<1>1. dq[w] = "have" /\ held[w] \in Job
  BY DEF MarkRunning, RunInference, CreateResult, Processing, QueueTypeOK
<1>2. QueueTypeOK' /\ dq' = dq
  BY QueueUnchangedType
  DEF MarkRunning, RunInference, CreateResult, queueVars, dequeueVars
<1>3. StoreTypeOK'
  BY <1>1, TransitionToRunningType, InsertResultType, StoreUnchangedType
  DEF MarkRunning, RunInference, CreateResult, DbError
<1>4. PICK pc \in WorkerPc : Proceed(w, pc)
  BY AfterFailureType DEF MarkRunning, RunInference, CreateResult, WorkerPc
<1>5. WorkerTypeOK'
  BY <1>1, <1>2, <1>4, ProceedType
<1>6. QED
  BY <1>2, <1>3, <1>5

\* The steps that issue a Redis command.
LEMMA RedisStepType ==
    ASSUME StoreTypeOK, QueueTypeOK, WorkerTypeOK, NEW w \in Worker,
           AckJob(w) \/ AckBeforeRetry(w) \/ EnqueueRetry(w) \/ FailJob(w)
    PROVE  StoreTypeOK' /\ QueueTypeOK' /\ WorkerTypeOK'
<1>1. dq[w] = "have" /\ held[w] \in Job /\ attempt[w] + 1 \in Nat
  <2>1. dq[w] = "have"
    BY DEF AckJob, AckBeforeRetry, EnqueueRetry, FailJob, Processing
  <2>2. QED
    BY <2>1 DEF QueueTypeOK
<1>2. StoreTypeOK'
  BY StoreUnchangedType DEF AckJob, AckBeforeRetry, EnqueueRetry, FailJob
<1>3. RedisTypeOK'
  BY <1>1, AckType, EnqueueType, FailType, RedisUnchangedType, QueueTypeParts
  DEF AckJob, AckBeforeRetry, EnqueueRetry, FailJob, RedisError
<1>4. DequeueTypeOK' /\ WorkerTypeOK'
  <2>1. CASE AckJob(w) \/ EnqueueRetry(w)
    BY <2>1, ReturnToLoopType, QueueTypeParts DEF AckJob, EnqueueRetry
  <2>2. CASE AckBeforeRetry(w)
    <3>1. DequeueTypeOK' /\ dq' = dq
      BY <2>2, DequeueUnchangedType, QueueTypeParts DEF AckBeforeRetry, dequeueVars
    <3>2. Proceed(w, "reenqueue") /\ "reenqueue" \in WorkerPc
      BY <2>2 DEF AckBeforeRetry, WorkerPc
    <3>3. QED
      BY <1>1, <3>1, <3>2, ProceedType
  <2>3. CASE FailJob(w)
    <3>1. DequeueTypeOK' /\ dq' = dq
      BY <2>3, DequeueUnchangedType, QueueTypeParts DEF FailJob, dequeueVars
    <3>2. Proceed(w, "deadresult") /\ "deadresult" \in WorkerPc
      BY <2>3 DEF FailJob, WorkerPc
    <3>3. QED
      BY <1>1, <3>1, <3>2, ProceedType
  <2>4. QED
    BY <2>1, <2>2, <2>3
<1>5. QED
  BY <1>2, <1>3, <1>4 DEF QueueTypeOK, RedisTypeOK, DequeueTypeOK

LEMMA CreateDeadResultType ==
    ASSUME StoreTypeOK, QueueTypeOK, WorkerTypeOK, NEW w \in Worker, CreateDeadResult(w)
    PROVE  StoreTypeOK' /\ QueueTypeOK' /\ WorkerTypeOK'
<1>1. held[w] \in Job
  BY DEF CreateDeadResult, Processing, QueueTypeOK
<1>2. StoreTypeOK'
  BY <1>1, InsertResultType, StoreUnchangedType DEF CreateDeadResult, DbError
<1>3. RedisTypeOK' /\ DequeueTypeOK' /\ WorkerTypeOK'
  BY RedisUnchangedType, ReturnToLoopType, QueueTypeParts DEF CreateDeadResult
<1>4. QED
  BY <1>2, <1>3 DEF QueueTypeOK, RedisTypeOK, DequeueTypeOK

LEMMA ProcessStepsType ==
    ASSUME StoreTypeOK, QueueTypeOK, WorkerTypeOK, NEW w \in Worker, ProcessSteps(w)
    PROVE  StoreTypeOK' /\ QueueTypeOK' /\ WorkerTypeOK'
<1>1. CASE MarkRunning(w) \/ RunInference(w) \/ CreateResult(w)
  BY <1>1, StoreStepType
<1>2. /\ "ack" \in WorkerPc /\ "ackretry" \in WorkerPc /\ "retry2" \in WorkerPc /\ "fail" \in WorkerPc
      /\ "SUCCESS" \in JobStatus /\ "RETRYING" \in JobStatus /\ "DEAD" \in JobStatus
  BY DEF WorkerPc, JobStatus
<1>3. CASE MarkSucceeded(w)
  <2>1. WorkerCas(w, "succeed", "RUNNING", "SUCCESS", "ack", "ack", "ack")
    BY <1>3 DEF MarkSucceeded
  <2>2. QED
    BY <1>2, <2>1, WorkerCasType
<1>4. CASE MarkRetryingAfterFailure(w)
  <2>1. CASE WorkerCas(w, "retry1", "FAILED", "RETRYING", "ackretry", "retry2", "ackretry")
    BY <1>2, <2>1, WorkerCasType
  <2>2. CASE WorkerCas(w, "retry2", "RUNNING", "RETRYING", "ackretry", "ackretry", "ackretry")
    BY <1>2, <2>2, WorkerCasType
  <2>3. QED
    BY <1>4, <2>1, <2>2 DEF MarkRetryingAfterFailure
<1>5. CASE MarkDead(w)
  <2>1. WorkerCas(w, "markdead", "RETRYING", "DEAD", "fail", "fail", "fail")
    BY <1>5 DEF MarkDead
  <2>2. QED
    BY <1>2, <2>1, WorkerCasType
<1>6. CASE AckJob(w) \/ AckBeforeRetry(w) \/ EnqueueRetry(w) \/ FailJob(w)
  BY <1>6, RedisStepType
<1>7. CASE CreateDeadResult(w)
  BY <1>7, CreateDeadResultType
<1>8. QED
  BY <1>1, <1>3, <1>4, <1>5, <1>6, <1>7 DEF ProcessSteps

\* Steps of Dequeue only move workers that are not in process.
LEMMA DequeueKeepsWorkerType ==
    ASSUME WorkerTypeOK, QueueTypeOK, wpc' = wpc,
           \A v \in Worker : dq'[v] = dq[v] \/ dq[v] # "have"
    PROVE  WorkerTypeOK'
BY DEF WorkerTypeOK

-----------------------------------------------------------------------------
(* Type correctness of the pipeline.                                       *)

LEMMA InitType == Init => TypeOK
<1> SUFFICES ASSUME Init PROVE TypeOK
  OBVIOUS
<1>1. StoreTypeOK
  BY DEF Init, StoreInit, StoreTypeOK
<1>2. QueueTypeOK
  BY DEF Init, QueueInit, QueueTypeOK
<1>3. ApiTypeOK
  BY DEF Init, ApiInit, ApiTypeOK, StartPc, ApiPc, FinalPc
<1>4. WorkerTypeOK
  BY DEF Init, WorkerInit, WorkerTypeOK, WorkerPc
<1>5. QED
  BY <1>1, <1>2, <1>3, <1>4 DEF Init, TypeOK

\* A step inside the queue: the database, the requests and the code of process
\* stay where they are.
LEMMA InQueueType ==
    ASSUME TypeOK, QueueTypeOK', UNCHANGED <<storeVars, apiVars, wpc, calm>>,
           \A v \in Worker : dq'[v] = dq[v] \/ dq[v] # "have"
    PROVE  TypeOK'
<1>1. StoreTypeOK'
  BY StoreUnchangedType DEF TypeOK
<1>2. ApiTypeOK'
  BY DEF TypeOK, ApiTypeOK, apiVars
<1>3. WorkerTypeOK'
  BY DequeueKeepsWorkerType DEF TypeOK
<1>4. QED
  BY <1>1, <1>2, <1>3 DEF TypeOK

LEMMA DequeueMoves ==
    ASSUME QueueTypeOK, NEW w \in Worker,
           DequeueSteps(w) \/ DequeueError(w) \/ DequeueMoveError(w)
    PROVE  \A v \in Worker : dq'[v] = dq[v] \/ dq[v] # "have"
<1> USE DEF QueueTypeOK, DequeueAt, Release
<1>1. CASE DequeueSteps(w)
  BY <1>1
  DEF DequeueSteps, DequeueStart, DequeueSweep, DequeueSetDeadline, DequeuePop,
      DequeueEmpty, DequeueBRPop, DequeueBRPopTimeout, DequeueMove, DequeueFetch,
      DequeueFetchMissing, DequeueTimeout
<1>2. CASE DequeueError(w)
  BY <1>2 DEF DequeueError
<1>3. CASE DequeueMoveError(w)
  BY <1>3 DEF DequeueMoveError
<1>4. QED
  BY <1>1, <1>2, <1>3

LEMMA CrashType ==
    ASSUME TypeOK, NEW w \in Worker, Crash(w)
    PROVE  TypeOK'
<1>1. QueueTypeOK'
  BY WorkerCrashType DEF TypeOK, Crash
<1>2. StoreTypeOK' /\ ApiTypeOK'
  BY StoreUnchangedType DEF TypeOK, Crash, ApiTypeOK, apiVars
<1>3. WorkerTypeOK'
  BY DEF TypeOK, Crash, WorkerCrash, Release, Proceed, QueueTypeOK, WorkerTypeOK, WorkerPc
<1>4. QED
  BY <1>1, <1>2, <1>3 DEF TypeOK, Crash

LEMMA StepType ==
    ASSUME TypeOK, Next
    PROVE  TypeOK'
<1>1. ASSUME NEW r \in Request, Serve(r)
      PROVE  TypeOK'
  <2>1. StoreTypeOK' /\ QueueTypeOK' /\ ApiTypeOK'
    BY <1>1, ApiStepsType DEF TypeOK, Serve
  <2>2. dq' = dq
    BY <1>1 DEF Serve, ApiSteps, FindByIdempotencyKey, CreateJob, MarkQueued,
       EnqueueJob, MarkFailed, ReadJob, MarkRetrying, SyncInfer, SyncCreateResult,
       SyncMarkSucceeded, ApiCas, ApiCasToQueued, queueVars, dequeueVars
  <2>3. QED
    BY <1>1, <2>1, <2>2 DEF TypeOK, Serve, WorkerTypeOK
<1>2. ASSUME NEW r \in Request, Abandon(r)
      PROVE  TypeOK'
  <2>1. StoreTypeOK' /\ QueueTypeOK' /\ ApiTypeOK'
    BY <1>2, RequestDiesType DEF TypeOK, Abandon
  <2>2. dq' = dq
    BY <1>2 DEF Abandon, RequestDies, queueVars, dequeueVars
  <2>3. QED
    BY <1>2, <2>1, <2>2 DEF TypeOK, Abandon, WorkerTypeOK
<1>3. ASSUME NEW w \in Worker, Dequeue(w)
      PROVE  TypeOK'
  BY <1>3, DequeueStepsType, DequeueMoves, InQueueType DEF TypeOK, Dequeue, InQueue
<1>4. ASSUME NEW w \in Worker, Process(w)
      PROVE  TypeOK'
  <2>1. StoreTypeOK' /\ QueueTypeOK' /\ WorkerTypeOK'
    BY <1>4, ProcessStepsType DEF TypeOK, Process
  <2>2. QED
    BY <1>4, <2>1 DEF TypeOK, Process, ApiTypeOK, apiVars
<1>5. CASE \/ \E w \in Worker : WaitTooLong(w)
           \/ \E j \in Job : TimePasses(j)
  <2>1. QueueTypeOK' /\ dq' = dq /\ UNCHANGED <<storeVars, apiVars, wpc, calm>>
    BY <1>5, TimeType
    DEF TypeOK, WaitTooLong, TimePasses, InQueue, LeaseLapses, DeadlineLapses, dequeueVars
  <2>2. QED
    BY <2>1, InQueueType
<1>6. ASSUME NEW w \in Worker, Crash(w)
      PROVE  TypeOK'
  BY <1>6, CrashType
<1>7. CASE Housekeep
  <2>1. QueueTypeOK' /\ dq' = dq /\ UNCHANGED <<storeVars, apiVars, wpc, calm>>
    BY <1>7, HousekeepType
    DEF TypeOK, Housekeep, InQueue, HousekeepingScan, HousekeepingSweep
  <2>2. QED
    BY <2>1, InQueueType
<1>8. CASE RedisFails
  <2>1. ASSUME NEW w \in Worker, InQueue(DequeueError(w) \/ DequeueMoveError(w))
        PROVE  TypeOK'
    BY <2>1, DequeueErrorType, DequeueMoveErrorType, DequeueMoves, InQueueType
    DEF TypeOK, InQueue
  <2>2. ASSUME NEW s \in Sweeper, InQueue(SweepError(s))
        PROVE  TypeOK'
    <3>1. QueueTypeOK' /\ dq' = dq /\ UNCHANGED <<storeVars, apiVars, wpc, calm>>
      BY <2>2, SweepErrorType DEF TypeOK, InQueue, SweepError
    <3>2. QED
      BY <3>1, InQueueType
  <2>3. QED
    BY <1>8, <2>1, <2>2 DEF RedisFails
<1>9. QED
  BY <1>1, <1>2, <1>3, <1>4, <1>5, <1>6, <1>7, <1>8 DEF Next

LEMMA StutterType ==
    ASSUME TypeOK, UNCHANGED vars
    PROVE  TypeOK'
<1>1. UNCHANGED <<storeVars, apiVars, wpc, calm>> /\ UNCHANGED queueVars /\ dq' = dq
  BY DEF vars, queueVars, dequeueVars
<1>2. QED
  BY <1>1, QueueUnchangedType, InQueueType DEF TypeOK

\* Every variable of the pipeline keeps its type, a request past its insert and
\* a worker past its pop know their job, and a worker that is not in process is
\* ready for the first statement of the next delivery.
THEOREM TypeCorrect == Spec => []TypeOK
<1>1. TypeOK /\ [Next]_vars => TypeOK'
  BY StepType, StutterType
<1>2. QED
  BY InitType, <1>1, PTL DEF Spec

-----------------------------------------------------------------------------
(***************************************************************************)
(* Results.  SuccessHasResult is not inductive by itself: a worker or a    *)
(* request that is about to mark the job SUCCESS must have stored the      *)
(* result already, and nothing may replace it in between.                  *)
(* StoredBeforeSuccess says so.                                            *)
(***************************************************************************)

StoredBeforeSuccess ==
    /\ \A w \in Worker : Processing(w, "succeed") => result[held[w]] = "SUCCESS"
    /\ \A r \in Request : rpc[r] = "succeed" => result[rjob[r]] = "SUCCESS"

ResultInv == TypeOK /\ SuccessHasResult /\ StoredBeforeSuccess

\* What every step does to the two columns the invariant relates: a SUCCESS
\* result stays, and a row becomes SUCCESS only when its result is there.
ResultsFirst ==
    /\ \A j \in Job : result[j] = "SUCCESS" => result'[j] = "SUCCESS"
    /\ \A j \in Job : status'[j] = "SUCCESS" => status[j] = "SUCCESS" \/ result[j] = "SUCCESS"

-----------------------------------------------------------------------------
(* The statements.                                                         *)

LEMMA TransitionFirst ==
    ASSUME StoreTypeOK, NEW j \in Job, NEW from, NEW to, Transition(j, from, to),
           to = "SUCCESS" => result[j] = "SUCCESS"
    PROVE  ResultsFirst
BY DEF StoreTypeOK, Transition, Matches, ResultsFirst

LEMMA TransitionToQueuedFirst ==
    ASSUME StoreTypeOK, NEW j \in Job, NEW from, NEW att, TransitionToQueued(j, from, att)
    PROVE  ResultsFirst
BY DEF StoreTypeOK, TransitionToQueued, Matches, ResultsFirst

LEMMA TransitionToRunningFirst ==
    ASSUME StoreTypeOK, NEW j \in Job, TransitionToRunning(j)
    PROVE  ResultsFirst
BY DEF StoreTypeOK, TransitionToRunning, Matches, ResultsFirst

LEMMA NewRowFirst ==
    ASSUME StoreTypeOK, NEW r, NEW j \in Job, NewRow(r, j)
    PROVE  ResultsFirst
BY DEF StoreTypeOK, NewRow, InsertJob, ResultsFirst

LEMMA InsertResultFirst ==
    ASSUME StoreTypeOK, NEW j \in Job, NEW o, InsertResult(j, o)
    PROVE  ResultsFirst
BY DEF StoreTypeOK, InsertResult, HasResult, ResultsFirst

LEMMA StoreUnchangedFirst == UNCHANGED storeVars => ResultsFirst
BY DEF storeVars, ResultsFirst

LEMMA DbErrorTransitionFirst ==
    ASSUME StoreTypeOK, NEW j \in Job, NEW from, NEW to, DbError(Transition(j, from, to)),
           to = "SUCCESS" => result[j] = "SUCCESS"
    PROVE  ResultsFirst
BY TransitionFirst, StoreUnchangedFirst DEF DbError

-----------------------------------------------------------------------------
(* The requests.                                                           *)

LEMMA ApiCasFirst ==
    ASSUME TypeOK, NEW r \in Request, NEW at \in ApiPc \ Jobless, NEW from, NEW to,
           NEW hit, NEW miss, NEW err, ApiCas(r, at, from, to, hit, miss, err),
           to = "SUCCESS" => result[rjob[r]] = "SUCCESS"
    PROVE  ResultsFirst
<1>1. rjob[r] \in Job
  BY DEF TypeOK, ApiTypeOK, ApiCas, Jobless
<1>2. QED
  BY <1>1, TransitionFirst, DbErrorTransitionFirst DEF ApiCas, TypeOK

LEMMA ApiCasToQueuedFirst ==
    ASSUME TypeOK, NEW r \in Request, NEW at \in ApiPc \ Jobless, NEW from, NEW miss,
           ApiCasToQueued(r, at, from, miss)
    PROVE  ResultsFirst
<1>1. rjob[r] \in Job
  BY DEF TypeOK, ApiTypeOK, ApiCasToQueued, Jobless
<1>2. QED
  BY <1>1, TransitionToQueuedFirst, StoreUnchangedFirst
  DEF ApiCasToQueued, DbError, TypeOK

LEMMA CreateJobFirst ==
    ASSUME TypeOK, NEW r \in Request, CreateJob(r)
    PROVE  ResultsFirst
BY NewRowFirst, StoreUnchangedFirst DEF CreateJob, DbError, TypeOK

LEMMA SyncCreateResultFirst ==
    ASSUME TypeOK, NEW r \in Request, SyncCreateResult(r)
    PROVE  ResultsFirst
<1>1. rjob[r] \in Job
  BY DEF TypeOK, ApiTypeOK, SyncCreateResult, FinalPc
<1>2. QED
  BY <1>1, InsertResultFirst, StoreUnchangedFirst DEF SyncCreateResult, DbError, TypeOK

LEMMA ApiStepsFirst ==
    ASSUME ResultInv, NEW r \in Request, ApiSteps(r)
    PROVE  ResultsFirst
<1> USE DEF ApiPc, FinalPc, Jobless, ResultInv
<1>1. CASE FindByIdempotencyKey(r)
  BY <1>1, StoreUnchangedFirst DEF FindByIdempotencyKey
<1>2. CASE CreateJob(r)
  BY <1>2, CreateJobFirst
<1>3. CASE MarkQueued(r)
  BY <1>3, ApiCasToQueuedFirst DEF MarkQueued
<1>4. CASE EnqueueJob(r)
  BY <1>4, StoreUnchangedFirst DEF EnqueueJob
<1>5. CASE MarkFailed(r)
  BY <1>5, ApiCasFirst DEF MarkFailed
<1>6. CASE ReadJob(r)
  BY <1>6, StoreUnchangedFirst DEF ReadJob
<1>7. CASE MarkRetrying(r)
  BY <1>7, ApiCasFirst DEF MarkRetrying
<1>8. CASE SyncInfer(r)
  BY <1>8, StoreUnchangedFirst DEF SyncInfer
<1>9. CASE SyncCreateResult(r)
  BY <1>9, SyncCreateResultFirst
<1>10. CASE SyncMarkSucceeded(r)
  <2>1. rpc[r] = "succeed"
    BY <1>10 DEF SyncMarkSucceeded, ApiCas
  <2>2. result[rjob[r]] = "SUCCESS"
    BY <2>1 DEF StoredBeforeSuccess
  <2>3. QED
    BY <1>10, <2>2, ApiCasFirst DEF SyncMarkSucceeded
<1>11. QED
  BY <1>1, <1>2, <1>3, <1>4, <1>5, <1>6, <1>7, <1>8, <1>9, <1>10 DEF ApiSteps

\* A request arrives at MarkSucceeded only from Results.Create, which stored.
LEMMA ApiArrives ==
    ASSUME TypeOK, NEW r \in Request, ApiSteps(r)
    PROVE  /\ rpc'[r] = "succeed" => rjob' = rjob /\ result'[rjob[r]] = "SUCCESS"
           /\ \A q \in Request \ {r} : rpc'[q] = rpc[q] /\ rjob'[q] = rjob[q]
<1> USE DEF TypeOK, ApiTypeOK, Goto, FinalPc
<1>1. CASE SyncCreateResult(r)
  <2>1. rjob[r] \in Job /\ rjob' = rjob
    BY <1>1 DEF SyncCreateResult
  <2>2. CASE InsertResult(rjob[r], "SUCCESS") /\ ~HasResult(rjob[r])
    BY <1>1, <2>1, <2>2 DEF SyncCreateResult, InsertResult, StoreTypeOK
  <2>3. CASE rpc'[r] # "succeed"
    BY <1>1, <2>1, <2>3 DEF SyncCreateResult
  <2>4. QED
    BY <1>1, <2>2, <2>3 DEF SyncCreateResult
<1>2. CASE FindByIdempotencyKey(r) \/ CreateJob(r) \/ EnqueueJob(r)
  BY <1>2 DEF FindByIdempotencyKey, CreateJob, EnqueueJob
<1>3. CASE MarkQueued(r)
  BY <1>3 DEF MarkQueued, ApiCasToQueued
<1>4. CASE ReadJob(r) \/ SyncInfer(r)
  BY <1>4 DEF ReadJob, SyncInfer
<1>5. CASE MarkFailed(r)
  BY <1>5 DEF MarkFailed, ApiCas
<1>6. CASE MarkRetrying(r) \/ SyncMarkSucceeded(r)
  BY <1>6 DEF MarkRetrying, SyncMarkSucceeded, ApiCas
<1>7. QED
  BY <1>1, <1>2, <1>3, <1>4, <1>5, <1>6 DEF ApiSteps

-----------------------------------------------------------------------------
(* The workers.                                                            *)

LEMMA WorkerCasFirst ==
    ASSUME TypeOK, NEW w \in Worker, NEW at, NEW from, NEW to,
           NEW hit, NEW miss, NEW err, WorkerCas(w, at, from, to, hit, miss, err),
           to = "SUCCESS" => result[held[w]] = "SUCCESS"
    PROVE  ResultsFirst
<1>1. held[w] \in Job
  BY DEF TypeOK, QueueTypeOK, WorkerCas, Processing
<1>2. QED
  BY <1>1, TransitionFirst, DbErrorTransitionFirst DEF WorkerCas, TypeOK

LEMMA ProcessStepsFirst ==
    ASSUME ResultInv, NEW w \in Worker, ProcessSteps(w)
    PROVE  ResultsFirst
<1> USE DEF ResultInv, TypeOK
<1>1. CASE MarkRunning(w)
  <2>1. held[w] \in Job
    BY <1>1 DEF QueueTypeOK, MarkRunning, Processing
  <2>2. QED
    BY <1>1, <2>1, TransitionToRunningFirst, StoreUnchangedFirst DEF MarkRunning, DbError
<1>2. CASE RunInference(w) \/ AckJob(w) \/ AckBeforeRetry(w) \/ EnqueueRetry(w) \/ FailJob(w)
  BY <1>2, StoreUnchangedFirst
  DEF RunInference, AckJob, AckBeforeRetry, EnqueueRetry, FailJob
<1>3. CASE CreateResult(w) \/ CreateDeadResult(w)
  <2>1. held[w] \in Job
    BY <1>3 DEF QueueTypeOK, CreateResult, CreateDeadResult, Processing
  <2>2. QED
    BY <1>3, <2>1, InsertResultFirst, StoreUnchangedFirst
    DEF CreateResult, CreateDeadResult, DbError
<1>4. CASE MarkSucceeded(w)
  <2>1. Processing(w, "succeed")
    BY <1>4 DEF MarkSucceeded, WorkerCas
  <2>2. result[held[w]] = "SUCCESS"
    BY <2>1 DEF StoredBeforeSuccess
  <2>3. QED
    BY <1>4, <2>2, WorkerCasFirst DEF MarkSucceeded
<1>5. CASE MarkRetryingAfterFailure(w) \/ MarkDead(w)
  BY <1>5, WorkerCasFirst DEF MarkRetryingAfterFailure, MarkDead
<1>6. QED
  BY <1>1, <1>2, <1>3, <1>4, <1>5 DEF ProcessSteps

\* A worker arrives at MarkSucceeded only from Results.Create, which stored.
LEMMA WorkerArrives ==
    ASSUME TypeOK, NEW w \in Worker, ProcessSteps(w)
    PROVE  /\ wpc'[w] = "succeed" => held' = held /\ result'[held[w]] = "SUCCESS"
           /\ \A v \in Worker \ {w} : UNCHANGED <<dq[v], wpc[v], held[v]>>
<1> USE DEF TypeOK, QueueTypeOK, WorkerTypeOK, Processing, Proceed
<1>1. CASE CreateResult(w)
  <2>1. held[w] \in Job /\ dq' = dq /\ held' = held
    BY <1>1 DEF CreateResult, queueVars, dequeueVars
  <2>2. CASE InsertResult(held[w], "SUCCESS") /\ ~HasResult(held[w])
    BY <1>1, <2>1, <2>2 DEF CreateResult, InsertResult, StoreTypeOK
  <2>3. CASE wpc'[w] # "succeed"
    BY <1>1, <2>1, <2>3 DEF CreateResult
  <2>4. AfterFailure(w, "Database") # "succeed"
    BY AfterFailureType
  <2>5. QED
    BY <1>1, <2>2, <2>3, <2>4 DEF CreateResult
<1>2. CASE MarkRunning(w)
  BY <1>2 DEF MarkRunning, queueVars, dequeueVars
<1>3. CASE RunInference(w)
  <2>1. PICK pc \in {"result", "retry1", "markdead"} : Proceed(w, pc)
    BY <1>3, AfterFailureType DEF RunInference
  <2>2. wpc' = [wpc EXCEPT ![w] = pc] /\ UNCHANGED <<dq, held>>
    BY <1>3, <2>1 DEF RunInference, queueVars, dequeueVars
  <2>3. QED
    BY <2>1, <2>2
<1>4. CASE MarkSucceeded(w) \/ MarkDead(w)
  BY <1>4 DEF MarkSucceeded, MarkDead, WorkerCas, queueVars, dequeueVars
<1>5. CASE MarkRetryingAfterFailure(w)
  BY <1>5 DEF MarkRetryingAfterFailure, WorkerCas, queueVars, dequeueVars
<1>6. CASE AckJob(w) \/ EnqueueRetry(w) \/ CreateDeadResult(w)
  BY <1>6 DEF AckJob, EnqueueRetry, CreateDeadResult, ReturnToLoop, Release
<1>7. CASE AckBeforeRetry(w) \/ FailJob(w)
  BY <1>7 DEF AckBeforeRetry, FailJob, dequeueVars
<1>8. QED
  BY <1>1, <1>2, <1>3, <1>4, <1>5, <1>6, <1>7 DEF ProcessSteps

-----------------------------------------------------------------------------
(* The steps that leave the database, the requests and process alone.      *)

\* A worker that is not in process is at "mark", and stays there.
LEMMA QuietStep ==
    ASSUME ResultInv, UNCHANGED <<storeVars, apiVars>>,
           \A v \in Worker : \/ wpc'[v] = "mark"
                             \/ UNCHANGED <<dq[v], wpc[v], held[v]>>
    PROVE  SuccessHasResult' /\ StoredBeforeSuccess'
BY DEF ResultInv, SuccessHasResult, StoredBeforeSuccess, Processing, storeVars, apiVars

LEMMA DequeueStepsQuiet ==
    ASSUME TypeOK, NEW w \in Worker, wpc' = wpc,
           DequeueSteps(w) \/ DequeueError(w) \/ DequeueMoveError(w)
    PROVE  \A v \in Worker : wpc'[v] = "mark" \/ UNCHANGED <<dq[v], wpc[v], held[v]>>
<1> USE DEF TypeOK, QueueTypeOK, WorkerTypeOK, DequeueAt, Release
<1>1. dq[w] # "have"
  BY DEF DequeueSteps, DequeueStart, DequeueSweep, DequeueSetDeadline, DequeuePop,
     DequeueEmpty, DequeueBRPop, DequeueBRPopTimeout, DequeueMove, DequeueFetch,
     DequeueFetchMissing, DequeueTimeout, DequeueError, DequeueMoveError
<1>2. wpc'[w] = "mark"
  BY <1>1
<1>3. \A v \in Worker \ {w} : dq'[v] = dq[v] /\ held'[v] = held[v]
  BY DEF DequeueSteps, DequeueStart, DequeueSweep, DequeueSetDeadline, DequeuePop,
     DequeueEmpty, DequeueBRPop, DequeueBRPopTimeout, DequeueMove, DequeueFetch,
     DequeueFetchMissing, DequeueTimeout, DequeueError, DequeueMoveError
<1>4. QED
  BY <1>2, <1>3

-----------------------------------------------------------------------------
LEMMA InitResult == Init => ResultInv
<1> SUFFICES ASSUME Init PROVE ResultInv
  OBVIOUS
<1>1. TypeOK
  BY InitType
<1>2. SuccessHasResult
  BY DEF Init, StoreInit, SuccessHasResult, Absent
<1>3. StoredBeforeSuccess
  BY DEF Init, QueueInit, ApiInit, StartPc, StoredBeforeSuccess, Processing
<1>4. QED
  BY <1>1, <1>2, <1>3 DEF ResultInv

LEMMA FirstKeepsSuccess ==
    ASSUME SuccessHasResult, ResultsFirst
    PROVE  SuccessHasResult'
BY DEF SuccessHasResult, ResultsFirst

LEMMA StepResult ==
    ASSUME ResultInv, Next
    PROVE  SuccessHasResult' /\ StoredBeforeSuccess'
<1> USE DEF ResultInv
<1>1. ASSUME NEW r \in Request, Serve(r)
      PROVE  SuccessHasResult' /\ StoredBeforeSuccess'
  <2>1. ResultsFirst
    BY <1>1, ApiStepsFirst DEF Serve
  <2>2. ASSUME NEW q \in Request, rpc'[q] = "succeed"
        PROVE  result'[rjob'[q]] = "SUCCESS"
    <3>1. CASE q = r
      BY <1>1, <2>2, <3>1, ApiArrives DEF Serve
    <3>2. CASE q # r
      <4>1. rpc[q] = "succeed" /\ rjob'[q] = rjob[q]
        BY <1>1, <2>2, <3>2, ApiArrives DEF Serve
      <4>2. rjob[q] \in Job /\ result[rjob[q]] = "SUCCESS"
        BY <4>1 DEF StoredBeforeSuccess, TypeOK, ApiTypeOK, FinalPc
      <4>3. QED
        BY <2>1, <4>1, <4>2 DEF ResultsFirst
    <3>3. QED
      BY <3>1, <3>2
  <2>3. ASSUME NEW w \in Worker, Processing(w, "succeed")'
        PROVE  result'[held'[w]] = "SUCCESS"
    <3>1. dq' = dq /\ held' = held /\ wpc' = wpc
      BY <1>1 DEF Serve, ApiSteps, FindByIdempotencyKey, CreateJob, MarkQueued,
         EnqueueJob, MarkFailed, ReadJob, MarkRetrying, SyncInfer, SyncCreateResult,
         SyncMarkSucceeded, ApiCas, ApiCasToQueued, queueVars, dequeueVars
    <3>2. held[w] \in Job /\ result[held[w]] = "SUCCESS"
      BY <2>3, <3>1 DEF StoredBeforeSuccess, Processing, TypeOK, QueueTypeOK
    <3>3. QED
      BY <2>1, <3>1, <3>2 DEF ResultsFirst
  <2>4. QED
    BY <2>1, <2>2, <2>3, FirstKeepsSuccess DEF StoredBeforeSuccess
<1>2. ASSUME NEW w \in Worker, Process(w)
      PROVE  SuccessHasResult' /\ StoredBeforeSuccess'
  <2>1. ResultsFirst
    BY <1>2, ProcessStepsFirst DEF Process
  <2>2. ASSUME NEW v \in Worker, Processing(v, "succeed")'
        PROVE  result'[held'[v]] = "SUCCESS"
    <3>1. CASE v = w
      BY <1>2, <2>2, <3>1, WorkerArrives DEF Process, Processing
    <3>2. CASE v # w
      <4>1. Processing(v, "succeed") /\ held'[v] = held[v]
        BY <1>2, <2>2, <3>2, WorkerArrives DEF Process, Processing
      <4>2. held[v] \in Job /\ result[held[v]] = "SUCCESS"
        BY <4>1 DEF StoredBeforeSuccess, Processing, TypeOK, QueueTypeOK
      <4>3. QED
        BY <2>1, <4>1, <4>2 DEF ResultsFirst
    <3>3. QED
      BY <3>1, <3>2
  <2>3. ASSUME NEW r \in Request, rpc'[r] = "succeed"
        PROVE  result'[rjob'[r]] = "SUCCESS"
    <3>1. rpc[r] = "succeed" /\ rjob'[r] = rjob[r]
      BY <1>2, <2>3 DEF Process, apiVars
    <3>2. rjob[r] \in Job /\ result[rjob[r]] = "SUCCESS"
      BY <3>1 DEF StoredBeforeSuccess, TypeOK, ApiTypeOK, FinalPc
    <3>3. QED
      BY <2>1, <3>1, <3>2 DEF ResultsFirst
  <2>4. QED
    BY <2>1, <2>2, <2>3, FirstKeepsSuccess DEF StoredBeforeSuccess
<1>3. ASSUME NEW r \in Request, Abandon(r)
      PROVE  SuccessHasResult' /\ StoredBeforeSuccess'
  BY <1>3 DEF Abandon, RequestDies, Goto, SuccessHasResult, StoredBeforeSuccess, Processing,
     storeVars, queueVars, dequeueVars, TypeOK, ApiTypeOK
<1>4. ASSUME NEW w \in Worker, Dequeue(w)
      PROVE  SuccessHasResult' /\ StoredBeforeSuccess'
  BY <1>4, DequeueStepsQuiet, QuietStep DEF Dequeue, InQueue
<1>5. ASSUME NEW w \in Worker, Crash(w)
      PROVE  SuccessHasResult' /\ StoredBeforeSuccess'
  <2>1. \A v \in Worker : wpc'[v] = "mark" \/ UNCHANGED <<dq[v], wpc[v], held[v]>>
    BY <1>5 DEF Crash, WorkerCrash, Release, Proceed, TypeOK, QueueTypeOK, WorkerTypeOK
  <2>2. QED
    BY <1>5, <2>1, QuietStep DEF Crash
<1>6. CASE \/ \E w \in Worker : WaitTooLong(w)
           \/ \E j \in Job : TimePasses(j)
           \/ Housekeep
  BY <1>6, QuietStep
  DEF WaitTooLong, TimePasses, Housekeep, InQueue, LeaseLapses, DeadlineLapses,
      HousekeepingScan, HousekeepingSweep, dequeueVars
<1>7. CASE RedisFails
  <2>1. ASSUME NEW w \in Worker, InQueue(DequeueError(w) \/ DequeueMoveError(w))
        PROVE  SuccessHasResult' /\ StoredBeforeSuccess'
    BY <2>1, DequeueStepsQuiet, QuietStep DEF InQueue
  <2>2. ASSUME NEW s \in Sweeper, InQueue(SweepError(s))
        PROVE  SuccessHasResult' /\ StoredBeforeSuccess'
    BY <2>2, QuietStep DEF InQueue, SweepError
  <2>3. QED
    BY <1>7, <2>1, <2>2 DEF RedisFails
<1>8. QED
  BY <1>1, <1>2, <1>3, <1>4, <1>5, <1>6, <1>7 DEF Next

LEMMA ResultInvariant == Spec => []ResultInv
<1>1. ResultInv /\ [Next]_vars => ResultInv'
  <2>1. ASSUME ResultInv, Next PROVE ResultInv'
    BY <2>1, StepType, StepResult DEF ResultInv
  <2>2. ASSUME ResultInv, UNCHANGED vars PROVE ResultInv'
    BY <2>2, StutterType, QuietStep
    DEF ResultInv, vars, queueVars, dequeueVars
  <2>3. QED
    BY <2>1, <2>2
<1>2. QED
  BY InitResult, <1>1, PTL DEF Spec

\* Whatever fails, crashes, is redelivered or retried: a client that sees
\* SUCCESS can fetch a SUCCESS result.
THEOREM SuccessIsBacked == Spec => []SuccessHasResult
<1>1. ResultInv => SuccessHasResult
  BY DEF ResultInv
<1>2. QED
  BY ResultInvariant, <1>1, PTL

-----------------------------------------------------------------------------
(***************************************************************************)
(* Keys.  The answers are what two requests hold when both are through, so *)
(* the invariant speaks of what each holds before: from the insert on, the *)
(* row that carries the key, of which the unique index admits one.         *)
(***************************************************************************)

\* Statements before a request with a key has a job, and the ends without one.
WithoutJob == {"find", "insert", "conflict", "failed"}

OneRow == \A i, j \in keyed : i = j

HoldsKeyed ==
    \A r \in Keyed :
        /\ rpc[r] # "read"
        /\ rpc[r] \notin WithoutJob => rjob[r] \in keyed

KeyInv == TypeOK /\ OneRow /\ HoldsKeyed

\* A statement that leaves the key alone and moves request r to pc.
LEMMA MoveKeepsKey ==
    ASSUME KeyInv, NEW r \in Request, NEW pc, Goto(r, pc), keyed' = keyed, rjob' = rjob,
           pc # "read", rpc[r] \notin WithoutJob \/ pc \in WithoutJob \/ r \notin Keyed
    PROVE  OneRow' /\ HoldsKeyed'
BY RequestAssumption
DEF KeyInv, TypeOK, ApiTypeOK, OneRow, HoldsKeyed, Goto, Request

LEMMA CasKeepsKey ==
    ASSUME KeyInv, NEW r \in Request, NEW at, at \notin WithoutJob, NEW from, NEW to,
           NEW hit, hit # "read", NEW miss, miss # "read", NEW err, err # "read",
           ApiCas(r, at, from, to, hit, miss, err)
    PROVE  OneRow' /\ HoldsKeyed'
<1>1. rpc[r] \notin WithoutJob /\ keyed' = keyed /\ rjob' = rjob
  BY DEF ApiCas, Transition, DbError, storeVars
<1>2. \E pc \in {hit, miss, err} : Goto(r, pc)
  BY DEF ApiCas
<1>3. QED
  BY <1>1, <1>2, MoveKeepsKey

LEMMA CasToQueuedKeepsKey ==
    ASSUME KeyInv, NEW r \in Request, NEW at, at \notin WithoutJob, NEW from,
           NEW miss, miss # "read", ApiCasToQueued(r, at, from, miss)
    PROVE  OneRow' /\ HoldsKeyed'
<1>1. rpc[r] \notin WithoutJob /\ keyed' = keyed /\ rjob' = rjob
  BY DEF ApiCasToQueued, TransitionToQueued, DbError, storeVars
<1>2. \E pc \in {"enqueue", miss, "failed"} : Goto(r, pc)
  BY DEF ApiCasToQueued
<1>3. QED
  BY <1>1, <1>2, MoveKeepsKey

LEMMA FindKeepsKey ==
    ASSUME KeyInv, NEW r \in Request, FindByIdempotencyKey(r)
    PROVE  OneRow' /\ HoldsKeyed'
<1>1. keyed' = keyed
  BY DEF FindByIdempotencyKey, storeVars
<1>2. ASSUME NEW j \in keyed, rjob' = [rjob EXCEPT ![r] = j], Goto(r, "returned")
      PROVE  OneRow' /\ HoldsKeyed'
  BY <1>1, <1>2, RequestAssumption
  DEF KeyInv, TypeOK, ApiTypeOK, OneRow, HoldsKeyed, Goto, Request
<1>3. CASE Goto(r, "insert") /\ rjob' = rjob
  BY <1>1, <1>3, MoveKeepsKey DEF WithoutJob
<1>4. QED
  BY <1>2, <1>3 DEF FindByIdempotencyKey

\* What an INSERT does to the rows with the key.
LEMMA NewRowKeyed ==
    ASSUME NEW r \in Request, NEW j \in Job, NewRow(r, j)
    PROVE  keyed' = IF r \in Keyed THEN keyed \cup {j} ELSE keyed
BY RequestAssumption DEF NewRow, InsertJob

LEMMA CreateJobKeepsKey ==
    ASSUME KeyInv, NEW r \in Request, CreateJob(r)
    PROVE  OneRow' /\ HoldsKeyed'
<1> USE DEF WithoutJob
<1>1. rpc[r] = "insert"
  BY DEF CreateJob
<1>2. ASSUME ~InsertConflicts(r \in Keyed), NEW j \in Job, NewRow(r, j)
      PROVE  keyed \subseteq keyed' /\ OneRow' /\ (r \in Keyed => j \in keyed')
  BY <1>2, NewRowKeyed DEF InsertConflicts, KeyInv, OneRow
<1>3. ASSUME ~InsertConflicts(r \in Keyed), NEW j \in Job, NewRow(r, j),
             rjob' = [rjob EXCEPT ![r] = j], NEW pc \in {"infer", "queue1"}, Goto(r, pc)
      PROVE  OneRow' /\ HoldsKeyed'
  <2>1. keyed \subseteq keyed' /\ OneRow' /\ (r \in Keyed => j \in keyed')
    BY <1>2, <1>3
  <2>2. QED
    BY <1>3, <2>1, RequestAssumption
    DEF KeyInv, TypeOK, ApiTypeOK, HoldsKeyed, Goto, Request
<1>4. CASE Goto(r, "conflict") /\ UNCHANGED <<storeVars, rjob>>
  BY <1>4, MoveKeepsKey DEF storeVars
<1>5. CASE /\ DbError(~InsertConflicts(r \in Keyed) /\ \E j \in Job : NewRow(r, j))
           /\ Goto(r, "failed") /\ rjob' = rjob
  <2>1. keyed \subseteq keyed' /\ OneRow'
    BY <1>2, <1>5 DEF DbError, storeVars, KeyInv, OneRow
  <2>2. QED
    BY <1>5, <2>1, RequestAssumption
    DEF KeyInv, TypeOK, ApiTypeOK, HoldsKeyed, Goto, Request
<1>6. QED
  BY <1>3, <1>4, <1>5 DEF CreateJob

LEMMA ReadJobKeepsKey ==
    ASSUME KeyInv, NEW r \in Request, ReadJob(r)
    PROVE  OneRow' /\ HoldsKeyed'
<1>1. r \notin Keyed
  BY DEF ReadJob, KeyInv, HoldsKeyed
<1>2. QED
  BY <1>1, RequestAssumption
  DEF ReadJob, storeVars, KeyInv, TypeOK, ApiTypeOK, OneRow, HoldsKeyed, Goto, Request

LEMMA ApiStepsKeepKey ==
    ASSUME KeyInv, NEW r \in Request, ApiSteps(r)
    PROVE  OneRow' /\ HoldsKeyed'
<1> USE DEF WithoutJob
<1>1. CASE FindByIdempotencyKey(r)
  BY <1>1, FindKeepsKey
<1>2. CASE CreateJob(r)
  BY <1>2, CreateJobKeepsKey
<1>3. CASE MarkQueued(r)
  BY <1>3, CasToQueuedKeepsKey DEF MarkQueued
<1>4. CASE EnqueueJob(r)
  <2>1. \E pc \in {"returned", "fail1", "failed"} : Goto(r, pc)
    BY <1>4 DEF EnqueueJob
  <2>2. QED
    BY <1>4, <2>1, MoveKeepsKey DEF EnqueueJob, storeVars
<1>5. CASE MarkFailed(r)
  BY <1>5, CasKeepsKey DEF MarkFailed
<1>6. CASE ReadJob(r)
  BY <1>6, ReadJobKeepsKey
<1>7. CASE MarkRetrying(r)
  BY <1>7, CasKeepsKey DEF MarkRetrying
<1>8. CASE SyncInfer(r)
  <2>1. \E pc \in {"result", "fail1"} : Goto(r, pc)
    BY <1>8 DEF SyncInfer
  <2>2. QED
    BY <1>8, <2>1, MoveKeepsKey DEF SyncInfer, storeVars
<1>9. CASE SyncCreateResult(r)
  <2>1. \E pc \in {"fail1", "succeed"} : Goto(r, pc)
    BY <1>9 DEF SyncCreateResult
  <2>2. keyed' = keyed /\ rjob' = rjob /\ rpc[r] = "result"
    BY <1>9 DEF SyncCreateResult, DbError, InsertResult, storeVars
  <2>3. QED
    BY <2>1, <2>2, MoveKeepsKey
<1>10. CASE SyncMarkSucceeded(r)
  BY <1>10, CasKeepsKey DEF SyncMarkSucceeded
<1>11. QED
  BY <1>1, <1>2, <1>3, <1>4, <1>5, <1>6, <1>7, <1>8, <1>9, <1>10 DEF ApiSteps

\* The workers have no statement that sets the key.
LEMMA ProcessStepsKeyed ==
    ASSUME NEW w \in Worker, ProcessSteps(w)
    PROVE  keyed' = keyed
BY DEF ProcessSteps, MarkRunning, RunInference, CreateResult, MarkSucceeded, AckJob,
   MarkRetryingAfterFailure, AckBeforeRetry, EnqueueRetry, MarkDead, FailJob,
   CreateDeadResult, WorkerCas, DbError, Transition, TransitionToRunning, InsertResult,
   storeVars

LEMMA OthersKeepKey ==
    ASSUME KeyInv, keyed' = keyed, UNCHANGED apiVars
    PROVE  OneRow' /\ HoldsKeyed'
BY DEF KeyInv, OneRow, HoldsKeyed, apiVars

LEMMA StepKey ==
    ASSUME KeyInv, Next
    PROVE  OneRow' /\ HoldsKeyed'
<1>1. ASSUME NEW r \in Request, Serve(r)
      PROVE  OneRow' /\ HoldsKeyed'
  BY <1>1, ApiStepsKeepKey DEF Serve
<1>2. ASSUME NEW r \in Request, Abandon(r)
      PROVE  OneRow' /\ HoldsKeyed'
  BY <1>2, MoveKeepsKey DEF Abandon, RequestDies, storeVars, WithoutJob
<1>3. ASSUME NEW w \in Worker, Process(w)
      PROVE  OneRow' /\ HoldsKeyed'
  BY <1>3, ProcessStepsKeyed, OthersKeepKey DEF Process
<1>4. ASSUME NEW w \in Worker, Dequeue(w) \/ WaitTooLong(w) \/ Crash(w)
      PROVE  OneRow' /\ HoldsKeyed'
  BY <1>4, OthersKeepKey DEF Dequeue, WaitTooLong, Crash, InQueue, storeVars
<1>5. CASE (\E j \in Job : TimePasses(j)) \/ Housekeep \/ RedisFails
  BY <1>5, OthersKeepKey DEF TimePasses, Housekeep, RedisFails, InQueue, storeVars
<1>6. QED
  BY <1>1, <1>2, <1>3, <1>4, <1>5 DEF Next

LEMMA InitKey == Init => KeyInv
BY InitType, RequestAssumption
DEF Init, StoreInit, ApiInit, StartPc, KeyInv, OneRow, HoldsKeyed, WithoutJob, Request

\* However many requests carry the key, fail, die or find the key taken: the ones
\* that are answered name one job (services.go:598-606, the unique index).
THEOREM KeyNamesOneJob == Spec => []OneJobPerKey
<1>1. KeyInv /\ [Next]_vars => KeyInv'
  <2>1. ASSUME KeyInv, Next PROVE KeyInv'
    BY <2>1, StepType, StepKey DEF KeyInv
  <2>2. ASSUME KeyInv, UNCHANGED vars PROVE KeyInv'
    BY <2>2, StutterType, OthersKeepKey DEF KeyInv, vars, storeVars
  <2>3. QED
    BY <2>1, <2>2
<1>2. KeyInv => OneJobPerKey
  BY DEF KeyInv, OneRow, HoldsKeyed, OneJobPerKey, WithoutJob
<1>3. QED
  BY InitKey, <1>1, <1>2, PTL DEF Spec
=============================================================================

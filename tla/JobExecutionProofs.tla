------------------------- MODULE JobExecutionProofs -------------------------
(***************************************************************************)
(* How often a job runs, who runs it, which transitions its row takes and  *)
(* whether a QUEUED one is on its way: JobPipeline for every set of jobs,  *)
(* workers and requests and every attempt limit.                           *)
(*                                                                         *)
(* Every theorem assumes RetriesApart.  Retry reads the row and marks it   *)
(* in several statements; two of them on one job can count an attempt      *)
(* twice, and take back to the queue a job that is running by then.        *)
(***************************************************************************)
EXTENDS JobPipelineProofs, FiniteSetTheorems

\* A request that has a job and statements left.
Active(r) == rpc[r] \notin Jobless

\* No client retries a job that another Retry is still working on.
RetriesApart ==
    \A q, r \in RetryReq : Active(q) /\ Active(r) /\ rjob[q] = rjob[r] => q = r

\* With one Retry call the hypothesis of the theorems below is no hypothesis.
LEMMA LoneRetryIsApart == (\A q, r \in RetryReq : q = r) => RetriesApart
BY DEF RetriesApart

-----------------------------------------------------------------------------
(* Attempts and runs.                                                      *)

\* On the way to MarkQueued.
Asking == {"retry1", "retry2", "queue1", "queue2"}

RowCounts(j) ==
    /\ status[j] = Absent => runs[j] = 0
    /\ runs[j] <= attempts[j]
    /\ status[j] = "QUEUED" => runs[j] < attempts[j]

Creator == AsyncReq \cup SyncReq

Place(r) ==
    /\ rpc[r] = "read" => r \in RetryReq
    /\ rpc[r] \in {"find", "insert"} => r \notin RetryReq
    /\ Active(r) => status[rjob[r]] # Absent
    /\ Active(r) /\ r \in RetryReq => status[rjob[r]] # "CREATED"
    /\ rpc[r] \in Asking =>
        /\ r \notin SyncReq
        /\ status[rjob[r]] # "QUEUED"
        /\ runs[rjob[r]] < ratt[r]
        /\ r \in AsyncReq => rpc[r] = "queue1" /\ status[rjob[r]] = "CREATED"

CreatorsApart ==
    \A q, r \in Creator : Active(q) /\ Active(r) /\ rjob[q] = rjob[r] => q = r

RunsInv ==
    /\ TypeOK
    /\ \A j \in Job : RowCounts(j)
    /\ \A r \in Request : Place(r)
    /\ CreatorsApart

LEMMA ActiveHasJob == ApiTypeOK => \A r \in Request : Active(r) => rjob[r] \in Job
BY DEF ApiTypeOK, Active, Jobless

\* What a statement other than an INSERT or MarkQueued does to a row.
RowRuns(j) ==
    /\ attempts'[j] = attempts[j]
    /\ \/ status'[j] = status[j] /\ runs'[j] = runs[j]
       \/ status[j] = "QUEUED" /\ status'[j] = "RUNNING" /\ runs'[j] = runs[j] + 1
       \/ /\ status[j] # Absent
          /\ status'[j] \notin {Absent, "CREATED", "QUEUED"}
          /\ runs'[j] = runs[j]

LEMMA RowRunsCounts ==
    ASSUME StoreTypeOK, NEW j \in Job, RowCounts(j), RowRuns(j)
    PROVE  RowCounts(j)'
<1>1. runs[j] \in Nat /\ attempts[j] \in Nat
  BY DEF StoreTypeOK
<1>2. runs'[j] \in Nat /\ attempts'[j] = attempts[j]
  BY <1>1 DEF RowRuns
<1>3. runs'[j] <= attempts'[j]
  BY <1>1, <1>2 DEF RowCounts, RowRuns
<1>4. status'[j] = Absent => runs'[j] = 0
  BY <1>1 DEF RowCounts, RowRuns, Absent
<1>5. status'[j] = "QUEUED" => runs'[j] < attempts'[j]
  BY <1>1, <1>2 DEF RowCounts, RowRuns
<1>6. QED
  BY <1>3, <1>4, <1>5 DEF RowCounts

\* A request that a statement of somebody else leaves where it is.
LEMMA RowRunsPlace ==
    ASSUME TypeOK, NEW r \in Request, Place(r), \A j \in Job : RowRuns(j),
           rpc'[r] = rpc[r], rjob'[r] = rjob[r], ratt'[r] = ratt[r],
           Active(r) /\ status[rjob[r]] = "CREATED" => status'[rjob[r]] = status[rjob[r]]
    PROVE  Place(r)'
<1>1. CASE ~Active(r)
  <2>1. rpc[r] \notin Asking
    BY <1>1 DEF Active, Asking, Jobless, FinalPc
  <2>2. QED
    BY <1>1, <2>1 DEF Place, Active
<1>2. CASE Active(r)
  <2>1. rjob[r] \in Job
    BY <1>2, ActiveHasJob DEF TypeOK
  <2>2. RowRuns(rjob[r])
    BY <2>1
  <2>3. QED
    BY <1>2, <2>1, <2>2 DEF Place, Active, RowRuns, Absent
<1>3. QED
  BY <1>1, <1>2

\* The workers and the queue: no request moves.
LEMMA RowRunsKeep ==
    ASSUME RunsInv, \A j \in Job : RowRuns(j), UNCHANGED apiVars,
           \A j \in Job : status[j] = "CREATED" => status'[j] = "CREATED"
    PROVE  (\A j \in Job : RowCounts(j)') /\ (\A r \in Request : Place(r)') /\ CreatorsApart'
<1>1. UNCHANGED <<rpc, rjob, ratt>>
  BY DEF apiVars
<1>2. \A j \in Job : RowCounts(j)'
  BY RowRunsCounts DEF RunsInv, TypeOK
<1>3. ASSUME NEW r \in Request PROVE Place(r)'
  <2>1. Active(r) => rjob[r] \in Job
    BY ActiveHasJob DEF RunsInv, TypeOK
  <2>2. QED
    BY <1>1, <2>1, RowRunsPlace DEF RunsInv
<1>4. CreatorsApart'
  BY <1>1 DEF RunsInv, CreatorsApart, Active
<1>5. QED
  BY <1>2, <1>3, <1>4

\* The requests: r moves to pc.
LEMMA RowRunsMove ==
    ASSUME RunsInv, NEW r \in Request, NEW pc, Goto(r, pc), UNCHANGED <<rjob, ratt>>,
           \A j \in Job : RowRuns(j),
           pc \in Jobless \/ Active(r), pc \notin {"read", "find", "insert"},
           pc \in Asking => /\ r \in RetryReq /\ rpc[r] \in Asking
                            /\ status'[rjob[r]] # "QUEUED"
                            /\ runs'[rjob[r]] = runs[rjob[r]],
           \A q \in Request \ {r} :
              Active(q) /\ status[rjob[q]] = "CREATED" => status'[rjob[q]] = status[rjob[q]]
    PROVE  (\A j \in Job : RowCounts(j)') /\ (\A q \in Request : Place(q)') /\ CreatorsApart'
<1>1. rpc' = [rpc EXCEPT ![r] = pc] /\ rpc \in [Request -> ApiPc]
  BY DEF Goto, RunsInv, TypeOK, ApiTypeOK
<1>2. \A j \in Job : RowCounts(j)'
  BY RowRunsCounts DEF RunsInv, TypeOK
<1>3. ASSUME NEW q \in Request, q # r PROVE Place(q)'
  <2>1. rpc'[q] = rpc[q]
    BY <1>1, <1>3
  <2>2. QED
    BY <1>3, <2>1, RowRunsPlace DEF RunsInv
<1>4. Place(r)'
  <2>1. rpc'[r] = pc
    BY <1>1
  <2>2. CASE pc \in Jobless
    BY <2>1, <2>2 DEF Place, Active, Asking, Jobless, FinalPc
  <2>3. CASE pc \notin Jobless
    <3>1. Active(r) /\ rjob[r] \in Job /\ RowRuns(rjob[r])
      BY <2>3, ActiveHasJob DEF RunsInv, TypeOK
    <3>2. Place(r) /\ r \notin AsyncReq \cap RetryReq /\ r \notin SyncReq \cap RetryReq
      BY RequestAssumption DEF RunsInv
    <3>3. QED
      BY <2>1, <3>1, <3>2 DEF Place, RowRuns, Active, Absent
  <2>4. QED
    BY <2>2, <2>3
<1>5. CreatorsApart'
  BY <1>1 DEF RunsInv, CreatorsApart, Active, Request, Creator
<1>6. QED
  BY <1>2, <1>3, <1>4, <1>5

-----------------------------------------------------------------------------
(* The statements.                                                         *)

LEMMA TransitionRuns ==
    ASSUME StoreTypeOK, NEW j \in Job, NEW from, NEW to, Transition(j, from, to),
           from # Absent, to \notin {Absent, "CREATED", "QUEUED"}
    PROVE  \A i \in Job : RowRuns(i)
BY DEF StoreTypeOK, Transition, Matches, RowRuns

LEMMA TransitionToRunningRuns ==
    ASSUME StoreTypeOK, NEW j \in Job, TransitionToRunning(j)
    PROVE  \A i \in Job : RowRuns(i)
BY DEF StoreTypeOK, TransitionToRunning, Matches, RowRuns

LEMMA StoreUnchangedRuns ==
    ASSUME UNCHANGED <<status, attempts, runs>>
    PROVE  \A i \in Job : RowRuns(i)
BY DEF RowRuns

LEMMA ProcessStepsRuns ==
    ASSUME TypeOK, NEW w \in Worker, ProcessSteps(w)
    PROVE  /\ \A j \in Job : RowRuns(j)
           /\ \A j \in Job : status[j] = "CREATED" => status'[j] = "CREATED"
<1> USE DEF TypeOK
<1>1. CASE MarkRunning(w)
  <2>1. held[w] \in Job
    BY <1>1 DEF MarkRunning, Processing, QueueTypeOK
  <2>2. TransitionToRunning(held[w]) \/ UNCHANGED <<status, attempts, runs>>
    BY <1>1 DEF MarkRunning, DbError, storeVars
  <2>3. \A j \in Job : status[j] = "CREATED" => status'[j] = "CREATED"
    BY <2>1, <2>2 DEF TransitionToRunning, Matches, StoreTypeOK
  <2>4. QED
    BY <2>1, <2>2, <2>3, TransitionToRunningRuns, StoreUnchangedRuns
<1>2. ASSUME NEW at, NEW from \in {"RUNNING", "FAILED", "RETRYING"},
             NEW to \in {"SUCCESS", "RETRYING", "DEAD"}, NEW hit, NEW miss, NEW err,
             WorkerCas(w, at, from, to, hit, miss, err)
      PROVE  /\ \A j \in Job : RowRuns(j)
             /\ \A j \in Job : status[j] = "CREATED" => status'[j] = "CREATED"
  <2>1. held[w] \in Job
    BY <1>2 DEF WorkerCas, Processing, QueueTypeOK
  <2>2. Transition(held[w], from, to) \/ UNCHANGED <<status, attempts, runs>>
    BY <1>2 DEF WorkerCas, DbError, storeVars
  <2>3. \A j \in Job : status[j] = "CREATED" => status'[j] = "CREATED"
    BY <2>1, <2>2 DEF Transition, Matches, StoreTypeOK
  <2>4. from # Absent /\ to \notin {Absent, "CREATED", "QUEUED"}
    BY DEF Absent
  <2>5. QED
    BY <2>1, <2>2, <2>3, <2>4, TransitionRuns, StoreUnchangedRuns
<1>3. CASE MarkSucceeded(w) \/ MarkRetryingAfterFailure(w) \/ MarkDead(w)
  BY <1>2, <1>3 DEF MarkSucceeded, MarkRetryingAfterFailure, MarkDead
<1>4. CASE \/ RunInference(w) \/ CreateResult(w) \/ AckJob(w) \/ AckBeforeRetry(w)
           \/ EnqueueRetry(w) \/ FailJob(w) \/ CreateDeadResult(w)
  <2>1. UNCHANGED <<status, attempts, runs>>
    BY <1>4 DEF RunInference, CreateResult, AckJob, AckBeforeRetry, EnqueueRetry, FailJob,
       CreateDeadResult, InsertResult, DbError, storeVars
  <2>2. QED
    BY <2>1, StoreUnchangedRuns
<1>5. QED
  BY <1>1, <1>3, <1>4 DEF ProcessSteps

LEMMA ApiCasRuns ==
    ASSUME RunsInv, NEW r \in Request, NEW at \in ApiPc \ Jobless,
           NEW from \in {"RUNNING", "FAILED", "CREATED", "QUEUED"},
           NEW to \in {"SUCCESS", "RETRYING", "FAILED"},
           NEW hit, NEW miss, NEW err, ApiCas(r, at, from, to, hit, miss, err),
           {hit, miss, err} \cap {"read", "find", "insert"} = {},
           err \in Jobless,
           hit \in Asking => at \in {"retry1", "retry2"},
           miss \in Asking => at \in {"retry1", "retry2"}
    PROVE  (\A j \in Job : RowCounts(j)') /\ (\A q \in Request : Place(q)') /\ CreatorsApart'
<1>1. rpc[r] = at /\ Active(r) /\ rjob[r] \in Job /\ UNCHANGED <<rjob, ratt>>
  BY ActiveHasJob DEF ApiCas, Active, RunsInv, TypeOK
<1>2. PICK pc \in {hit, miss, err} : Goto(r, pc)
  BY DEF ApiCas
<1>3. Transition(rjob[r], from, to) \/ UNCHANGED storeVars
  BY DEF ApiCas, DbError
<1>4. \A j \in Job : RowRuns(j)
  <2>1. from # Absent /\ to \notin {Absent, "CREATED", "QUEUED"}
    BY DEF Absent
  <2>2. QED
    BY <1>1, <1>3, <2>1, TransitionRuns, StoreUnchangedRuns DEF RunsInv, TypeOK, storeVars
<1>5. \A j \in Job : j # rjob[r] => status'[j] = status[j]
  BY <1>1, <1>3 DEF Transition, storeVars, RunsInv, TypeOK, StoreTypeOK
<1>6. pc \in Asking => /\ r \in RetryReq /\ rpc[r] \in Asking
                       /\ status'[rjob[r]] # "QUEUED"
                       /\ runs'[rjob[r]] = runs[rjob[r]]
  <2> SUFFICES ASSUME pc \in Asking
               PROVE  /\ r \in RetryReq /\ rpc[r] \in Asking
                      /\ status'[rjob[r]] # "QUEUED"
                      /\ runs'[rjob[r]] = runs[rjob[r]]
    OBVIOUS
  <2>1. at \in {"retry1", "retry2"}
    BY <1>2 DEF Asking, Jobless, FinalPc
  <2>2. r \in RetryReq /\ rpc[r] \in Asking /\ status[rjob[r]] # "QUEUED"
    BY <1>1, <2>1 DEF RunsInv, Place, Asking, Request
  <2>3. QED
    BY <1>1, <1>3, <2>2 DEF Transition, Matches, storeVars, RunsInv, TypeOK, StoreTypeOK
<1>7. ASSUME NEW q \in Request \ {r}, Active(q), status[rjob[q]] = "CREATED"
      PROVE  status'[rjob[q]] = status[rjob[q]]
  <2>1. rjob[q] \in Job /\ q \in Creator
    BY <1>7, ActiveHasJob DEF RunsInv, TypeOK, Place, Request, Creator
  <2>2. CASE rjob[q] # rjob[r]
    BY <1>5, <2>1, <2>2
  <2>3. CASE rjob[q] = rjob[r]
    <3>1. r \in RetryReq
      BY <1>1, <1>7, <2>1, <2>3 DEF RunsInv, CreatorsApart, Request, Creator
    <3>2. QED
      BY <1>1, <1>7, <2>3, <3>1 DEF RunsInv, Place
  <2>4. QED
    BY <2>2, <2>3
<1>8. pc \in Jobless \/ Active(r)
  BY <1>1
<1>9. QED
  BY <1>1, <1>2, <1>4, <1>6, <1>7, <1>8, RowRunsMove

LEMMA ApiCasToQueuedRuns ==
    ASSUME RunsInv, RetriesApart, NEW r \in Request,
           NEW at \in {"queue1", "queue2"}, NEW from,
           at = "queue1" => from = "CREATED", at = "queue2" => from = "RETRYING",
           NEW miss, at = "queue1" => miss = "queue2", at = "queue2" => miss = "failed",
           ApiCasToQueued(r, at, from, miss)
    PROVE  (\A j \in Job : RowCounts(j)') /\ (\A q \in Request : Place(q)') /\ CreatorsApart'
<1> DEFINE i == rjob[r]
<1>1. /\ rpc[r] = at /\ Active(r) /\ i \in Job /\ UNCHANGED <<rjob, ratt>>
      /\ at \in Asking
  <2>1. rpc[r] = at
    BY DEF ApiCasToQueued
  <2>2. Active(r) /\ at \in Asking
    BY <2>1 DEF Active, Jobless, FinalPc, Asking
  <2>3. QED
    BY <2>1, <2>2, ActiveHasJob DEF ApiCasToQueued, RunsInv, TypeOK
<1>2. /\ r \notin SyncReq /\ status[i] \notin {Absent, "QUEUED"} /\ runs[i] < ratt[r]
      /\ r \in AsyncReq => at = "queue1" /\ status[i] = "CREATED"
      /\ r \in RetryReq => status[i] # "CREATED"
  BY <1>1 DEF RunsInv, Place
<1>3. ASSUME NEW q \in Request \ {r}, rpc[q] \in Asking
      PROVE  rjob[q] \in Job /\ rjob[q] # i
  <2>1. Active(q) /\ rjob[q] \in Job
    BY <1>3, ActiveHasJob DEF RunsInv, TypeOK, Active, Asking, Jobless, FinalPc
  <2>2. q \in AsyncReq => status[rjob[q]] = "CREATED"
    BY <1>3 DEF RunsInv, Place
  <2>3. q \notin SyncReq /\ (q \in RetryReq => status[rjob[q]] # "CREATED")
    BY <1>3, <2>1 DEF RunsInv, Place
  <2>4. CASE r \in AsyncReq
    BY <1>1, <1>2, <2>1, <2>3, <2>4 DEF RunsInv, CreatorsApart, Creator, Request
  <2>5. CASE r \in RetryReq
    <3>1. CASE q \in RetryReq
      BY <1>1, <2>1, <2>5, <3>1 DEF RetriesApart
    <3>2. CASE q \in AsyncReq
      BY <1>2, <2>1, <2>2, <2>5, <3>2
    <3>3. QED
      BY <2>3, <3>1, <3>2 DEF Request
  <2>6. QED
    BY <1>2, <2>4, <2>5 DEF Request
<1>4. /\ \A j \in Job : j # i => /\ status'[j] = status[j] /\ attempts'[j] = attempts[j]
      /\ runs' = runs
      /\ \/ status'[i] = status[i] /\ attempts'[i] = attempts[i]
         \/ status[i] = from /\ status'[i] = "QUEUED" /\ attempts'[i] = ratt[r]
  BY <1>1 DEF ApiCasToQueued, TransitionToQueued, Matches, DbError, storeVars, RunsInv,
     TypeOK, StoreTypeOK
<1>5. \A j \in Job : RowCounts(j)'
  <2>1. ASSUME NEW j \in Job PROVE RowCounts(j)'
    <3>1. RowCounts(j) /\ runs[j] \in Nat /\ attempts[j] \in Nat /\ ratt[r] \in Nat
      BY DEF RunsInv, TypeOK, StoreTypeOK, ApiTypeOK
    <3>2. "QUEUED" # Absent
      BY DEF Absent
    <3>3. QED
      BY <1>2, <1>4, <3>1, <3>2 DEF RowCounts
  <2>2. QED
    BY <2>1
<1>6. PICK pc \in {"enqueue", miss, "failed"} :
         /\ Goto(r, pc)
         /\ pc = miss /\ at = "queue1" => status[i] # "CREATED" /\ status'[i] = status[i]
  <2>1. CASE TransitionToQueued(i, from, ratt[r]) /\ Goto(r, IF Matches(i, from) THEN "enqueue" ELSE miss)
    <3>1. CASE Matches(i, from)
      BY <2>1, <3>1
    <3>2. CASE ~Matches(i, from)
      BY <1>4, <2>1, <3>2 DEF Matches
    <3>3. QED
      BY <3>1, <3>2
  <2>2. CASE Goto(r, "failed")
    BY <2>2
  <2>3. QED
    BY <2>1, <2>2 DEF ApiCasToQueued
<1>7. rpc' = [rpc EXCEPT ![r] = pc] /\ rpc'[r] = pc
  BY <1>6 DEF Goto, RunsInv, TypeOK, ApiTypeOK
<1>8. ASSUME NEW q \in Request, q # r PROVE Place(q)'
  <2>1. rpc'[q] = rpc[q] /\ rjob' = rjob /\ ratt' = ratt /\ Place(q)
    BY <1>1, <1>7, <1>8 DEF RunsInv
  <2>2. CASE ~Active(q)
    BY <2>1, <2>2 DEF Place, Active, Asking, Jobless, FinalPc
  <2>3. CASE Active(q)
    <3>1. rjob[q] \in Job
      BY <2>3, ActiveHasJob DEF RunsInv, TypeOK
    <3>2. \/ status'[rjob[q]] = status[rjob[q]]
          \/ status'[rjob[q]] = "QUEUED" /\ rjob[q] = i
      <4>1. CASE rjob[q] = i
        BY ONLY <1>4, <4>1
      <4>2. CASE rjob[q] # i
        BY ONLY <1>4, <3>1, <4>2
      <4>3. QED
        BY <4>1, <4>2
    <3>3. "QUEUED" # Absent
      BY DEF Absent
    <3>4. QED
      BY <1>3, <1>4, <1>8, <2>1, <2>3, <3>2, <3>3 DEF Place, Active
  <2>4. QED
    BY <2>2, <2>3
<1>9. Place(r)'
  <2>1. "QUEUED" # Absent
    BY DEF Absent
  <2>2. \/ status'[i] \notin {Absent, "CREATED"}
        \/ status'[i] = status[i] /\ status[i] # Absent /\ (r \in AsyncReq \/ status[i] # "CREATED")
    <3>1. CASE status'[i] = status[i]
      BY <1>2, <3>1 DEF Request
    <3>2. CASE status'[i] = "QUEUED"
      BY <2>1, <3>2
    <3>3. QED
      BY <1>4, <3>1, <3>2
  <2>3. pc = "queue2" => /\ at = "queue1" /\ r \in RetryReq /\ status'[i] = status[i]
    BY <1>2, <1>6 DEF Request
  <2>4. pc \notin {"read", "find", "insert", "retry1", "retry2", "queue1"}
    BY <1>6
  <2>5. r \notin AsyncReq \/ r \notin RetryReq
    BY RequestAssumption
  <2>6. rjob'[r] = i /\ ratt'[r] = ratt[r] /\ runs'[i] = runs[i]
    BY <1>1, <1>4
  <2>7. r \in RetryReq /\ Active(r)' => status'[i] # "CREATED"
    BY <1>2, <2>2, <2>5
  <2>8. Active(r)' => status'[i] # Absent
    BY <1>2, <2>2
  <2>9. QED
    BY <1>2, <1>7, <2>3, <2>4, <2>5, <2>6, <2>7, <2>8 DEF Place, Asking
<1>10. CreatorsApart'
  <2>1. \A q \in Request : Active(q)' => Active(q)
    BY <1>1, <1>7 DEF Active
  <2>2. QED
    BY <1>1, <2>1 DEF RunsInv, CreatorsApart, Creator, Request
<1>11. QED
  BY <1>5, <1>8, <1>9, <1>10

LEMMA CreateJobRuns ==
    ASSUME RunsInv, NEW r \in Request, CreateJob(r)
    PROVE  (\A j \in Job : RowCounts(j)') /\ (\A q \in Request : Place(q)') /\ CreatorsApart'
<1>1. rpc[r] = "insert" /\ r \notin RetryReq /\ ~Active(r)
  BY DEF CreateJob, RunsInv, Place, Active, Jobless
<1>2. \A q \in Request : Active(q) => rjob[q] \in Job /\ status[rjob[q]] # Absent
  BY ActiveHasJob DEF RunsInv, TypeOK, Place
<1>3. ASSUME NEW j \in Job, NewRow(r, j)
      PROVE  /\ status[j] = Absent
             /\ status' = [status EXCEPT ![j] = IF r \in SyncReq THEN "RUNNING" ELSE "CREATED"]
             /\ attempts' = [attempts EXCEPT ![j] = IF r \in SyncReq THEN 1 ELSE 0]
             /\ runs' = IF r \in SyncReq THEN [runs EXCEPT ![j] = @ + 1] ELSE runs
  BY <1>3 DEF NewRow, InsertJob
<1>4. ASSUME NEW j \in Job, NewRow(r, j)
      PROVE  /\ \A i \in Job : RowCounts(i)'
             /\ runs'[j] = IF r \in SyncReq THEN 1 ELSE 0
             /\ \A i \in Job : i # j => status'[i] = status[i] /\ runs'[i] = runs[i]
             /\ status[j] = Absent
             /\ status'[j] = IF r \in SyncReq THEN "RUNNING" ELSE "CREATED"
  <2>1. /\ \A i \in Job : i # j => /\ status'[i] = status[i] /\ runs'[i] = runs[i]
                                   /\ attempts'[i] = attempts[i]
        /\ status'[j] = IF r \in SyncReq THEN "RUNNING" ELSE "CREATED"
        /\ attempts'[j] = IF r \in SyncReq THEN 1 ELSE 0
        /\ runs'[j] = IF r \in SyncReq THEN runs[j] + 1 ELSE runs[j]
        /\ status[j] = Absent
    BY <1>3, <1>4 DEF RunsInv, TypeOK, StoreTypeOK
  <2>2. runs[j] = 0
    BY <2>1 DEF RunsInv, RowCounts
  <2>3. RowCounts(j)'
    <3>1. runs'[j] <= attempts'[j]
      BY <2>1, <2>2
    <3>2. status'[j] # Absent /\ status'[j] # "QUEUED"
      BY <2>1 DEF Absent
    <3>3. QED
      BY <3>1, <3>2 DEF RowCounts
  <2>4. ASSUME NEW i \in Job, i # j PROVE RowCounts(i)'
    BY <2>1, <2>4 DEF RunsInv, RowCounts
  <2>5. QED
    BY <2>1, <2>2, <2>3, <2>4
<1>5. ASSUME NEW j \in Job, NewRow(r, j), NEW q \in Request \ {r}, UNCHANGED <<rpc[q], rjob[q], ratt[q]>>
      PROVE  Place(q)'
  <2>1. Place(q)
    BY DEF RunsInv
  <2>2. CASE ~Active(q)
    BY <1>5, <2>1, <2>2 DEF Place, Active, Asking, Jobless, FinalPc
  <2>3. CASE Active(q)
    <3>1. status'[rjob[q]] = status[rjob[q]] /\ runs'[rjob[q]] = runs[rjob[q]]
      BY <1>2, <1>4, <1>5, <2>3
    <3>2. QED
      BY <1>5, <2>1, <2>3, <3>1 DEF Place, Active
  <2>4. QED
    BY <2>2, <2>3
<1>6. ASSUME NEW j \in Job, NewRow(r, j), rjob' = [rjob EXCEPT ![r] = j],
             ratt' = [ratt EXCEPT ![r] = 1], NEW pc, Goto(r, pc),
             pc = IF r \in SyncReq THEN "infer" ELSE "queue1"
      PROVE  (\A q \in Request : Place(q)') /\ CreatorsApart'
  <2>1. /\ rpc' = [rpc EXCEPT ![r] = pc] /\ rpc'[r] = pc /\ rjob'[r] = j /\ ratt'[r] = 1
        /\ \A q \in Request \ {r} : UNCHANGED <<rpc[q], rjob[q], ratt[q]>>
    BY <1>6 DEF Goto, RunsInv, TypeOK, ApiTypeOK
  <2>2. Place(r)'
    <3>1. "RUNNING" # Absent /\ "CREATED" # Absent
      BY DEF Absent
    <3>2. CASE r \in SyncReq
      BY <1>1, <1>4, <1>6, <2>1, <3>1, <3>2 DEF Place, Asking
    <3>3. CASE r \notin SyncReq
      BY <1>1, <1>4, <1>6, <2>1, <3>1, <3>3 DEF Place, Asking
    <3>4. QED
      BY <3>2, <3>3
  <2>3. ASSUME NEW q \in Request, NEW p \in Request, q \in Creator, p \in Creator,
               Active(q)', Active(p)', rjob'[q] = rjob'[p]
        PROVE  q = p
    <3>1. CASE q = r \/ p = r
      BY <1>2, <1>4, <1>6, <2>1, <2>3, <3>1 DEF Active
    <3>2. CASE q # r /\ p # r
      BY <2>1, <2>3, <3>2 DEF RunsInv, CreatorsApart, Active
    <3>3. QED
      BY <3>1, <3>2
  <2>4. CreatorsApart'
    BY <2>3 DEF CreatorsApart, Creator, Request
  <2>5. QED
    BY <1>5, <1>6, <2>1, <2>2, <2>4
<1>7. CASE UNCHANGED storeVars /\ \E pc \in {"conflict", "failed"} : Goto(r, pc) /\ UNCHANGED <<rjob, ratt>>
  <2>1. \A j \in Job : RowRuns(j)
    BY <1>7, StoreUnchangedRuns DEF storeVars
  <2>2. PICK pc \in {"conflict", "failed"} : Goto(r, pc) /\ UNCHANGED <<rjob, ratt>>
    BY <1>7
  <2>3. pc \in Jobless /\ pc \notin Asking /\ pc \notin {"read", "find", "insert"}
    BY DEF Jobless, FinalPc, Asking
  <2>4. status' = status
    BY <1>7 DEF storeVars
  <2>5. QED
    BY <2>1, <2>2, <2>3, <2>4, RowRunsMove
<1>8. ASSUME NEW j \in Job, NewRow(r, j), Goto(r, "failed"), UNCHANGED <<rjob, ratt>>
      PROVE  (\A q \in Request : Place(q)') /\ CreatorsApart'
  <2>1. rpc' = [rpc EXCEPT ![r] = "failed"] /\ rpc'[r] = "failed"
        /\ \A q \in Request \ {r} : UNCHANGED <<rpc[q], rjob[q], ratt[q]>>
    BY <1>8 DEF Goto, RunsInv, TypeOK, ApiTypeOK
  <2>2. Place(r)'
    BY <2>1 DEF Place, Active, Asking, Jobless, FinalPc
  <2>3. \A q \in Request : Active(q)' => Active(q) /\ rjob'[q] = rjob[q]
    BY <1>8, <2>1 DEF Active, Jobless, FinalPc
  <2>4. CreatorsApart'
    BY <2>3 DEF RunsInv, CreatorsApart, Creator, Request
  <2>5. QED
    BY <1>5, <1>8, <2>1, <2>2, <2>4
<1>9. QED
  <2>1. CASE \E j \in Job : NewRow(r, j) /\ rjob' = [rjob EXCEPT ![r] = j]
                            /\ ratt' = [ratt EXCEPT ![r] = 1]
                            /\ Goto(r, IF r \in SyncReq THEN "infer" ELSE "queue1")
    BY <1>4, <1>6, <2>1
  <2>2. CASE (\E j \in Job : NewRow(r, j)) /\ Goto(r, "failed") /\ UNCHANGED <<rjob, ratt>>
    BY <1>4, <1>8, <2>2
  <2>3. QED
    BY <1>7, <2>1, <2>2 DEF CreateJob, DbError

\* A row with the key is found: the request is through.
LEMMA FindRuns ==
    ASSUME RunsInv, NEW r \in Request, FindByIdempotencyKey(r)
    PROVE  (\A j \in Job : RowCounts(j)') /\ (\A q \in Request : Place(q)') /\ CreatorsApart'
<1>1. rpc[r] = "find" /\ r \notin RetryReq /\ ~Active(r)
  BY DEF FindByIdempotencyKey, RunsInv, Place, Active, Jobless
<1>2. UNCHANGED <<status, attempts, runs, ratt>>
  BY DEF FindByIdempotencyKey, storeVars
<1>3. PICK pc \in {"returned", "insert"} : Goto(r, pc)
  BY DEF FindByIdempotencyKey
<1>4. \A q \in Request \ {r} : rjob'[q] = rjob[q]
  BY DEF FindByIdempotencyKey, RunsInv, TypeOK, ApiTypeOK
<1>5. rpc' = [rpc EXCEPT ![r] = pc] /\ rpc'[r] = pc /\ \A q \in Request \ {r} : rpc'[q] = rpc[q]
  BY <1>3 DEF Goto, RunsInv, TypeOK, ApiTypeOK
<1>6. \A j \in Job : RowCounts(j)'
  BY <1>2 DEF RunsInv, RowCounts
<1>7. ~Active(r)' /\ rpc'[r] \notin Asking /\ rpc'[r] # "read"
  BY <1>5 DEF Active, Jobless, FinalPc, Asking
<1>8. Place(r)'
  BY <1>1, <1>7 DEF Place
<1>9. \A q \in Request \ {r} : Place(q)'
  BY <1>2, <1>4, <1>5 DEF RunsInv, Place, Active
<1>10. CreatorsApart'
  BY <1>4, <1>5, <1>7 DEF RunsInv, CreatorsApart, Active, Creator, Request
<1>11. QED
  BY <1>6, <1>8, <1>9, <1>10

LEMMA ReadJobRuns ==
    ASSUME RunsInv, NEW r \in Request, ReadJob(r)
    PROVE  (\A j \in Job : RowCounts(j)') /\ (\A q \in Request : Place(q)') /\ CreatorsApart'
<1>1. rpc[r] = "read" /\ r \in RetryReq /\ r \notin Creator
  BY RequestAssumption DEF ReadJob, RunsInv, Place, Creator
<1>2. UNCHANGED <<status, attempts, runs>>
  BY DEF ReadJob, storeVars
<1>3. PICK j \in Job : /\ status[j] \in {"FAILED", "DEAD"}
                       /\ rjob' = [rjob EXCEPT ![r] = j]
                       /\ ratt' = [ratt EXCEPT ![r] = attempts[j] + 1]
  BY DEF ReadJob
<1>4. /\ rpc'[r] = "retry1" /\ rjob'[r] = j /\ ratt'[r] = attempts[j] + 1
      /\ \A q \in Request \ {r} : UNCHANGED <<rpc[q], rjob[q], ratt[q]>>
  BY <1>3 DEF ReadJob, Goto, RunsInv, TypeOK, ApiTypeOK
<1>5. \A i \in Job : RowCounts(i)'
  BY <1>2 DEF RunsInv, RowCounts
<1>6. runs'[j] < ratt'[r]
  <2>1. runs[j] \in Nat /\ attempts[j] \in Nat /\ runs[j] <= attempts[j]
    BY DEF RunsInv, RowCounts, TypeOK, StoreTypeOK
  <2>2. QED
    BY <1>2, <1>4, <2>1
<1>7. Place(r)'
  BY <1>1, <1>2, <1>3, <1>4, <1>6 DEF Place, Asking, Absent, Creator
<1>8. \A q \in Request \ {r} : Place(q)'
  BY <1>2, <1>4 DEF RunsInv, Place, Active
<1>9. CreatorsApart'
  BY <1>1, <1>4 DEF RunsInv, CreatorsApart, Active, Creator, Request
<1>10. QED
  BY <1>5, <1>7, <1>8, <1>9

\* A step that leaves the rows alone and moves r on.
LEMMA QuietMoveRuns ==
    ASSUME RunsInv, NEW r \in Request, NEW pc, Goto(r, pc), UNCHANGED <<rjob, ratt>>,
           UNCHANGED <<status, attempts, runs>>, pc \in Jobless \/ Active(r),
           pc \notin {"read", "find", "insert"}, pc \notin Asking
    PROVE  (\A j \in Job : RowCounts(j)') /\ (\A q \in Request : Place(q)') /\ CreatorsApart'
BY StoreUnchangedRuns, RowRunsMove

LEMMA ApiStepsRuns ==
    ASSUME RunsInv, RetriesApart, NEW r \in Request, ApiSteps(r)
    PROVE  (\A j \in Job : RowCounts(j)') /\ (\A q \in Request : Place(q)') /\ CreatorsApart'
<1> DEFINE Goal == (\A j \in Job : RowCounts(j)') /\ (\A q \in Request : Place(q)') /\ CreatorsApart'
<1> HIDE DEF Goal
<1> SUFFICES Goal
  BY DEF Goal
<1>1. CASE FindByIdempotencyKey(r)
  BY <1>1, FindRuns DEF Goal
<1>2. CASE CreateJob(r)
  BY <1>2, CreateJobRuns DEF Goal
<1>3. CASE MarkQueued(r)
  BY <1>3, ApiCasToQueuedRuns DEF MarkQueued, Goal
<1>4. CASE EnqueueJob(r)
  <2>1. PICK pc \in {"returned", "fail1", "failed"} : Goto(r, pc)
    BY <1>4 DEF EnqueueJob
  <2>2. Active(r) /\ pc \notin {"read", "find", "insert"} /\ pc \notin Asking
    BY <1>4 DEF EnqueueJob, Active, Jobless, FinalPc, Asking
  <2>3. UNCHANGED <<rjob, ratt>> /\ UNCHANGED <<status, attempts, runs>>
    BY <1>4 DEF EnqueueJob, storeVars
  <2>4. QED
    BY <2>1, <2>2, <2>3, QuietMoveRuns DEF Goal
<1> USE DEF ApiPc, FinalPc, Jobless, Asking
<1>5. CASE MarkFailed(r)
  BY <1>5, ApiCasRuns DEF MarkFailed, Goal
<1>6. CASE ReadJob(r)
  BY <1>6, ReadJobRuns DEF Goal
<1>7. CASE MarkRetrying(r)
  BY <1>7, ApiCasRuns DEF MarkRetrying, Goal
<1>8. CASE SyncInfer(r) \/ SyncCreateResult(r)
  <2>1. PICK pc \in {"result", "fail1", "succeed"} : Goto(r, pc)
    BY <1>8 DEF SyncInfer, SyncCreateResult
  <2>2. Active(r) /\ pc \notin {"read", "find", "insert"} /\ pc \notin Asking
    BY <1>8 DEF SyncInfer, SyncCreateResult, Active
  <2>3. UNCHANGED <<rjob, ratt>> /\ UNCHANGED <<status, attempts, runs>>
    BY <1>8 DEF SyncInfer, SyncCreateResult, InsertResult, DbError, storeVars
  <2>4. QED
    BY <2>1, <2>2, <2>3, QuietMoveRuns DEF Goal
<1>9. CASE SyncMarkSucceeded(r)
  BY <1>9, ApiCasRuns DEF SyncMarkSucceeded, Goal
<1>10. QED
  BY <1>1, <1>2, <1>3, <1>4, <1>5, <1>6, <1>7, <1>8, <1>9 DEF ApiSteps

LEMMA StepRuns ==
    ASSUME RunsInv, RetriesApart, Next
    PROVE  (\A j \in Job : RowCounts(j)') /\ (\A q \in Request : Place(q)') /\ CreatorsApart'
<1> DEFINE Goal == (\A j \in Job : RowCounts(j)') /\ (\A q \in Request : Place(q)') /\ CreatorsApart'
<1> HIDE DEF Goal
<1> SUFFICES Goal
  BY DEF Goal
<1>1. ASSUME NEW r \in Request, Serve(r)
      PROVE  Goal
  BY <1>1, ApiStepsRuns DEF Serve, Goal
<1>2. ASSUME NEW r \in Request, Abandon(r)
      PROVE  Goal
  <2>1. "failed" \in Jobless /\ "failed" \notin Asking
    BY DEF Jobless, FinalPc, Asking
  <2>2. Goto(r, "failed") /\ UNCHANGED <<rjob, ratt>> /\ UNCHANGED <<status, attempts, runs>>
    BY <1>2 DEF Abandon, RequestDies, storeVars
  <2>3. QED
    BY <2>1, <2>2, QuietMoveRuns DEF Goal
<1>3. ASSUME NEW w \in Worker, Process(w)
      PROVE  Goal
  BY <1>3, ProcessStepsRuns, RowRunsKeep DEF Process, RunsInv, Goal
<1>4. CASE \/ \E w \in Worker : Dequeue(w) \/ WaitTooLong(w) \/ Crash(w)
           \/ \E j \in Job : TimePasses(j)
           \/ Housekeep
           \/ RedisFails
  <2>1. UNCHANGED storeVars /\ UNCHANGED apiVars
    BY <1>4 DEF Dequeue, WaitTooLong, Crash, TimePasses, Housekeep, RedisFails, InQueue
  <2>2. QED
    BY <2>1, StoreUnchangedRuns, RowRunsKeep DEF storeVars, Goal
<1>5. QED
  BY <1>1, <1>2, <1>3, <1>4 DEF Next

LEMMA InitRuns == Init => RunsInv
<1> SUFFICES ASSUME Init PROVE RunsInv
  OBVIOUS
<1>1. TypeOK
  BY InitType
<1>2. ASSUME NEW j \in Job PROVE RowCounts(j)
  <2>1. status[j] = Absent /\ runs[j] = 0 /\ attempts[j] = 0 /\ Absent # "QUEUED"
    BY DEF Init, StoreInit, Absent
  <2>2. QED
    BY <2>1 DEF RowCounts
<1>3. ASSUME NEW r \in Request PROVE Place(r) /\ ~Active(r)
  BY RequestAssumption DEF Init, ApiInit, StartPc, Place, Active, Jobless, FinalPc, Asking
<1>4. QED
  BY <1>1, <1>2, <1>3 DEF RunsInv, CreatorsApart, Creator, Request

\* Whatever fails, crashes or is redelivered, a job runs as often as somebody
\* asked for it to be queued, as long as no client retries a job a second time
\* while its Retry is under way: Retry reads attempts and MarkQueued writes
\* attempts + 1 in two statements, so two of them count once.
THEOREM RunsAreCounted == Spec /\ []RetriesApart => []RunsWithinAttempts
<1>1. RunsInv /\ RetriesApart /\ [Next]_vars => RunsInv'
  <2>1. ASSUME RunsInv, RetriesApart, Next PROVE RunsInv'
    BY <2>1, StepType, StepRuns DEF RunsInv
  <2>2. ASSUME RunsInv, UNCHANGED vars PROVE RunsInv'
    <3>1. UNCHANGED storeVars /\ UNCHANGED apiVars
      BY <2>2 DEF vars
    <3>2. (\A j \in Job : RowCounts(j)') /\ (\A q \in Request : Place(q)') /\ CreatorsApart'
      BY <2>2, <3>1, StoreUnchangedRuns, RowRunsKeep DEF storeVars
    <3>3. QED
      BY <2>2, <3>2, StutterType DEF RunsInv
  <2>3. QED
    BY <2>1, <2>2
<1>2. RunsInv => RunsWithinAttempts
  BY DEF RunsInv, RowCounts, RunsWithinAttempts
<1>3. QED
  BY InitRuns, <1>1, <1>2, PTL DEF Spec

-----------------------------------------------------------------------------
(* Executors.                                                              *)

\* From MarkRunning until the worker gives the row up; CreateSync the same.
WorkPc  == {"infer", "result", "succeed", "retry1", "retry2", "markdead", "fail", "deadresult"}
ServePc == {"infer", "result", "succeed", "fail1"}

Works(w)  == dq[w] = "have" /\ wpc[w] \in WorkPc
Serves(r) == rpc[r] \in ServePc

\* As long as Redis answers, a statement that is not the row's own finds it elsewhere.
Reach(r) ==
    /\ rpc[r] \notin {"fail2", "fail3", "retry2"}
    /\ rpc[r] = "read" => r \in RetryReq
    /\ Serves(r) => r \in SyncReq /\ status[rjob[r]] = "RUNNING"
    /\ rpc[r] = "retry1" => r \in RetryReq /\ status[rjob[r]] = "FAILED"

Computing(w) == Works(w) => status[held[w]] = "RUNNING"

OwnersApart ==
    /\ \A v, w \in Worker : Works(v) /\ Works(w) /\ held[v] = held[w] => v = w
    /\ \A q, r \in Request : Serves(q) /\ Serves(r) /\ rjob[q] = rjob[r] => q = r
    /\ \A w \in Worker, r \in Request : Works(w) /\ Serves(r) => held[w] # rjob[r]

ExecInv ==
    /\ TypeOK
    /\ \A j \in Job : status[j] # "DEAD"
    /\ \A r \in Request : Reach(r)
    /\ \A w \in Worker : Computing(w)
    /\ OwnersApart

NextExec ==
    /\ \A j \in Job : status'[j] # "DEAD"
    /\ \A r \in Request : Reach(r)'
    /\ \A w \in Worker : Computing(w)'
    /\ OwnersApart'

LEMMA WorksHolds == QueueTypeOK => \A w \in Worker : Works(w) => held[w] \in Job
BY DEF QueueTypeOK, Works

LEMMA ServesHasJob == ApiTypeOK => \A r \in Request : Serves(r) \/ rpc[r] = "retry1" => rjob[r] \in Job
BY DEF ApiTypeOK, Serves, ServePc, FinalPc

-----------------------------------------------------------------------------
(* A worker in process.                                                    *)

\* What its step does to its own job; nobody else's row changes.
WorkerStep(w) ==
    LET i == held[w]
    IN  /\ \A j \in Job \ {i} : status'[j] = status[j]
        /\ \/ status'[i] = status[i]
           \/ Works(w) /\ ~Works(w)'
           \/ status[i] = "QUEUED" /\ status'[i] = "RUNNING"
        /\ Works(w)' => /\ held'[w] = i /\ status'[i] = "RUNNING"
                        /\ Works(w) \/ status[i] = "QUEUED"
        /\ status'[i] # "DEAD"

LEMMA ProcessStepsOwn ==
    ASSUME ExecInv, NEW w \in Worker, ProcessSteps(w)
    PROVE  WorkerStep(w) /\ held[w] \in Job
<1> DEFINE i == held[w]
<1>1. dq[w] = "have" /\ i \in Job
  <2>1. dq[w] = "have"
    BY DEF ProcessSteps, MarkRunning, RunInference, CreateResult, MarkSucceeded, AckJob,
       MarkRetryingAfterFailure, AckBeforeRetry, EnqueueRetry, MarkDead, FailJob,
       CreateDeadResult, WorkerCas, Processing
  <2>2. QED
    BY <2>1 DEF ExecInv, TypeOK, QueueTypeOK
<1>2. /\ status \in [Job -> JobStatus \cup {Absent}] /\ wpc \in [Worker -> WorkerPc]
      /\ dq \in [Worker -> {"idle", "sweep", "pop", "brpop", "move", "fetch", "have"}]
  BY DEF ExecInv, TypeOK, StoreTypeOK, WorkerTypeOK, QueueTypeOK
<1>3. (Works(w) => status[i] = "RUNNING") /\ status[i] # "DEAD"
  BY <1>1 DEF ExecInv, Computing
<1>4. CASE MarkRunning(w)
  <2>1. dq' = dq /\ held' = held /\ wpc[w] = "mark"
    BY <1>4 DEF MarkRunning, Processing, queueVars, dequeueVars
  <2>2. CASE TransitionToRunning(i) /\ Proceed(w, IF Matches(i, "QUEUED") THEN "infer" ELSE "ack")
    BY <1>1, <1>2, <1>3, <2>1, <2>2
    DEF TransitionToRunning, Matches, Proceed, WorkerStep, Works, WorkPc
  <2>3. CASE DbError(TransitionToRunning(i)) /\ Proceed(w, "ack")
    BY <1>1, <1>2, <1>3, <2>1, <2>3
    DEF TransitionToRunning, Matches, Proceed, WorkerStep, Works, WorkPc, DbError, storeVars
  <2>4. QED
    BY <1>4, <2>2, <2>3 DEF MarkRunning
<1>5. CASE RunInference(w) \/ CreateResult(w)
  <2>1. dq' = dq /\ held' = held /\ status' = status /\ Works(w)
    BY <1>5 DEF RunInference, CreateResult, queueVars, dequeueVars, storeVars, DbError,
       InsertResult, Works, WorkPc, Processing
  <2>2. QED
    BY <1>1, <1>3, <2>1 DEF WorkerStep
<1>6. CASE MarkSucceeded(w)
  <2>1. dq' = dq /\ held' = held /\ Works(w) /\ wpc' = [wpc EXCEPT ![w] = "ack"]
    BY <1>6 DEF MarkSucceeded, WorkerCas, Proceed, queueVars, dequeueVars, Works, WorkPc, Processing
  <2>2. ~Works(w)'
    BY <1>2, <2>1 DEF Works, WorkPc
  <2>3. Transition(i, "RUNNING", "SUCCESS") \/ UNCHANGED storeVars
    BY <1>6 DEF MarkSucceeded, WorkerCas, DbError
  <2>4. QED
    BY <1>1, <1>2, <1>3, <2>1, <2>2, <2>3 DEF WorkerStep, Transition, Matches, storeVars
<1>7. CASE MarkRetryingAfterFailure(w)
  <2>1. dq' = dq /\ held' = held /\ Works(w) /\ status[i] = "RUNNING"
    BY <1>3, <1>7 DEF MarkRetryingAfterFailure, WorkerCas, queueVars, dequeueVars, Works, WorkPc,
       Processing
  <2>2. CASE WorkerCas(w, "retry1", "FAILED", "RETRYING", "ackretry", "retry2", "ackretry")
    <3>1. status' = status
      BY <2>1, <2>2 DEF WorkerCas, Transition, Matches, DbError, storeVars
    <3>2. QED
      BY <1>1, <1>3, <2>1, <3>1 DEF WorkerStep
  <2>3. CASE WorkerCas(w, "retry2", "RUNNING", "RETRYING", "ackretry", "ackretry", "ackretry")
    <3>1. wpc' = [wpc EXCEPT ![w] = "ackretry"]
      BY <2>3 DEF WorkerCas, Proceed
    <3>2. ~Works(w)'
      BY <1>2, <3>1 DEF Works, WorkPc
    <3>3. Transition(i, "RUNNING", "RETRYING") \/ UNCHANGED storeVars
      BY <2>3 DEF WorkerCas, DbError
    <3>4. QED
      BY <1>1, <1>2, <1>3, <2>1, <3>2, <3>3 DEF WorkerStep, Transition, Matches, storeVars
  <2>4. QED
    BY <1>7, <2>2, <2>3 DEF MarkRetryingAfterFailure
<1>8. CASE MarkDead(w)
  <2>1. dq' = dq /\ held' = held /\ Works(w) /\ status[i] = "RUNNING"
    BY <1>3, <1>8 DEF MarkDead, WorkerCas, queueVars, dequeueVars, Works, WorkPc, Processing
  <2>2. status' = status
    BY <1>8, <2>1 DEF MarkDead, WorkerCas, Transition, Matches, DbError, storeVars
  <2>3. QED
    BY <1>1, <1>3, <2>1, <2>2 DEF WorkerStep
<1>9. CASE AckBeforeRetry(w) \/ FailJob(w)
  <2>1. dq' = dq /\ held' = held /\ status' = status
    BY <1>9 DEF AckBeforeRetry, FailJob, dequeueVars, storeVars
  <2>2. Works(w) \/ ~Works(w)'
    BY <1>2, <1>9 DEF AckBeforeRetry, FailJob, Proceed, Processing, Works, WorkPc
  <2>3. QED
    BY <1>1, <1>3, <2>1, <2>2 DEF WorkerStep
<1>10. CASE AckJob(w) \/ EnqueueRetry(w) \/ CreateDeadResult(w)
  <2>1. status' = status /\ dq'[w] = "idle"
    BY <1>2, <1>10 DEF AckJob, EnqueueRetry, CreateDeadResult, ReturnToLoop, Release, InsertResult,
       DbError, storeVars
  <2>2. ~Works(w)'
    BY <2>1 DEF Works
  <2>3. status'[i] = status[i] /\ \A j \in Job \ {i} : status'[j] = status[j]
    BY <2>1
  <2>4. QED
    BY <1>1, <1>3, <2>2, <2>3 DEF WorkerStep
<1>11. QED
  BY <1>1, <1>4, <1>5, <1>6, <1>7, <1>8, <1>9, <1>10 DEF ProcessSteps

LEMMA ProcessExec ==
    ASSUME ExecInv, NEW w \in Worker, Process(w)
    PROVE  NextExec
<1> DEFINE i == held[w]
<1>1. /\ i \in Job /\ UNCHANGED <<rpc, rjob>>
      /\ \A j \in Job \ {i} : status'[j] = status[j]
      /\ \/ status'[i] = status[i]
         \/ Works(w) /\ ~Works(w)'
         \/ status[i] = "QUEUED" /\ status'[i] = "RUNNING"
      /\ Works(w)' => /\ held'[w] = i /\ status'[i] = "RUNNING"
                      /\ Works(w) \/ status[i] = "QUEUED"
      /\ status'[i] # "DEAD"
  BY ProcessStepsOwn DEF Process, WorkerStep, apiVars
<1>2. \A v \in Worker \ {w} : (Works(v)' <=> Works(v)) /\ held'[v] = held[v]
  BY WorkerArrives DEF Process, ExecInv, Works
<1>3. \A v \in Worker : Works(v) => held[v] \in Job /\ status[held[v]] = "RUNNING"
  BY WorksHolds DEF ExecInv, TypeOK, Computing
<1>4. \A r \in Request : Serves(r) \/ rpc[r] = "retry1" => rjob[r] \in Job
  BY ServesHasJob DEF ExecInv, TypeOK
<1>5. \A r \in Request : (Serves(r)' <=> Serves(r)) /\ rjob'[r] = rjob[r]
  BY <1>1 DEF Serves
<1>6. \A j \in Job : status'[j] # "DEAD"
  BY <1>1 DEF ExecInv
<1>7. ASSUME NEW r \in Request PROVE Reach(r)'
  <2>1. Reach(r)
    BY DEF ExecInv
  <2>2. ASSUME Serves(r) PROVE status'[rjob[r]] = "RUNNING"
    <3>1. rjob[r] \in Job /\ status[rjob[r]] = "RUNNING"
      BY <1>4, <2>1, <2>2 DEF Reach
    <3>2. Works(w) => rjob[r] # i
      BY <2>2 DEF ExecInv, OwnersApart
    <3>3. QED
      BY <1>1, <3>1, <3>2
  <2>3. ASSUME rpc[r] = "retry1" PROVE status'[rjob[r]] = "FAILED"
    <3>1. rjob[r] \in Job /\ status[rjob[r]] = "FAILED"
      BY <1>4, <2>1, <2>3 DEF Reach
    <3>2. QED
      BY <1>1, <1>3, <3>1
  <2>4. QED
    BY <1>1, <1>5, <2>1, <2>2, <2>3 DEF Reach
<1>8. ASSUME NEW v \in Worker PROVE Computing(v)'
  <2>1. CASE v = w
    BY <1>1, <2>1 DEF Computing
  <2>2. CASE v # w
    <3> SUFFICES ASSUME Works(v)' PROVE status'[held'[v]] = "RUNNING"
      BY DEF Computing
    <3>1. Works(v) /\ held'[v] = held[v] /\ held[v] \in Job /\ status[held[v]] = "RUNNING"
      BY <1>2, <1>3, <2>2
    <3>2. Works(w) => held[v] # i
      BY <2>2, <3>1 DEF ExecInv, OwnersApart
    <3>3. QED
      BY <1>1, <3>1, <3>2
  <2>3. QED
    BY <2>1, <2>2
<1>9. OwnersApart'
  <2>1. ASSUME NEW v \in Worker, NEW u \in Worker, Works(v)', Works(u)', held'[v] = held'[u]
        PROVE  v = u
    <3>1. \A x \in Worker : Works(x) /\ held[x] = i /\ Works(w)' => x = w
      BY <1>1, <1>3 DEF ExecInv, OwnersApart
    <3>2. QED
      BY <1>1, <1>2, <2>1, <3>1 DEF ExecInv, OwnersApart
  <2>2. ASSUME NEW v \in Worker, NEW r \in Request, Works(v)', Serves(r)
        PROVE  held'[v] # rjob[r]
    <3>1. CASE v # w
      BY <1>2, <2>2, <3>1 DEF ExecInv, OwnersApart
    <3>2. CASE v = w
      <4>1. status[rjob[r]] = "RUNNING"
        BY <2>2 DEF ExecInv, Reach
      <4>2. Works(w) => i # rjob[r]
        BY <2>2 DEF ExecInv, OwnersApart
      <4>3. QED
        BY <1>1, <2>2, <3>2, <4>1, <4>2
    <3>3. QED
      BY <3>1, <3>2
  <2>3. QED
    BY <1>5, <2>1, <2>2 DEF OwnersApart, ExecInv
<1>10. QED
  BY <1>6, <1>7, <1>8, <1>9 DEF NextExec

-----------------------------------------------------------------------------
(* A request.                                                              *)

\* What its step does: every job is left alone, or is one that nobody computes,
\* or is the one the request gives up.
RequestStep(r) ==
    /\ \A j \in Job :
        \/ status'[j] = status[j]
        \/ status[j] \in {Absent, "CREATED", "RETRYING"}
        \/ Serves(r) /\ rjob[r] = j /\ ~Serves(r)'
        \/ rpc[r] = "retry1" /\ rjob[r] = j
    /\ \A j \in Job : status'[j] # "DEAD"
    /\ rpc'[r] \notin {"fail2", "fail3", "retry2"}
    /\ rpc'[r] = "read" => r \in RetryReq
    /\ rpc'[r] = "retry1" => r \in RetryReq /\ status'[rjob'[r]] = "FAILED"
    /\ Serves(r)' => /\ r \in SyncReq /\ rjob'[r] \in Job /\ status'[rjob'[r]] = "RUNNING"
                     /\ \/ Serves(r) /\ rjob'[r] = rjob[r]
                        \/ status[rjob'[r]] = Absent

LEMMA CasRequestStep ==
    ASSUME ExecInv, NEW r \in Request, NEW at, NEW from, NEW to, to # "DEAD",
           NEW hit, NEW miss, NEW err, ApiCas(r, at, from, to, hit, miss, err),
           hit \notin ServePc \cup {"fail2", "fail3", "retry1", "retry2", "read"},
           err \notin ServePc \cup {"fail2", "fail3", "retry1", "retry2", "read"},
           status[rjob[r]] = from, rjob[r] \in Job, at \in ServePc \cup {"retry1"}
    PROVE  RequestStep(r)
<1>1. rpc[r] = at /\ rpc \in [Request -> ApiPc] /\ status \in [Job -> JobStatus \cup {Absent}]
  BY DEF ApiCas, ExecInv, TypeOK, ApiTypeOK, StoreTypeOK
<1>2. rpc' = [rpc EXCEPT ![r] = hit] \/ rpc' = [rpc EXCEPT ![r] = err]
  BY DEF ApiCas, Goto, Matches
<1>3. ~Serves(r)' /\ rpc'[r] \notin {"fail2", "fail3", "retry1", "retry2", "read"}
  BY <1>1, <1>2 DEF Serves
<1>4. status' = [status EXCEPT ![rjob[r]] = to] \/ status' = status
  BY DEF ApiCas, Transition, Matches, DbError, storeVars
<1>5. \A j \in Job : status[j] # "DEAD"
  BY DEF ExecInv
<1>6. \A j \in Job : status'[j] # "DEAD" /\ (j # rjob[r] => status'[j] = status[j])
  BY <1>1, <1>4, <1>5
<1>7. Serves(r) \/ rpc[r] = "retry1"
  BY <1>1 DEF Serves
<1>8. QED
  BY <1>3, <1>6, <1>7 DEF RequestStep

LEMMA CasToQueuedRequestStep ==
    ASSUME ExecInv, NEW r \in Request, NEW at \in {"queue1", "queue2"},
           NEW from \in {"CREATED", "RETRYING"}, NEW miss \in {"queue2", "failed"},
           ApiCasToQueued(r, at, from, miss)
    PROVE  RequestStep(r)
<1>1. /\ rjob[r] \in Job /\ rpc \in [Request -> ApiPc] /\ status \in [Job -> JobStatus \cup {Absent}]
      /\ \A j \in Job : status[j] # "DEAD"
  BY DEF ApiCasToQueued, ExecInv, TypeOK, ApiTypeOK, StoreTypeOK, FinalPc
<1>2. \E pc \in {"enqueue", "queue2", "failed"} : rpc' = [rpc EXCEPT ![r] = pc]
  BY DEF ApiCasToQueued, Goto
<1>3. ~Serves(r)' /\ rpc'[r] \notin {"fail2", "fail3", "retry1", "retry2", "read"}
  BY <1>1, <1>2 DEF Serves, ServePc
<1>4. \/ status' = status
      \/ status[rjob[r]] = from /\ status' = [status EXCEPT ![rjob[r]] = "QUEUED"]
  BY DEF ApiCasToQueued, TransitionToQueued, Matches, DbError, storeVars
<1>5. QED
  BY <1>1, <1>3, <1>4 DEF RequestStep

LEMMA CreateJobRequestStep ==
    ASSUME ExecInv, NEW r \in Request, CreateJob(r)
    PROVE  RequestStep(r)
<1>1. /\ rpc \in [Request -> ApiPc] /\ status \in [Job -> JobStatus \cup {Absent}]
      /\ rjob \in [Request -> Job \cup {NoJob}]
      /\ \A j \in Job : status[j] # "DEAD"
  BY DEF ExecInv, TypeOK, ApiTypeOK, StoreTypeOK
<1>2. ASSUME NEW j \in Job, NewRow(r, j)
      PROVE  /\ status[j] = Absent
             /\ \A i \in Job \ {j} : status'[i] = status[i]
             /\ status'[j] = IF r \in SyncReq THEN "RUNNING" ELSE "CREATED"
  BY <1>1, <1>2 DEF NewRow, InsertJob
<1>3. CASE \E j \in Job : NewRow(r, j) /\ rjob' = [rjob EXCEPT ![r] = j]
                          /\ Goto(r, IF r \in SyncReq THEN "infer" ELSE "queue1")
  <2>1. PICK j \in Job : NewRow(r, j) /\ rjob' = [rjob EXCEPT ![r] = j]
                         /\ Goto(r, IF r \in SyncReq THEN "infer" ELSE "queue1")
    BY <1>3
  <2>2. /\ rjob'[r] = j /\ rpc'[r] = IF r \in SyncReq THEN "infer" ELSE "queue1"
        /\ status[j] = Absent
        /\ \A i \in Job \ {j} : status'[i] = status[i]
        /\ status'[j] = IF r \in SyncReq THEN "RUNNING" ELSE "CREATED"
    BY <1>1, <1>2, <2>1 DEF Goto
  <2>3. QED
    BY <1>1, <2>2 DEF RequestStep, Serves, ServePc
<1>4. CASE UNCHANGED storeVars /\ \E pc \in {"conflict", "failed"} : Goto(r, pc)
  <2>1. status' = status /\ rpc'[r] \in {"conflict", "failed"}
    BY <1>1, <1>4 DEF storeVars, Goto
  <2>2. QED
    BY <1>1, <2>1 DEF RequestStep, Serves, ServePc
<1>5. CASE (\E j \in Job : NewRow(r, j)) /\ Goto(r, "failed")
  <2>1. PICK j \in Job : /\ status[j] = Absent
                         /\ \A i \in Job \ {j} : status'[i] = status[i]
                         /\ status'[j] \in {"RUNNING", "CREATED"}
    BY <1>2, <1>5
  <2>2. rpc'[r] = "failed"
    BY <1>1, <1>5 DEF Goto
  <2>3. QED
    BY <1>1, <2>1, <2>2 DEF RequestStep, Serves, ServePc
<1>6. QED
  BY <1>3, <1>4, <1>5 DEF CreateJob, DbError

LEMMA ApiStepsOwn ==
    ASSUME ExecInv, "redis" \notin Faults, NEW r \in Request, ApiSteps(r)
    PROVE  RequestStep(r)
<1>1. /\ rpc \in [Request -> ApiPc] /\ status \in [Job -> JobStatus \cup {Absent}]
      /\ rjob \in [Request -> Job \cup {NoJob}]
      /\ \A j \in Job : status[j] # "DEAD"
  BY DEF ExecInv, TypeOK, ApiTypeOK, StoreTypeOK
<1>2. Reach(r) /\ (Serves(r) \/ rpc[r] = "retry1" => rjob[r] \in Job)
  BY ServesHasJob DEF ExecInv, TypeOK
<1>3. ASSUME UNCHANGED storeVars, NEW pc, Goto(r, pc),
             pc \notin ServePc \cup {"fail2", "fail3", "retry1", "retry2", "read"}
      PROVE  RequestStep(r)
  <2>1. status' = status /\ rpc'[r] = pc
    BY <1>1, <1>3 DEF storeVars, Goto
  <2>2. QED
    BY <1>1, <1>3, <2>1 DEF RequestStep, Serves
<1>4. CASE FindByIdempotencyKey(r)
  BY <1>3, <1>4 DEF FindByIdempotencyKey, ServePc
<1>5. CASE CreateJob(r)
  BY <1>5, CreateJobRequestStep
<1>6. CASE MarkQueued(r)
  BY <1>6, CasToQueuedRequestStep DEF MarkQueued
<1>7. CASE EnqueueJob(r)
  BY <1>3, <1>7 DEF EnqueueJob, RedisError, ServePc
<1>8. CASE MarkFailed(r)
  <2>1. ApiCas(r, "fail1", "RUNNING", "FAILED", "failed", "fail2", "failed")
    BY <1>2, <1>8 DEF MarkFailed, Reach, ApiCas
  <2>2. rpc[r] = "fail1" /\ Serves(r)
    BY <2>1 DEF ApiCas, Serves, ServePc
  <2>3. QED
    BY <1>2, <2>1, <2>2, CasRequestStep DEF ServePc, Reach
<1>9. CASE ReadJob(r)
  <2>1. r \in RetryReq /\ status' = status /\ rpc'[r] = "retry1"
    BY <1>1, <1>2, <1>9 DEF ReadJob, Reach, storeVars, Goto
  <2>2. status[rjob'[r]] = "FAILED"
    BY <1>1, <1>9 DEF ReadJob
  <2>3. QED
    BY <1>1, <2>1, <2>2 DEF RequestStep, Serves, ServePc
<1>10. CASE MarkRetrying(r)
  <2>1. ApiCas(r, "retry1", "FAILED", "RETRYING", "queue1", "retry2", "failed")
    BY <1>2, <1>10 DEF MarkRetrying, Reach, ApiCas
  <2>2. rpc[r] = "retry1"
    BY <2>1 DEF ApiCas
  <2>3. QED
    BY <1>2, <2>1, <2>2, CasRequestStep DEF ServePc, Reach
<1>11. CASE SyncInfer(r) \/ SyncCreateResult(r)
  <2>1. PICK pc \in {"result", "fail1", "succeed"} : Goto(r, pc)
    BY <1>11 DEF SyncInfer, SyncCreateResult
  <2>2. status' = status /\ rjob' = rjob /\ Serves(r) /\ rpc'[r] = pc
    BY <1>1, <1>11, <2>1
    DEF SyncInfer, SyncCreateResult, InsertResult, DbError, storeVars, Serves, ServePc, Goto
  <2>3. QED
    BY <1>1, <1>2, <2>2 DEF RequestStep, Reach
<1>12. CASE SyncMarkSucceeded(r)
  <2>1. rpc[r] = "succeed" /\ Serves(r)
    BY <1>12 DEF SyncMarkSucceeded, ApiCas, Serves, ServePc
  <2>2. QED
    BY <1>2, <1>12, <2>1, CasRequestStep DEF SyncMarkSucceeded, ServePc, Reach
<1>13. QED
  BY <1>4, <1>5, <1>6, <1>7, <1>8, <1>9, <1>10, <1>11, <1>12 DEF ApiSteps

LEMMA RequestStepExec ==
    ASSUME ExecInv, RetriesApart, NEW r \in Request, RequestStep(r),
           UNCHANGED <<dq, wpc, held>>,
           \A q \in Request \ {r} : rpc'[q] = rpc[q] /\ rjob'[q] = rjob[q]
    PROVE  NextExec
<1>1. \A v \in Worker : Works(v) => held[v] \in Job /\ status[held[v]] = "RUNNING"
  BY WorksHolds DEF ExecInv, TypeOK, Computing
<1>2. \A q \in Request : Serves(q) => rjob[q] \in Job /\ status[rjob[q]] = "RUNNING"
  BY ServesHasJob DEF ExecInv, TypeOK, Reach
<1>3. \A v \in Worker : (Works(v)' <=> Works(v)) /\ held'[v] = held[v]
  BY DEF Works
<1>4. \A q \in Request \ {r} : (Serves(q)' <=> Serves(q)) /\ rjob'[q] = rjob[q]
  BY DEF Serves
<1>5. "RUNNING" # Absent
  BY DEF Absent
<1>6. \A j \in Job : status'[j] # "DEAD"
  BY DEF RequestStep
<1>7. rpc[r] = "retry1" => status[rjob[r]] = "FAILED"
  BY DEF ExecInv, Reach
<1>8. ASSUME NEW v \in Worker PROVE Computing(v)'
  <2> SUFFICES ASSUME Works(v) PROVE status'[held[v]] = "RUNNING"
    BY <1>3 DEF Computing
  <2>1. held[v] \in Job /\ status[held[v]] = "RUNNING"
    BY <1>1
  <2>2. ~(Serves(r) /\ rjob[r] = held[v])
    BY DEF ExecInv, OwnersApart
  <2>3. QED
    BY <1>5, <1>7, <2>1, <2>2 DEF RequestStep
<1>9. ASSUME NEW q \in Request, q # r PROVE Reach(q)'
  <2>1. Reach(q)
    BY DEF ExecInv
  <2>2. ASSUME Serves(q) PROVE status'[rjob[q]] = "RUNNING"
    <3>1. ~(Serves(r) /\ rjob[r] = rjob[q])
      BY <1>9, <2>2 DEF ExecInv, OwnersApart
    <3>2. QED
      BY <1>2, <1>5, <1>7, <2>2, <3>1 DEF RequestStep
  <2>3. ASSUME rpc[q] = "retry1" PROVE status'[rjob[q]] = "FAILED"
    <3>1. rjob[q] \in Job /\ status[rjob[q]] = "FAILED" /\ q \in RetryReq /\ Active(q)
      BY <2>1, <2>3, ServesHasJob DEF Reach, Active, Jobless, FinalPc, ExecInv, TypeOK
    <3>2. ~(rpc[r] = "retry1" /\ rjob[r] = rjob[q])
      BY <1>9, <3>1 DEF RetriesApart, ExecInv, Reach, Active, Jobless, FinalPc
    <3>3. ~(Serves(r) /\ rjob[r] = rjob[q])
      BY <1>2, <3>1
    <3>4. "FAILED" # Absent
      BY DEF Absent
    <3>5. QED
      BY <3>1, <3>2, <3>3, <3>4 DEF RequestStep
  <2>4. QED
    BY <1>4, <1>9, <2>1, <2>2, <2>3 DEF Reach
<1>10. Reach(r)'
  BY DEF RequestStep, Reach
<1>11. OwnersApart'
  <2>1. ASSUME NEW q \in Request, q # r, Serves(r)', Serves(q)
        PROVE  rjob'[r] # rjob[q]
    <3>1. status[rjob[q]] # Absent
      BY <1>2, <1>5, <2>1
    <3>2. CASE Serves(r) /\ rjob'[r] = rjob[r]
      BY <2>1, <3>2 DEF ExecInv, OwnersApart
    <3>3. QED
      BY <2>1, <3>1, <3>2 DEF RequestStep
  <2>2. ASSUME NEW v \in Worker, Serves(r)', Works(v)
        PROVE  held[v] # rjob'[r]
    <3>1. status[held[v]] # Absent
      BY <1>1, <1>5, <2>2
    <3>2. CASE Serves(r) /\ rjob'[r] = rjob[r]
      BY <2>2, <3>2 DEF ExecInv, OwnersApart
    <3>3. QED
      BY <2>2, <3>1, <3>2 DEF RequestStep
  <2>3. ASSUME NEW p \in Request, NEW q \in Request, Serves(p)', Serves(q)', rjob'[p] = rjob'[q]
        PROVE  p = q
    BY <1>4, <2>1, <2>3 DEF ExecInv, OwnersApart
  <2>4. ASSUME NEW v \in Worker, NEW q \in Request, Works(v)', Serves(q)'
        PROVE  held'[v] # rjob'[q]
    BY <1>3, <1>4, <2>2, <2>4 DEF ExecInv, OwnersApart
  <2>5. QED
    BY <1>3, <2>3, <2>4 DEF ExecInv, OwnersApart
<1>12. QED
  BY <1>6, <1>8, <1>9, <1>10, <1>11 DEF NextExec

-----------------------------------------------------------------------------
\* The queue, the clock and the deaths: a worker that moves ends up outside.
LEMMA QuietExec ==
    ASSUME ExecInv, UNCHANGED <<storeVars, apiVars>>,
           \A v \in Worker : \/ wpc'[v] = "mark"
                             \/ UNCHANGED <<dq[v], wpc[v], held[v]>>
    PROVE  NextExec
<1>1. UNCHANGED <<status, rpc, rjob>>
  BY DEF storeVars, apiVars
<1>2. \A v \in Worker : Works(v)' => Works(v) /\ held'[v] = held[v]
  BY DEF Works, WorkPc
<1>3. QED
  BY <1>1, <1>2 DEF ExecInv, NextExec, Reach, Serves, Computing, OwnersApart

LEMMA StepExec ==
    ASSUME ExecInv, RetriesApart, "redis" \notin Faults, Next
    PROVE  NextExec
<1>1. ASSUME NEW r \in Request, Serve(r)
      PROVE  NextExec
  <2>1. RequestStep(r)
    BY <1>1, ApiStepsOwn DEF Serve
  <2>2. UNCHANGED <<dq, wpc, held>>
    BY <1>1 DEF Serve, ApiSteps, FindByIdempotencyKey, CreateJob, MarkQueued,
       EnqueueJob, MarkFailed, ReadJob, MarkRetrying, SyncInfer, SyncCreateResult,
       SyncMarkSucceeded, ApiCas, ApiCasToQueued, queueVars, dequeueVars
  <2>3. \A q \in Request \ {r} : rpc'[q] = rpc[q] /\ rjob'[q] = rjob[q]
    BY <1>1, ApiArrives DEF Serve, ExecInv
  <2>4. QED
    BY <2>1, <2>2, <2>3, RequestStepExec
<1>2. ASSUME NEW r \in Request, Abandon(r)
      PROVE  NextExec
  <2>1. /\ rpc' = [rpc EXCEPT ![r] = "failed"] /\ rpc \in [Request -> ApiPc]
        /\ UNCHANGED <<status, rjob, dq, wpc, held>>
    BY <1>2 DEF Abandon, RequestDies, Goto, storeVars, queueVars, dequeueVars, ExecInv, TypeOK,
       ApiTypeOK
  <2>2. RequestStep(r)
    BY <2>1 DEF RequestStep, Serves, ServePc, ExecInv
  <2>3. QED
    BY <2>1, <2>2, RequestStepExec
<1>3. ASSUME NEW w \in Worker, Process(w)
      PROVE  NextExec
  BY <1>3, ProcessExec
<1>4. ASSUME NEW w \in Worker, Dequeue(w)
      PROVE  NextExec
  BY <1>4, DequeueStepsQuiet, QuietExec DEF Dequeue, InQueue, ExecInv
<1>5. ASSUME NEW w \in Worker, Crash(w)
      PROVE  NextExec
  <2>1. \A v \in Worker : wpc'[v] = "mark" \/ UNCHANGED <<dq[v], wpc[v], held[v]>>
    BY <1>5 DEF Crash, WorkerCrash, Release, Proceed, ExecInv, TypeOK, QueueTypeOK, WorkerTypeOK
  <2>2. QED
    BY <1>5, <2>1, QuietExec DEF Crash
<1>6. CASE \/ \E w \in Worker : WaitTooLong(w)
           \/ \E j \in Job : TimePasses(j)
           \/ Housekeep
  BY <1>6, QuietExec
  DEF WaitTooLong, TimePasses, Housekeep, InQueue, LeaseLapses, DeadlineLapses,
      HousekeepingScan, HousekeepingSweep, dequeueVars
<1>7. CASE RedisFails
  BY <1>7 DEF RedisFails, InQueue, DequeueError, DequeueMoveError, SweepError
<1>8. QED
  BY <1>1, <1>2, <1>3, <1>4, <1>5, <1>6, <1>7 DEF Next

LEMMA InitExec == Init => ExecInv
<1> SUFFICES ASSUME Init PROVE ExecInv
  OBVIOUS
<1>1. TypeOK /\ \A j \in Job : status[j] # "DEAD"
  BY InitType DEF Init, StoreInit, Absent
<1>2. ASSUME NEW r \in Request PROVE Reach(r) /\ ~Serves(r)
  BY RequestAssumption DEF Init, ApiInit, StartPc, Reach, Serves, ServePc
<1>3. ASSUME NEW w \in Worker PROVE ~Works(w)
  BY DEF Init, QueueInit, Works
<1>4. QED
  BY <1>1, <1>2, <1>3 DEF ExecInv, Computing, OwnersApart

LEMMA ExecInvariant ==
    ASSUME "redis" \notin Faults
    PROVE  Spec /\ []RetriesApart => []ExecInv
<1>1. ExecInv /\ RetriesApart /\ [Next]_vars => ExecInv'
  <2>1. ASSUME ExecInv, RetriesApart, Next PROVE ExecInv'
    BY <2>1, StepType, StepExec DEF ExecInv, NextExec
  <2>2. ASSUME ExecInv, UNCHANGED vars PROVE ExecInv'
    <3>1. NextExec
      BY <2>2, QuietExec DEF vars, queueVars, dequeueVars
    <3>2. QED
      BY <2>2, <3>1, StutterType DEF ExecInv, NextExec
  <2>3. QED
    BY <2>1, <2>2
<1>2. QED
  BY InitExec, <1>1, PTL DEF Spec

LEMMA AtMostOne ==
    ASSUME NEW S, \A x, y \in S : x = y
    PROVE  Cardinality(S) <= 1
<1>1. CASE S = {}
  BY <1>1, FS_EmptySet
<1>2. CASE S # {}
  <2>1. PICK x : x \in S
    BY <1>2
  <2>2. S = {x}
    BY <2>1
  <2>3. QED
    BY <2>2, FS_Singleton
<1>3. QED
  BY <1>1, <1>2

\* As long as Redis answers, and no client retries a job whose Retry is under
\* way, leases that lapse under a worker, redeliveries, crashes and failed
\* statements never make two executors compute one job.
THEOREM OneExecutor ==
    ASSUME "redis" \notin Faults
    PROVE  Spec /\ []RetriesApart => []SingleExecutor
<1>1. ExecInv => SingleExecutor
  <2> SUFFICES ASSUME ExecInv, NEW j \in Job PROVE Cardinality(Executors(j)) <= 1
    BY DEF SingleExecutor
  <2>1. ASSUME NEW x \in Executors(j), NEW y \in Executors(j)
        PROVE  x = y
    <3>1. ASSUME NEW z \in Executors(j)
          PROVE  \/ z \in Worker /\ Works(z) /\ held[z] = j
                 \/ z \in Request /\ Serves(z) /\ rjob[z] = j
      BY <3>1 DEF Executors, Works, WorkPc, Serves, ServePc, Request
    <3>2. QED
      BY <3>1, <2>1 DEF ExecInv, OwnersApart
  <2>2. QED
    BY <2>1, AtMostOne
<1>2. QED
  BY ExecInvariant, <1>1, PTL

-----------------------------------------------------------------------------
(* The documented state machine.                                           *)

\* Every change of a row is one of Lifecycle's actions.
LifeStep == Lifecycle!Next \/ UNCHANGED <<status, result>>

LEMMA DocumentedTransitions ==
    /\ Lifecycle!ValidTransition("CREATED", "QUEUED")
    /\ Lifecycle!ValidTransition("RETRYING", "QUEUED")
    /\ Lifecycle!ValidTransition("QUEUED", "RUNNING")
    /\ Lifecycle!ValidTransition("RUNNING", "SUCCESS")
    /\ Lifecycle!ValidTransition("RUNNING", "FAILED")
    /\ Lifecycle!ValidTransition("RUNNING", "RETRYING")
    /\ Lifecycle!ValidTransition("FAILED", "RETRYING")
    /\ Lifecycle!ValidTransition("RETRYING", "DEAD")
BY DEF Lifecycle!ValidTransition, Lifecycle!AllowedNext

LEMMA RowAdvances ==
    ASSUME NEW j \in Job, NEW from \in JobStatus, NEW to \in JobStatus,
           Lifecycle!ValidTransition(from, to),
           to = "SUCCESS" => result[j] = "SUCCESS",
           status' = (IF Matches(j, from) THEN [status EXCEPT ![j] = to] ELSE status),
           result' = result
    PROVE  LifeStep
<1>1. CASE Matches(j, from)
  <2>1. status[j] = from /\ status' = [status EXCEPT ![j] = to]
    BY <1>1 DEF Matches
  <2>2. Lifecycle!Advance(j)
    BY <2>1 DEF Lifecycle!Advance, Lifecycle!Absent, Lifecycle!JobStatus, JobStatus
  <2>3. QED
    BY <2>2 DEF LifeStep, Lifecycle!Next
<1>2. CASE ~Matches(j, from)
  BY <1>2 DEF LifeStep
<1>3. QED
  BY <1>1, <1>2

LEMMA ResultStored ==
    ASSUME NEW j \in Job, NEW o \in {"SUCCESS", "DEAD"}, status[j] = "RUNNING",
           InsertResult(j, o)
    PROVE  LifeStep
<1>1. CASE HasResult(j)
  BY <1>1 DEF InsertResult, LifeStep
<1>2. CASE ~HasResult(j)
  <2>1. Lifecycle!StoreResult(j)
    BY <1>2 DEF InsertResult, HasResult, Lifecycle!StoreResult
  <2>2. QED
    BY <2>1 DEF LifeStep, Lifecycle!Next
<1>3. QED
  BY <1>1, <1>2

LEMMA RowSubmitted ==
    ASSUME NEW r, NEW j \in Job, NewRow(r, j)
    PROVE  LifeStep
<1>1. Lifecycle!Submit(j)
  BY DEF NewRow, InsertJob, Absent, Lifecycle!Submit, Lifecycle!Absent
<1>2. QED
  BY <1>1 DEF LifeStep, Lifecycle!Next

LEMMA StoreRests == UNCHANGED storeVars => LifeStep
BY DEF storeVars, LifeStep

LEMMA ProcessStepsLife ==
    ASSUME ExecInv, ResultInv, NEW w \in Worker, ProcessSteps(w)
    PROVE  LifeStep
<1> USE DEF JobStatus
<1>1. held[w] \in Job
  BY ProcessStepsOwn
<1>2. ASSUME NEW at, NEW from \in JobStatus, NEW to \in JobStatus, NEW hit, NEW miss, NEW err,
             Lifecycle!ValidTransition(from, to),
             to = "SUCCESS" => result[held[w]] = "SUCCESS",
             WorkerCas(w, at, from, to, hit, miss, err)
      PROVE  LifeStep
  BY <1>1, <1>2, RowAdvances, StoreRests DEF WorkerCas, Transition, DbError
<1>3. CASE MarkRunning(w)
  BY <1>1, <1>3, DocumentedTransitions, RowAdvances, StoreRests
  DEF MarkRunning, TransitionToRunning, DbError
<1>4. CASE CreateResult(w) \/ CreateDeadResult(w)
  <2>1. Works(w)
    BY <1>4 DEF CreateResult, CreateDeadResult, Processing, Works, WorkPc
  <2>2. status[held[w]] = "RUNNING"
    BY <2>1 DEF ExecInv, Computing
  <2>3. QED
    BY <1>1, <1>4, <2>2, ResultStored, StoreRests DEF CreateResult, CreateDeadResult, DbError
<1>5. CASE MarkSucceeded(w)
  <2>1. result[held[w]] = "SUCCESS"
    BY <1>5 DEF MarkSucceeded, WorkerCas, ResultInv, StoredBeforeSuccess
  <2>2. QED
    BY <1>2, <1>5, <2>1, DocumentedTransitions DEF MarkSucceeded
<1>6. CASE MarkRetryingAfterFailure(w) \/ MarkDead(w)
  BY <1>2, <1>6, DocumentedTransitions DEF MarkRetryingAfterFailure, MarkDead
<1>7. CASE RunInference(w) \/ AckJob(w) \/ AckBeforeRetry(w) \/ EnqueueRetry(w) \/ FailJob(w)
  BY <1>7, StoreRests DEF RunInference, AckJob, AckBeforeRetry, EnqueueRetry, FailJob
<1>8. QED
  BY <1>3, <1>4, <1>5, <1>6, <1>7 DEF ProcessSteps

LEMMA ApiStepsLife ==
    ASSUME ExecInv, ResultInv, NEW r \in Request, ApiSteps(r)
    PROVE  LifeStep
<1> USE DEF JobStatus
<1>1. Active(r) => rjob[r] \in Job
  BY ActiveHasJob DEF ExecInv, TypeOK
<1>2. ASSUME NEW at, at \notin Jobless, NEW from \in JobStatus, NEW to \in JobStatus, NEW hit, NEW miss,
             NEW err, Lifecycle!ValidTransition(from, to),
             to = "SUCCESS" => result[rjob[r]] = "SUCCESS",
             ApiCas(r, at, from, to, hit, miss, err)
      PROVE  LifeStep
  BY <1>1, <1>2, RowAdvances, StoreRests DEF ApiCas, Transition, DbError, Active
<1>3. ASSUME NEW at, at \notin Jobless, NEW from \in JobStatus, NEW miss,
             Lifecycle!ValidTransition(from, "QUEUED"), ApiCasToQueued(r, at, from, miss)
      PROVE  LifeStep
  BY <1>1, <1>3, RowAdvances, StoreRests DEF ApiCasToQueued, TransitionToQueued, DbError, Active
<1>4. CASE CreateJob(r)
  BY <1>4, RowSubmitted, StoreRests DEF CreateJob, DbError
<1> USE DEF Jobless, FinalPc
<1>5. CASE MarkQueued(r)
  BY <1>3, <1>5, DocumentedTransitions DEF MarkQueued
<1>6. CASE MarkFailed(r)
  <2>1. ApiCas(r, "fail1", "RUNNING", "FAILED", "failed", "fail2", "failed")
    BY <1>6 DEF MarkFailed, ApiCas, ExecInv, Reach
  <2>2. QED
    BY <1>2, <2>1, DocumentedTransitions
<1>7. CASE MarkRetrying(r)
  BY <1>2, <1>7, DocumentedTransitions DEF MarkRetrying
<1>8. CASE SyncCreateResult(r)
  <2>1. Serves(r) /\ Active(r)
    BY <1>8 DEF SyncCreateResult, Serves, ServePc, Active
  <2>2. status[rjob[r]] = "RUNNING"
    BY <2>1 DEF ExecInv, Reach
  <2>3. QED
    BY <1>1, <1>8, <2>1, <2>2, ResultStored, StoreRests DEF SyncCreateResult, DbError
<1>9. CASE SyncMarkSucceeded(r)
  <2>1. result[rjob[r]] = "SUCCESS"
    BY <1>9 DEF SyncMarkSucceeded, ApiCas, ResultInv, StoredBeforeSuccess
  <2>2. QED
    BY <1>2, <1>9, <2>1, DocumentedTransitions DEF SyncMarkSucceeded
<1>10. CASE FindByIdempotencyKey(r) \/ EnqueueJob(r) \/ ReadJob(r) \/ SyncInfer(r)
  BY <1>10, StoreRests DEF FindByIdempotencyKey, EnqueueJob, ReadJob, SyncInfer
<1>11. QED
  BY <1>4, <1>5, <1>6, <1>7, <1>8, <1>9, <1>10 DEF ApiSteps

\* As long as Redis answers, and no client retries a job whose Retry is under
\* way, every statement of every process moves a row along the documented
\* machine: no transition but the listed ones, SUCCESS only after its result,
\* a result only while the job runs and never a second one.
THEOREM FollowsLifecycle ==
    ASSUME "redis" \notin Faults
    PROVE  Spec /\ []RetriesApart => ImplementsLifecycle
<1>1. Init => Lifecycle!Init
  BY DEF Init, StoreInit, Absent, Lifecycle!Init, Lifecycle!Absent
<1>2. ExecInv /\ ResultInv /\ [Next]_vars => [Lifecycle!Next]_(Lifecycle!vars)
  <2> SUFFICES ASSUME ExecInv, ResultInv, [Next]_vars PROVE LifeStep
    BY DEF LifeStep, Lifecycle!vars
  <2>1. ASSUME NEW r \in Request, Serve(r) PROVE LifeStep
    BY <2>1, ApiStepsLife DEF Serve
  <2>2. ASSUME NEW w \in Worker, Process(w) PROVE LifeStep
    BY <2>2, ProcessStepsLife DEF Process
  <2>3. CASE \/ \E r \in Request : Abandon(r)
             \/ \E w \in Worker : Dequeue(w) \/ WaitTooLong(w) \/ Crash(w)
             \/ \E j \in Job : TimePasses(j)
             \/ Housekeep \/ RedisFails
             \/ UNCHANGED vars
    BY <2>3, StoreRests
    DEF Abandon, RequestDies, Dequeue, WaitTooLong, Crash, TimePasses, Housekeep, RedisFails,
        InQueue, vars
  <2>4. QED
    BY <2>1, <2>2, <2>3 DEF Next
<1>3. Spec => []ResultInv
  BY ResultInvariant
<1>4. Spec /\ []RetriesApart => []ExecInv
  BY ExecInvariant
<1>5. QED
  BY <1>1, <1>2, <1>3, <1>4, PTL DEF Spec, ImplementsLifecycle, Lifecycle!Spec

-----------------------------------------------------------------------------
(* What Redis knows of a job.                                              *)

Listed(j) == \E i \in DOMAIN queued : queued[i] = j

Untouched(j) ==
    /\ payload[j] = 0
    /\ processing[j] = "none"
    /\ ~Listed(j)
    /\ \A w \in Worker : held[w] # j

Known(j) ==
    /\ payload[j] # 0
    /\ \/ processing[j] # "none"
       \/ Listed(j)
       \/ \E w \in Worker : dq[w] = "move" /\ held[w] = j

\* Not enqueued yet: nobody works on it, or a request still does.
Fresh(j) ==
    \/ status[j] \in {Absent, "CREATED", "FAILED"}
    \/ \E r \in Request : Active(r) /\ rjob[r] = j

\* Where a request can be while every statement and command of it succeeds.
Errand(r) ==
    /\ rpc[r] \in {"find", "insert"} => r \notin RetryReq
    /\ rpc[r] \in {"retry1", "queue1", "queue2", "enqueue"} => ratt[r] # 0
    /\ Active(r) =>
        \/ Serves(r)
        \/ rpc[r] = "enqueue" /\ status[rjob[r]] = "QUEUED"
        \/ r \in AsyncReq /\ rpc[r] = "queue1" /\ status[rjob[r]] = "CREATED"
        \/ r \in RetryReq /\ rpc[r] = "retry1" /\ status[rjob[r]] = "FAILED"
        \/ r \in RetryReq /\ rpc[r] \in {"queue1", "queue2"} /\ status[rjob[r]] = "RETRYING"

RequestsApart ==
    \A q, r \in Request : Active(q) /\ Active(r) /\ rjob[q] = rjob[r] => q = r

Sent(j) ==
    /\ Fresh(j) => Untouched(j)
    /\ status[j] = "QUEUED" => Known(j) \/ \E r \in Request : Active(r) /\ rjob[r] = j

AtMark(w) == dq[w] = "have" /\ status[held[w]] = "QUEUED" => wpc[w] = "mark"

Timed(w) == dq[w] \in {"pop", "brpop", "move"} => deadline[w] # "none"

DeliverInv ==
    /\ ExecInv
    /\ \A w \in Worker : Timed(w)
    /\ RequestsApart
    /\ \A r \in Request : Errand(r)
    /\ \A j \in Job : Sent(j)
    /\ \A w \in Worker : AtMark(w)

NextDeliver ==
    /\ \A w \in Worker : Timed(w)'
    /\ RequestsApart'
    /\ \A r \in Request : Errand(r)'
    /\ \A j \in Job : Sent(j)'
    /\ \A w \in Worker : AtMark(w)'

-----------------------------------------------------------------------------
(* The list.                                                               *)

LEMMA ListedAfterAppend ==
    ASSUME queued \in Seq(Job), NEW e \in Job, queued' = Append(queued, e)
    PROVE  \A j \in Job : Listed(j)' <=> Listed(j) \/ j = e
<1>1. /\ Len(queued) \in Nat /\ DOMAIN queued = 1..Len(queued)
      /\ DOMAIN queued' = 1..(Len(queued) + 1)
      /\ \A i \in 1..Len(queued) : queued'[i] = queued[i]
      /\ queued'[Len(queued) + 1] = e
  OBVIOUS
<1>2. QED
  BY <1>1 DEF Listed

LEMMA ListedAfterTail ==
    ASSUME queued \in Seq(Job), queued # <<>>, queued' = Tail(queued)
    PROVE  /\ Head(queued) \in Job /\ Listed(Head(queued))
           /\ \A j \in Job : Listed(j)' => Listed(j)
           /\ \A j \in Job : Listed(j) => Listed(j)' \/ j = Head(queued)
<1>1. /\ Len(queued) \in Nat /\ Len(queued) >= 1 /\ DOMAIN queued = 1..Len(queued)
      /\ DOMAIN queued' = 1..(Len(queued) - 1)
      /\ \A i \in 1..(Len(queued) - 1) : queued'[i] = queued[i + 1]
      /\ Head(queued) = queued[1] /\ Head(queued) \in Job
  OBVIOUS
<1>2. Listed(Head(queued))
  BY <1>1 DEF Listed
<1>3. ASSUME NEW j \in Job, Listed(j)' PROVE Listed(j)
  <2>1. PICK i \in 1..(Len(queued) - 1) : queued'[i] = j
    BY <1>1, <1>3 DEF Listed
  <2>2. i + 1 \in DOMAIN queued /\ queued[i + 1] = j
    BY <1>1, <2>1
  <2>3. QED
    BY <2>2 DEF Listed
<1>4. ASSUME NEW j \in Job, Listed(j), j # Head(queued) PROVE Listed(j)'
  <2>1. PICK i \in DOMAIN queued : queued[i] = j
    BY <1>4 DEF Listed
  <2>2. i \in 1..Len(queued) /\ i # 1
    BY <1>1, <1>4, <2>1
  <2>3. i - 1 \in DOMAIN queued' /\ i - 1 \in 1..(Len(queued) - 1) /\ (i - 1) + 1 = i
    BY <1>1, <2>2
  <2>4. queued'[i - 1] = j
    BY <1>1, <2>1, <2>3
  <2>5. QED
    BY <2>3, <2>4 DEF Listed
<1>5. QED
  BY <1>1, <1>2, <1>3, <1>4

-----------------------------------------------------------------------------
(* The steps of the queue lose nothing and touch only what it knows.       *)

QueueKeeps ==
    /\ \A j \in Job : Untouched(j) => Untouched(j)'
    /\ \A j \in Job : Known(j) => Known(j)'
    /\ \A v \in Worker : dq'[v] = "have" => (dq[v] = "have" /\ held'[v] = held[v]) \/ wpc[v] = "mark"

LEMMA QuietQueueKeeps ==
    ASSUME UNCHANGED redisVars,
           \A v \in Worker : held'[v] \in {held[v], NoJob},
           \A v \in Worker : dq[v] = "move" => dq'[v] = "move" /\ held'[v] = held[v],
           \A v \in Worker : dq'[v] = "have" => (dq[v] = "have" /\ held'[v] = held[v]) \/ wpc[v] = "mark"
    PROVE  QueueKeeps
BY NoJobAssumption DEF QueueKeeps, Untouched, Known, Listed, redisVars

LEMMA SweepKeeps ==
    ASSUME QueueTypeOK, NEW s \in Sweeper, Sweep(s), UNCHANGED <<dq, held>>
    PROVE  QueueKeeps
<1>1. PICK i \in scan[s] : RequeueIfExpired(i) /\ UNCHANGED <<dead, payload>>
  BY DEF Sweep
<1>2. i \in Job
  BY DEF QueueTypeOK
<1>3. CASE processing[i] = "past"
  <2>1. /\ processing' = [processing EXCEPT ![i] = "none"] /\ queued' = Append(queued, i)
        /\ processing \in [Job -> {"none", "live", "past"}] /\ queued \in Seq(Job)
    BY <1>1, <1>3 DEF RequeueIfExpired, QueueTypeOK
  <2>2. \A j \in Job : Listed(j)' <=> Listed(j) \/ j = i
    BY <1>2, <2>1, ListedAfterAppend
  <2>3. QED
    BY <1>1, <1>2, <1>3, <2>1, <2>2 DEF QueueKeeps, Untouched, Known
<1>4. CASE processing[i] # "past"
  BY <1>1, <1>4 DEF RequeueIfExpired, QueueKeeps, Untouched, Known, Listed
<1>5. QED
  BY <1>3, <1>4

LEMMA PopKeeps ==
    ASSUME QueueTypeOK, NEW w \in Worker, Timed(w), DequeuePop(w) \/ DequeueBRPop(w)
    PROVE  QueueKeeps
<1>1. /\ queued # <<>> /\ queued' = Tail(queued) /\ payload' = payload
      /\ held' = [held EXCEPT ![w] = Head(queued)]
      /\ dq[w] \in {"pop", "brpop"}
  BY DEF DequeuePop, DequeueBRPop, DequeueAt
<1>2. /\ queued \in Seq(Job) /\ held \in [Worker -> Job \cup {NoJob}]
      /\ dq \in [Worker -> {"idle", "sweep", "pop", "brpop", "move", "fetch", "have"}]
      /\ processing \in [Job -> {"none", "live", "past"}]
  BY DEF QueueTypeOK
<1>3. /\ Head(queued) \in Job /\ Listed(Head(queued))
      /\ \A j \in Job : Listed(j)' => Listed(j)
      /\ \A j \in Job : Listed(j) => Listed(j)' \/ j = Head(queued)
  BY <1>1, <1>2, ListedAfterTail
<1>4. CASE DequeuePop(w)
  <2>1. /\ dq' = [dq EXCEPT ![w] = "fetch"] /\ deadline[w] \in {"none", "live", "past"}
        /\ processing' = [processing EXCEPT ![Head(queued)] = deadline[w]]
    BY <1>4 DEF DequeuePop, DequeueAt, QueueTypeOK
  <2>2. deadline[w] # "none"
    BY <1>1 DEF Timed
  <2>3. QED
    BY <1>1, <1>2, <1>3, <2>1, <2>2 DEF QueueKeeps, Untouched, Known
<1>5. CASE DequeueBRPop(w)
  <2>1. dq' = [dq EXCEPT ![w] = "move"] /\ processing' = processing
    BY <1>5 DEF DequeueBRPop, DequeueAt
  <2>2. QED
    BY <1>1, <1>2, <1>3, <2>1 DEF QueueKeeps, Untouched, Known
<1>6. QED
  BY <1>4, <1>5

LEMMA DequeueStepsKeep ==
    ASSUME TypeOK, NEW w \in Worker, Timed(w), DequeueSteps(w)
    PROVE  QueueKeeps
<1>1. QueueTypeOK /\ \A v \in Worker : dq[v] # "have" => wpc[v] = "mark"
  BY DEF TypeOK, WorkerTypeOK
<1>2. /\ dq \in [Worker -> {"idle", "sweep", "pop", "brpop", "move", "fetch", "have"}]
      /\ held \in [Worker -> Job \cup {NoJob}]
      /\ processing \in [Job -> {"none", "live", "past"}]
  BY <1>1 DEF QueueTypeOK
<1>3. CASE DequeueStart(w) \/ DequeueSetDeadline(w) \/ DequeueEmpty(w) \/ DequeueBRPopTimeout(w)
  <2>1. /\ UNCHANGED redisVars /\ held' = held
        /\ \A v \in Worker : v # w => dq'[v] = dq[v]
        /\ dq[w] \in {"idle", "sweep", "pop", "brpop"} /\ dq'[w] \in {"sweep", "pop", "brpop"}
    BY <1>2, <1>3
    DEF DequeueStart, DequeueSetDeadline, DequeueEmpty, DequeueBRPopTimeout, DequeueAt
  <2>2. QED
    BY <1>2, <2>1, QuietQueueKeeps
<1>4. CASE DequeueSweep(w)
  BY <1>1, <1>4, SweepKeeps DEF DequeueSweep, Sweeper
<1>5. CASE DequeuePop(w) \/ DequeueBRPop(w)
  BY <1>1, <1>5, PopKeeps
<1>6. CASE DequeueMove(w)
  <2>1. /\ dq[w] = "move" /\ dq' = [dq EXCEPT ![w] = "fetch"] /\ held' = held
        /\ processing' = [processing EXCEPT ![held[w]] = deadline[w]]
        /\ queued' = queued /\ payload' = payload
    BY <1>6 DEF DequeueMove, DequeueAt
  <2>2. held[w] \in Job /\ deadline[w] # "none"
    BY <1>1, <2>1 DEF QueueTypeOK, Timed
  <2>3. QED
    BY <1>2, <2>1, <2>2 DEF QueueKeeps, Untouched, Known, Listed
<1>7. CASE DequeueFetch(w)
  <2>1. /\ UNCHANGED redisVars /\ held' = held /\ dq[w] = "fetch"
        /\ \A v \in Worker : v # w => dq'[v] = dq[v]
    BY <1>2, <1>7 DEF DequeueFetch, DequeueAt
  <2>2. QED
    BY <1>1, <2>1, QuietQueueKeeps
<1>8. CASE DequeueFetchMissing(w) \/ DequeueTimeout(w)
  <2>1. /\ UNCHANGED redisVars /\ dq[w] \in {"fetch", "pop"}
        /\ held'[w] = NoJob /\ dq'[w] = "idle"
        /\ \A v \in Worker : v # w => dq'[v] = dq[v] /\ held'[v] = held[v]
    BY <1>2, <1>8 DEF DequeueFetchMissing, DequeueTimeout, Release
  <2>2. QED
    BY <1>2, <2>1, QuietQueueKeeps
<1>9. QED
  BY <1>3, <1>4, <1>5, <1>6, <1>7, <1>8 DEF DequeueSteps

LEMMA TimeKeeps ==
    ASSUME TypeOK,
           (\E j \in Job : LeaseLapses(j)) \/ (\E w \in Worker : DeadlineLapses(w))
    PROVE  QueueKeeps
<1>1. QueueTypeOK
  BY DEF TypeOK
<1>2. ASSUME NEW i \in Job, LeaseLapses(i) PROVE QueueKeeps
  <2>1. /\ processing[i] = "live" /\ processing' = [processing EXCEPT ![i] = "past"]
        /\ processing \in [Job -> {"none", "live", "past"}]
        /\ UNCHANGED <<queued, payload, dq, held>>
    BY <1>1, <1>2 DEF LeaseLapses, QueueTypeOK, dequeueVars
  <2>2. QED
    BY <2>1 DEF QueueKeeps, Untouched, Known, Listed
<1>3. ASSUME NEW w \in Worker, DeadlineLapses(w) PROVE QueueKeeps
  BY <1>3, QuietQueueKeeps DEF DeadlineLapses
<1>4. QED
  BY <1>2, <1>3

LEMMA HousekeepKeeps ==
    ASSUME TypeOK, HousekeepingScan \/ HousekeepingSweep
    PROVE  QueueKeeps
<1>1. QueueTypeOK
  BY DEF TypeOK
<1>2. CASE HousekeepingScan
  BY <1>2, QuietQueueKeeps DEF HousekeepingScan
<1>3. CASE HousekeepingSweep
  BY <1>1, <1>3, SweepKeeps DEF HousekeepingSweep, Sweeper
<1>4. QED
  BY <1>2, <1>3

\* A worker dies anywhere but between BRPOP and the ZADD.
LEMMA CrashKeeps ==
    ASSUME TypeOK, "pop_crash" \notin Faults, NEW w \in Worker, WorkerCrash(w)
    PROVE  QueueKeeps
<1>1. /\ UNCHANGED redisVars /\ dq[w] # "move" /\ Release(w)
  BY DEF WorkerCrash, CrashPoint
<1>2. /\ held'[w] = NoJob /\ dq'[w] = "idle"
      /\ \A v \in Worker : v # w => dq'[v] = dq[v] /\ held'[v] = held[v]
  BY <1>1 DEF Release, TypeOK, QueueTypeOK
<1>3. QED
  BY <1>1, <1>2, QuietQueueKeeps

\* Nobody waits for an id without a deadline.
LEMMA TimedStays ==
    ASSUME TypeOK, \A v \in Worker : Timed(v),
           \/ UNCHANGED <<dq, deadline>>
           \/ \E w \in Worker : DequeueSteps(w) \/ DeadlineLapses(w) \/ Release(w)
    PROVE  \A v \in Worker : Timed(v)'
<1>1. /\ dq \in [Worker -> {"idle", "sweep", "pop", "brpop", "move", "fetch", "have"}]
      /\ deadline \in [Worker -> {"none", "live", "past"}]
  BY DEF TypeOK, QueueTypeOK
<1>2. CASE UNCHANGED <<dq, deadline>>
  BY <1>2 DEF Timed
<1>3. ASSUME NEW w \in Worker, DequeueSteps(w) \/ DeadlineLapses(w) \/ Release(w)
      PROVE  \A v \in Worker : Timed(v)'
  <2>1. ASSUME NEW v \in Worker, v # w PROVE dq'[v] = dq[v] /\ deadline'[v] = deadline[v]
    BY <1>1, <1>3, <2>1
    DEF DequeueSteps, DequeueStart, DequeueSweep, DequeueSetDeadline, DequeuePop, DequeueEmpty,
        DequeueBRPop, DequeueBRPopTimeout, DequeueMove, DequeueFetch, DequeueFetchMissing,
        DequeueTimeout, DequeueAt, Release, DeadlineLapses
  <2>2. Timed(w)
    OBVIOUS
  <2>3. Timed(w)'
    <3>1. CASE DequeueStart(w) \/ DequeueSweep(w) \/ DequeueSetDeadline(w) \/ DequeuePop(w)
      BY <1>1, <2>2, <3>1
      DEF Timed, DequeueStart, DequeueSweep, DequeueSetDeadline, DequeuePop, DequeueAt
    <3>2. CASE DequeueEmpty(w) \/ DequeueBRPop(w) \/ DequeueBRPopTimeout(w)
      BY <1>1, <2>2, <3>2
      DEF Timed, DequeueEmpty, DequeueBRPop, DequeueBRPopTimeout, DequeueAt
    <3>3. CASE DequeueMove(w) \/ DequeueFetch(w) \/ DequeueFetchMissing(w) \/ DequeueTimeout(w)
      BY <1>1, <2>2, <3>3
      DEF Timed, DequeueMove, DequeueFetch, DequeueFetchMissing, DequeueTimeout, DequeueAt, Release
    <3>4. CASE DeadlineLapses(w) \/ Release(w)
      BY <1>1, <2>2, <3>4 DEF Timed, DeadlineLapses, Release
    <3>5. QED
      BY <1>3, <3>1, <3>2, <3>3, <3>4 DEF DequeueSteps
  <2>4. QED
    BY <2>1, <2>3 DEF Timed
<1>4. QED
  BY <1>2, <1>3

\* A step inside the queue keeps the invariant.
LEMMA QueueStepDeliver ==
    ASSUME DeliverInv, QueueKeeps, UNCHANGED <<storeVars, apiVars>>,
           \A v \in Worker : wpc'[v] = wpc[v] \/ wpc'[v] = "mark",
           \A v \in Worker : Timed(v)'
    PROVE  NextDeliver
<1>1. UNCHANGED <<status, rpc, rjob, ratt>>
  BY DEF storeVars, apiVars
<1>2. RequestsApart' /\ \A r \in Request : Errand(r)'
  BY <1>1 DEF DeliverInv, RequestsApart, Errand, Active, Serves
<1>3. ASSUME NEW j \in Job PROVE Sent(j)'
  <2>1. (Fresh(j)' <=> Fresh(j)) /\ (\A r \in Request : (Active(r)' <=> Active(r)) /\ rjob'[r] = rjob[r])
    BY <1>1 DEF Fresh, Active
  <2>2. Sent(j)
    BY DEF DeliverInv
  <2>3. QED
    BY <1>1, <2>1, <2>2 DEF Sent, QueueKeeps
<1>4. ASSUME NEW w \in Worker PROVE AtMark(w)'
  <2>1. AtMark(w)
    BY DEF DeliverInv
  <2>2. QED
    BY <1>1, <2>1 DEF AtMark, QueueKeeps
<1>5. QED
  BY <1>2, <1>3, <1>4 DEF NextDeliver

-----------------------------------------------------------------------------
(* A worker in process touches its own job only, which is not QUEUED when  *)
(* the step is done.                                                       *)

LEMMA ProcessStepsSettle ==
    ASSUME DeliverInv, "db" \notin Faults, NEW w \in Worker, ProcessSteps(w)
    PROVE  LET i == held[w]
           IN  /\ dq[w] = "have" /\ i \in Job
               /\ \A j \in Job \ {i} : /\ status'[j] = status[j]
                                       /\ payload'[j] = payload[j]
                                       /\ processing'[j] = processing[j]
                                       /\ Listed(j)' <=> Listed(j)
               /\ status'[i] = status[i] \/ status'[i] \in {"RUNNING", "SUCCESS", "RETRYING", "DEAD"}
               /\ status'[i] # "QUEUED"
<1> DEFINE i == held[w]
<1>1. dq[w] = "have"
  BY DEF ProcessSteps, MarkRunning, RunInference, CreateResult, MarkSucceeded, AckJob,
     MarkRetryingAfterFailure, AckBeforeRetry, EnqueueRetry, MarkDead, FailJob,
     CreateDeadResult, WorkerCas, Processing
<1>2. i \in Job /\ (status[i] = "QUEUED" => wpc[w] = "mark")
  BY <1>1 DEF DeliverInv, AtMark, ExecInv, TypeOK, QueueTypeOK
<1>3. /\ status \in [Job -> JobStatus \cup {Absent}] /\ queued \in Seq(Job)
      /\ processing \in [Job -> {"none", "live", "past"}] /\ payload \in [Job -> Nat]
  BY DEF DeliverInv, ExecInv, TypeOK, StoreTypeOK, QueueTypeOK
<1>4. ASSUME UNCHANGED queueVars
      PROVE  \A j \in Job : /\ payload'[j] = payload[j] /\ processing'[j] = processing[j]
                            /\ Listed(j)' <=> Listed(j)
  BY <1>4 DEF queueVars, redisVars, Listed
<1>5. CASE MarkRunning(w)
  <2>1. TransitionToRunning(i) /\ UNCHANGED queueVars
    BY <1>5 DEF MarkRunning, DbError
  <2>2. QED
    BY <1>1, <1>2, <1>3, <1>4, <2>1 DEF TransitionToRunning, Matches
<1>6. ASSUME NEW at, at # "mark", NEW from, NEW to \in {"SUCCESS", "RETRYING", "DEAD"}, NEW hit,
             NEW miss, NEW err, WorkerCas(w, at, from, to, hit, miss, err)
      PROVE  /\ \A j \in Job \ {i} : status'[j] = status[j]
             /\ status'[i] = status[i] \/ status'[i] \in {"RUNNING", "SUCCESS", "RETRYING", "DEAD"}
             /\ status'[i] # "QUEUED"
             /\ UNCHANGED queueVars
  <2>1. Transition(i, from, to) /\ UNCHANGED queueVars /\ wpc[w] # "mark"
    BY <1>6 DEF WorkerCas, DbError, Processing
  <2>2. QED
    BY <1>2, <1>3, <2>1 DEF Transition, Matches
<1>7. CASE MarkSucceeded(w) \/ MarkRetryingAfterFailure(w) \/ MarkDead(w)
  BY <1>1, <1>2, <1>4, <1>6, <1>7 DEF MarkSucceeded, MarkRetryingAfterFailure, MarkDead
<1>8. CASE RunInference(w) \/ CreateResult(w)
  <2>1. status' = status /\ UNCHANGED queueVars /\ wpc[w] # "mark"
    BY <1>8 DEF RunInference, CreateResult, InsertResult, DbError, Processing, storeVars
  <2>2. QED
    BY <1>1, <1>2, <1>4, <2>1
<1>9. CASE AckJob(w) \/ AckBeforeRetry(w) \/ EnqueueRetry(w) \/ FailJob(w) \/ CreateDeadResult(w)
  <2>1. status' = status /\ wpc[w] # "mark"
    BY <1>9 DEF AckJob, AckBeforeRetry, EnqueueRetry, FailJob, CreateDeadResult, InsertResult,
       DbError, Processing, storeVars
  <2>2. \/ UNCHANGED redisVars
        \/ Ack(i) \/ Enqueue(i, attempt[w] + 1, TRUE) \/ Fail(i, TRUE)
    BY <1>9 DEF AckJob, AckBeforeRetry, EnqueueRetry, FailJob, CreateDeadResult, RedisError
  <2>3. \A j \in Job \ {i} : payload'[j] = payload[j] /\ processing'[j] = processing[j]
    BY <1>3, <2>2 DEF Ack, Enqueue, Fail, redisVars
  <2>4. queued' = queued
    BY <2>2 DEF Ack, Enqueue, Fail, redisVars
  <2>5. QED
    BY <1>1, <1>2, <2>1, <2>3, <2>4 DEF Listed
<1>10. QED
  BY <1>5, <1>7, <1>8, <1>9 DEF ProcessSteps

LEMMA ProcessDeliver ==
    ASSUME DeliverInv, "db" \notin Faults, NEW w \in Worker, Process(w)
    PROVE  NextDeliver
<1> DEFINE i == held[w]
<1>1. /\ dq[w] = "have" /\ i \in Job
      /\ \A j \in Job \ {i} : /\ status'[j] = status[j]
                              /\ payload'[j] = payload[j]
                              /\ processing'[j] = processing[j]
                              /\ Listed(j)' <=> Listed(j)
      /\ status'[i] = status[i] \/ status'[i] \in {"RUNNING", "SUCCESS", "RETRYING", "DEAD"}
      /\ status'[i] # "QUEUED"
  BY ProcessStepsSettle DEF Process
<1>2. \A v \in Worker \ {w} : UNCHANGED <<dq[v], wpc[v], held[v]>>
  BY WorkerArrives DEF Process, DeliverInv, ExecInv
<1>3. UNCHANGED <<dq, held, deadline>> \/ Release(w)
  BY DEF Process, ProcessSteps, MarkRunning, RunInference, CreateResult, MarkSucceeded, AckJob,
     MarkRetryingAfterFailure, AckBeforeRetry, EnqueueRetry, MarkDead, FailJob,
     CreateDeadResult, WorkerCas, ReturnToLoop, queueVars, dequeueVars
<1>4. held'[w] \in {i, NoJob} /\ (dq'[w] = "have" => held'[w] = i)
  BY <1>3 DEF Release, DeliverInv, ExecInv, TypeOK, QueueTypeOK
<1>5. UNCHANGED <<rpc, rjob, ratt>>
  BY DEF Process, apiVars
<1>6. \A v \in Worker : Timed(v)'
  BY <1>3, TimedStays DEF DeliverInv, ExecInv
<1>7. ~Fresh(i)
  BY <1>1 DEF DeliverInv, Sent, Untouched
<1>8. ASSUME NEW r \in Request, Active(r) PROVE rjob[r] \in Job /\ rjob[r] # i
  BY <1>7, <1>8, ActiveHasJob DEF Fresh, DeliverInv, ExecInv, TypeOK
<1>9. RequestsApart'
  BY <1>5 DEF DeliverInv, RequestsApart, Active
<1>10. ASSUME NEW r \in Request PROVE Errand(r)'
  <2>1. Errand(r) /\ (Active(r) => status'[rjob[r]] = status[rjob[r]])
    BY <1>1, <1>8 DEF DeliverInv
  <2>2. QED
    BY <1>5, <2>1 DEF Errand, Active, Serves
<1>11. ASSUME NEW j \in Job PROVE Sent(j)'
  <2>1. CASE j = i
    <3>1. ~Fresh(j)'
      BY <1>1, <1>5, <1>7, <2>1 DEF Fresh, Active, Absent
    <3>2. QED
      BY <1>1, <2>1, <3>1 DEF Sent
  <2>2. CASE j # i
    <3>1. Sent(j) /\ (Fresh(j)' <=> Fresh(j)) /\ status'[j] = status[j]
      BY <1>1, <1>5, <2>2 DEF DeliverInv, Fresh, Active
    <3>2. Untouched(j) => Untouched(j)'
      BY <1>1, <1>2, <1>4, <2>2, NoJobAssumption DEF Untouched
    <3>3. Known(j) => Known(j)'
      BY <1>1, <1>2, <2>2 DEF Known
    <3>4. QED
      BY <1>5, <3>1, <3>2, <3>3 DEF Sent, Active
  <2>3. QED
    BY <2>1, <2>2
<1>12. ASSUME NEW v \in Worker PROVE AtMark(v)'
  <2>1. CASE v = w
    BY <1>1, <1>4, <2>1 DEF AtMark
  <2>2. CASE v # w
    <3>1. dq'[v] = dq[v] /\ wpc'[v] = wpc[v] /\ held'[v] = held[v] /\ AtMark(v)
      BY <1>2, <2>2 DEF DeliverInv
    <3>2. dq[v] = "have" => held[v] \in Job
      BY DEF DeliverInv, ExecInv, TypeOK, QueueTypeOK
    <3>3. QED
      BY <1>1, <3>1, <3>2 DEF AtMark
  <2>3. QED
    BY <2>1, <2>2
<1>13. QED
  BY <1>6, <1>9, <1>10, <1>11, <1>12 DEF NextDeliver

-----------------------------------------------------------------------------
(* A request changes the row it inserts or works on.                       *)

RowStep(r) ==
    /\ \A j \in Job : \/ status'[j] = status[j]
                      \/ status[j] = Absent /\ status'[j] # "QUEUED"
                      \/ Active(r) /\ rjob[r] = j
    /\ Active(r) => rjob'[r] = rjob[r]
    /\ Active(r)' => /\ rjob'[r] \in Job
                     /\ \/ Active(r)
                        \/ status[rjob'[r]] = Absent
                        \/ r \in RetryReq /\ status[rjob'[r]] = "FAILED"
    /\ Active(r) /\ ~Active(r)' => status'[rjob[r]] # "QUEUED"
    /\ Errand(r)'

LEMMA ApiStepsRow ==
    ASSUME DeliverInv, "db" \notin Faults, "redis" \notin Faults,
           NEW r \in Request, ApiSteps(r), ~EnqueueJob(r)
    PROVE  RowStep(r) /\ UNCHANGED redisVars
<1> USE DEF Jobless, FinalPc, ServePc
<1>1. /\ rpc \in [Request -> ApiPc] /\ status \in [Job -> JobStatus \cup {Absent}]
      /\ rjob \in [Request -> Job \cup {NoJob}] /\ ratt \in [Request -> Nat]
      /\ attempts \in [Job -> Nat]
  BY DEF DeliverInv, ExecInv, TypeOK, ApiTypeOK, StoreTypeOK
<1>2. /\ Reach(r) /\ Errand(r) /\ (Active(r) => rjob[r] \in Job)
      /\ r \notin AsyncReq \/ r \notin RetryReq
  BY ActiveHasJob, RequestAssumption DEF DeliverInv, ExecInv, TypeOK
<1>3. CASE FindByIdempotencyKey(r)
  <2>1. /\ rpc[r] = "find" /\ rpc'[r] \in {"returned", "insert"} /\ status' = status
        /\ UNCHANGED redisVars
    BY <1>1, <1>3 DEF FindByIdempotencyKey, Goto, storeVars, queueVars
  <2>2. QED
    BY <1>2, <2>1 DEF RowStep, Errand, Active
<1>4. CASE CreateJob(r)
  <2>1. rpc[r] = "insert" /\ r \notin RetryReq /\ ~Active(r) /\ UNCHANGED redisVars
    BY <1>2, <1>4 DEF CreateJob, Errand, Active, queueVars
  <2>2. CASE UNCHANGED storeVars /\ Goto(r, "conflict")
    <3>1. status' = status /\ rpc'[r] = "conflict"
      BY <1>1, <2>2 DEF storeVars, Goto
    <3>2. QED
      BY <2>1, <3>1 DEF RowStep, Errand, Active
  <2>3. CASE /\ \E j \in Job : NewRow(r, j) /\ rjob' = [rjob EXCEPT ![r] = j]
             /\ ratt' = [ratt EXCEPT ![r] = 1]
             /\ Goto(r, IF r \in SyncReq THEN "infer" ELSE "queue1")
    <3>1. PICK j \in Job : NewRow(r, j) /\ rjob' = [rjob EXCEPT ![r] = j]
      BY <2>3
    <3>2. /\ status[j] = Absent /\ \A k \in Job \ {j} : status'[k] = status[k]
          /\ status'[j] = IF r \in SyncReq THEN "RUNNING" ELSE "CREATED"
          /\ rjob'[r] = j /\ ratt'[r] = 1
          /\ rpc'[r] = IF r \in SyncReq THEN "infer" ELSE "queue1"
      BY <1>1, <2>3, <3>1 DEF NewRow, InsertJob, Goto
    <3>3. CASE r \in SyncReq
      BY <2>1, <3>2, <3>3 DEF RowStep, Errand, Active, Serves
    <3>4. CASE r \notin SyncReq
      <4>1. r \in AsyncReq
        BY <2>1, <3>4 DEF Request
      <4>2. QED
        BY <2>1, <3>2, <3>4, <4>1 DEF RowStep, Errand, Active, Serves
    <3>5. QED
      BY <3>3, <3>4
  <2>4. QED
    BY <1>4, <2>1, <2>2, <2>3 DEF CreateJob, DbError
<1>5. CASE MarkQueued(r)
  <2>1. PICK pc \in {<<"queue1", "CREATED", "queue2">>, <<"queue2", "RETRYING", "failed">>} :
           ApiCasToQueued(r, pc[1], pc[2], pc[3])
    BY <1>5 DEF MarkQueued
  <2>2. /\ rpc[r] = pc[1] /\ UNCHANGED <<rjob, ratt>> /\ UNCHANGED redisVars
        /\ TransitionToQueued(rjob[r], pc[2], ratt[r])
        /\ Goto(r, IF Matches(rjob[r], pc[2]) THEN "enqueue" ELSE pc[3])
    BY <2>1 DEF ApiCasToQueued, DbError, queueVars
  <2>3. /\ Active(r) /\ ~Serves(r) /\ rjob[r] \in Job /\ ratt[r] # 0
        /\ \/ r \in AsyncReq /\ rpc[r] = "queue1" /\ status[rjob[r]] = "CREATED"
           \/ r \in RetryReq /\ status[rjob[r]] = "RETRYING"
    BY <1>2, <2>2 DEF Active, Serves, Errand
  <2>4. CASE status[rjob[r]] = pc[2]
    <3>1. status' = [status EXCEPT ![rjob[r]] = "QUEUED"] /\ rpc'[r] = "enqueue"
      BY <1>1, <2>2, <2>4 DEF TransitionToQueued, Matches, Goto
    <3>2. QED
      BY <1>1, <2>2, <2>3, <3>1 DEF RowStep, Errand, Active, Serves
  <2>5. CASE status[rjob[r]] # pc[2]
    <3>1. status' = status /\ rpc'[r] = pc[3]
      BY <1>1, <2>2, <2>5 DEF TransitionToQueued, Matches, Goto
    <3>2. r \in RetryReq /\ pc[3] = "queue2" /\ status[rjob[r]] = "RETRYING"
      BY <2>2, <2>3, <2>5
    <3>3. QED
      BY <2>2, <2>3, <3>1, <3>2 DEF RowStep, Errand, Active, Serves
  <2>6. QED
    BY <2>4, <2>5
<1>6. CASE MarkFailed(r)
  <2>1. ApiCas(r, "fail1", "RUNNING", "FAILED", "failed", "fail2", "failed")
    BY <1>2, <1>6 DEF MarkFailed, Reach, ApiCas
  <2>2. rpc[r] = "fail1" /\ Active(r) /\ status[rjob[r]] = "RUNNING" /\ rjob[r] \in Job
    BY <1>2, <2>1 DEF ApiCas, Reach, Serves, Active
  <2>3. /\ status' = [status EXCEPT ![rjob[r]] = "FAILED"] /\ rpc'[r] = "failed"
        /\ rjob' = rjob /\ UNCHANGED redisVars
    BY <1>1, <2>1, <2>2 DEF ApiCas, Transition, Matches, Goto, DbError, queueVars
  <2>4. QED
    BY <1>1, <2>2, <2>3 DEF RowStep, Errand, Active
<1>7. CASE ReadJob(r)
  <2>1. PICK j \in Job : /\ status[j] \in {"FAILED", "DEAD"}
                         /\ rjob' = [rjob EXCEPT ![r] = j]
                         /\ ratt' = [ratt EXCEPT ![r] = attempts[j] + 1]
    BY <1>7 DEF ReadJob
  <2>2. /\ rpc[r] = "read" /\ r \in RetryReq /\ rpc'[r] = "retry1" /\ rjob'[r] = j
        /\ ratt'[r] # 0 /\ status' = status /\ status[j] = "FAILED" /\ UNCHANGED redisVars
    <3>1. attempts[j] + 1 # 0
      BY <1>1
    <3>2. QED
      BY <1>1, <1>2, <1>7, <2>1, <3>1
      DEF ReadJob, Goto, storeVars, queueVars, Reach, DeliverInv, ExecInv
  <2>3. QED
    BY <2>2 DEF RowStep, Errand, Active, Serves
<1>8. CASE MarkRetrying(r)
  <2>1. ApiCas(r, "retry1", "FAILED", "RETRYING", "queue1", "retry2", "failed")
    BY <1>2, <1>8 DEF MarkRetrying, Reach, ApiCas
  <2>2. /\ rpc[r] = "retry1" /\ Active(r) /\ status[rjob[r]] = "FAILED" /\ rjob[r] \in Job
        /\ r \in RetryReq /\ ratt[r] # 0
    BY <1>2, <2>1 DEF ApiCas, Reach, Active, Errand
  <2>3. /\ status' = [status EXCEPT ![rjob[r]] = "RETRYING"] /\ rpc'[r] = "queue1"
        /\ rjob' = rjob /\ ratt' = ratt /\ UNCHANGED redisVars
    BY <1>1, <2>1, <2>2 DEF ApiCas, Transition, Matches, Goto, DbError, queueVars
  <2>4. QED
    BY <1>1, <2>2, <2>3 DEF RowStep, Errand, Active, Serves
<1>9. CASE SyncInfer(r) \/ SyncCreateResult(r)
  <2>1. PICK pc \in {"result", "fail1", "succeed"} : Goto(r, pc)
    BY <1>9 DEF SyncInfer, SyncCreateResult
  <2>2. /\ status' = status /\ rjob' = rjob /\ Active(r) /\ rpc'[r] = pc /\ UNCHANGED redisVars
    BY <1>1, <1>9, <2>1
    DEF SyncInfer, SyncCreateResult, InsertResult, DbError, storeVars, queueVars, Active, Goto
  <2>3. QED
    BY <1>2, <2>2 DEF RowStep, Errand, Active, Serves
<1>10. CASE SyncMarkSucceeded(r)
  <2>1. /\ rpc[r] = "succeed" /\ Active(r) /\ status[rjob[r]] = "RUNNING" /\ rjob[r] \in Job
    BY <1>2, <1>10 DEF SyncMarkSucceeded, ApiCas, Reach, Serves, Active
  <2>2. /\ status' = [status EXCEPT ![rjob[r]] = "SUCCESS"] /\ rpc'[r] = "returned"
        /\ rjob' = rjob /\ UNCHANGED redisVars
    BY <1>1, <1>10, <2>1
    DEF SyncMarkSucceeded, ApiCas, Transition, Matches, Goto, DbError, queueVars
  <2>3. QED
    BY <1>1, <2>1, <2>2 DEF RowStep, Errand, Active
<1>11. QED
  BY <1>3, <1>4, <1>5, <1>6, <1>7, <1>8, <1>9, <1>10 DEF ApiSteps

-----------------------------------------------------------------------------
(* The requests.                                                           *)

\* A request that writes its row, and the ids Redis holds stay as they are.
LEMMA RowStepDeliver ==
    ASSUME DeliverInv, RetriesApart, RetriesApart', NEW r \in Request, RowStep(r),
           UNCHANGED <<redisVars, dequeueVars, wpc>>,
           \A q \in Request \ {r} : UNCHANGED <<rpc[q], rjob[q], ratt[q]>>
    PROVE  NextDeliver
<1>1. /\ UNCHANGED <<payload, processing, queued, dq, held, deadline>>
      /\ \A j \in Job : (Listed(j)' <=> Listed(j)) /\ (Untouched(j)' <=> Untouched(j))
                       /\ (Known(j)' <=> Known(j))
  BY DEF redisVars, dequeueVars, Listed, Untouched, Known
<1>2. \A q \in Request : Active(q) => rjob[q] \in Job
  BY ActiveHasJob DEF DeliverInv, ExecInv, TypeOK
<1>3. \A q \in Request \ {r} : (Active(q)' <=> Active(q)) /\ rjob'[q] = rjob[q]
  BY DEF Active
<1>4. \A q \in Request \ {r} : Active(q) => status[rjob[q]] # Absent
  <2> SUFFICES ASSUME NEW q \in Request \ {r}, Active(q) PROVE status[rjob[q]] # Absent
    OBVIOUS
  <2>1. Errand(q) /\ Reach(q)
    BY DEF DeliverInv, ExecInv
  <2>2. QED
    BY <2>1 DEF Errand, Reach, Absent
<1>5. ASSUME NEW q \in Request \ {r}, Active(q), Active(r)' PROVE rjob'[r] # rjob[q]
  <2>1. CASE Active(r)
    BY <1>5, <2>1 DEF DeliverInv, RequestsApart, RowStep
  <2>2. CASE status[rjob'[r]] = Absent
    BY <1>4, <1>5, <2>2
  <2>3. CASE ~Active(r) /\ r \in RetryReq /\ status[rjob'[r]] = "FAILED"
    <3>1. CASE q \in RetryReq
      BY <1>3, <1>5, <2>3, <3>1 DEF RetriesApart
    <3>2. CASE q \notin RetryReq
      <4>1. Errand(q) /\ Reach(q)
        BY DEF DeliverInv, ExecInv
      <4>2. status[rjob[q]] # "FAILED"
        BY <1>5, <3>2, <4>1 DEF Errand, Reach
      <4>3. QED
        BY <2>3, <4>2
    <3>3. QED
      BY <3>1, <3>2
  <2>4. QED
    BY <1>5, <2>1, <2>2, <2>3 DEF RowStep
<1>6. RequestsApart'
  <2> SUFFICES ASSUME NEW p \in Request, NEW q \in Request, Active(p)', Active(q)',
                      rjob'[p] = rjob'[q]
               PROVE  p = q
    BY DEF RequestsApart
  <2>1. CASE p # r /\ q # r
    BY <1>3, <2>1 DEF DeliverInv, RequestsApart
  <2>2. CASE p = r \/ q = r
    BY <1>3, <1>5, <2>2
  <2>3. QED
    BY <2>1, <2>2
<1>7. ASSUME NEW q \in Request PROVE Errand(q)'
  <2>1. CASE q = r
    BY <2>1 DEF RowStep
  <2>2. CASE q # r
    <3>1. Errand(q) /\ UNCHANGED <<rpc[q], rjob[q], ratt[q]>>
      BY <2>2 DEF DeliverInv
    <3>2. Active(q) => status'[rjob[q]] = status[rjob[q]]
      <4> SUFFICES ASSUME Active(q) PROVE status'[rjob[q]] = status[rjob[q]]
        OBVIOUS
      <4>1. rjob[q] \in Job /\ status[rjob[q]] # Absent
        BY <1>2, <1>4, <2>2
      <4>2. ~(Active(r) /\ rjob[r] = rjob[q])
        BY <2>2 DEF DeliverInv, RequestsApart
      <4>3. QED
        BY <4>1, <4>2 DEF RowStep
    <3>3. QED
      BY <3>1, <3>2 DEF Errand, Active, Serves
  <2>3. QED
    BY <2>1, <2>2
<1>8. ASSUME NEW j \in Job, Fresh(j)' PROVE Untouched(j)
  <2>1. Fresh(j)
    <3>1. CASE \E q \in Request : Active(q)' /\ rjob'[q] = j
      BY <1>3, <3>1 DEF Fresh, RowStep
    <3>2. CASE status'[j] \in {Absent, "CREATED", "FAILED"}
      BY <3>2 DEF Fresh, RowStep
    <3>3. QED
      BY <1>8, <3>1, <3>2 DEF Fresh
  <2>2. QED
    BY <2>1 DEF DeliverInv, Sent
<1>9. ASSUME NEW j \in Job, status'[j] = "QUEUED", ~\E q \in Request : Active(q)' /\ rjob'[q] = j
      PROVE  Known(j)
  <2>1. \A q \in Request : ~(Active(q) /\ rjob[q] = j)
    <3> SUFFICES ASSUME NEW q \in Request, Active(q), rjob[q] = j PROVE FALSE
      OBVIOUS
    <3>1. q = r
      BY <1>3, <1>9
    <3>2. QED
      BY <1>9, <3>1 DEF RowStep
  <2>2. status[j] = "QUEUED"
    BY <1>9, <2>1 DEF RowStep
  <2>3. QED
    BY <2>1, <2>2 DEF DeliverInv, Sent
<1>10. ASSUME NEW j \in Job PROVE Sent(j)'
  BY <1>1, <1>8, <1>9 DEF Sent
<1>11. ASSUME NEW w \in Worker PROVE AtMark(w)'
  <2> SUFFICES ASSUME dq[w] = "have", status'[held[w]] = "QUEUED" PROVE wpc[w] = "mark"
    BY <1>1 DEF AtMark
  <2>1. held[w] \in Job
    BY DEF DeliverInv, ExecInv, TypeOK, QueueTypeOK
  <2>2. ~Fresh(held[w])
    BY <2>1 DEF DeliverInv, Sent, Untouched
  <2>3. status'[held[w]] = status[held[w]]
    BY <2>1, <2>2 DEF Fresh, RowStep
  <2>4. QED
    BY <2>3 DEF DeliverInv, AtMark
<1>12. \A w \in Worker : Timed(w)'
  BY <1>1 DEF DeliverInv, Timed
<1>13. QED
  BY <1>6, <1>7, <1>10, <1>11, <1>12 DEF NextDeliver

\* The id goes to the list as its request returns.
LEMMA EnqueueDeliver ==
    ASSUME DeliverInv, "redis" \notin Faults, NEW r \in Request, EnqueueJob(r),
           wpc' = wpc
    PROVE  NextDeliver
<1> DEFINE i == rjob[r]
<1>1. /\ rpc[r] = "enqueue" /\ Enqueue(i, ratt[r], FALSE) /\ Goto(r, "returned")
      /\ UNCHANGED <<status, rjob, ratt, dq, held, deadline>>
  BY DEF EnqueueJob, RedisError, storeVars, dequeueVars
<1>2. /\ rpc \in [Request -> ApiPc] /\ queued \in Seq(Job)
      /\ payload \in [Job -> Nat] /\ ratt \in [Request -> Nat]
  BY DEF DeliverInv, ExecInv, TypeOK, ApiTypeOK, QueueTypeOK
<1>3. Active(r) /\ i \in Job /\ ratt[r] # 0
  <2>1. Active(r)
    BY <1>1 DEF Active, Jobless, FinalPc
  <2>2. Errand(r)
    BY DEF DeliverInv
  <2>3. QED
    BY <1>1, <2>1, <2>2, ActiveHasJob DEF Errand, DeliverInv, ExecInv, TypeOK
<1>4. status[i] = "QUEUED"
  BY <1>1, <1>3 DEF DeliverInv, Errand, Serves, ServePc
<1>5. /\ payload' = [payload EXCEPT ![i] = ratt[r]] /\ processing' = processing
      /\ queued' = Append(queued, i)
  BY <1>1 DEF Enqueue
<1>6. \A j \in Job : Listed(j)' <=> Listed(j) \/ j = i
  BY <1>2, <1>3, <1>5, ListedAfterAppend
<1>7. rpc' = [rpc EXCEPT ![r] = "returned"]
  BY <1>1 DEF Goto
<1>8. ~Active(r)' /\ \A q \in Request \ {r} : (Active(q)' <=> Active(q)) /\ rpc'[q] = rpc[q]
  BY <1>2, <1>7 DEF Active, Jobless, FinalPc
<1>9. RequestsApart'
  BY <1>1, <1>8 DEF DeliverInv, RequestsApart
<1>10. ASSUME NEW q \in Request PROVE Errand(q)'
  <2>1. CASE q = r
    BY <1>2, <1>7, <2>1 DEF Errand, Active, Jobless, FinalPc
  <2>2. CASE q # r
    BY <1>1, <1>8, <2>2 DEF DeliverInv, Errand, Serves
  <2>3. QED
    BY <2>1, <2>2
<1>11. ASSUME NEW j \in Job PROVE Sent(j)'
  <2>1. CASE j = i
    <3>1. \A q \in Request \ {r} : ~(Active(q) /\ rjob[q] = i)
      BY <1>3 DEF DeliverInv, RequestsApart
    <3>2. ~Fresh(j)'
      BY <1>1, <1>4, <1>8, <2>1, <3>1 DEF Fresh, Absent
    <3>3. payload'[j] # 0 /\ Listed(j)'
      BY <1>2, <1>3, <1>5, <1>6, <2>1
    <3>4. QED
      BY <3>2, <3>3 DEF Sent, Known
  <2>2. CASE j # i
    <3>1. Sent(j) /\ (Fresh(j)' <=> Fresh(j))
      BY <1>1, <1>8, <2>2 DEF DeliverInv, Fresh
    <3>2. payload'[j] = payload[j] /\ (Listed(j)' <=> Listed(j))
      BY <1>2, <1>5, <1>6, <2>2
    <3>3. (Untouched(j)' <=> Untouched(j)) /\ (Known(j)' <=> Known(j))
      BY <1>1, <1>5, <3>2 DEF Untouched, Known
    <3>4. QED
      BY <1>1, <1>8, <2>2, <3>1, <3>3 DEF Sent
  <2>3. QED
    BY <2>1, <2>2
<1>12. (\A w \in Worker : AtMark(w)') /\ (\A w \in Worker : Timed(w)')
  BY <1>1 DEF DeliverInv, AtMark, Timed
<1>13. QED
  BY <1>9, <1>10, <1>11, <1>12 DEF NextDeliver

-----------------------------------------------------------------------------
LEMMA ServeDeliver ==
    ASSUME DeliverInv, RetriesApart, RetriesApart', {"db", "redis"} \cap Faults = {},
           NEW r \in Request, Serve(r)
    PROVE  NextDeliver
<1>1. "db" \notin Faults /\ "redis" \notin Faults
  OBVIOUS
<1>2. CASE EnqueueJob(r)
  BY <1>1, <1>2, EnqueueDeliver DEF Serve
<1>3. CASE ~EnqueueJob(r)
  <2>1. RowStep(r) /\ UNCHANGED redisVars
    BY <1>1, <1>3, ApiStepsRow DEF Serve
  <2>2. UNCHANGED <<dequeueVars, wpc>>
    BY <1>3 DEF Serve, ApiSteps, FindByIdempotencyKey, CreateJob, MarkQueued, MarkFailed, ReadJob,
       MarkRetrying, SyncInfer, SyncCreateResult, SyncMarkSucceeded, ApiCas, ApiCasToQueued,
       queueVars
  <2>3. \A q \in Request \ {r} : rpc'[q] = rpc[q] /\ rjob'[q] = rjob[q]
    BY ApiArrives DEF Serve, DeliverInv, ExecInv
  <2>4. ratt' = ratt \/ \E n : ratt' = [ratt EXCEPT ![r] = n]
    BY <1>3 DEF Serve, ApiSteps, FindByIdempotencyKey, CreateJob, MarkQueued, MarkFailed, ReadJob,
       MarkRetrying, SyncInfer, SyncCreateResult, SyncMarkSucceeded, ApiCas, ApiCasToQueued
  <2>5. \A q \in Request \ {r} : ratt'[q] = ratt[q]
    BY <2>4 DEF DeliverInv, ExecInv, TypeOK, ApiTypeOK
  <2>6. QED
    BY <2>1, <2>2, <2>3, <2>5, RowStepDeliver
<1>4. QED
  BY <1>2, <1>3

LEMMA StepDeliver ==
    ASSUME DeliverInv, RetriesApart, RetriesApart',
           {"db", "redis", "api_crash", "pop_crash"} \cap Faults = {}, Next
    PROVE  NextDeliver
<1>1. /\ {"db", "redis"} \cap Faults = {} /\ "db" \notin Faults
      /\ "redis" \notin Faults /\ "api_crash" \notin Faults /\ "pop_crash" \notin Faults
  OBVIOUS
<1>2. TypeOK /\ \A w \in Worker : Timed(w)
  BY DEF DeliverInv, ExecInv
<1>3. ASSUME NEW r \in Request, Serve(r) \/ Abandon(r)
      PROVE  NextDeliver
  BY <1>1, <1>3, ServeDeliver DEF Abandon, RequestDies
<1>4. ASSUME NEW w \in Worker, Process(w)
      PROVE  NextDeliver
  BY <1>1, <1>4, ProcessDeliver
<1>5. ASSUME NEW w \in Worker, Dequeue(w)
      PROVE  NextDeliver
  <2>1. QueueKeeps /\ \A v \in Worker : Timed(v)'
    BY <1>2, <1>5, DequeueStepsKeep, TimedStays DEF Dequeue, InQueue
  <2>2. QED
    BY <1>5, <2>1, QueueStepDeliver DEF Dequeue, InQueue
<1>6. ASSUME NEW w \in Worker, Crash(w)
      PROVE  NextDeliver
  <2>1. QueueKeeps
    BY <1>1, <1>2, <1>6, CrashKeeps DEF Crash
  <2>2. \A v \in Worker : Timed(v)'
    BY <1>2, <1>6, TimedStays DEF Crash, WorkerCrash
  <2>3. \A v \in Worker : wpc'[v] = wpc[v] \/ wpc'[v] = "mark"
    BY <1>2, <1>6 DEF Crash, Proceed, TypeOK, WorkerTypeOK
  <2>4. QED
    BY <1>6, <2>1, <2>2, <2>3, QueueStepDeliver DEF Crash
<1>7. ASSUME NEW w \in Worker, WaitTooLong(w)
      PROVE  NextDeliver
  <2>1. QueueKeeps /\ \A v \in Worker : Timed(v)'
    BY <1>2, <1>7, TimeKeeps, TimedStays DEF WaitTooLong, InQueue
  <2>2. QED
    BY <1>7, <2>1, QueueStepDeliver DEF WaitTooLong, InQueue
<1>8. CASE Housekeep \/ \E j \in Job : TimePasses(j)
  <2>1. QueueKeeps
    BY <1>2, <1>8, HousekeepKeeps, TimeKeeps DEF Housekeep, TimePasses, InQueue
  <2>2. UNCHANGED <<dq, deadline>>
    BY <1>8 DEF Housekeep, TimePasses, InQueue, HousekeepingScan, HousekeepingSweep, LeaseLapses,
       dequeueVars
  <2>3. UNCHANGED <<storeVars, apiVars, wpc>>
    BY <1>8 DEF Housekeep, TimePasses, InQueue
  <2>4. QED
    BY <1>2, <2>1, <2>2, <2>3, TimedStays, QueueStepDeliver
<1>9. CASE RedisFails
  BY <1>1, <1>9 DEF RedisFails, InQueue, DequeueError, DequeueMoveError, SweepError
<1>10. QED
  BY <1>3, <1>4, <1>5, <1>6, <1>7, <1>8, <1>9 DEF Next

LEMMA StutterDeliver ==
    ASSUME DeliverInv, UNCHANGED vars
    PROVE  NextDeliver
<1>1. /\ UNCHANGED <<storeVars, apiVars, wpc, dq, deadline>>
      /\ UNCHANGED redisVars /\ held' = held
  BY DEF vars, queueVars, dequeueVars
<1>2. \A v \in Worker : dq[v] # "have" => wpc[v] = "mark"
  BY DEF DeliverInv, ExecInv, TypeOK, WorkerTypeOK
<1>3. QueueKeeps
  BY <1>1, <1>2, QuietQueueKeeps
<1>4. QED
  BY <1>1, <1>3, TimedStays, QueueStepDeliver DEF DeliverInv, ExecInv

LEMMA InitDeliver == Init => DeliverInv
<1> SUFFICES ASSUME Init PROVE DeliverInv
  OBVIOUS
<1>1. ExecInv
  BY InitExec
<1>2. ASSUME NEW r \in Request PROVE ~Active(r) /\ Errand(r)
  BY RequestAssumption
  DEF Init, ApiInit, StartPc, Active, Errand, Jobless, FinalPc
<1>3. ASSUME NEW j \in Job PROVE Sent(j)
  <2>1. status[j] # "QUEUED"
    BY DEF Init, StoreInit, Absent
  <2>2. queued = <<>> /\ processing[j] = "none" /\ payload[j] = 0
    BY DEF Init, QueueInit
  <2>3. ~Listed(j)
    BY <2>2 DEF Listed
  <2>4. \A w \in Worker : held[w] # j
    BY NoJobAssumption DEF Init, QueueInit
  <2>5. QED
    BY <2>1, <2>2, <2>3, <2>4 DEF Sent, Untouched
<1>4. ASSUME NEW w \in Worker PROVE AtMark(w) /\ Timed(w)
  BY DEF Init, QueueInit, AtMark, Timed
<1>5. QED
  BY <1>1, <1>2, <1>3, <1>4 DEF DeliverInv, RequestsApart

\* As long as Postgres and Redis answer, requests are served to their end and no
\* worker dies between BRPOP and the ZADD, and no client retries a job whose
\* Retry is under way: a job the database calls QUEUED is in Redis or on its
\* way there, whatever leases lapse, inferences fail and workers die.
THEOREM QueuedStaysDeliverable ==
    ASSUME {"db", "redis", "api_crash", "pop_crash"} \cap Faults = {}
    PROVE  Spec /\ []RetriesApart => []QueuedIsDeliverable
<1>1. DeliverInv => QueuedIsDeliverable
  <2> SUFFICES ASSUME DeliverInv, NEW j \in Job, status[j] = "QUEUED"
               PROVE  WillBeDelivered(j)
    BY DEF QueuedIsDeliverable
  <2>1. CASE Known(j)
    BY <2>1 DEF Known, Listed, WillBeDelivered
  <2>2. ASSUME NEW r \in Request, Active(r), rjob[r] = j PROVE WillBeDelivered(j)
    <3>1. Errand(r) /\ Reach(r)
      BY DEF DeliverInv, ExecInv
    <3>2. rpc[r] = "enqueue"
      BY <2>2, <3>1 DEF Errand, Reach
    <3>3. QED
      BY <2>2, <3>2 DEF WillBeDelivered
  <2>3. QED
    BY <2>1, <2>2 DEF DeliverInv, Sent
<1>2. DeliverInv /\ RetriesApart /\ RetriesApart' /\ [Next]_vars => DeliverInv'
  <2>1. ASSUME DeliverInv, RetriesApart, RetriesApart', [Next]_vars PROVE NextDeliver
    BY <2>1, StepDeliver, StutterDeliver
  <2>2. ASSUME DeliverInv, RetriesApart, [Next]_vars PROVE ExecInv'
    <3>1. ASSUME Next PROVE ExecInv'
      <4>1. "redis" \notin Faults
        OBVIOUS
      <4>2. QED
        BY <2>2, <3>1, <4>1, StepType, StepExec DEF DeliverInv, ExecInv, NextExec
    <3>2. ASSUME UNCHANGED vars PROVE ExecInv'
      <4>1. NextExec
        BY <2>2, <3>2, QuietExec DEF DeliverInv, vars, queueVars, dequeueVars
      <4>2. QED
        BY <2>2, <3>2, <4>1, StutterType DEF DeliverInv, ExecInv, NextExec
    <3>3. QED
      BY <2>2, <3>1, <3>2
  <2>3. QED
    BY <2>1, <2>2 DEF DeliverInv, NextDeliver
<1>3. QED
  BY InitDeliver, <1>1, <1>2, PTL DEF Spec
=============================================================================

---------------------------- MODULE InferenceApi ----------------------------
(***************************************************************************)
(* InferenceService of internal/service/services.go: CreateAsync,          *)
(* CreateSync and Retry as the statements and commands they issue, one     *)
(* step each, with every error path.  authorize() reads only and is not    *)
(* modelled; a request is one that passed it.                              *)
(***************************************************************************)
EXTENDS JobStore, RedisQueue

CONSTANTS
    AsyncReq,  \* calls of CreateAsync
    Keyed,     \* those of them that carry the client's idempotency key
    SyncReq,   \* calls of CreateSync
    RetryReq   \* calls of Retry

Request == AsyncReq \cup SyncReq \cup RetryReq

ASSUME RequestAssumption ==
    /\ Keyed \subseteq AsyncReq
    /\ AsyncReq \cap SyncReq = {}
    /\ RetryReq \cap (AsyncReq \cup SyncReq) = {}

VARIABLES
    rpc,   \* where the request is
    rjob,  \* the job it created, found or retries
    ratt   \* the attempt it will enqueue

apiVars == <<rpc, rjob, ratt>>

FinalPc == {"returned", "conflict", "failed"}
ApiPc == FinalPc \cup {"find", "insert", "queue1", "queue2", "enqueue", "fail1",
                       "fail2", "fail3", "infer", "result", "succeed",
                       "read", "retry1", "retry2"}
StartPc(r) ==
    IF r \in Keyed THEN "find" ELSE IF r \in RetryReq THEN "read" ELSE "insert"

ApiInit ==
    /\ rpc  = [r \in Request |-> StartPc(r)]
    /\ rjob = [r \in Request |-> NoJob]
    /\ ratt = [r \in Request |-> 0]

ApiTypeOK ==
    /\ rpc  \in [Request -> ApiPc]
    /\ rjob \in [Request -> Job \cup {NoJob}]
    /\ ratt \in [Request -> Nat]
    /\ \A r \in Request :
        rpc[r] \notin FinalPc \cup {"find", "insert", "read"} => rjob[r] \in Job

Goto(r, pc) == rpc' = [rpc EXCEPT ![r] = pc]

-----------------------------------------------------------------------------
\* One compare-and-set of a Mark* method: where to go if it changed the row,
\* if it did not, and if the statement failed.
ApiCas(r, at, from, to, hit, miss, err) ==
    /\ rpc[r] = at
    /\ \/ /\ Transition(rjob[r], from, to)
          /\ Goto(r, IF Matches(rjob[r], from) THEN hit ELSE miss)
       \/ DbError(Transition(rjob[r], from, to)) /\ Goto(r, err)
    /\ UNCHANGED <<queueVars, rjob, ratt>>

ApiCasToQueued(r, at, from, miss) ==
    /\ rpc[r] = at
    /\ \/ /\ TransitionToQueued(rjob[r], from, ratt[r])
          /\ Goto(r, IF Matches(rjob[r], from) THEN "enqueue" ELSE miss)
       \/ DbError(TransitionToQueued(rjob[r], from, ratt[r])) /\ Goto(r, "failed")
    /\ UNCHANGED <<queueVars, rjob, ratt>>

\* Any error of the lookup counts as "no such key".
FindByIdempotencyKey(r) ==
    /\ rpc[r] = "find"
    /\ \/ \E j \in keyed : rjob' = [rjob EXCEPT ![r] = j] /\ Goto(r, "returned")
       \/ (keyed = {} \/ "db" \in Faults) /\ Goto(r, "insert") /\ rjob' = rjob
    /\ UNCHANGED <<storeVars, queueVars, ratt>>

NewRow(r, j) ==
    IF r \in SyncReq THEN InsertJob(j, "RUNNING", 1, FALSE)
                     ELSE InsertJob(j, "CREATED", 0, r \in Keyed)

CreateJob(r) ==
    /\ rpc[r] = "insert"
    /\ \/ /\ ~InsertConflicts(r \in Keyed)
          /\ \E j \in Job : NewRow(r, j) /\ rjob' = [rjob EXCEPT ![r] = j]
          /\ ratt' = [ratt EXCEPT ![r] = 1]
          /\ Goto(r, IF r \in SyncReq THEN "infer" ELSE "queue1")
       \/ /\ InsertConflicts(r \in Keyed)
          /\ Goto(r, "conflict")
          /\ UNCHANGED <<storeVars, rjob, ratt>>
       \/ /\ DbError(~InsertConflicts(r \in Keyed) /\ \E j \in Job : NewRow(r, j))
          /\ Goto(r, "failed")
          /\ UNCHANGED <<rjob, ratt>>
    /\ UNCHANGED queueVars

MarkQueued(r) ==
    \/ ApiCasToQueued(r, "queue1", "CREATED", "queue2")
    \/ ApiCasToQueued(r, "queue2", "RETRYING", "failed")

\* CreateAsync marks the job FAILED when Enqueue reports an error; Retry does not.
EnqueueJob(r) ==
    /\ rpc[r] = "enqueue"
    /\ \/ Enqueue(rjob[r], ratt[r], FALSE) /\ Goto(r, "returned")
       \/ /\ RedisError(Enqueue(rjob[r], ratt[r], FALSE))
          /\ Goto(r, IF r \in AsyncReq THEN "fail1" ELSE "failed")
    /\ UNCHANGED <<storeVars, dequeueVars, rjob, ratt>>

MarkFailed(r) ==
    \/ ApiCas(r, "fail1", "RUNNING", "FAILED", "failed", "fail2", "failed")
    \/ ApiCas(r, "fail2", "CREATED", "FAILED", "failed", "fail3", "failed")
    \/ ApiCas(r, "fail3", "QUEUED", "FAILED", "failed", "failed", "failed")

-----------------------------------------------------------------------------
(* Retry.                                                                  *)

\* Mutation: the retry is enqueued under the attempt that already ran.
ReadJobSameAttempt(r) ==
    /\ rpc[r] = "read"
    /\ \E j \in Job :
        /\ status[j] \in {"FAILED", "DEAD"}
        /\ rjob' = [rjob EXCEPT ![r] = j]
        /\ ratt' = [ratt EXCEPT ![r] = attempts[j]]
    /\ Goto(r, "retry1")
    /\ UNCHANGED <<storeVars, queueVars>>

ReadJob(r) ==
    /\ rpc[r] = "read"
    /\ \E j \in Job :
        /\ status[j] \in {"FAILED", "DEAD"}
        /\ rjob' = [rjob EXCEPT ![r] = j]
        /\ ratt' = [ratt EXCEPT ![r] = attempts[j] + 1]
    /\ Goto(r, "retry1")
    /\ UNCHANGED <<storeVars, queueVars>>

MarkRetrying(r) ==
    \/ ApiCas(r, "retry1", "FAILED", "RETRYING", "queue1", "retry2", "failed")
    \/ ApiCas(r, "retry2", "RUNNING", "RETRYING", "queue1", "conflict", "failed")

-----------------------------------------------------------------------------
(* CreateSync after the insert.                                            *)

\* Mutation: MarkSucceeded before the result is stored.
SyncInferThenSucceed(r) ==
    /\ rpc[r] = "infer"
    /\ Goto(r, "succeed")
    /\ UNCHANGED <<storeVars, queueVars, rjob, ratt>>

SyncInfer(r) ==
    /\ rpc[r] = "infer"
    /\ \/ Goto(r, "result")
       \/ "ml" \in Faults /\ Goto(r, "fail1")
    /\ UNCHANGED <<storeVars, queueVars, rjob, ratt>>

SyncCreateResult(r) ==
    /\ rpc[r] = "result"
    /\ \/ /\ InsertResult(rjob[r], "SUCCESS")
          /\ Goto(r, IF HasResult(rjob[r]) THEN "fail1" ELSE "succeed")
       \/ DbError(InsertResult(rjob[r], "SUCCESS")) /\ Goto(r, "fail1")
    /\ UNCHANGED <<queueVars, rjob, ratt>>

\* An error of MarkSucceeded is only logged.
SyncMarkSucceeded(r) ==
    ApiCas(r, "succeed", "RUNNING", "SUCCESS", "returned", "returned", "returned")

-----------------------------------------------------------------------------
\* The API process dies, or the client hangs up and the request's context
\* fails every statement that is left.
RequestDies(r) ==
    /\ "api_crash" \in Faults
    /\ rpc[r] \notin FinalPc \cup {StartPc(r)}
    /\ Goto(r, "failed")
    /\ UNCHANGED <<storeVars, queueVars, rjob, ratt>>

ApiSteps(r) ==
    \/ FindByIdempotencyKey(r) \/ CreateJob(r)        \/ MarkQueued(r)
    \/ EnqueueJob(r)           \/ MarkFailed(r)       \/ ReadJob(r)
    \/ MarkRetrying(r)         \/ SyncInfer(r)        \/ SyncCreateResult(r)
    \/ SyncMarkSucceeded(r)
=============================================================================

------------------------------ MODULE JobWorker -----------------------------
(***************************************************************************)
(* process and handleFailure of internal/worker/worker.go: what a worker   *)
(* goroutine does with the payload Dequeue returned (dq[w] = "have"), one  *)
(* statement or command per step.  runInference changes no state; metrics  *)
(* and audit records are left out.                                         *)
(***************************************************************************)
EXTENDS JobStore, RedisQueue

CONSTANT MaxAttempts   \* WORKER_MAX_ATTEMPTS

ASSUME MaxAttemptsAssumption == MaxAttempts \in Nat \ {0}

VARIABLE wpc   \* where the worker is in process; "mark" at its first statement

WorkerPc == {"mark", "infer", "result", "succeed", "ack", "retry1", "retry2",
             "ackretry", "reenqueue", "markdead", "fail", "deadresult"}

WorkerInit == wpc = [w \in Worker |-> "mark"]

WorkerTypeOK ==
    /\ wpc \in [Worker -> WorkerPc]
    /\ \A w \in Worker : dq[w] # "have" => wpc[w] = "mark"

Processing(w, at) == dq[w] = "have" /\ wpc[w] = at
Proceed(w, to) == wpc' = [wpc EXCEPT ![w] = to]

\* Mutation: the state of one delivery leaks into the next.
ReturnKeepingPc(w) == Release(w) /\ UNCHANGED wpc

\* process returns; the loop calls Dequeue again.
ReturnToLoop(w) == Release(w) /\ Proceed(w, "mark")

WorkerCas(w, at, from, to, hit, miss, err) ==
    /\ Processing(w, at)
    /\ \/ /\ Transition(held[w], from, to)
          /\ Proceed(w, IF Matches(held[w], from) THEN hit ELSE miss)
       \/ DbError(Transition(held[w], from, to)) /\ Proceed(w, err)
    /\ UNCHANGED queueVars

\* handleFailure's branch.
AfterFailure(w, kind) ==
    IF attempt[w] + 1 < MaxAttempts /\ Retriable(ClassifyErrorCode(kind))
    THEN "retry1" ELSE "markdead"

-----------------------------------------------------------------------------
\* Mutation: only the error of MarkRunning is looked at, not its ok.
MarkRunningIgnoringOk(w) ==
    /\ Processing(w, "mark")
    /\ \/ TransitionToRunning(held[w]) /\ Proceed(w, "infer")
       \/ DbError(TransitionToRunning(held[w])) /\ Proceed(w, "ack")
    /\ UNCHANGED queueVars

\* Not QUEUED, or an error: the delivery is acknowledged and forgotten.
MarkRunning(w) ==
    /\ Processing(w, "mark")
    /\ \/ /\ TransitionToRunning(held[w])
          /\ Proceed(w, IF Matches(held[w], "QUEUED") THEN "infer" ELSE "ack")
       \/ DbError(TransitionToRunning(held[w])) /\ Proceed(w, "ack")
    /\ UNCHANGED queueVars

RunInference(w) ==
    /\ Processing(w, "infer")
    /\ \/ Proceed(w, "result")
       \/ /\ "ml" \in Faults
          /\ \E kind \in {"Storage", "Inference"} : Proceed(w, AfterFailure(w, kind))
    /\ UNCHANGED <<storeVars, queueVars>>

\* Mutation: a result that could not be stored is only logged.
CreateResultIgnoringError(w) ==
    /\ Processing(w, "result")
    /\ InsertResult(held[w], "SUCCESS") \/ DbError(InsertResult(held[w], "SUCCESS"))
    /\ Proceed(w, "succeed")
    /\ UNCHANGED queueVars

CreateResult(w) ==
    /\ Processing(w, "result")
    /\ \/ /\ InsertResult(held[w], "SUCCESS")
          /\ Proceed(w, IF HasResult(held[w]) THEN AfterFailure(w, "Database")
                                              ELSE "succeed")
       \/ /\ DbError(InsertResult(held[w], "SUCCESS"))
          /\ Proceed(w, AfterFailure(w, "Database"))
    /\ UNCHANGED queueVars

\* An error of MarkSucceeded is only logged.
MarkSucceeded(w) ==
    WorkerCas(w, "succeed", "RUNNING", "SUCCESS", "ack", "ack", "ack")

AckJob(w) ==
    /\ Processing(w, "ack")
    /\ Ack(held[w]) \/ RedisError(Ack(held[w]))
    /\ ReturnToLoop(w)
    /\ UNCHANGED storeVars

-----------------------------------------------------------------------------
(* handleFailure: the retry.                                               *)

MarkRetryingAfterFailure(w) ==
    \/ WorkerCas(w, "retry1", "FAILED", "RETRYING", "ackretry", "retry2", "ackretry")
    \/ WorkerCas(w, "retry2", "RUNNING", "RETRYING", "ackretry", "ackretry", "ackretry")

AckBeforeRetry(w) ==
    /\ Processing(w, "ackretry")
    /\ Ack(held[w]) \/ RedisError(Ack(held[w]))
    /\ Proceed(w, "reenqueue")
    /\ UNCHANGED <<storeVars, dequeueVars>>

EnqueueRetry(w) ==
    /\ Processing(w, "reenqueue")
    /\ LET Cmd == Enqueue(held[w], attempt[w] + 1, TRUE)
       IN  Cmd \/ RedisError(Cmd)
    /\ ReturnToLoop(w)
    /\ UNCHANGED storeVars

-----------------------------------------------------------------------------
(* handleFailure: out of attempts, or not retriable.                       *)

MarkDead(w) ==
    WorkerCas(w, "markdead", "RETRYING", "DEAD", "fail", "fail", "fail")

FailJob(w) ==
    /\ Processing(w, "fail")
    /\ Fail(held[w], TRUE) \/ RedisError(Fail(held[w], TRUE))
    /\ Proceed(w, "deadresult")
    /\ UNCHANGED <<storeVars, dequeueVars>>

CreateDeadResult(w) ==
    /\ Processing(w, "deadresult")
    /\ InsertResult(held[w], "DEAD") \/ DbError(InsertResult(held[w], "DEAD"))
    /\ ReturnToLoop(w)
    /\ UNCHANGED redisVars

ProcessSteps(w) ==
    \/ MarkRunning(w)      \/ RunInference(w)   \/ CreateResult(w)
    \/ MarkSucceeded(w)    \/ AckJob(w)         \/ MarkRetryingAfterFailure(w)
    \/ AckBeforeRetry(w)   \/ EnqueueRetry(w)   \/ MarkDead(w)
    \/ FailJob(w)          \/ CreateDeadResult(w)
=============================================================================

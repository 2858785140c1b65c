------------------------------ MODULE JobTypes ------------------------------
(***************************************************************************)
(* The vocabulary every module shares: packages/types/jobs.go (statuses,   *)
(* the documented transition table, retriable error codes), the mapping of *)
(* error kinds to codes in the worker, and the faults a run switches on.   *)
(***************************************************************************)
EXTENDS Naturals

CONSTANTS
    Job,      \* job ids that may be inserted into inference_jobs
    NoJob,    \* "no job": an idle worker, a request without a row
    Faults    \* the faults the environment of a run may inject

FaultKind ==
    { "ml",            \* asset lookup, storage or the ML service fails
      "db",            \* a statement returns an error, applied or not
      "redis",         \* a Redis command returns an error, applied or not
      "api_crash",     \* a request dies: API crash or client disconnect
      "worker_crash",  \* a worker dies, is shut down, or its jobCtx runs out
      "pop_crash" }    \* the same between BRPOP and the ZADD that follows it

ASSUME FaultsAssumption == Faults \subseteq FaultKind
ASSUME NoJobAssumption == NoJob \notin Job
-----------------------------------------------------------------------------
JobStatus == {"CREATED", "QUEUED", "RUNNING", "SUCCESS",
              "FAILED", "RETRYING", "DEAD", "CANCELLED"}

\* The documented state machine (the code never calls ValidTransition).
AllowedNext ==
    [ CREATED   |-> {"QUEUED", "CANCELLED", "FAILED"},
      QUEUED    |-> {"RUNNING", "RETRYING", "DEAD", "CANCELLED"},
      RUNNING   |-> {"SUCCESS", "FAILED", "RETRYING"},
      RETRYING  |-> {"QUEUED", "DEAD"},
      FAILED    |-> {"RETRYING", "DEAD", "CANCELLED"},
      SUCCESS   |-> {},
      DEAD      |-> {},
      CANCELLED |-> {} ]

ValidTransition(s, next) == next \in AllowedNext[s]

Retriable(code) ==
    code \in {"STORAGE_ERROR", "DATABASE_ERROR", "QUEUE_ERROR",
              "ML_SERVICE_ERROR", "TIMEOUT"}

\* apperrors.Kind -> ErrorCode, as the worker classifies a failure.
ClassifyErrorCode(kind) ==
    CASE kind = "Validation"            -> "INVALID_INPUT"
      [] kind = "Storage"               -> "STORAGE_ERROR"
      [] kind = "Database"              -> "DATABASE_ERROR"
      [] kind = "Queue"                 -> "QUEUE_ERROR"
      [] kind \in {"Inference", "Model"} -> "ML_SERVICE_ERROR"
      [] kind = "NotFound"              -> "NOT_FOUND"
      [] OTHER                          -> "INTERNAL_ERROR"
=============================================================================

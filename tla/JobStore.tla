------------------------------ MODULE JobStore ------------------------------
(***************************************************************************)
(* The Postgres side of a job: the rows of inference_jobs and              *)
(* inference_results, and the statements of repository/job.go and          *)
(* repository/result.go.  Every UPDATE is a compare-and-set on the status  *)
(* column that commits on its own, so a Mark* method that tries several    *)
(* source statuses is several steps; the callers sequence them.            *)
(***************************************************************************)
EXTENDS JobTypes

VARIABLES
    status,    \* inference_jobs.status
    attempts,  \* inference_jobs.attempts
    keyed,     \* the rows that carry the client's idempotency key
    result,    \* inference_results: the status in result_json, or "none"
    runs       \* history: how often the job was put into RUNNING

storeVars == <<status, attempts, keyed, result, runs>>

Absent == "no row"   \* in place of a status: the id has not been inserted

StoreInit ==
    /\ status   = [j \in Job |-> Absent]
    /\ attempts = [j \in Job |-> 0]
    /\ keyed    = {}
    /\ result   = [j \in Job |-> "none"]
    /\ runs     = [j \in Job |-> 0]

StoreTypeOK ==
    /\ status   \in [Job -> JobStatus \cup {Absent}]
    /\ attempts \in [Job -> Nat]
    /\ keyed    \in SUBSET Job
    /\ result   \in [Job -> {"none", "SUCCESS", "DEAD"}]
    /\ runs     \in [Job -> Nat]

-----------------------------------------------------------------------------
\* INSERT INTO inference_jobs; jobs_project_idem is the unique index on the key.
\* Mutation: the index is not unique.
InsertNeverConflicts(withKey) == FALSE
InsertConflicts(withKey) == withKey /\ keyed # {}

InsertJob(j, st, att, withKey) ==
    /\ status[j] = Absent
    /\ status'   = [status EXCEPT ![j] = st]
    /\ attempts' = [attempts EXCEPT ![j] = att]
    /\ keyed'    = IF withKey THEN keyed \cup {j} ELSE keyed
    /\ runs'     = IF st = "RUNNING" THEN [runs EXCEPT ![j] = @ + 1] ELSE runs
    /\ UNCHANGED result

\* UPDATE ... WHERE id = j AND status = from; RowsAffected > 0 iff Matches.
Matches(j, from) == status[j] = from

Transition(j, from, to) ==
    /\ status' = IF Matches(j, from) THEN [status EXCEPT ![j] = to] ELSE status
    /\ UNCHANGED <<attempts, keyed, result, runs>>

\* The same with the attempts=$5 of MarkQueued.
TransitionToQueued(j, from, att) ==
    /\ status'   = IF Matches(j, from) THEN [status EXCEPT ![j] = "QUEUED"] ELSE status
    /\ attempts' = IF Matches(j, from) THEN [attempts EXCEPT ![j] = att] ELSE attempts
    /\ UNCHANGED <<keyed, result, runs>>

\* Mutation: a redelivered retry is run although its row is still RETRYING.
TransitionToRunningFromRetrying(j) ==
    LET runnable == Matches(j, "QUEUED") \/ Matches(j, "RETRYING")
    IN  /\ status' = IF runnable THEN [status EXCEPT ![j] = "RUNNING"] ELSE status
        /\ runs'   = IF runnable THEN [runs EXCEPT ![j] = @ + 1] ELSE runs
        /\ UNCHANGED <<attempts, keyed, result>>

\* MarkRunning's statement; runs only records that it happened.
TransitionToRunning(j) ==
    /\ status' = IF Matches(j, "QUEUED") THEN [status EXCEPT ![j] = "RUNNING"] ELSE status
    /\ runs'   = IF Matches(j, "QUEUED") THEN [runs EXCEPT ![j] = @ + 1] ELSE runs
    /\ UNCHANGED <<attempts, keyed, result>>

\* INSERT INTO inference_results: job_id is UNIQUE, so a second row is an error.
HasResult(j) == result[j] # "none"

InsertResult(j, outcome) ==
    /\ result' = IF HasResult(j) THEN result ELSE [result EXCEPT ![j] = outcome]
    /\ UNCHANGED <<status, attempts, keyed, runs>>

\* A statement that reports an error may have been committed all the same.
DbError(Stmt) ==
    /\ "db" \in Faults
    /\ Stmt \/ UNCHANGED storeVars
=============================================================================

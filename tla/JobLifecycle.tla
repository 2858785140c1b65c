---------------------------- MODULE JobLifecycle ----------------------------
(***************************************************************************)
(* What the documented state machine promises about one row, seen by a     *)
(* client that polls it: statuses move only along ValidTransition; a job   *)
(* succeeds only once its SUCCESS result is stored; a stored result is     *)
(* never replaced, and is stored only while the job runs.                  *)
(***************************************************************************)
EXTENDS JobTypes

VARIABLES status, result

Absent == "no row"

vars == <<status, result>>

Init ==
    /\ status = [j \in Job |-> Absent]
    /\ result = [j \in Job |-> "none"]

\* CreateAsync inserts CREATED rows, CreateSync RUNNING ones.
Submit(j) ==
    /\ status[j] = Absent
    /\ \E s \in {"CREATED", "RUNNING"} : status' = [status EXCEPT ![j] = s]
    /\ UNCHANGED result

Advance(j) ==
    /\ status[j] # Absent
    /\ \E s \in JobStatus :
        /\ ValidTransition(status[j], s)
        /\ s = "SUCCESS" => result[j] = "SUCCESS"
        /\ status' = [status EXCEPT ![j] = s]
    /\ UNCHANGED result

StoreResult(j) ==
    /\ status[j] = "RUNNING"
    /\ result[j] = "none"
    /\ \E outcome \in {"SUCCESS", "DEAD"} : result' = [result EXCEPT ![j] = outcome]
    /\ UNCHANGED status

Next == \E j \in Job : Submit(j) \/ Advance(j) \/ StoreResult(j)

Spec == Init /\ [][Next]_vars
=============================================================================

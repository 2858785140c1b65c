--------------------------- MODULE MCJobPipeline ----------------------------
(***************************************************************************)
(* JobPipeline for TLC: small sets of requests, and which faults a run has.*)
(***************************************************************************)
EXTENDS JobPipeline, TLC

JobSymmetry == Permutations(Job) \cup Permutations(Worker)

MlFault      == {"ml"}
Crashes      == {"ml", "worker_crash"}
NotRedis     == FaultKind \ {"redis"}
EveryFault   == FaultKind
=============================================================================

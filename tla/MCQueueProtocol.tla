-------------------------- MODULE MCQueueProtocol ---------------------------
(***************************************************************************)
(* QueueProtocol for TLC.  Two workers are enough for every race between a *)
(* holder, a second holder and a sweep; jobs meet only in the FIFO list.   *)
(***************************************************************************)
EXTENDS QueueProtocol, TLC

Symmetry == Permutations(Job) \cup Permutations(Worker)

MCCrashes  == {"worker_crash"}
MCPopCrash == {"worker_crash", "pop_crash"}
=============================================================================

---------------------------- MODULE AtLeastOnce -----------------------------
(***************************************************************************)
(* What the queue promises its clients ("at-least-once delivery"): an id   *)
(* that was put stays owed until a worker it was delivered to settles it;  *)
(* a worker that dies with it settles nothing.  The promise is no more     *)
(* than that: an id may be delivered to several workers, be owed again     *)
(* after one of them settled it, and be delivered once more after that.    *)
(***************************************************************************)
EXTENDS JobTypes

CONSTANT Worker

VARIABLES
    owed,     \* ids the queue still has to deliver
    have,     \* the id each worker was given, NoJob if none
    settled   \* ids some worker has settled

vars == <<owed, have, settled>>

Init ==
    /\ owed = {} /\ settled = {}
    /\ have = [w \in Worker |-> NoJob]

Put(j) ==
    /\ owed' = owed \cup {j}
    /\ UNCHANGED <<have, settled>>

Deliver(w, j) ==
    /\ have[w] = NoJob
    /\ j \in owed \cup settled
    /\ have' = [have EXCEPT ![w] = j]
    /\ UNCHANGED <<owed, settled>>

Settle(w) ==
    /\ have[w] # NoJob
    /\ have' = [have EXCEPT ![w] = NoJob]
    /\ settled' = settled \cup {have[w]}
    /\ owed' \in {owed, owed \ {have[w]}}

Die(w) ==
    /\ have[w] # NoJob
    /\ have' = [have EXCEPT ![w] = NoJob]
    /\ UNCHANGED <<owed, settled>>

Next ==
    \/ \E j \in Job : Put(j)
    \/ \E w \in Worker, j \in Job : Deliver(w, j)
    \/ \E w \in Worker : Settle(w) \/ Die(w)

Spec == Init /\ [][Next]_vars
=============================================================================

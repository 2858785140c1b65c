------------------------------ MODULE Migrator ------------------------------
(***************************************************************************)
(* The migrate command (cmd/migrate/main.go).  Every container of the API  *)
(* runs `migrate up` before it serves (docker-compose.yml:135-140), so     *)
(* that several may run at once, and people run it by hand (Makefile:46).  *)
(* Each file is one transaction: the script, then the row of               *)
(* schema_migrations.  Up scripts CREATE and fail where the tables are;    *)
(* down scripts DROP IF EXISTS.  What a version creates is one thing here. *)
(*                                                                         *)
(* Postgres runs the transactions at READ COMMITTED: a CREATE waits for    *)
(* the transaction that creates or drops the same table, a DROP waits for  *)
(* one that drops it, and does not see one that creates it.                *)
(***************************************************************************)
EXTENDS Integers, FiniteSetsExt

CONSTANTS
    Version,        \* versions of the .up.sql files
    Reversible,     \* those that have a .down.sql
    Migrator,       \* processes that run the command
    MaxStarts       \* bound: how often the command is run

ASSUME MigratorAssumption ==
    /\ Version \subseteq Nat \ {0} /\ IsFiniteSet(Version) /\ Reversible \subseteq Version
    /\ MaxStarts \in Nat

VARIABLES
    recorded,   \* rows of schema_migrations, committed
    schema,     \* versions whose tables are there, committed
    at,         \* the step of each process
    op,         \* its command
    number,     \* the command's argument, 0 for one that is not positive
    todo,       \* the files it has still to apply or to revert
    changes,    \* whether the script of its open transaction found something to do
    starts,     \* how often the command was run
    crossed     \* history: a down has met another command

vars == <<recorded, schema, at, op, number, todo, changes, starts, crossed>>

Init ==
    /\ recorded = {} /\ schema = {} /\ starts = 0
    /\ at = [m \in Migrator |-> "idle"]
    /\ op = [m \in Migrator |-> "up"]
    /\ number = [m \in Migrator |-> 0]
    /\ todo = [m \in Migrator |-> {}]
    /\ changes = [m \in Migrator |-> FALSE]
    /\ crossed = FALSE

TypeOK ==
    /\ recorded \subseteq Version /\ schema \subseteq Version /\ starts \in 0..MaxStarts
    /\ at \in [Migrator -> {"idle", "version", "file", "record"}]
    /\ op \in [Migrator -> {"up", "down"}]
    /\ number \in [Migrator -> 0..Cardinality(Version)]
    /\ todo \in [Migrator -> SUBSET Version]
    /\ changes \in [Migrator -> BOOLEAN] /\ crossed \in BOOLEAN
    /\ \A m \in Migrator :
        /\ at[m] \in {"idle", "version"} => todo[m] = {}
        /\ at[m] = "record" => todo[m] # {}

-----------------------------------------------------------------------------
Go(m, s) == at' = [at EXCEPT ![m] = s]

Busy(m) == at[m] # "idle"

\* The first n files of S in ascending and in descending order.
Lowest(S, n)  == {v \in S : Cardinality({w \in S : w < v}) < n}
Highest(S, n) == {v \in S : Cardinality({w \in S : w > v}) < n}

\* Mutation: the loop of Up stops at `applied >= n` whatever n is.
PendingUpTo(current, n) == Lowest({v \in Version : v > current}, IF n = 0 THEN 1 ELSE n)

\* Up passes over the versions up to the highest recorded one and applies n, or all.
Pending(current, n) ==
    LET above == {v \in Version : v > current} IN IF n = 0 THEN above ELSE Lowest(above, n)

\* Down walks back from that version and reverts n.
Revertible(current, n) == Highest({v \in Version : v <= current}, n)

\* The file a process is at.
File(m) == IF op[m] = "up" THEN Min(todo[m]) ELSE Max(todo[m])

\* The open transaction of m has created, or dropped, the tables of v.
Holds(m, v) == at[m] = "record" /\ File(m) = v /\ changes[m]

-----------------------------------------------------------------------------
\* migrate up [n] or migrate down [n].
Start(m) ==
    \E o \in {"up", "down"}, n \in 0..Cardinality(Version) :
        /\ ~Busy(m) /\ starts < MaxStarts
        /\ crossed' = (crossed \/ \E l \in Migrator : Busy(l) /\ "down" \in {o, op[l]})
        /\ op' = [op EXCEPT ![m] = o] /\ number' = [number EXCEPT ![m] = n]
        /\ Go(m, "version") /\ starts' = starts + 1
        /\ UNCHANGED <<recorded, schema, todo, changes>>

\* Version is read once; what there is to do follows from it.
ReadVersion(m) ==
    LET current == Max(recorded \cup {0}) IN
    /\ at[m] = "version"
    /\ todo' = [todo EXCEPT ![m] = IF op[m] = "up" THEN Pending(current, number[m])
                                                   ELSE Revertible(current, number[m])]
    /\ Go(m, "file")
    /\ UNCHANGED <<recorded, schema, op, number, changes, starts, crossed>>

\* The script of the next file, in a new transaction.
RunScript(m) ==
    LET v == File(m) IN
    /\ at[m] = "file" /\ todo[m] # {}
    /\ IF op[m] = "up"
       THEN /\ \A l \in Migrator : ~Holds(l, v)
            /\ v \notin schema
            /\ changes' = [changes EXCEPT ![m] = TRUE]
       ELSE /\ \A l \in Migrator : ~(Holds(l, v) /\ op[l] = "down")
            /\ v \in Reversible
            /\ changes' = [changes EXCEPT ![m] = v \in schema]
    /\ Go(m, "record")
    /\ UNCHANGED <<recorded, schema, op, number, todo, starts, crossed>>

\* The row of schema_migrations, and the commit.
Record(m) ==
    LET v == File(m) IN
    /\ at[m] = "record"
    /\ IF op[m] = "up"
       THEN v \notin recorded /\ recorded' = recorded \cup {v} /\ schema' = schema \cup {v}
       ELSE recorded' = recorded \ {v} /\ schema' = IF changes[m] THEN schema \ {v} ELSE schema
    /\ todo' = [todo EXCEPT ![m] = @ \ {v}]
    /\ Go(m, "file")
    /\ UNCHANGED <<op, number, changes, starts, crossed>>

Stopped(m) == todo' = [todo EXCEPT ![m] = {}] /\ Go(m, "idle")

\* Mutation: the script is not part of the transaction, so that what it did stays.
StopCommitting(m) ==
    /\ Busy(m) /\ Stopped(m)
    /\ schema' = IF ~Holds(m, File(m)) THEN schema
                 ELSE IF op[m] = "up" THEN schema \cup {File(m)} ELSE schema \ {File(m)}
    /\ UNCHANGED <<recorded, op, number, changes, starts, crossed>>

\* Mutation: a file that failed is passed over.
StopAtNothing(m) ==
    /\ Busy(m)
    /\ IF at[m] = "record"
       THEN todo' = [todo EXCEPT ![m] = @ \ {File(m)}] /\ Go(m, "file")
       ELSE Stopped(m)
    /\ UNCHANGED <<recorded, schema, op, number, changes, starts, crossed>>

\* Mutation: the files of a command that failed are those of the next one.
StopKeepingFiles(m) ==
    Busy(m) /\ Go(m, "idle") /\ UNCHANGED <<recorded, schema, op, number, todo, changes, starts, crossed>>

\* A statement fails (Postgres refuses it, a table or a row is there already, a down file is
\* missing), or the process dies: the open transaction is rolled back and nothing follows.
Stop(m) == Busy(m) /\ Stopped(m) /\ UNCHANGED <<recorded, schema, op, number, changes, starts, crossed>>

\* The command reports success.
Finish(m) ==
    /\ at[m] = "file" /\ todo[m] = {} /\ Go(m, "idle")
    /\ UNCHANGED <<recorded, schema, op, number, todo, changes, starts, crossed>>

Next ==
    \E m \in Migrator :
        Start(m) \/ ReadVersion(m) \/ RunScript(m) \/ Record(m) \/ Stop(m) \/ Finish(m)

Spec == Init /\ [][Next]_vars

-----------------------------------------------------------------------------
\* What is recorded is there: whichever commands overlap, fail or die in the middle of a file,
\* no row of schema_migrations speaks of tables that somebody has dropped (main.go:99-107,
\* :154-162).  An up would pass over them for ever, and the API start without them.
RecordedIsThere == recorded \subseteq schema

\* And what is there is recorded (DEVELOPMENT.md:43-44), or every later up would fail on it,
\* until a down has met another command: its DROP IF EXISTS may find nothing, and its DELETE
\* the row that an up has committed in between.
ThereIsRecorded == ~crossed => schema \subseteq recorded

\* Up passes over every version below the highest recorded one (main.go:91): one that were
\* left out would never be applied.  However several ups fail, stop or race, none is.
NoGaps == ~crossed => \A v \in recorded, w \in Version : w < v => w \in recorded

\* A migrate up without a number that reports success leaves nothing pending, whoever applied
\* what in the meantime (main.go:76).
UpAppliesAll ==
    \A m \in Migrator :
        ~crossed /\ at[m] = "file" /\ todo[m] = {} /\ op[m] = "up" /\ number[m] = 0
            => Version \subseteq recorded
=============================================================================

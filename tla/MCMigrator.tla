----------------------------- MODULE MCMigrator -----------------------------
(***************************************************************************)
(* Small directories for Migrator.  Processes are interchangeable.         *)
(***************************************************************************)
EXTENDS Migrator, TLC

CONSTANTS m1, m2, m3

MigratorSymmetry == Permutations(Migrator)
=============================================================================

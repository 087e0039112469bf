---------------------------- MODULE MCMigration ----------------------------
(* Small instances of Migration for TLC. *)
EXTENDS Migration, TLC

CONSTANTS first, r1, r2

OneRequested == {r1}
TwoRequested == {r1, r2}
=============================================================================

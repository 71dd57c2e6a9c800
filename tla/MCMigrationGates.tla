--------------------------- MODULE MCMigrationGates ---------------------------
(***************************************************************************)
(* Two jobs at once: the one the runner waits for, and one that an earlier  *)
(* rollout left behind or that an operator started.                         *)
(***************************************************************************)
EXTENDS MigrationGates, TLC

CONSTANTS j1, j2
Jobs == {j1, j2}
=============================================================================

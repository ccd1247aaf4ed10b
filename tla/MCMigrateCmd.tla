----------------------------- MODULE MCMigrateCmd -----------------------------
(* MigrateCmd is checked as it is. *)
EXTENDS MigrateCmd
=============================================================================

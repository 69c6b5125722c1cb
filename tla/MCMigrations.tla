----------------------------- MODULE MCMigrations -----------------------------
(* Migrations for TLC.                                                        *)
EXTENDS MigrationsProps
=============================================================================

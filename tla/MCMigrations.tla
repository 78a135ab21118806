--------------------------- MODULE MCMigrations ---------------------------
(* The two databases of the program as instances of Migrations for TLC. *)
EXTENDS Migrations, SchemaScripts
=============================================================================

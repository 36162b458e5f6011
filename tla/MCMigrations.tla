---------------------------- MODULE MCMigrations ----------------------------
(***************************************************************************)
(* Instances of Migrations: packages from before each of the migrations    *)
(* that convert rows, and the current one.                                 *)
(***************************************************************************)
EXTENDS Migrations
=============================================================================

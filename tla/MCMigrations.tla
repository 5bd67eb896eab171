---------------------------- MODULE MCMigrations ----------------------------
(***************************************************************************)
(* The deployment's job and an administrator at work on one database.      *)
(***************************************************************************)
EXTENDS Migrations

CONSTANTS job, hand, e1, m1, none

MCCommands == {job, hand}
MCJobs == {job}
MCEntityIds == {e1}
MCMappings == {m1, none}
=============================================================================

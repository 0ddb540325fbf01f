--------------------------- MODULE MCMigrationJobs ---------------------------
(***************************************************************************)
(* Instances of MigrationJobs for TLC.                                     *)
(***************************************************************************)
EXTENDS MigrationJobs

CONSTANTS s1, s2
TwoTargets == <<s1, s2>>
=============================================================================

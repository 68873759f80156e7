-------------------------- MODULE MCOutputRecovery --------------------------
(* Values for the constants of OutputRecovery are in the .cfg files.       *)
EXTENDS OutputRecovery
=============================================================================

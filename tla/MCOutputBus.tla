---------------------------- MODULE MCOutputBus ----------------------------
(* Model-checking instances of OutputBus; see the MCOutputBus*.cfg files.  *)
EXTENDS OutputBus
=============================================================================

-------------------------- MODULE MCMonitorHandoff --------------------------
(* Model-checking instances of MonitorHandoff; see the .cfg files.         *)
EXTENDS MonitorHandoff
=============================================================================

------------------------- MODULE MCCaptureTimeline -------------------------
(* Values for the constants of CaptureTimeline are in the .cfg files.      *)
EXTENDS CaptureTimeline
=============================================================================

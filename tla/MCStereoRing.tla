---------------------------- MODULE MCStereoRing ----------------------------
(* Model-checking instance of StereoRing; see MCStereoRing.cfg.            *)
EXTENDS StereoRing
=============================================================================

---------------------------- MODULE MCRtmpSession ----------------------------
(* Instances of RtmpSession for TLC. *)
EXTENDS RtmpSession
=============================================================================

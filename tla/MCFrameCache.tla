----------------------------- MODULE MCFrameCache -----------------------------
(* Model checking of the cache of frames. *)
EXTENDS FrameCache
=============================================================================

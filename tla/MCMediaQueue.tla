----------------------------- MODULE MCMediaQueue -----------------------------
(* Model checking of a media queue, with the loops of the code at hand. *)
EXTENDS MediaQueueWalk
===============================================================================

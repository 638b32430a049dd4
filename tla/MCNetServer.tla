------------------------------ MODULE MCNetServer ------------------------------
(* The HTTP server and one of the others.                                   *)
EXTENDS NetServer
=============================================================================

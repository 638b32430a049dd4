----------------------------- MODULE MCAdpSession -----------------------------
(***************************************************************************)
(* AdpSession for TLC: two threads, two levels.                            *)
(***************************************************************************)
EXTENDS AdpSession, TLC

CONSTANTS http, mqtt

\* The two threads do the same.
Alike == Permutations({http, mqtt})
=============================================================================

----------------------------- MODULE MCUsrManage -----------------------------
(***************************************************************************)
(* UsrManage for TLC: one default user, names for two more, two threads.   *)
(***************************************************************************)
EXTENDS UsrManage, TLC

CONSTANTS root, ann, bob, pwA, pwB, thr1, thr2

\* New users, and threads, are interchangeable: no definition names one.
Alike == Permutations({ann, bob}) \cup Permutations({thr1, thr2})
=============================================================================

---------------------------- MODULE MCDvrListConf ----------------------------
(***************************************************************************)
(* DvrListConf for TLC: the main thread, two servers, three DVRs.          *)
(***************************************************************************)
EXTENDS DvrListConf, TLC

CONSTANTS dvr1, dvr2, dvr3, main, srv1, srv2, low, high

\* conf.config as shipped: a list with one DVR, no levels of alarms.
ShippedDoc == [k \in Keys |-> IF k = D_CONFDVRLIST_STR
                              THEN <<[serial |-> dvr1, param |-> 1]>> ELSE NoItem]
AllValues == BoundedSeq(Entries, 3) \cup Levels

\* The servers' threads are interchangeable, and so are DVRs that are not shipped.
Alike == Permutations({srv1, srv2}) \cup Permutations({dvr2, dvr3})
=============================================================================

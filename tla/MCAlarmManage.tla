---------------------------- MODULE MCAlarmManage ----------------------------
(***************************************************************************)
(* AlarmManage for TLC.  Blocks are model values; they are interchangeable *)
(* but liveness is checked, so no symmetry is declared.                    *)
(***************************************************************************)
EXTENDS AlarmManage
=============================================================================

---------------------------- MODULE MCAlarmTables ----------------------------
(***************************************************************************)
(* AlarmTables with the alarm of the FPGA and one or two others; tables of *)
(* one or two entries overflow, and the ids wrap after a few changes.      *)
(***************************************************************************)
EXTENDS AlarmTables
=============================================================================

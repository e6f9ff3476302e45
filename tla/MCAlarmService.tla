-------------------------- MODULE MCAlarmService --------------------------
(***************************************************************************)
(* Instances of AlarmService for TLC: the watcher and one or two request   *)
(* threads, with requests that clear the alarm node's slot.                *)
(***************************************************************************)
EXTENDS AlarmService
===========================================================================

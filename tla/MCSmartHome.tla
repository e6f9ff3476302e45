----------------------------- MODULE MCSmartHome -----------------------------
(***************************************************************************)
(* An instance of SmartHome for TLC: the sensor of node 2, handlers of     *)
(* api/alarm/current that ask for it, and the watcher.                     *)
(***************************************************************************)
EXTENDS SmartHome

Bytes == 0 .. 255

Asked == {[node |-> 2, type |-> "GET_RQ", reg |-> 1, pay |-> 0, val |-> 0,
           id |-> 0]}
=============================================================================

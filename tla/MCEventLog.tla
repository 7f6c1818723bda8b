------------------------------ MODULE MCEventLog ------------------------------
(***************************************************************************)
(* Instances of EventLog for TLC: two bindings that append to one log.     *)
(***************************************************************************)
EXTENDS EventLog

CONSTANTS w1, w2, f1, f2, f3, f4
=============================================================================

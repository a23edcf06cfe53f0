---------------------------- MODULE MCSupervisor ----------------------------
(* Instances of Supervisor for TLC: all its constants are numbers and      *)
(* truth values.                                                           *)
EXTENDS Supervisor
=============================================================================
